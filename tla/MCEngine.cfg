CONSTANTS
  NumPlayers = 3
  PawnsPerPlayer = 2
  WinPathIndex = 5
  Threshold = 3
  Paths <- MiniPaths
  SafeSquares <- MiniSafe
  RollValues = {1, 2, 3}
  ReleaseValues = {1}
  ExtraTurnValues = {3}
  None = None
SPECIFICATION Spec
INVARIANTS SoleOccupant PassPossible PinnedOnlyAtGate
PROPERTIES TurnRotates RaceSpec
