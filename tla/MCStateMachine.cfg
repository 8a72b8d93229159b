CONSTANTS
  NumPlayers = 3
  PawnsPerPlayer = 2
  WinPathIndex = 5
  Paths <- MiniPaths
  SafeSquares <- MiniSafe
  RollValues = {1, 2, 3}
  ReleaseValues = {1}
  ExtraTurnValues = {1, 3}
  None = None
SPECIFICATION Spec
INVARIANTS TypeOK SoleOccupant WinDeclared NoStalemate
PROPERTIES TurnRotates RaceSpec
