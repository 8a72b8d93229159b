CONSTANTS
  NumPlayers = 2
  HumanCount = 1
  PawnsPerPlayer = 2
  MaxConsecutiveGraces = 3
  PathLength = 5
  Paths <- MiniPaths
  SafeSquares <- MiniSafe
  RollValues = {1, 2, 3}
  GraceValues = {1, 3}
  None = None
SPECIFICATION Spec
INVARIANTS TypeOK OneOwner MovingHasMove FinishedCounted
PROPERTIES MovesAreValid 
