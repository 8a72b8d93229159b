CONSTANTS
  NumPlayers = 2
  PawnsPerPlayer = 1
  WinPathIndex = 49
  Threshold = 24
  Paths <- PATHS
  SafeSquares <- SAFE_SQUARES
  RollValues = {1, 2, 3, 4, 8}
  ReleaseValues = {1, 8}
  ExtraTurnValues = {4, 8}
  None = None
  LastOuter = 24
  MaxDice = 2
SPECIFICATION RealSpec
INVARIANTS OuterUntilKill OverviewTruthful InnerNeedsKill
PROPERTIES RaceSpec
