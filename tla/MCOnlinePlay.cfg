CONSTANTS
  User = {u1, u2, u3}
  Code = {abc}
  MaxPlayers = 4
  PlayerId = {p1, p2}
  Socket = {w1, w2, w3}
  Send = {s1, s2}
  Everyone = Everyone
  RateLimit = 3
  RateWindow = 3
  LastTick = 7
  Conn = {c1, c2, c3}
  Value = {1, 8}
  MaxCalls = 2
  Unset = Unset
  NumPlayers = 2
  PawnsPerPlayer = 2
  WinPathIndex = 49
  Paths <- PATHS
  SafeSquares <- SAFE_SQUARES
  RollValues = {1, 2, 3, 4, 8}
  ReleaseValues = {1, 8}
  ExtraTurnValues = {1, 4, 8}
  AIIndex = 0
  Spots = {0, 2, 22, 44, 47}
  Overrides <- MCOverrides
SYMMETRY MCSymmetry
SPECIFICATION Spec
INVARIANTS RosterConsistent SentOnce WindowBound MovesInOrder AnswerFits
CHECK_DEADLOCK FALSE
