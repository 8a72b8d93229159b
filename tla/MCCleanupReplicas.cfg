CONSTANTS
  Worker = {w1, w2}
  RoomId = {r1, r2}
  OddKey = {k1}
  BroadcastDefined = TRUE
  MaxFaults = 2
  None = None
SPECIFICATION Spec
INVARIANTS ClosedOnce
