CONSTANTS
  Worker = {w1, w2}
  RoomId = {r1, r2}
  OddKey = {k1}
  BroadcastDefined = FALSE
  MaxFaults = 0
  None = None
SPECIFICATION Spec
PROPERTIES IdleRoomsClosed
