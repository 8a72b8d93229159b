CONSTANTS
  Room = {r1, r2, bad}
  BadRoom = {bad}
  Slot = {s1, s2, s3}
  MaxAttempts = 5
  MaxLostTimers = 3
  None = None
  MaxThrows = 4
  SettledFrames = 3
  LerpFrames = 3
  NoPhase = NoPhase
  Place = {p1, p2, p3}
  MaxWaypoints = 2
  MaxFrames = 2
  OnTheWay = OnTheWay
SPECIFICATION ClientSpec
INVARIANTS OneLiveSocket ShownIsTrue RetriesRecover SettledOnce CompletesOnce
PROPERTIES RetriesEnd ThrowAnswered AnimationEnds
CHECK_DEADLOCK FALSE
