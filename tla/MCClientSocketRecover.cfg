CONSTANTS
  Room = {r1, r2, bad}
  BadRoom = {bad}
  Slot = {s1, s2, s3}
  MaxAttempts = 5
  MaxLostTimers = 3
  None = None
SPECIFICATION Spec
INVARIANTS ReconnectionRecovers
