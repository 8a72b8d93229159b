CONSTANTS
  Worker = {a1, a2, a3}
  MaxRequests = 2
  WindowSeconds = 4
  MaxDelay = 2
  LastSecond = 9
  Key = {k1, k2}
  Request = {r1, r2}
  TTL = 2
  MaxRotations = 3
  Empty = Empty
  Handled = {h1, h2, h3}
  Flusher = {f1, f2}
  ChunkSize = 2
SPECIFICATION Spec
INVARIANTS LimitHolds CountedOnce
PROPERTIES RotationSettles
CHECK_DEADLOCK FALSE
