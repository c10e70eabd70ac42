SPECIFICATION Spec
CONSTANTS
  t1 = t1
  t2 = t2
  Threads = {t1, t2}
  HeaderSize = 2
  Lengths <- HugeRequests
  MaxInt = 4
  MinSegment = 1
  CallRoom = 2
  SendRooms = {3, 4}
  MayDie = TRUE
  MaxCalls = 2
  MaxDrift = 1
INVARIANTS TypeOK FramesIntact
PROPERTIES CallsReturn
CHECK_DEADLOCK FALSE
