SPECIFICATION Spec
CONSTANTS
  t1 = t1
  t2 = t2
  Threads = {t1}
  HeaderSize = 2
  Lengths <- Uneven
  MaxInt = 9
  MinSegment = 2
  CallRoom = 9
  SendRooms = {5}
  MayDie = FALSE
  MaxCalls = 2
  MaxDrift = 2
PROPERTIES RequestsAreQueued
CHECK_DEADLOCK FALSE
