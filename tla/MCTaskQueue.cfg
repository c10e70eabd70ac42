SPECIFICATION Spec
CONSTANTS
  r1 = r1
  r2 = r2
  r3 = r3
  r4 = r4
  Requests = {r1, r2, r3, r4}
  Key <- MCKey
  ThreadNum = 2
  MaxTaskCounts = {4, 6}
  None = None
INVARIANTS TypeOK NoLostWakeup
PROPERTIES ImplementsExecutor EveryRequestBegins
CHECK_DEADLOCK FALSE
