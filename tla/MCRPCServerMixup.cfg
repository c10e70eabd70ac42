SPECIFICATION Spec
CONSTANTS
  e1 = e1
  e2 = e2
  c1 = c1
  c2 = c2
  c3 = c3
  Clients = {c1, c2}
  Crashing = {c1}
  Foreign = {}
  Unregistrable = {}
  TaskThreadNums = {4}
  Reactors = {e1}
  Order <- OneReactor
  FDs = {7}
  MaxCalls <- AllTwice
  Threads <- OneThread
  None = None
INVARIANTS EveryAnswerMatches
CHECK_DEADLOCK FALSE
