SPECIFICATION Spec
CONSTANTS
  e1 = e1
  e2 = e2
  c1 = c1
  c2 = c2
  c3 = c3
  Clients = {c1, c2, c3}
  Crashing = {}
  Foreign = {}
  Unregistrable = {c3}
  TaskThreadNums = {4, 14}
  Reactors = {e1, e2}
  Order <- TwoReactors
  FDs = {7, 8}
  MaxCalls <- FirstTwice
  Threads <- OneThread
  None = None
INVARIANTS TypeOK CountsRegistered NoneHaunted
PROPERTIES ImplementsService EveryCallAnswered NotHandledAfterClose
CHECK_DEADLOCK FALSE
