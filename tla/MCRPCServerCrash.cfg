SPECIFICATION Spec
CONSTANTS
  e1 = e1
  e2 = e2
  c1 = c1
  c2 = c2
  c3 = c3
  Clients = {c1, c2}
  Crashing = {c1, c2}
  Foreign = {c1}
  Unregistrable = {c2}
  TaskThreadNums = {4, 14}
  Reactors = {e1}
  Order <- OneReactor
  FDs = {7, 8}
  MaxCalls <- AllTwice
  Threads <- SharedClient
  None = None
INVARIANTS AnswersMatch CallInOnePlace CountsRegistered ExecutedInOrder SurvivesCrashes
PROPERTIES EveryCallAnswered EndIsNoticed
CHECK_DEADLOCK FALSE
