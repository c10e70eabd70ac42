SPECIFICATION Spec
CONSTANTS
  c1 = c1
  c2 = c2
  c3 = c3
  Clients = {c1, c2, c3}
  Crashing = {c1}
  Calls <- MCCalls
  MaxCalls <- FirstTwice
  Starts = 2
  Backlog = 0
  MaxInt = 3
  None = None
INVARIANTS TypeOK AnswersRight ServerSurvives
PROPERTIES ImplementsService EveryCallEnds
CHECK_DEADLOCK FALSE
