SPECIFICATION Spec
CONSTANTS
  e1 = e1
  e2 = e2
  e3 = e3
  e4 = e4
  Reactors = {e1, e2}
  Order <- TwoOrder
  Conns = {c1, c2, c3}
  NoReactor = NoReactor
PROPERTIES PicksLeastLoaded
CHECK_DEADLOCK FALSE
