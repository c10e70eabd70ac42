SPECIFICATION Spec
CONSTANTS
  m = m
  s1 = s1
  s2 = s2
  c1 = c1
  Reactors = {m, s1, s2}
  MainReactor = m
  Failing = {s1}
  Clients = {c1}
  Home <- OneHome
  Residues <- MCResidues
  MaxSignals = 2
INVARIANTS TypeOK CountsActive LeftBeforeReturn
PROPERTIES ShutdownCompletes
CHECK_DEADLOCK FALSE
