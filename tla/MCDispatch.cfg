SPECIFICATION Spec
CONSTANTS
  e1 = e1
  e2 = e2
  e3 = e3
  e4 = e4
  Reactors <- MCReactors
  Order <- MCOrder
  Conns = {c1, c2, c3, c4, c5, c6}
  NoReactor = NoReactor
SYMMETRY ConnSymmetry
INVARIANTS TypeOK NoReactorLost BalancedUntilRelease
CHECK_DEADLOCK FALSE
