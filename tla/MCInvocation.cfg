SPECIFICATION Spec
CONSTANTS
  Names <- MCNames
  Args <- MCArgs
  Ret <- MCRet
  ArgValues <- MCArgValues
  RetValues <- MCRetValues
  Residues <- MCResidues
  Huge = 1000
  Depth = 5
  None = None
INVARIANTS TypeOK ArgumentsArrive OutcomeMatches
CHECK_DEADLOCK FALSE
