SPECIFICATION Spec
CONSTANTS
  Server = {m1, m2}
  Call = {c1, c2}
  Op <- MCOp
  None = None
  MaxMishaps = 1
SYMMETRY Symmetry
INVARIANTS
  AckedIDApplied
  
  
  NoLostResult
  RunNotBlocked
CHECK_DEADLOCK FALSE
