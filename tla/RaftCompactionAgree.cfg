SPECIFICATION Spec
CONSTANTS
  Node = {n1, n2, n3}
  Nil = Nil
  CompactThreshold = 1
  SnapshotCallers = {}
  Appliers = {n1, n2}
  Electable = {n1, n2}
  MaxTerm = 2
  MaxLog = 1
  MaxCalls = 1
  MaxStray = 0
SYMMETRY Symmetry
VIEW LiveState
INVARIANTS
  DeliveredAgree
CHECK_DEADLOCK FALSE
