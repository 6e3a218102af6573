SPECIFICATION Spec
CONSTANTS
  Node = {n1, n2, n3}
  Nil = Nil
  CompactThreshold = 100
  SnapshotCallers = {}
  Appliers = {}
  Electable = {n1, n2}
  MaxTerm = 2
  MaxLog = 1
  MaxCalls = 2
  MaxStray = 1
SYMMETRY Symmetry
VIEW LiveState

  
PROPERTIES
  CommittedStable
CHECK_DEADLOCK FALSE
