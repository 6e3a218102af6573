SPECIFICATION Spec
CONSTANTS
  Node = {n1, n2, n3}
  Nil = Nil
  CompactThreshold = 2
  SnapshotCallers = {n1}
  Appliers = {n1}
  Electable = {n1, n2}
  MaxTerm = 2
  MaxLog = 2
  MaxCalls = 1
  MaxStray = 0
SYMMETRY Symmetry
VIEW LiveState
CONSTRAINT LogsBounded
INVARIANTS
  
  DeliveredInOrder
  
PROPERTIES
  ImplementsReplicatedLog
CHECK_DEADLOCK FALSE
