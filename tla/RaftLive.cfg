SPECIFICATION LiveSpec
CONSTANTS
  Node = {n1, n2, n3}
  Nil = Nil
  CompactThreshold = 100
  SnapshotCallers = {}
  Appliers = {n2}
  Electable = {n1, n2}
  Running = {n1, n2}
  MaxTerm = 2
  MaxLog = 1
  MaxCalls = 1
  MaxStray = 0
INVARIANTS
  ElectionSafety
  ElectionInv
PROPERTIES
  CommitsReachAll
CHECK_DEADLOCK FALSE
