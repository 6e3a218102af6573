SPECIFICATION RestartSpec
CONSTANTS
  Node = {n1, n2, n3}
  Nil = Nil
  CompactThreshold = 100
  SnapshotCallers = {}
  Appliers = {}
  Electable = {n1, n2}
  MaxRestarts = 1
  MaxTerm = 1
  MaxLog = 0
  MaxCalls = 1
  MaxStray = 0
INVARIANTS
  OneLeaderPerTerm
CHECK_DEADLOCK FALSE
