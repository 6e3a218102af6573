SPECIFICATION Spec
CONSTANTS
  Node = {n1, n2, n3}
  Nil = Nil
  CompactThreshold = 100
  SnapshotCallers = {}
  Appliers = {}
  Electable = {n1, n2}
  MaxTerm = 4
  MaxLog = 2
  MaxCalls = 1
  MaxStray = 0
SYMMETRY Symmetry
VIEW LiveState
INVARIANTS
  TypeOK
  LeaderCompleteness
  CommittedAgree
  LogMatching
  ProgressSound
  RoundOfOwnTerm
PROPERTIES
  BackupProgress
CHECK_DEADLOCK FALSE
