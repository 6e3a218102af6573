SPECIFICATION FairSpec
CONSTANTS
  NumNodes = 3
  Factor = 3
  Timeout = 1
  Chunk = {c1}
  Steady = {1}
INVARIANTS
  EvictionsReported
PROPERTIES
  SteadyKept
  SourcesNotDead
  SilentEvicted
