SPECIFICATION FairSpec
CONSTANTS
  Chunk = {c1}
  Writer = {w1, w2}
  None = None
  Grace = 2
  MaxCrashes = 1
INVARIANTS
  
  VisibleWhole
  OneWriterPerChunk
  AckedOnDisk
PROPERTIES
  GraceHonoured
  OrphansCollected
