SPECIFICATION Spec
CONSTANTS
  Index = {1, 2}
  Sizes = {2, 5}
  maxSegSz = 4
  MaxDecodable = 5
  MaxAppends = 3
INVARIANTS
  TypeOK
  AckedDurable
  
  
  SegmentsBounded
  ReadAllComplete
