SPECIFICATION Spec
CONSTANTS
  writer = writer
  reader = reader
  b1 = b1
  b2 = b2
  b3 = b3
  ChunkSize = 2
  Client = {writer, reader}
  Program <- MCProgram
  NumMasters = 2
  NumServers = 2
  Factor = 2
  Reliable = {2}
  Attempts = 2
  None = None
  MaxFaults = 2
INVARIANTS
  FinalisedStored
  GetExact
  GoodReplicaFound
CHECK_DEADLOCK FALSE
