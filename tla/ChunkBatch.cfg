SPECIFICATION MCFairSpec
CONSTANTS
  ChunkCount = 5
  Window = 2
  MaxChunkBatch = 2
  MaxFaults = 1
INVARIANTS
  RequestMeansWanted
  EveryWindowInTurn
PROPERTIES
  EverythingArrives
CHECK_DEADLOCK FALSE
