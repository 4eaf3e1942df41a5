SPECIFICATION Spec
CONSTANTS
  None = None
  p1 = p1
  p2 = p2
  Radix = 2
  Depth = 2
  IDs <- AllIDs
  LeafThreshold = 1
  Peers = {p1, p2}
  Local <- LocalIDs
  Remote <- RemoteIDs
  MaxTrackedPeers = 1
  MaxReconcileJobs = 1
  MaxAcquisitions = 1
  MaxSources = 1
  TxCount = 2
  MaxLate = 1
  Growing <- NewIDs
  MaxGrowth = 1
  MaxStops = 1
INVARIANTS
  TypeOK
  JobsCurrent
  NoDuplicateJobs
  DifferencesCovered
CHECK_DEADLOCK FALSE
