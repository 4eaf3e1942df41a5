SPECIFICATION Spec
CONSTANTS
  None = None
  i1 = i1
  i2 = i2
  p1 = p1
  p2 = p2
  trusted = trusted
  other = other
  name = name
  alias = alias
  IDs = {i1}
  Peers = {p1}
  Chunks = {0, 1}
  Names = {name, alias}
  Keys = {trusted, other}
  TrustedKeys = {trusted}
  Held <- TwoSigned
  Big = {i1}
  PolicySettings <- EveryPolicy
  MaxAcquisitions = 1
  MaxSources = 2
  MaxInspected = 1
  MaxBatch = 2
  TxCount = 2
  MaxLate = 0
  MaxStops = 2
  Faults = {"depart", "bytes", "disk", "radio"}
INVARIANTS
  TypeOK
  PolicyRespected
  ReceiptsAreDurable
  CompleteNotRequested
PROPERTIES
  ImplementsReplica
CHECK_DEADLOCK FALSE
