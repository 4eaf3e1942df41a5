SPECIFICATION MemorySpec
CONSTANTS
  None = None
  i1 = i1
  i2 = i2
  p1 = p1
  p2 = p2
  trusted = trusted
  other = other
  name = name
  alias = alias
  IDs = {i1, i2}
  Peers = {p1, p2}
  Chunks = {0}
  Names = {name, alias}
  Keys = {trusted, other}
  TrustedKeys = {trusted}
  Held <- SignedAndRenamed
  Big = {i2}
  PolicySettings <- EveryPolicy
  MaxAcquisitions = 2
  MaxSources = 2
  MaxInspected = 2
  MaxBatch = 2
  TxCount = 2
  MaxLate = 1
  MaxStops = 0
  Faults = {"bytes", "repeat"}
INVARIANTS
  ManifestsNotMixed
  OneExchange

  
CHECK_DEADLOCK FALSE
