SPECIFICATION LiveSpec
CONSTANTS
  None = None
  i1 = i1
  i2 = i2
  p1 = p1
  p2 = p2
  trusted = trusted
  other = other
  name = name
  alias = alias
  IDs = {i1}
  Peers = {p1, p2}
  Chunks = {0, 1}
  Names = {name, alias}
  Keys = {trusted, other}
  TrustedKeys = {trusted}
  Held <- TwoSigned
  Big = {}
  PolicySettings <- AnyPolicy
  MaxAcquisitions = 1
  MaxSources = 2
  MaxInspected = 1
  MaxBatch = 2
  TxCount = 2
  MaxLate = 0
  MaxLosses = 1
  MaxStops = 1
  Faults = {"depart"}
PROPERTIES
  EventuallyAcquiredIfLacking
  WantHonoured
CHECK_DEADLOCK FALSE
