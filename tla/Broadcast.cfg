SPECIFICATION Spec
CONSTANTS
  NoSession = NoSession
  Chunks = {0, 1, 2}
  Rounds = 13
  MaxFaults = 2
INVARIANTS TypeOK ReportedIsCommitted SessionOnDisk NoSimultaneousTransmission
PROPERTIES ImplementsVerifiedStore Ingested
CHECK_DEADLOCK FALSE
