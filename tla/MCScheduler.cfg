SPECIFICATION MCSpec
CONSTANTS
  IDs = {i1, i2, i3}
  MaxJobs = 2
INVARIANTS
  TypeOK
  OrderMatchesTable
  BoundedBypass
PROPERTIES
  EveryoneServed
CHECK_DEADLOCK FALSE
