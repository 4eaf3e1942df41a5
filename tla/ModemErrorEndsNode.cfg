SPECIFICATION Spec
CONSTANTS
  Packets = {p1}
  MaxSends = 1
  MaxRetries = 0
  MaxFaults = 1
PROPERTY LossIsTolerated
CHECK_DEADLOCK FALSE
