SPECIFICATION Spec
CONSTANTS
  Packets = {p1, p2}
  MaxSends = 2
  MaxRetries = 1
  MaxFaults = 1
INVARIANTS TypeOK SentMeansOnAir TransmittedInOrderOnce PacketsInOrder ServesConfigured
CHECK_DEADLOCK FALSE
PROPERTIES StopsTransmitting ReportedIsDelivered
