CONSTANTS
  m1 = m1
  m2 = m2
  m3 = m3
  p1 = p1
  p2 = p2
  NoPeer = NoPeer
  Message = {m1, m2}
  Peer = {p1, p2}
  Source <- OnePeerEach
  Length <- TwoLengths
  PACKET_DATA_LENGTH = 2
  UnscheduledIndexLimits = {0, 1, 4}
  degreeOvercommitment = 2
  minScheduledBytes = 1
  maxScheduledBytes = 2
SPECIFICATION LiveSpec
INVARIANTS DeliveredOnce ResendOnlyInProgress
PROPERTIES AbandonedEventually DeliveredEventually
