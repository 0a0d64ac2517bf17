CONSTANTS
  m1 = m1
  m2 = m2
  m3 = m3
  p1 = p1
  p2 = p2
  NoPeer = NoPeer
  Message = {m1, m2, m3}
  Peer = {p1, p2}
  Source <- TwoPeers
  Length <- Lengths
  PACKET_DATA_LENGTH = 2
  UnscheduledIndexLimits = {1}
  degreeOvercommitment = 2
  minScheduledBytes = 1
  maxScheduledBytes = 2
SPECIFICATION Spec
INVARIANTS ScheduleOrdered ScheduledExactly GrantWindow RemainingAccounted
PROPERTIES GrantsGrow
