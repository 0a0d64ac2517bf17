CONSTANTS
  m1 = m1
  t1 = t1
  p1 = p1
  NoMessage = NoMessage
  NoPeer = NoPeer
  NoPacket = NoPacket
  Message = {m1}
  Thread = {t1}
  Peer = {p1}
  Source <- OneSource
  Length <- TwoPackets
  PACKET_DATA_LENGTH = 2
  UnscheduledByteLimits = {6}
  OptionSets = {{}}
  degreeOvercommitment = 1
  minScheduledBytes = 1
  maxScheduledBytes = 2
  MaxFaults = 1
SPECIFICATION Spec
CHECK_DEADLOCK FALSE
INVARIANT ResendsWithinMessage
