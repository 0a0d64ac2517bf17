CONSTANTS
  NB_MBUF = 3
  NB_MBUF_RESERVED = 1
  NB_LOOPBACK_SLOTS = 1
  MAX_PKT_BURST = 2
  PACKET_HDR_LEN = 1
  MAX_PAYLOAD_SIZE = 2
  payloadLength = 1
  Priorities = {0, 1}
  DriverThread = {t1, t2}
  UninitializedCounts = {0}
  MaxPackets = 3
  MaxRx = 1
  NoBuf = NoBuf
SPECIFICATION Spec
CHECK_DEADLOCK FALSE
INVARIANT NoMbufLeak
