CONSTANTS
  m1 = m1
  m2 = m2
  t1 = t1
  t2 = t2
  NoMessage = NoMessage
  Message = {m1, m2}
  Thread = {t1}
  Length <- OneAndThreePackets
  PACKET_DATA_LENGTH = 2
  UnscheduledByteLimits = {2, 9}
  GrantByteLimits = {4, 9}
  ResendNums = {1, 2}
  OptionSets = {{}, {"NO_KEEP_ALIVE"}, {"NO_RETRY"}, {"NO_RETRY", "NO_KEEP_ALIVE"}}
SPECIFICATION Spec
CHECK_DEADLOCK FALSE
INVARIANTS NoAbort ArmedWhileSending DroppedWaits
