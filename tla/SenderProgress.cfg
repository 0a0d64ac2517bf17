CONSTANTS
  m1 = m1
  m2 = m2
  t1 = t1
  t2 = t2
  NoMessage = NoMessage
  Message = {m1, m2}
  Thread = {t1, t2}
  Length <- TwoAndTwoPackets
  PACKET_DATA_LENGTH = 2
  UnscheduledByteLimits = {2}
  GrantByteLimits = {4, 9}
  ResendNums = {1, 2}
  OptionSets = {{}}
SPECIFICATION LiveSpec
CHECK_DEADLOCK FALSE
PROPERTIES GrantedAreSent EventuallySettled
