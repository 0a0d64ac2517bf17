CONSTANTS
  Timeout = {x1, x2, x3}
  Poller = {p1, p2}
  interval = 1
  MaxTime = 2
  UINT64_MAX = 99
  PACKET_DATA_LENGTH = 2
  MAX_MESSAGE_PACKETS = 3
  MaxCount = 3
  BandwidthBytes = 5
  BandwidthTicks = 4
  SentSizes = {1, 3}
  MaxClock = 6
  MaxNicBytes = 8
  FakeDrivers = {d1, d2}
  FakeThread = {t1, t2}
  NUM_PRIORITIES = 2
  MaxFakePackets = 3
  NoOne = NoOne
  DefaultBandwidth = 10000
  LinkBandwidths = {1000}
  MaxStarts = 3
  RTT_TIME_US = 8
  UNSCHEDULED_PRIORITY_CUTOFFS <- DefaultCutoffs
  MAX_OVERCOMMIT_COUNT = 4
  Destinations = {h1, h2}
  HighestPriorities = {0, 1, 2, 3, 4, 5, 6, 7, 8}
  Bandwidths = {0, 7, 10000}
  MessageLengths = {0, 1, 468, 469, 5520, 5521, 15266, 15267, 99999}
  MaxScheduledPeers = 6
  MaxBlocks = 4
  IdThread = {i1, i2}
  ThreadName = {a, b}
  DefaultName = DefaultName
  MaxThreadId = 4
  PerfThread = {r1, r2}
  Nobody = Nobody
  MaxCycles = 2
  Tubs = {b1, b2, b3}
  TubValue = {v1, v2}
  Empty = Empty
  MaxConstructed = 2
  LogFileName = {f1, f2}
  LogPattern <- Patterns
  PatternMatches <- Matching
  LogLevels = {"ERROR", "VERBOSE"}
  MaxRules = 2
  f1 = f1
  f2 = f2
  ListName = {l1, l2}
  NodeName = {n1, n2, n3, n4}
  nodeKey <- FourKeys
  NoList = NoList
  n1 = n1
  n2 = n2
  n3 = n3
  n4 = n4
  LockThread = {k1, k2}
SPECIFICATION Spec
CHECK_DEADLOCK FALSE
INVARIANTS
  AnyElapsedExact ContentsExact EstimateBounds DeliversToLiveNic StartsCleanly
  PrioritiesFollowLength StatsBracketed OwnedOnce NoStaleAnswers NoLockCycle
PROPERTIES
  TimeoutsHandled ImplementsLists
