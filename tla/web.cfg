SPECIFICATION WebSpec
CONSTANTS
  r1 = r1
  r2 = r2
  k1 = k1
  k2 = k2
  Requests = {r1, r2}
  Identities = {k1, k2}
  AddressOf <- OneAddress
  CookieCap = 1
  IpCap = 1
  LastDay = 1
  QuotaFaults = 1
  Writers = {w1, w2}
  Clients = {k1}
  MaxVersion = 2
  QueueSize = 1
  FanoutFaults = 1
  OwnJobs = {"j1"}
  TabJobs = {"j2"}
  FrameQueue = 1
  PageFaults = 1
  MaxPlayback = 3
  MaxRamps = 2
  w1 = w1
  w2 = w2
  NumRows = 3
  BatchSize = 2
  Drainers = {w1, w2}
  IntervalCoversDrain = TRUE
CHECK_DEADLOCK FALSE
INVARIANTS
  WebTypeOK
  OverAdmissionBounded
  CountersMatchJobs
  NoSlotWithoutJob
  BarTellsTruth
  StreamHearsOwnJobs
  PlaysTheFeed
PROPERTIES
  StreamMovesForward
  FairPush
  FairNowPlaying
  FairBar
  FairDrain
  OverdueIsPolled
