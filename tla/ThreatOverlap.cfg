SPECIFICATION SpecAny
CONSTANTS
  i1 = i1
  i2 = i2
  i3 = i3
  Instances = {i1, i2, i3}
  Sharing = {i1, i2}
  Ids = {c1}
  Calls = {1, 2}
  Skew <- ClockSkew
  Nobody = Nobody
  Second = 2
  Ttl = 1
  Slack = 2
  MaxSkew = 1
  MaxDelay = 1
  MaxTime = 12
  Nonces = {n1}
  SignedCalls = {1, 2}
  Offsets = {0, 2, 3, 4}
  SignedSecond = 3
  MaxSkewSeconds = 1
  SignedDelay = 2
  SignedTime = 15
  a = a
  b = b
  r = r
  p = p
  f = f
  Addresses = {a, b}
  Ranges = {r}
  Patterns = {p}
  Covers <- RangeCovers
  Never = Never
  NoIndex = NoIndex
  Feeds = {f}
  FeedLists <- PublishedLists
  Manual = Manual
  ManualIds = {b}
  Builtin = {p}
  MaxLife = 1
  MinInterval = 3
  Interval = 1
  Timeout = 2
  NoList = NoList
  MaxCalls = 2
  MaxOps = 3
  TorLists <- ExitLists
  SingleLines = {"a", "b", "s"}
  RangeLines = {"r"}
  Hosts = {"x", "y"}
  LookupTimeout = 1
  Special = {"s"}
  CacheTtl = 2
  MaxDownloads = 2
  MaxLookups = 2
  ListTime = 5
  ListOps = 5
  Ips = {"a", "b", "d"}
  Prints = {"p"}
  NoPrint = "none"
  Kinds = {"api", "page"}
  SubnetOf <- Subnets
  NoSubnet = "none"
  Minute = 1
  Hour = 2
  MostPerMinute = 2
  RotationSpan = 2
  MostRotations = 1
  FlowSpan = 1
  ManyCalls = 1
  PrintSpan = 1
  MostSharing = 1
  MaxLog = 4
  MaxSize = 2
  TrackerTime = 3
  HelloLength = 5
  Header = 4
  Packets <- HelloPackets
  MaxCoalesced = 2
  MaxDatagrams = 3
  Suites = {2570, 4865}
  Extensions = {0, 16, 17613, 2570, 6682}
  Params = {1, 27, 58, 18258}
  Sni = 0
  Alpn = 16
  Alps = 17613
  GoogleVersion = 18258
  KnownClient <- LibraryHello
  Judged <- JudgedRequests
  Block = 80
  Challenge = 50
  Monitor = 20
  HistorySize = 4
  RegularPages = 3
  GapsKept = 2
  SlowMean = 2
  LongRun = 3
  BreadthPages = 4
  FastSpan = 4
  ProbingAnswers = 2
  RefererPages = 3
  ExpectAssets = TRUE
  NoId = NoId
  NoStatus = "none"
  Templates = {"page #"}
  PageIds = {1, 2, 3}
  Gaps = {1}
  MaxVisits = 5
  Parts = {"feeds"}
INVARIANT ManualKept
