SPECIFICATION SpecAny
CONSTANTS
  Instances = {i1, i2}
  Sids = {s1, s2, s3}
  Requests = {r1, r2, r3}
  None = None
  Anonymous = Anonymous
  Sequential = FALSE
  MaxFaults = 1
  MaxTimes = 2
  MaxRisk = 1
  Adapters = {"express", "fastify", "generic"}
  FlowRequests = {r1, r2, r3}
  FlowSids = {"s"}
  HistorySize = 2
  NoStatus = None
  MaxThrows = 1
  LocalRequests = {r1, r2, r3}
  LocalSids = {"s", "t"}
  MaxLosses = 1
  KeptTimes = 2
  KeptRisk = 1
  Limits = {"window", "/login"}
  LimitMost <- FewHits
  LimitSpan <- ShortSpans
  MaxHits = 3
  LimitTime = 4
  MaxFailures = 1
  Contents = {"v", "w"}
  StoreTtl = 2
  StoreSpan = 2
  StoreKeys = 2
  StaleAfter = 3
  StoreTime = 4
  StoreCalls = 4
  MaxAge = 2
  MaxSessions = 2
  Workers = 2
  TrackerTime = 4
  TrackerRequests = 4
  MaxDrops = 1
  MaxWait = 1
  EdgeSids = {"s"}
  AnySid = Anonymous
  NoSid = None
  Second = 2
  TokenTtl = 1
  Lag = 1
  EdgeTime = 5
  Clients = {s1, s2, s3}
  MaxCalls = 2
  Window = 2
  Addresses = 2
  IsolateTime = 4
  MaxMade = 6
  MaxVisits = 3
  MaxMishaps = 1
  MaxListed = 2
SYMMETRY Symmetry
INVARIANTS
  ServerTypeOK
  UndisturbedComplete
  EvidenceBehindAllow
  AnsweredOnce
  StatusesBelong
  StoredObject
  TablesExact
  VisitsKept
  EdgeAgrees
CHECK_DEADLOCK FALSE
