SPECIFICATION SpecAny
CONSTANTS
  Keys = {k1, k2, k3}
  MaxSize = 2
  Capacity = 4
  Refill = 2
  Costs = {3}
  MaxAge = 2
  NoAnswer = NoAnswer
  MaxTime = 5
  Clients = {k1, k2, k3}
  MaxRequests = 2
  WindowSize = 3
  MaxClock = 8
  Ids = {k1, k2, k3}
  NoSession = NoSession
  MaxSessionAge = 1
  CleanupInterval = 2
  MaxTimes = 3
  Burst = 2
  BurstSpan = 2
  LastTime = 6
  HistorySize = 12
  Rates = {0, 12, 200}
  MaxBusy = 4
SYMMETRY KeySymmetry
INVARIANTS
  TablesTypeOK
  RequestTimesExact
  AttackEnds
PROPERTIES
  RetryAfterIsExact
  WindowPromises
  ImplementsEagerBucket
  StaleNotResumed
