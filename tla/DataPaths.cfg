SPECIFICATION SpecAny
CONSTANTS
  Keys = {k1, k2, k3, k4, k5}
  Values = {v1, v2}
  NoValue = NoValue
  MaxSize = 4
  Names = {s1}
  Contents = {v1, v2}
  Nothing = NoValue
  Ttl = 2
  Span = 2
  MaxHits = 3
  StaleAfter = 2
  MaxTime = 5
  MaxOps = 2
  Viewers = {"page", "other"}
  Page = "page"
  FeedBatch = 1
  MaxClients = 1
  MaxKept = 3
  HelloSize = 2
  MaxEvents = 3
  MaxShown = 3
  MaxFetches = 1
  Pause = 1
  LongPress = 2
  Rollover = 2
  KeyCaps = {"a", "b"}
  Coded = {"a"}
  Corrections = {"b"}
  Positions = {0, 2}
  Heights = {6, 8}
  Viewports = {2, 4}
  Panes = {pane}
  Points = {0, 41}
  Widths = {0, 40}
  Grains = {1, 2}
  Frame = 2
  MaxBatch = 3
  PageTime = 4
  MaxInputs = 4
  MaxBatches = 2
SYMMETRY ValueSymmetry
INVARIANTS
  DataTypeOK
  SizeBounded
  RecentKept
  PromiseKept
  ViewersInformed
  NeverStranded
  ReplayMatches
PROPERTIES
  ImplementsLossyMap
CHECK_DEADLOCK FALSE
