SPECIFICATION RecordingSpec
CONSTANTS
  MaxKept = 3
  Pause = 1
  LongPress = 2
  Rollover = 2
  Keys = {"a"}
  Coded = {"a"}
  Corrections = {}
  Positions = {0, 2}
  Heights = {6}
  Viewports = {2}
  Panes = {}
  Points = {0}
  Widths = {40}
  Grains = {1}
  Frame = 2
  MaxBatch = 3
  MaxTime = 4
  MaxInputs = 2
INVARIANT ReplayMatchesLive
CHECK_DEADLOCK FALSE
