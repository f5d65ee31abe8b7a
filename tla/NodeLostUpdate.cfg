SPECIFICATION Spec
CONSTANTS
  Instances = {i1}
  Sids = {s1, s2, s3}
  Requests = {r1, r2, r3}
  None = None
  Anonymous = Anonymous
  Sequential = FALSE
  MaxFaults = 0
  MaxTimes = 2
  MaxRisk = 1
INVARIANTS TelemetryKept
CHECK_DEADLOCK FALSE
