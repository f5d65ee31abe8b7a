SPECIFICATION Spec
CONSTANTS
  Instances = {i1, i2}
  Sids = {s1, s2, s3}
  Requests = {r1, r2, r3}
  None = None
  Anonymous = Anonymous
  Sequential = TRUE
  MaxFaults = 0
  MaxTimes = 2
  MaxRisk = 1
INVARIANTS SessionContinues
CHECK_DEADLOCK FALSE
