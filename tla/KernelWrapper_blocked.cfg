\* Two calls of one session; one flag reaches the threshold.
CONSTANTS
  DecayNum = 1
  DecayDen = 1
  Floor = 0
  FlagWeight = 1
  Threshold = 1
  Sessions = {s1}
  MaxSessions = 1
  MaxTick = 2
  Calls = {c1, c2}
  Tools = {listed}
  EnabledTools = {listed}
  VetFlags = 1
SPECIFICATION Spec
PROPERTY BlockedSessionRunsNoTool
CHECK_DEADLOCK FALSE
