\* Three overlapping calls of two sessions; without decay, so that the flags
\* released over all calls are bounded; two flags reach the threshold.
CONSTANTS
  DecayNum = 1
  DecayDen = 1
  Floor = 1
  FlagWeight = 1
  Threshold = 2
  Sessions = {s1, s2}
  MaxSessions = 2
  MaxTick = 3
  Calls = {c1, c2, c3}
  Tools = {listed, unlisted}
  EnabledTools = {listed}
  VetFlags = 1
SPECIFICATION Spec
INVARIANTS NothingUnvetted ChargedOnce SlowBurnBounded
PROPERTY ImplementsLedger
CHECK_DEADLOCK FALSE
