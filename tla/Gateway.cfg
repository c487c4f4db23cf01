\* Three requests, any of them anonymous, malformed or under an id told before,
\* and a restart; two flags reach the threshold, and two sessions fit.
CONSTANTS
  DecayNum = 1
  DecayDen = 2
  Floor = 1
  FlagWeight = 2
  Threshold = 3
  MaxSessions = 2
  MaxTick = 3
  Named = {n1}
  Fresh = {f1, f2, f3}
  None = None
  Requests = {r1, r2, r3}
  VetFlags = 1
  MaxRestarts = 1
SPECIFICATION Spec
INVARIANTS CounterAgrees AnonymousOnItsOwn SuspicionStaysWithItsId ChargedOnce
PROPERTY ImplementsRestartableLedger
CHECK_DEADLOCK FALSE
