\* Three sessions compete for two entries; one turn can raise enough flags to
\* block (2 * 3 >= 5) or not, and the floor is above what decay leaves.
CONSTANTS
  DecayNum = 1
  DecayDen = 2
  Floor = 2
  FlagWeight = 3
  Threshold = 5
  Sessions = {s1, s2, s3}
  MaxSessions = 2
  MaxFlags = 2
  MaxTick = 6
SPECIFICATION Spec
INVARIANTS TypeOK BenignNeverPenalised SuspicionNeedsEvidence
PROPERTIES FloorHolds ForgettingCostsAFlood ImplementsEntries ImplementsLru
CHECK_DEADLOCK FALSE
