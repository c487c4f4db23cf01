\* Two windows; a budget of one tick, a backstop of two.
CONSTANTS
  Windows = {w1, w2}
  ClientBudget = 1
  Backstop = 2
  MaxFlags = 1
  SentFlags = 2
  MaxAge = 2
SPECIFICATION FairSpec
INVARIANTS PassNeedsEveryPass FindingsComplete AdvisoriesConserved ClientTimeoutFirst
PROPERTIES ImplementsVote Decides
CHECK_DEADLOCK FALSE
