\* Numbers of the policy count halves: the default threshold is 6.  Six
\* flags cross the highest threshold a file sets.  A time of 1000 ms doubles to
\* more than MaxTime.  A file that is refused leaves nothing to do: no deadlock
\* check.
CONSTANTS
  NaN = NaN
  Inf = Inf
  Files <- MCFiles
  Windows = {64, 2048}
  Lengths = {64, 2048, 2049, 65537}
  MaxFlags = 3
  MaxScore = 12
  MaxEdits = 1
  MaxTime = 1999
  LlamaBuilt = TRUE
SPECIFICATION Spec
INVARIANTS AssumptionsHold SameFileSameWindows Armed
PROPERTIES Redemption
CHECK_DEADLOCK FALSE
