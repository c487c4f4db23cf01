\* Three calls on two workers: one can wait, and both workers can hang.  The
\* third start within the interval stops the unit, and without an operator it
\* stays stopped: no deadlock check.
CONSTANTS
  Calls = {r1, r2, r3}
  Workers = 2
  StartLimit = 2
SPECIFICATION Spec
INVARIANT PassIsTheModels
PROPERTY Recovers
CHECK_DEADLOCK FALSE
