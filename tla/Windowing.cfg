\* Every payload of up to 9 bytes, windows of up to 4, overlaps up to 5: shorter
\* than, equal to and longer than the window.
CONSTANTS
  Lengths = {0, 1, 2, 3, 4, 5, 6, 7, 8, 9}
  Widths = {0, 1, 2, 3, 4}
  Overlaps = {0, 1, 2, 3, 4, 5}
SPECIFICATION FairCutSpec
INVARIANTS PhrasesSeenWhole NoWindowRedundant
PROPERTY Termination
CHECK_DEADLOCK FALSE
