\* Every payload of up to three characters; one pattern that blocks, one that
\* flags; the second invisible character is one too many.
CONSTANTS
  MaxLength = 3
  MaxInvisible = 1
  BlockPatterns = {b1}
  FlagPatterns = {f1}
SPECIFICATION Spec
INVARIANT ReportExact
CHECK_DEADLOCK FALSE
