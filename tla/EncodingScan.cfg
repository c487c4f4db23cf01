\* Every tree of four blobs under a horizon of two levels; a budget that some
\* trees exceed only with their last blob.
CONSTANTS
  NumBlobs = 4
  MaxSize = 3
  MaxDepth = 2
  Budget = 5
  OpaqueLen = 2
SPECIFICATION ScanSpec
INVARIANTS BlocksIffHidden FlagsIffOpaque
CHECK_DEADLOCK FALSE
