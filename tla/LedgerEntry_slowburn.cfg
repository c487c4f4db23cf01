\* The defaults of KernelConfig in units of 1/2: decay 0.5, floor 0.5,
\* flag_weight 0.5, threshold 3.0; one advisory flag per turn.
CONSTANTS
  DecayNum = 1
  DecayDen = 2
  Floor = 1
  FlagWeight = 1
  Threshold = 6
  MaxFlags = 1
SPECIFICATION DripSpec
PROPERTY SlowBurnCaught
