SPECIFICATION LoopSpec
CONSTANTS
  Interval = 1
  StaleAfter = 30
  SkewAllowance = 10
  MaxOffset = 4
  WriteDelay = 3
  StartDelay = 1
  MaxTime = 45
INVARIANTS NoOverlap
CHECK_DEADLOCK FALSE
