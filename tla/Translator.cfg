SPECIFICATION Spec
CONSTANTS
  MaxBlocks = 7
  MaxPoints = 4
  MaxDepth = 2
  MaxReturns = 2
  IMMTRUE = IMMTRUE
  IMMFALSE = IMMFALSE
  TERMINAL = TERMINAL
  NULL = NULL
  Blocks <- MCBlocks
  Values <- MCValues
INVARIANTS
  MeaningPreserved
  GraphConsistent
  SweepLeavesOnlyLoops
  AbortExplained
CHECK_DEADLOCK FALSE
