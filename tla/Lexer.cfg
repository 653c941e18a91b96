SPECIFICATION Spec
CONSTANT Sources <- MCSources
INVARIANTS
  TokensAreTheLongest
  PositionsRight
  StringsDecode
CHECK_DEADLOCK FALSE
