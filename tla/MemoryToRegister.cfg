SPECIFICATION Spec
CONSTANTS
  Functions <- MCFunctions
INVARIANTS
  DominatorsAreRight
  PhisJoinTheWaysIn
  LoadsSeeTheirDefinitions
CHECK_DEADLOCK FALSE
