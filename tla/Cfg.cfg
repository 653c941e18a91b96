SPECIFICATION CfgSpec
CONSTANTS
  Blocks = {b1, b2, b3}
  Values = {v}
  TERMINAL = TERMINAL
  NULL = NULL
  MaxCode = 2
SYMMETRY Symmetry
INVARIANTS
  LinksAgree
  NoAssertionFails
  TerminatorAgrees
  RemovedIsIsolated
