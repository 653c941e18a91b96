SPECIFICATION Spec
CONSTANTS
  add = add
  alloca = alloca
  Insts <- MCInsts
  Arity <- MCArity
  Phis = {phi}
  Blocks = {b1, b2}
  Consts = {c}
  MaxPairs = 2
  NULL = NULL
SYMMETRY Symmetry
INVARIANTS
  UsesExact
  NoAssertionFails
  RemovedIsDead
CHECK_DEADLOCK FALSE
