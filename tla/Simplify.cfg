SPECIFICATION Spec
CONSTANTS
  cond = cond
  op = op
  a1 = a1
  a2 = a2
  a3 = a3
  a4 = a4
  IMMTRUE = IMMTRUE
  IMMFALSE = IMMFALSE
  TERMINAL = TERMINAL
  NULL = NULL
  VOID = FALSE
  Blocks <- MCBlocks
  Values <- MCValues
  Allocas <- MCAllocas
  Order <- MCOrder
  Flows <- MCFlows
  Body <- MCBody
INVARIANTS
  OnlyLiveRemain
  FlowKept
  AllocasGathered
PROPERTY Terminates
CHECK_DEADLOCK FALSE
