------------------------------ MODULE MCUseDef ------------------------------
(***************************************************************************)
(* A two-operand instruction, one without operands (an alloca), a phi with *)
(* up to two pairs and two blocks.                                         *)
(***************************************************************************)
EXTENDS UseDef, TLC

CONSTANTS add, alloca

MCInsts == {add, alloca}
MCArity == [u \in MCInsts |-> IF u = add THEN 2 ELSE 0]

Symmetry == Permutations(Blocks)
=============================================================================
