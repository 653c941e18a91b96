------------------------------- MODULE MCCfg -------------------------------
(***************************************************************************)
(* Model checking of Cfg: any sequence of client calls on a few blocks.    *)
(***************************************************************************)
EXTENDS Cfg, TLC

Symmetry == Permutations(Blocks)
=============================================================================
