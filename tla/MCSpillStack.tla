---------------------------- MODULE MCSpillStack ----------------------------
(***************************************************************************)
(* One local and four temporaries: enough for a fragment of two released   *)
(* neighbours to be melted, split and refilled before live pieces.         *)
(***************************************************************************)
EXTENDS SpillStack

Symmetry == Permutations(Temps)
=============================================================================
