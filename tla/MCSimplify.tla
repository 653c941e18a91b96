----------------------------- MODULE MCSimplify -----------------------------
(***************************************************************************)
(* Model checking of Simplify: every graph of four blocks in which nothing *)
(* jumps to the entry (the translator creates a block for every target).   *)
(* Only the entry may end in a decided branch; the translator leaves none. *)
(***************************************************************************)
EXTENDS Simplify

CONSTANTS cond, op, a1, a2, a3, a4

MCBlocks == 1 .. 4
MCOrder  == <<1, 2, 3, 4>>
MCValues == {cond, op, a1, a2, a3, a4, IMMTRUE, IMMFALSE}
MCAllocas == {a1, a2, a3, a4}

Plain    == {[control |-> NULL, branch |-> b, branchElse |-> NULL] : b \in {2, 3, 4, TERMINAL}}
Split(V) == {[control |-> v, branch |-> b, branchElse |-> d] :
               v \in V, b \in 2 .. 4, d \in 2 .. 4}
Proper(S) == {s \in S : s.branch # s.branchElse}

MCFlows == [b \in MCBlocks |-> Plain \cup Proper(Split(IF b = 1 THEN {cond, IMMTRUE, IMMFALSE}
                                                       ELSE {cond}))]
MCBody  == [b \in MCBlocks |->
              CASE b = 1 -> <<Op(op), Op(a1)>>
                [] b = 2 -> <<Op(a2), Op(a3)>>
                [] b = 3 -> <<>>
                [] b = 4 -> <<Op(a4), Op(op)>>]
=============================================================================
