------------------------- MODULE MCMemoryToRegister -------------------------
(***************************************************************************)
(* Model checking of MemoryToRegister: all graphs of a few blocks.         *)
(***************************************************************************)
EXTENDS MemoryToRegister

\* The ways out of a block of a function of n blocks.  The order of the two ends of
\* a branch changes the order of the search only: it is taken both ways for three
\* blocks and one way for four.
Linear(n) == {<<>>} \cup {<<b>> : b \in 2..n}
Ordered(n) == Linear(n) \cup {<<a, b>> : a, b \in 2..n}
Distinct(ways) == {w \in ways : Len(w) < 2 \/ w[1] # w[2]}
Unordered(n) == {w \in Distinct(Ordered(n)) : Len(w) < 2 \/ w[1] < w[2]}

RECURSIVE Closure(_, _)
Closure(succ, reached) ==
    LET more == UNION {ToSet(succ[b]) : b \in reached} \ reached
    IN  IF more = {} THEN reached ELSE Closure(succ, reached \cup more)

Graphs(n, ways) == {succ \in [1..n -> ways] : Closure(succ, {1}) = 1..n}
Make(succs, bodies, n) == {[succ |-> s, code |-> c] : s \in succs, c \in [1..n -> bodies]}

Load == <<"load">>
LoadStore == <<"load", "store">>
MCFunctions ==
    Make(Graphs(3, Distinct(Ordered(3))),
         {<<>>, Load, LoadStore, <<"store">>, <<"store", "load">>, <<"store", "load", "store">>}, 3)
    \cup Make(Graphs(4, Unordered(4)), {Load, LoadStore}, 4)
=============================================================================
