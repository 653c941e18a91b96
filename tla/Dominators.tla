----------------------------- MODULE Dominators -----------------------------
(***************************************************************************)
(* MemoryToRegisterPass::computeDomFrontier: the immediate dominators of a *)
(* control flow graph by the algorithm of Lengauer and Tarjan, and the     *)
(* dominance frontiers from them.  A graph is a function succ from 1..n to *)
(* sequences of successors; the entry is 1.  Unlike the code's, semi trees *)
(* are sets: the order of their members makes no difference to a result.   *)
(***************************************************************************)
EXTENDS Integers, SequencesExt, FiniteSets

Predecessors(succ, b) == {p \in DOMAIN succ : b \in ToSet(succ[p])}

Start(succ) ==
    [dfn      |-> [b \in DOMAIN succ |-> -1],
     father   |-> [b \in DOMAIN succ |-> 1],
     nodeAt   |-> <<>>,
     semi     |-> [b \in DOMAIN succ |-> b],
     unionSet |-> [b \in DOMAIN succ |-> b],
     minNode  |-> [b \in DOMAIN succ |-> b],
     semiTree |-> [b \in DOMAIN succ |-> {}],
     idom     |-> [b \in DOMAIN succ |-> 1]]

RECURSIVE Tarjan(_, _, _)
\* Depth first from k; the edge list has the last successor first.
Tarjan(succ, st, k) ==
    FoldLeft(LAMBDA s, c : IF s.dfn[c] # -1 THEN s
                           ELSE Tarjan(succ, [s EXCEPT !.father[c] = k], c),
             [st EXCEPT !.dfn[k] = Len(st.nodeAt), !.nodeAt = Append(@, k)],
             SetToSortSeq(ToSet(succ[k]), LAMBDA a, b : a > b))

SemiOrder(st, k) == st.dfn[st.semi[st.minNode[k]]]

\* query, after it has called itself for the node above: k takes over the better
\* minimum and hangs from the root directly.
Compress(st, k) ==
    LET up == st.unionSet[k]
    IN  [st EXCEPT !.minNode[k] = IF SemiOrder(st, up) < SemiOrder(st, k) THEN st.minNode[up] ELSE @,
                   !.unionSet[k] = st.unionSet[up]]

RECURSIVE Query(_, _)
Query(st, k) ==
    IF st.unionSet[k] = k THEN st ELSE Compress(Query(st, st.unionSet[k]), k)

LowerSemi(st, t, p) ==
    IF SemiOrder(st, p) < st.dfn[st.semi[t]] THEN [st EXCEPT !.semi[t] = st.semi[st.minNode[p]]]
    ELSE st

ComputeSemi(succ, st, t) ==
    FoldLeft(LAMBDA s, p : LowerSemi(Query(s, p), t, p), st,
             SetToSeq({p \in Predecessors(succ, t) : st.dfn[p] # -1}))

Link(st, t) == [st EXCEPT !.unionSet[t] = st.father[t], !.semiTree[st.semi[t]] = @ \cup {t}]

SetIdom(st, t, s) ==
    [st EXCEPT !.idom[s] = IF t = st.semi[st.minNode[s]] THEN t ELSE st.minNode[s]]

ComputeIdoms(st, t) ==
    FoldLeft(LAMBDA s, k : SetIdom(Query(s, k), t, k), [st EXCEPT !.semiTree[t] = {}],
             SetToSeq(st.semiTree[t]))

Process(succ, st, i) ==
    LET t == st.nodeAt[i]
    IN  ComputeIdoms(Link(ComputeSemi(succ, st, t), t), st.father[t])

\* Faulty: what is not the semidominator stays relative.
FinalizeNothing(st, i) == st
Finalize(st, i) ==
    LET t == st.nodeAt[i]
    IN  IF st.idom[t] = st.semi[t] THEN st ELSE [st EXCEPT !.idom[t] = st.idom[st.idom[t]]]

\* The entry and what the search does not reach have the entry for dominator.
ImmediateDominators(succ) ==
    LET searched == Tarjan(succ, Start(succ), 1)
        rising   == [i \in 1..(Len(searched.nodeAt) - 1) |-> i + 1]
        processed == FoldLeft(LAMBDA s, i : Process(succ, s, i), searched, Reverse(rising))
    IN  FoldLeft(LAMBDA s, i : Finalize(s, i), processed, rising).idom

RECURSIVE Runners(_, _, _)
\* The blocks the runner passes from a predecessor up to the dominator.
Runners(idom, runner, dominator) ==
    IF runner = dominator THEN {} ELSE {runner} \cup Runners(idom, idom[runner], dominator)

AllRunners(succ, idom, b) == UNION {Runners(idom, p, idom[b]) : p \in Predecessors(succ, b)}

Frontiers(succ, idom) ==
    LET joins == {b \in DOMAIN succ : Cardinality(Predecessors(succ, b)) > 1}
    IN  [x \in DOMAIN succ |-> {b \in joins : x \in AllRunners(succ, idom, b)}]
=============================================================================
