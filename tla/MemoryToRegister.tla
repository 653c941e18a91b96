-------------------------- MODULE MemoryToRegister --------------------------
(***************************************************************************)
(* MemoryToRegisterPass (pass/MemoryToRegister.cpp): the loads and stores  *)
(* of a local variable become values, joined by phis where definitions     *)
(* meet.  The function is a graph whose blocks are all reachable and whose *)
(* entry nothing jumps to, which is what ControlFlowSimplification and the *)
(* translator leave.  The variable is one promotable alloca at the head of *)
(* the entry: the pass treats each by itself, and the tables it keeps for  *)
(* several at once are keyed by the variable.                              *)
(*                                                                         *)
(* Blocks are numbered as the function lists them, the entry is 1.  A step *)
(* is one of the loops of runOnFunction over all blocks, except the last:  *)
(* the phis are cleaned up in the order of a set of pointers, that is, in  *)
(* any order.  computeDomFrontier is two steps, dominators and frontiers.  *)
(***************************************************************************)
EXTENDS Dominators

CONSTANT Functions         \* records of succ and code

Entry == 1

\* succ[b] is <<>>, <<branch>> or <<branch, branchElse>>; code[b] has the variable's
\* loads and stores in order.
ASSUME FunctionsAssumption ==
    \A f \in Functions :
        /\ DOMAIN f.succ = 1..Cardinality(DOMAIN f.succ) /\ DOMAIN f.code = DOMAIN f.succ
        /\ \A b \in DOMAIN f.succ : Len(f.succ[b]) <= 2 /\ Entry \notin ToSet(f.succ[b])
        /\ \A b \in DOMAIN f.code : ToSet(f.code[b]) \subseteq {"load", "store"}

VARIABLES
    f,          \* the function
    phase,      \* the next loop of runOnFunction
    code,       \* what is left of f.code: sequences of positions in it
    idom,       \* immediate dominators; the entry's is itself
    frontier,   \* domfr
    phis,       \* blocks whose head has a phi for the variable
    reach,      \* reachDefines
    incoming,   \* the phis' operands: sequences of a value and the block named with it
    pending,    \* the phis the clean-up has not come to
    loads       \* what the uses of each load have become

vars == <<f, phase, code, idom, frontier, phis, reach, incoming, pending, loads>>

Blocks == DOMAIN f.succ
Preds(b) == Predecessors(f.succ, b)

\* Definitions of the variable, each named after the block it stands in.
Store(b, k) == <<"store", b, k>>
Phi(b)      == <<"phi", b, 0>>
NonDef      == <<"nondef", Entry, 0>>       \* the load placed after the alloca
NoValue     == <<"none", 0, 0>>
Parent(d)   == d[2]

IsStore(b, k) == f.code[b][k] = "store"
LoadsIn(c) == UNION {{<<b, k>> : k \in {j \in ToSet(c[b]) : ~IsStore(b, j)}} : b \in Blocks}

-----------------------------------------------------------------------------
(* Memory operations within a block: a store supersedes the one before it, *)
(* and a load after a store is the value stored.                           *)

LastStore(b, ks) == LET st == {k \in ToSet(ks) : IsStore(b, k)}
                    IN  IF st = {} THEN 0 ELSE CHOOSE k \in st : \A j \in st : j <= k

\* The block's positions that stay, going through them in order.
Simplified(b) ==
    FoldLeft(LAMBDA kept, k :
                IF IsStore(b, k) THEN Append(SelectSeq(kept, LAMBDA j : ~IsStore(b, j)), k)
                ELSE IF LastStore(b, kept) = 0 THEN Append(kept, k) ELSE kept,
             <<>>, [k \in DOMAIN f.code[b] |-> k])

\* The value of a load that does not stay.
Forwarded(b, k) == Store(b, LastStore(b, [j \in 1..(k - 1) |-> j]))

SimplifyBlocks ==
    /\ phase = "simplify"
    /\ code' = [b \in Blocks |-> Simplified(b)]
    /\ loads' = [l \in LoadsIn(code) |->
                   IF l \in LoadsIn(code') THEN NoValue ELSE Forwarded(l[1], l[2])]
    /\ phase' = "unused"
    /\ UNCHANGED <<f, idom, frontier, phis, reach, incoming, pending>>

\* A variable nobody loads goes, with its stores.
RemoveUnused ==
    /\ phase = "unused"
    /\ IF LoadsIn(code) = {}
       THEN phase' = "done" /\ code' = [b \in Blocks |-> <<>>]
       ELSE phase' = "dominators" /\ UNCHANGED code
    /\ UNCHANGED <<f, idom, frontier, phis, reach, incoming, pending, loads>>

ComputeDominators ==
    /\ phase = "dominators"
    /\ idom' = ImmediateDominators(f.succ)
    /\ phase' = "frontiers"
    /\ UNCHANGED <<f, code, frontier, phis, reach, incoming, pending, loads>>

ComputeFrontiers ==
    /\ phase = "frontiers"
    /\ frontier' = Frontiers(f.succ, idom)
    /\ phase' = "phis"
    /\ UNCHANGED <<f, code, idom, phis, reach, incoming, pending, loads>>

-----------------------------------------------------------------------------
(* Phis, where the definitions of different blocks may meet. *)

HasStore(b) == LastStore(b, code[b]) # 0

RECURSIVE Placed(_, _)
\* The worklist of blocks that define the variable, and the frontiers met.
Placed(worklist, visited) ==
    LET met == UNION {frontier[b] : b \in worklist} \ visited
    IN  IF met = {} THEN visited ELSE Placed(met, visited \cup met)

\* Faulty: a phi is not taken for a definition.
PlacedOnce(stores) == UNION {frontier[b] : b \in stores}
PlacedFrom(stores) == Placed(stores, {})

PlacePhis ==
    /\ phase = "phis"
    /\ phis' = PlacedFrom({b \in Blocks : HasStore(b)})
    /\ phase' = "reach"
    /\ UNCHANGED <<f, code, idom, frontier, reach, incoming, pending, loads>>

-----------------------------------------------------------------------------
(* Reaching definitions, in one pass over the blocks in depth-first order. *)

\* The last definition in a block; the phi comes first and a store last.
LastDefinition(b) ==
    CASE HasStore(b)                            -> Store(b, LastStore(b, code[b]))
      [] ~HasStore(b) /\ b = Entry              -> NonDef
      [] ~HasStore(b) /\ b # Entry /\ b \in phis -> Phi(b)
      [] OTHER                                  -> NoValue

RECURSIVE DepthFirst(_, _)
\* The search with a stack, branchElse() on top of branch().
DepthFirst(stack, seen) ==
    IF stack = <<>> THEN seen
    ELSE LET b == Last(stack)
         IN  IF b \in ToSet(seen) THEN DepthFirst(Front(stack), seen)
             ELSE DepthFirst(Front(stack) \o f.succ[b], Append(seen, b))

SortedBlocks == DepthFirst(<<Entry>>, <<>>)

\* Faulty: a block without a definition of its own passes nothing on.
PassNothing(r, b) == IF LastDefinition(b) # NoValue THEN {LastDefinition(b)} ELSE {}
PassOn(r, b) == IF LastDefinition(b) # NoValue THEN {LastDefinition(b)} ELSE r[b]

ReachDefines ==
    /\ phase = "reach"
    /\ reach' = FoldLeft(LAMBDA r, b :
                     [s \in Blocks |-> IF s \in ToSet(f.succ[b]) THEN r[s] \cup PassOn(r, b) ELSE r[s]],
                     [b \in Blocks |-> {}], SortedBlocks)
    /\ phase' = "apply"
    /\ UNCHANGED <<f, code, idom, frontier, phis, incoming, pending, loads>>

\* addIncomingValue: one operand for each block that is named.  The block is the
\* one of the definition.
AddIncoming(operands, d) ==
    IF \E i \in DOMAIN operands : operands[i].source = Parent(d) THEN operands
    ELSE Append(operands, [value |-> d, source |-> Parent(d)])

\* What a load that is left reads: no store comes before it in its block.
ValueIn(b) ==
    CASE b = Entry                -> NonDef
      [] b # Entry /\ b \in phis  -> Phi(b)
      [] OTHER -> IF Cardinality(reach[b]) = 1 THEN CHOOSE d \in reach[b] : TRUE ELSE NoValue

ApplyDefines ==
    /\ phase = "apply"
    /\ incoming' = [b \in Blocks |-> IF b \notin phis THEN <<>>
                                    ELSE FoldLeft(AddIncoming, <<>>, SetToSeq(reach[b]))]
    /\ loads' = [l \in DOMAIN loads |-> IF l \in LoadsIn(code) THEN ValueIn(l[1]) ELSE loads[l]]
    /\ pending' = phis
    /\ phase' = "clean"
    /\ UNCHANGED <<f, code, idom, frontier, phis, reach>>

-----------------------------------------------------------------------------
(* Phis of one operand give way to it, those of no use go. *)

Used(b) ==
    \/ \E l \in DOMAIN loads : loads[l] = Phi(b)
    \/ \E c \in phis : \E i \in DOMAIN incoming[c] : incoming[c][i].value = Phi(b)

\* Every use of the phi of b takes over the operand, in a phi with its block.
ReplacedInPhis(b, operand) ==
    [c \in Blocks |-> [i \in DOMAIN incoming[c] |->
        IF incoming[c][i].value = Phi(b) THEN operand ELSE incoming[c][i]]]

CleanPhi(b) ==
    /\ phase = "clean" /\ b \in pending
    /\ pending' = pending \ {b}
    /\ LET single == Len(incoming[b]) = 1
       IN  /\ incoming' = IF single THEN [ReplacedInPhis(b, incoming[b][1]) EXCEPT ![b] = <<>>]
                          ELSE IF Used(b) THEN incoming ELSE [incoming EXCEPT ![b] = <<>>]
           /\ loads' = [l \in DOMAIN loads |->
                          IF single /\ loads[l] = Phi(b) THEN incoming[b][1].value ELSE loads[l]]
           /\ phis' = IF single \/ ~Used(b) THEN phis \ {b} ELSE phis
    /\ UNCHANGED <<f, phase, code, idom, frontier, reach>>

\* The stores go, and the alloca unless the load after it is still used.
CleanMemory ==
    /\ phase = "clean" /\ pending = {}
    /\ code' = [b \in Blocks |-> <<>>]
    /\ phase' = "done"
    /\ UNCHANGED <<f, idom, frontier, phis, reach, incoming, pending, loads>>

Init ==
    /\ f \in Functions
    /\ phase = "simplify"
    /\ code = [b \in Blocks |-> [k \in DOMAIN f.code[b] |-> k]]
    /\ idom = <<>> /\ frontier = <<>> /\ phis = {} /\ pending = {}
    /\ reach = <<>> /\ incoming = <<>> /\ loads = <<>>

Next ==
    \/ SimplifyBlocks \/ RemoveUnused \/ ComputeDominators \/ ComputeFrontiers \/ PlacePhis
    \/ ReachDefines \/ ApplyDefines \/ CleanMemory
    \/ \E b \in Blocks : CleanPhi(b)

Spec == Init /\ [][Next]_vars

-----------------------------------------------------------------------------
(* Properties. *)

RECURSIVE Grown(_, _)
\* The blocks reached from a set by edges that leave its members in via.
Grown(reached, via) ==
    LET more == UNION {ToSet(f.succ[b]) : b \in reached \cap via} \ reached
    IN  IF more = {} THEN reached ELSE Grown(reached \cup more, via)

Dominates(a, b) == a = b \/ a = Entry \/ b \notin Grown({Entry}, Blocks \ {a})

\* The immediate dominator of a block is its strict dominator that all its strict
\* dominators dominate.
DominatorsAreRight ==
    phase = "frontiers" => \A b \in Blocks \ {Entry} :
        LET strict == {a \in Blocks \ {b} : Dominates(a, b)}
        IN  idom[b] \in strict /\ \A a \in strict : Dominates(a, idom[b])

\* The definition in force at the end of a block, in terms of dominance.
RECURSIVE LiveOut(_)
LiveOut(b) == IF LastDefinition(b) # NoValue THEN LastDefinition(b) ELSE LiveOut(idom[b])

\* Where there is no phi, every way in brings the same definition; where there is
\* one, it has exactly the definitions the ways in bring, and they differ.
PhisJoinTheWaysIn ==
    phase = "clean" /\ pending = PlacedFrom({b \in Blocks : HasStore(b)}) => \A b \in Blocks \ {Entry} :
        LET brought == {LiveOut(p) : p \in Preds(b)}
        IN  IF b \in phis
            THEN /\ {incoming[b][i].value : i \in DOMAIN incoming[b]} = brought
                 /\ Cardinality(brought) > 1
            ELSE brought = {LiveOut(idom[b])}

\* The stores, and the missing one, that may have been the last before a load in the
\* function as it was given.
StoreIn(b) == \E k \in DOMAIN f.code[b] : IsStore(b, k)
LastIn(b) == Store(b, LastStore(b, [k \in DOMAIN f.code[b] |-> k]))
Clear == {b \in Blocks : ~StoreIn(b)}
ReachesStart(a, b) == b \in Grown(ToSet(f.succ[a]), Clear)
Reaching(b, k) ==
    LET before == LastStore(b, [j \in 1..(k - 1) |-> j])
    IN  IF before # 0 THEN {Store(b, before)}
        ELSE {LastIn(a) : a \in {c \in Blocks : StoreIn(c) /\ ReachesStart(c, b)}}
             \cup {d \in {NonDef} : b \in Grown({Entry}, Clear)}

RECURSIVE Expand(_, _)
\* The definitions a value may be, phis looked through.
Expand(v, seen) ==
    IF v[1] # "phi" THEN {v}
    ELSE IF v[2] \notin phis THEN {NoValue}
    ELSE IF v \in seen THEN {}
    ELSE UNION {Expand(incoming[v[2]][i].value, seen \cup {v}) : i \in DOMAIN incoming[v[2]]}

\* In the end every load has become a value that may be exactly the stores that
\* reached it, whatever the order the phis were cleaned up in.
LoadsSeeTheirDefinitions ==
    phase = "done" => \A l \in DOMAIN loads : Expand(loads[l], {}) = Reaching(l[1], l[2])
=============================================================================
