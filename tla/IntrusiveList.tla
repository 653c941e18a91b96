--------------------------- MODULE IntrusiveList ---------------------------
(***************************************************************************)
(* The intrusive doubly linked list of src/slime/utils/list.h.             *)
(*                                                                         *)
(* Every ordered collection of the compiler is one of these lists: the     *)
(* blocks of a function, the instructions of a block, the uses of a value, *)
(* the fragments of a spill stack.  A list owns two guard cells; a node    *)
(* that is in the list lies between them and names the list in parent_,    *)
(* a node that is in no list has three null fields.                        *)
(*                                                                         *)
(* The memory of all lists is one record, the heap, and every member       *)
(* function of ListNode is an operator from heaps to heaps, so that a      *)
(* caller that performs several calls composes the operators in order.     *)
(***************************************************************************)
EXTENDS SequencesExt

CONSTANTS Nodes,    \* the ListNode objects
          Lists,    \* the ListTrait objects
          NULL      \* nullptr

HeadGuard(l) == <<"head", l>>      \* guard_[0]
TailGuard(l) == <<"tail", l>>      \* guard_[1]

HeadGuards == {HeadGuard(l) : l \in Lists}
TailGuards == {TailGuard(l) : l \in Lists}
Cells == Nodes \cup HeadGuards \cup TailGuards

\* A node is never a guard, and nullptr is neither a node, a guard nor a list.
ASSUME ListAssumption ==
  /\ IsFiniteSet(Nodes)
  /\ Nodes \cap (HeadGuards \cup TailGuards) = {}
  /\ NULL \notin Cells \cup Lists

VARIABLE heap
vars == <<heap>>

Heaps == [next   : [Cells -> Cells \cup {NULL}],
          prev   : [Cells -> Cells \cup {NULL}],
          parent : [Nodes -> Lists \cup {NULL}],
          size   : [Lists -> Nat]]

(***************************************************************************)
(* The member functions of ListNode.                                       *)
(***************************************************************************)

InList(h, l) == {n \in Nodes : h.parent[n] = l}

\* A cell of list l: parent_ of a guard is its list from construction on.
ListOf(h, c) == IF c \in Nodes THEN h.parent[c]
                ELSE CHOOSE l \in Lists : c \in {HeadGuard(l), TailGuard(l)}

\* next() and prev() fall back to the guards when the link is null.
NextOf(h, c) == IF h.next[c] = NULL /\ ListOf(h, c) # NULL
                THEN TailGuard(ListOf(h, c)) ELSE h.next[c]
PrevOf(h, c) == IF h.prev[c] = NULL /\ ListOf(h, c) # NULL
                THEN HeadGuard(ListOf(h, c)) ELSE h.prev[c]

\* removeFromList: the neighbours are relinked, then the three fields cleared.
Unlink(h, n) ==
  [next   |-> [h.next EXCEPT ![PrevOf(h, n)] = h.next[n], ![n] = NULL],
   prev   |-> [h.prev EXCEPT ![NextOf(h, n)] = h.prev[n], ![n] = NULL],
   parent |-> [h.parent EXCEPT ![n] = NULL],
   size   |-> [h.size EXCEPT ![h.parent[n]] = @ - 1]]

\* Faulty: an insertion does not take the node out of its list.
StaysLinked(h, n) == h

\* Every insertion starts with: if (parent_ != nullptr) { removeFromList(); }
Detached(h, n) == IF h.parent[n] = NULL THEN h ELSE Unlink(h, n)

\* Faulty: the next cell is not told about the node.
SpliceOneWay(h, n, p, q, l) ==
  [next   |-> [h.next EXCEPT ![n] = q, ![p] = n],
   prev   |-> [h.prev EXCEPT ![n] = p],
   parent |-> [h.parent EXCEPT ![n] = l],
   size   |-> [h.size EXCEPT ![l] = @ + 1]]

\* The field writes the four insertions share: n goes between p and q of l.
Splice(h, n, p, q, l) ==
  [next   |-> [h.next EXCEPT ![n] = q, ![p] = n],
   prev   |-> [h.prev EXCEPT ![n] = p, ![q] = n],
   parent |-> [h.parent EXCEPT ![n] = l],
   size   |-> [h.size EXCEPT ![l] = @ + 1]]

\* Faulty: insertAfter inserts before.
AfterIsBefore(h, n, m) == LET d == Detached(h, n)
                          IN  Splice(d, n, PrevOf(d, m), m, d.parent[m])

ToHead(h, n, l) == LET d == Detached(h, n)
                   IN  Splice(d, n, HeadGuard(l), d.next[HeadGuard(l)], l)
ToTail(h, n, l) == LET d == Detached(h, n)
                   IN  Splice(d, n, d.prev[TailGuard(l)], TailGuard(l), l)
Before(h, n, m) == LET d == Detached(h, n)
                   IN  Splice(d, n, PrevOf(d, m), m, d.parent[m])
After(h, n, m)  == LET d == Detached(h, n)
                   IN  Splice(d, n, m, NextOf(d, m), d.parent[m])

(***************************************************************************)
(* The state machine: a client that calls the member functions.            *)
(***************************************************************************)

\* ListTrait(): memset clears both guards, then they are linked together.
EmptyHeap ==
  [next   |-> [c \in Cells |-> IF c \in HeadGuards
                               THEN TailGuard(CHOOSE l \in Lists : c = HeadGuard(l))
                               ELSE NULL],
   prev   |-> [c \in Cells |-> IF c \in TailGuards
                               THEN HeadGuard(CHOOSE l \in Lists : c = TailGuard(l))
                               ELSE NULL],
   parent |-> [n \in Nodes |-> NULL],
   size   |-> [l \in Lists |-> 0]]

Init == heap = EmptyHeap

InsertToHead(n, l) == heap' = ToHead(heap, n, l)
InsertToTail(n, l) == heap' = ToTail(heap, n, l)

\* The argument must be in a list (the assertion); it is another node: with
\* n = m removeFromList would clear the list the argument is looked up in.
InsertBefore(n, m) == /\ heap.parent[m] # NULL
                      /\ n # m
                      /\ heap' = Before(heap, n, m)
InsertAfter(n, m)  == /\ heap.parent[m] # NULL
                      /\ n # m
                      /\ heap' = After(heap, n, m)

RemoveFromList(n)  == /\ heap.parent[n] # NULL
                      /\ heap' = Unlink(heap, n)

Next == \E n \in Nodes : \/ \E l \in Lists : InsertToHead(n, l) \/ InsertToTail(n, l)
                         \/ \E m \in Nodes : InsertBefore(n, m) \/ InsertAfter(n, m)
                         \/ RemoveFromList(n)

Spec == Init /\ [][Next]_vars

(***************************************************************************)
(* The iterators.                                                          *)
(***************************************************************************)

\* The nodes an iterator meets from one guard to the other: operator++ takes a step, but
\* does not move past the guard at the end.
Walk(from, to, step) ==
  LET at[i \in 0 .. Cardinality(Nodes)] ==
        IF i = 0 THEN from ELSE IF at[i - 1] = to THEN to ELSE step[at[i - 1]]
  IN  [i \in {j \in 1 .. Cardinality(Nodes) : at[j] \in Nodes} |-> at[i]]

\* begin() to end(), and rbegin() to rend().
Forward(h, l)  == Walk(HeadGuard(l), TailGuard(l), [c \in Cells |-> NextOf(h, c)])
Backward(h, l) == Walk(TailGuard(l), HeadGuard(l), [c \in Cells |-> PrevOf(h, c)])

(***************************************************************************)
(* Properties.                                                             *)
(***************************************************************************)

\* Fields hold cells, lists or nullptr; size_ never wraps below zero.
TypeOK == heap \in Heaps

\* Going one cell forward and one back returns to where one started, without
\* leaving the list, for every member and for the head guard.
ForwardLinks(h) ==
  \A l \in Lists : \A c \in InList(h, l) \cup {HeadGuard(l)} :
     /\ h.next[c] \in InList(h, l) \cup {TailGuard(l)}
     /\ h.prev[h.next[c]] = c

\* The mirror image, for every member and for the tail guard.
BackwardLinks(h) ==
  \A l \in Lists : \A c \in InList(h, l) \cup {TailGuard(l)} :
     /\ h.prev[c] \in InList(h, l) \cup {HeadGuard(l)}
     /\ h.next[h.prev[c]] = c

\* A node in no list points nowhere, so no stale link survives a removal.
FreeNodesAreClear(h) ==
  \A n \in Nodes : h.parent[n] = NULL => h.next[n] = NULL /\ h.prev[n] = NULL

\* size_ counts exactly the nodes whose parent_ is the list.
SizesAgree(h) == \A l \in Lists : h.size[l] = Cardinality(InList(h, l))

\* The links of the member functions agree with each other after any sequence
\* of calls: what every "for (auto x : list)" of the compiler relies on.
WellLinked == ForwardLinks(heap) /\ BackwardLinks(heap) /\ FreeNodesAreClear(heap)

\* size() is right after any sequence of calls, moves between lists included.
SizeCounts == SizesAgree(heap)

\* The heap as the sequences a forward walk reads.
Abstract == INSTANCE ListSpec WITH seqs <- [l \in Lists |-> Forward(heap, l)]

\* Call by call: the place a node ends up in is the place the member function
\* names, also when the node comes from the same list and moves past the argument.
CallsMatchListSpec ==
  [][ \A n \in Nodes :
        /\ \A l \in Lists : /\ InsertToHead(n, l) => Abstract!InsertToHead(n, l)
                           /\ InsertToTail(n, l) => Abstract!InsertToTail(n, l)
        /\ \A m \in Nodes : /\ InsertBefore(n, m) => Abstract!InsertBefore(n, m)
                           /\ InsertAfter(n, m) => Abstract!InsertAfter(n, m)
        /\ RemoveFromList(n) => Abstract!RemoveFromList(n) ]_vars

\* A forward walk meets every member exactly once and as many as size() says,
\* a backward walk meets them in the opposite order.
TraversalsAgree ==
  \A l \in Lists :
     /\ Backward(heap, l) = Reverse(Forward(heap, l))
     /\ Len(Forward(heap, l)) = heap.size[l]
     /\ ToSet(Forward(heap, l)) = InList(heap, l)

\* The pointer manipulations implement ListSpec: a family of sequences, which a
\* walk in either direction reads, changed by each call as the call is named.
ImplementsListSpec == Abstract!Spec /\ CallsMatchListSpec /\ []TraversalsAgree
=============================================================================
