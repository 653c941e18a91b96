------------------------ MODULE IntrusiveListProofs ------------------------
(***************************************************************************)
(* Proofs about IntrusiveList for any finite set of nodes and any lists.   *)
(*                                                                         *)
(* A heap is good when it has its type, when links and back links agree,   *)
(* when free nodes are clear and when sizes are member counts.  Removing a *)
(* member and splicing a free node in between two neighbours keep a heap   *)
(* good; every member function is a composition of the two.                *)
(*                                                                         *)
(* A good heap may still have a ring of members that no guard leads to.    *)
(* For the refinement of ListSpec every list is in addition one sequence   *)
(* (Reads) of all its members; the two changes of links remove from and    *)
(* insert into it, and a walk in either direction reads it.                *)
(***************************************************************************)
EXTENDS IntrusiveList, FiniteSetTheorems, SequenceTheorems, WellFoundedInduction, TLAPS

Good(h) == /\ h \in Heaps
           /\ ForwardLinks(h) /\ BackwardLinks(h)
           /\ FreeNodesAreClear(h)
           /\ SizesAgree(h)

\* Guards of different lists, and the two guards of one list, are different
\* cells; nullptr is none of them.
LEMMA Guards ==
  /\ \A l \in Lists : /\ HeadGuard(l) \in Cells /\ TailGuard(l) \in Cells
                      /\ HeadGuard(l) \notin Nodes /\ TailGuard(l) \notin Nodes
                      /\ HeadGuard(l) # NULL /\ TailGuard(l) # NULL
  /\ \A l, k \in Lists : /\ HeadGuard(l) # TailGuard(k)
                         /\ HeadGuard(l) = HeadGuard(k) => l = k
                         /\ TailGuard(l) = TailGuard(k) => l = k
  /\ NULL \notin Nodes /\ NULL \notin Lists /\ Nodes \subseteq Cells
BY ListAssumption DEF HeadGuard, TailGuard, HeadGuards, TailGuards, Cells

\* In a good heap the links of a member are never null, so next() and prev()
\* of a member need no fallback.
LEMMA MemberLinks ==
  ASSUME NEW h, Good(h), NEW n \in Nodes, h.parent[n] # NULL
  PROVE  /\ h.parent[n] \in Lists
         /\ h.next[n] \in Cells /\ h.prev[n] \in Cells
         /\ NextOf(h, n) = h.next[n] /\ PrevOf(h, n) = h.prev[n]
<1>1. h.parent[n] \in Lists
  BY DEF Good, Heaps
<1>2. h.next[n] \in InList(h, h.parent[n]) \cup {TailGuard(h.parent[n])}
  BY <1>1 DEF Good, ForwardLinks, InList
<1>3. h.prev[n] \in InList(h, h.parent[n]) \cup {HeadGuard(h.parent[n])}
  BY <1>1 DEF Good, BackwardLinks, InList
<1> QED
  BY <1>1, <1>2, <1>3, Guards DEF NextOf, PrevOf, InList

\* Lists are finite.
LEMMA ListsAreFinite ==
  ASSUME NEW h, NEW l
  PROVE  IsFiniteSet(InList(h, l)) /\ Cardinality(InList(h, l)) \in Nat
<1>1. IsFiniteSet(Nodes) /\ InList(h, l) \in SUBSET Nodes
  BY ListAssumption DEF InList
<1> QED BY <1>1, FS_Subset, FS_CardinalityType

\* Membership of a list after one parent_ is cleared or set.
LEMMA UnlinkMembers ==
  ASSUME NEW h, Good(h), NEW n \in Nodes, h.parent[n] # NULL
  PROVE  /\ Unlink(h, n).parent[n] = NULL
         /\ \A l \in Lists : InList(Unlink(h, n), l) = InList(h, l) \ {n}
BY Guards DEF Unlink, InList, Good, Heaps

\* removeFromList keeps a heap good.
LEMMA UnlinkGood ==
  ASSUME NEW h, Good(h), NEW n \in Nodes, h.parent[n] # NULL
  PROVE  Good(Unlink(h, n))
<1> DEFINE d == Unlink(h, n)
           l == h.parent[n]
           p == h.prev[n]
           q == h.next[n]
<1>1. l \in Lists /\ n \in InList(h, l) /\ NextOf(h, n) = q /\ PrevOf(h, n) = p
  BY MemberLinks DEF InList
<1>2. /\ p \in InList(h, l) \cup {HeadGuard(l)} /\ h.next[p] = n
      /\ q \in InList(h, l) \cup {TailGuard(l)} /\ h.prev[q] = n
  BY <1>1 DEF Good, ForwardLinks, BackwardLinks
<1>3. /\ d.next = [h.next EXCEPT ![p] = q, ![n] = NULL]
      /\ d.prev = [h.prev EXCEPT ![q] = p, ![n] = NULL]
      /\ d.parent = [h.parent EXCEPT ![n] = NULL]
      /\ d.size = [h.size EXCEPT ![l] = @ - 1]
  BY <1>1 DEF Unlink
<1>4. \A k \in Lists : InList(d, k) = InList(h, k) \ {n}
  BY UnlinkMembers
<1>5. p \in Cells /\ q \in Cells /\ n \in Cells
  BY <1>1, <1>2, Guards DEF InList
<1>6. h.next \in [Cells -> Cells \cup {NULL}] /\ h.prev \in [Cells -> Cells \cup {NULL}]
  BY DEF Good, Heaps
<1>7. ForwardLinks(d)
  <2> SUFFICES ASSUME NEW k \in Lists, NEW c \in InList(d, k) \cup {HeadGuard(k)}
               PROVE  /\ d.next[c] \in InList(d, k) \cup {TailGuard(k)}
                      /\ d.prev[d.next[c]] = c
    BY DEF ForwardLinks
  <2>1. c \in InList(h, k) \cup {HeadGuard(k)} /\ c # n /\ c \in Cells
    BY <1>4, Guards DEF InList
  <2>2. /\ h.next[c] \in InList(h, k) \cup {TailGuard(k)}
        /\ h.prev[h.next[c]] = c
    BY <2>1 DEF Good, ForwardLinks
  <2>3. h.next[c] \in Cells
    BY <2>2, Guards DEF InList
  <2>4. CASE c = p
    <3>1. d.next[c] = q
      BY <2>4, <2>1, <1>3, <1>5, <1>6
    <3>2. q # n
      BY <2>4, <2>1, <1>2
    <3>3. d.prev[q] = p
      BY <3>2, <1>3, <1>5, <1>6
    <3>4. k = l
      BY <2>4, <2>1, <1>1, <1>2, Guards DEF InList
    <3> QED BY <3>1, <3>2, <3>3, <3>4, <2>4, <1>2, <1>4
  <2>5. CASE c # p
    <3>1. d.next[c] = h.next[c]
      BY <2>5, <2>1, <1>3, <1>5, <1>6
    <3>2. h.next[c] # n
      BY <2>5, <2>2
    <3>3. h.next[c] # q
      BY <2>1, <2>2, <1>2
    <3>4. d.prev[h.next[c]] = h.prev[h.next[c]]
      BY <3>2, <3>3, <2>3, <1>3, <1>5, <1>6
    <3> QED BY <3>1, <3>2, <3>4, <2>2, <1>4
  <2> QED BY <2>4, <2>5
<1>8. BackwardLinks(d)
  <2> SUFFICES ASSUME NEW k \in Lists, NEW c \in InList(d, k) \cup {TailGuard(k)}
               PROVE  /\ d.prev[c] \in InList(d, k) \cup {HeadGuard(k)}
                      /\ d.next[d.prev[c]] = c
    BY DEF BackwardLinks
  <2>1. c \in InList(h, k) \cup {TailGuard(k)} /\ c # n /\ c \in Cells
    BY <1>4, Guards DEF InList
  <2>2. /\ h.prev[c] \in InList(h, k) \cup {HeadGuard(k)}
        /\ h.next[h.prev[c]] = c
    BY <2>1 DEF Good, BackwardLinks
  <2>3. h.prev[c] \in Cells
    BY <2>2, Guards DEF InList
  <2>4. CASE c = q
    <3>1. d.prev[c] = p
      BY <2>4, <2>1, <1>3, <1>5, <1>6
    <3>2. p # n
      BY <2>4, <2>1, <1>2
    <3>3. d.next[p] = q
      BY <3>2, <1>3, <1>5, <1>6
    <3>4. k = l
      BY <2>4, <2>1, <1>1, <1>2, Guards DEF InList
    <3> QED BY <3>1, <3>2, <3>3, <3>4, <2>4, <1>2, <1>4
  <2>5. CASE c # q
    <3>1. d.prev[c] = h.prev[c]
      BY <2>5, <2>1, <1>3, <1>5, <1>6
    <3>2. h.prev[c] # n
      BY <2>5, <2>2
    <3>3. h.prev[c] # p
      BY <2>1, <2>2, <1>2
    <3>4. d.next[h.prev[c]] = h.next[h.prev[c]]
      BY <3>2, <3>3, <2>3, <1>3, <1>5, <1>6
    <3> QED BY <3>1, <3>2, <3>4, <2>2, <1>4
  <2> QED BY <2>4, <2>5
<1>9. FreeNodesAreClear(d)
  <2> SUFFICES ASSUME NEW m \in Nodes, d.parent[m] = NULL
               PROVE  d.next[m] = NULL /\ d.prev[m] = NULL
    BY DEF FreeNodesAreClear
  <2>1. CASE m = n
    BY <2>1, <1>3, <1>5, <1>6
  <2>2. CASE m # n
    <3>1. h.parent[m] = NULL
      BY <2>2, <1>3 DEF Good, Heaps
    <3>2. m # p /\ m # q
      BY <3>1, <1>1, <1>2, Guards DEF InList
    <3>3. h.next[m] = NULL /\ h.prev[m] = NULL
      BY <3>1 DEF Good, FreeNodesAreClear
    <3> QED BY <3>2, <3>3, <2>2, <1>3, <1>6, Guards
  <2> QED BY <2>1, <2>2
<1>10. SizesAgree(d) /\ d.size \in [Lists -> Nat]
  <2>1. h.size \in [Lists -> Nat] /\ \A k \in Lists : h.size[k] = Cardinality(InList(h, k))
    BY DEF Good, Heaps, SizesAgree
  <2>2. \A k \in Lists : k # l => n \notin InList(h, k)
    BY DEF InList
  <2>3. ASSUME NEW k \in Lists
        PROVE  d.size[k] = Cardinality(InList(d, k)) /\ d.size[k] \in Nat
    <3>1. CASE k = l
      <4>1. /\ Cardinality(InList(h, l) \ {n}) = Cardinality(InList(h, l)) - 1
            /\ Cardinality(InList(h, l) \ {n}) \in Nat
        BY <1>1, ListsAreFinite, FS_RemoveElement, FS_CardinalityType
      <4>2. d.size[k] = h.size[l] - 1
        BY <3>1, <2>1, <1>1, <1>3
      <4>3. h.size[l] = Cardinality(InList(h, l)) /\ InList(d, k) = InList(h, l) \ {n}
        BY <3>1, <2>1, <1>1, <1>4
      <4> QED BY <4>1, <4>2, <4>3
    <3>2. CASE k # l
      <4>1. InList(d, k) = InList(h, k)
        BY <3>2, <2>2, <1>4
      <4> QED BY <4>1, <3>2, <2>1, <1>3
    <3> QED BY <3>1, <3>2
  <2> QED BY <2>1, <2>3, <1>3 DEF SizesAgree
<1>11. d \in Heaps
  <2>1. h.parent \in [Nodes -> Lists \cup {NULL}]
    BY DEF Good, Heaps
  <2>2. d = [next |-> d.next, prev |-> d.prev, parent |-> d.parent, size |-> d.size]
    BY DEF Unlink
  <2> HIDE DEF d
  <2> QED BY <2>1, <2>2, <1>3, <1>5, <1>6, <1>10 DEF Heaps
<1> QED BY <1>7, <1>8, <1>9, <1>10, <1>11 DEF Good

\* Detached, the prologue of every insertion, keeps a heap good, frees the node
\* and changes the membership of no other.
LEMMA DetachedGood ==
  ASSUME NEW h, Good(h), NEW n \in Nodes
  PROVE  /\ Good(Detached(h, n))
         /\ Detached(h, n).parent[n] = NULL
         /\ \A m \in Nodes : m # n => Detached(h, n).parent[m] = h.parent[m]
BY UnlinkGood, UnlinkMembers DEF Detached, Unlink, Good, Heaps

\* Splicing a free node between two neighbours keeps a heap good.
LEMMA SpliceGood ==
  ASSUME NEW h, Good(h), NEW n \in Nodes, h.parent[n] = NULL, NEW l \in Lists,
         NEW p \in InList(h, l) \cup {HeadGuard(l)},
         NEW q \in InList(h, l) \cup {TailGuard(l)},
         h.next[p] = q
  PROVE  Good(Splice(h, n, p, q, l))
<1> DEFINE d == Splice(h, n, p, q, l)
<1>1. h.prev[q] = p
  BY DEF Good, ForwardLinks
<1>2. p \in Cells /\ q \in Cells /\ n \in Cells /\ p # n /\ q # n
  BY Guards DEF InList
<1>3. /\ d.next = [h.next EXCEPT ![n] = q, ![p] = n]
      /\ d.prev = [h.prev EXCEPT ![n] = p, ![q] = n]
      /\ d.parent = [h.parent EXCEPT ![n] = l]
      /\ d.size = [h.size EXCEPT ![l] = @ + 1]
  BY DEF Splice
<1>4. /\ h.next \in [Cells -> Cells \cup {NULL}] /\ h.prev \in [Cells -> Cells \cup {NULL}]
      /\ h.parent \in [Nodes -> Lists \cup {NULL}] /\ h.size \in [Lists -> Nat]
  BY DEF Good, Heaps
<1>5. /\ InList(d, l) = InList(h, l) \cup {n}
      /\ \A k \in Lists : k # l => InList(d, k) = InList(h, k)
      /\ \A k \in Lists : n \notin InList(h, k)
  BY <1>3, <1>4, Guards DEF InList
<1>6. ForwardLinks(d)
  <2> SUFFICES ASSUME NEW k \in Lists, NEW c \in InList(d, k) \cup {HeadGuard(k)}
               PROVE  /\ d.next[c] \in InList(d, k) \cup {TailGuard(k)}
                      /\ d.prev[d.next[c]] = c
    BY DEF ForwardLinks
  <2>1. CASE c = n
    <3>1. k = l
      BY <2>1, <1>5, Guards
    <3>2. d.next[n] = q /\ d.prev[q] = n
      BY <1>2, <1>3, <1>4
    <3> QED BY <3>1, <3>2, <2>1, <1>5
  <2>2. CASE c # n
    <3>1. c \in InList(h, k) \cup {HeadGuard(k)} /\ c \in Cells
      BY <2>2, <1>5, Guards DEF InList
    <3>2. /\ h.next[c] \in InList(h, k) \cup {TailGuard(k)} /\ h.prev[h.next[c]] = c
      BY <3>1 DEF Good, ForwardLinks
    <3>3. h.next[c] \in Cells /\ h.next[c] # n
      BY <3>2, <1>5, Guards DEF InList
    <3>4. CASE c = p
      <4>1. k = l
        BY <3>4, <3>1, Guards DEF InList
      <4>2. d.next[p] = n /\ d.prev[n] = p
        BY <1>2, <1>3, <1>4
      <4> QED BY <4>1, <4>2, <3>4, <1>5
    <3>5. CASE c # p
      <4>1. d.next[c] = h.next[c]
        BY <3>5, <3>1, <2>2, <1>3, <1>4
      <4>2. h.next[c] # q
        BY <3>5, <3>2, <1>1
      <4>3. d.prev[h.next[c]] = h.prev[h.next[c]]
        BY <4>2, <3>3, <1>3, <1>4
      <4> QED BY <4>1, <4>3, <3>2, <1>5
    <3> QED BY <3>4, <3>5
  <2> QED BY <2>1, <2>2
<1>7. BackwardLinks(d)
  <2> SUFFICES ASSUME NEW k \in Lists, NEW c \in InList(d, k) \cup {TailGuard(k)}
               PROVE  /\ d.prev[c] \in InList(d, k) \cup {HeadGuard(k)}
                      /\ d.next[d.prev[c]] = c
    BY DEF BackwardLinks
  <2>1. CASE c = n
    <3>1. k = l
      BY <2>1, <1>5, Guards
    <3>2. d.prev[n] = p /\ d.next[p] = n
      BY <1>2, <1>3, <1>4
    <3> QED BY <3>1, <3>2, <2>1, <1>5
  <2>2. CASE c # n
    <3>1. c \in InList(h, k) \cup {TailGuard(k)} /\ c \in Cells
      BY <2>2, <1>5, Guards DEF InList
    <3>2. /\ h.prev[c] \in InList(h, k) \cup {HeadGuard(k)} /\ h.next[h.prev[c]] = c
      BY <3>1 DEF Good, BackwardLinks
    <3>3. h.prev[c] \in Cells /\ h.prev[c] # n
      BY <3>2, <1>5, Guards DEF InList
    <3>4. CASE c = q
      <4>1. k = l
        BY <3>4, <3>1, Guards DEF InList
      <4>2. d.prev[q] = n /\ d.next[n] = q
        BY <1>2, <1>3, <1>4
      <4> QED BY <4>1, <4>2, <3>4, <1>5
    <3>5. CASE c # q
      <4>1. d.prev[c] = h.prev[c]
        BY <3>5, <3>1, <2>2, <1>3, <1>4
      <4>2. h.prev[c] # p
        BY <3>5, <3>2
      <4>3. d.next[h.prev[c]] = h.next[h.prev[c]]
        BY <4>2, <3>3, <1>3, <1>4
      <4> QED BY <4>1, <4>3, <3>2, <1>5
    <3> QED BY <3>4, <3>5
  <2> QED BY <2>1, <2>2
<1>8. FreeNodesAreClear(d)
  <2> SUFFICES ASSUME NEW m \in Nodes, d.parent[m] = NULL
               PROVE  d.next[m] = NULL /\ d.prev[m] = NULL
    BY DEF FreeNodesAreClear
  <2>1. m # n /\ h.parent[m] = NULL
    BY <1>3, <1>4, Guards
  <2>2. m # p /\ m # q
    BY <2>1, Guards DEF InList
  <2>3. h.next[m] = NULL /\ h.prev[m] = NULL
    BY <2>1 DEF Good, FreeNodesAreClear
  <2> QED BY <2>1, <2>2, <2>3, <1>3, <1>4, Guards
<1>9. SizesAgree(d)
  <2>1. \A k \in Lists : h.size[k] = Cardinality(InList(h, k))
    BY DEF Good, SizesAgree
  <2>2. Cardinality(InList(h, l) \cup {n}) = Cardinality(InList(h, l)) + 1
    BY <1>5, ListsAreFinite, FS_AddElement
  <2> QED BY <2>1, <2>2, <1>3, <1>4, <1>5 DEF SizesAgree
<1>10. d \in Heaps
  <2>1. d = [next |-> d.next, prev |-> d.prev, parent |-> d.parent, size |-> d.size]
    BY DEF Splice
  <2> HIDE DEF d
  <2> QED BY <2>1, <1>2, <1>3, <1>4 DEF Heaps
<1> QED BY <1>6, <1>7, <1>8, <1>9, <1>10 DEF Good

\* Where the four insertions splice: the neighbours they compute are adjacent.
LEMMA InsertionsGood ==
  ASSUME NEW h, Good(h), NEW n \in Nodes
  PROVE  /\ \A l \in Lists : Good(ToHead(h, n, l)) /\ Good(ToTail(h, n, l))
         /\ \A m \in Nodes : h.parent[m] # NULL /\ n # m =>
               Good(Before(h, n, m)) /\ Good(After(h, n, m))
<1> DEFINE d == Detached(h, n)
<1>1. Good(d) /\ d.parent[n] = NULL
  BY DetachedGood
<1>2. ASSUME NEW l \in Lists
      PROVE  Good(ToHead(h, n, l)) /\ Good(ToTail(h, n, l))
  <2>1. /\ d.next[HeadGuard(l)] \in InList(d, l) \cup {TailGuard(l)}
        /\ d.prev[TailGuard(l)] \in InList(d, l) \cup {HeadGuard(l)}
        /\ d.next[d.prev[TailGuard(l)]] = TailGuard(l)
    BY <1>1 DEF Good, ForwardLinks, BackwardLinks
  <2> QED BY <2>1, <1>1, SpliceGood DEF ToHead, ToTail
<1>3. ASSUME NEW m \in Nodes, h.parent[m] # NULL, n # m
      PROVE  Good(Before(h, n, m)) /\ Good(After(h, n, m))
  <2> DEFINE l == d.parent[m]
  <2>1. d.parent[m] # NULL
    BY <1>3, DetachedGood
  <2>2. /\ l \in Lists /\ m \in InList(d, l)
        /\ NextOf(d, m) = d.next[m] /\ PrevOf(d, m) = d.prev[m]
    BY <2>1, <1>1, MemberLinks DEF InList
  <2>3. /\ d.next[m] \in InList(d, l) \cup {TailGuard(l)}
        /\ d.prev[m] \in InList(d, l) \cup {HeadGuard(l)}
        /\ d.next[d.prev[m]] = m
    BY <2>2, <1>1 DEF Good, ForwardLinks, BackwardLinks
  <2> QED BY <2>2, <2>3, <1>1, SpliceGood DEF Before, After
<1> QED BY <1>2, <1>3

\* The heap of empty lists is good.
LEMMA EmptyGood == Good(EmptyHeap)
<1> DEFINE e == EmptyHeap
<1>1. \A l \in Lists : /\ (CHOOSE k \in Lists : HeadGuard(l) = HeadGuard(k)) = l
                       /\ (CHOOSE k \in Lists : TailGuard(l) = TailGuard(k)) = l
                       /\ HeadGuard(l) \in HeadGuards /\ TailGuard(l) \in TailGuards
                       /\ HeadGuard(l) \notin TailGuards /\ TailGuard(l) \notin HeadGuards
  BY Guards DEF HeadGuards, TailGuards
<1>2. \A l \in Lists : /\ e.next[HeadGuard(l)] = TailGuard(l)
                       /\ e.prev[TailGuard(l)] = HeadGuard(l)
                       /\ InList(e, l) = {}
  BY <1>1, Guards DEF EmptyHeap, InList
<1>3. ForwardLinks(e) /\ BackwardLinks(e)
  BY <1>2 DEF ForwardLinks, BackwardLinks
<1>4. FreeNodesAreClear(e)
  BY ListAssumption, Guards DEF EmptyHeap, FreeNodesAreClear, HeadGuards, TailGuards
<1>5. SizesAgree(e)
  BY <1>2, FS_EmptySet DEF EmptyHeap, SizesAgree
<1>6. e \in Heaps
  <2>1. \A c \in Cells : e.next[c] \in Cells \cup {NULL} /\ e.prev[c] \in Cells \cup {NULL}
    BY <1>1, Guards DEF EmptyHeap, HeadGuards, TailGuards
  <2> QED BY <2>1, Guards DEF EmptyHeap, Heaps
<1> QED BY <1>3, <1>4, <1>5, <1>6 DEF Good

\* The inductive invariant.
Inv == Good(heap)

\* Every reachable heap is good, whatever is inserted, moved between lists or
\* removed and in whatever order.
THEOREM Goodness == Spec => []Inv
<1>1. Init => Inv
  BY EmptyGood DEF Init, Inv
<1>2. Inv /\ [Next]_vars => Inv'
  <2> SUFFICES ASSUME Good(heap), [Next]_vars PROVE Good(heap')
    BY DEF Inv
  <2>1. CASE UNCHANGED vars
    BY <2>1 DEF vars
  <2>2. ASSUME NEW n \in Nodes, NEW l \in Lists, InsertToHead(n, l) \/ InsertToTail(n, l)
        PROVE  Good(heap')
    BY <2>2, InsertionsGood DEF InsertToHead, InsertToTail
  <2>3. ASSUME NEW n \in Nodes, NEW m \in Nodes, InsertBefore(n, m) \/ InsertAfter(n, m)
        PROVE  Good(heap')
    BY <2>3, InsertionsGood DEF InsertBefore, InsertAfter
  <2>4. ASSUME NEW n \in Nodes, RemoveFromList(n)
        PROVE  Good(heap')
    BY <2>4, UnlinkGood DEF RemoveFromList
  <2> QED BY <2>1, <2>2, <2>3, <2>4 DEF Next
<1> QED BY <1>1, <1>2, PTL DEF Spec

\* The fields always hold cells, lists or nullptr, and size_ a natural number:
\* no removal takes it below zero.
THEOREM TypeCorrect == Spec => []TypeOK
<1>1. Inv => TypeOK
  BY DEF Inv, Good, TypeOK
<1> QED BY <1>1, Goodness, PTL

\* Links and back links agree, and removed nodes keep no stale link.
THEOREM AlwaysWellLinked == Spec => []WellLinked
<1>1. Inv => WellLinked
  BY DEF Inv, Good, WellLinked
<1> QED BY <1>1, Goodness, PTL

\* size() is the number of members.
THEOREM SizesAreRight == Spec => []SizeCounts
<1>1. Inv => SizeCounts
  BY DEF Inv, Good, SizeCounts
<1> QED BY <1>1, Goodness, PTL

(***************************************************************************)
(* What a walk reads.                                                      *)
(***************************************************************************)
\* A set of numbers that has 0 and with each number the next one has them all.
LEMMA AllNumbers ==
  ASSUME NEW T, 0 \in T, \A n \in Nat : n \in T => n + 1 \in T
  PROVE  Nat \subseteq T
<1> SUFFICES ASSUME Nat \ T # {} PROVE FALSE
  OBVIOUS
<1> DEFINE R == OpToRel(<, Nat)
<1>1. PICK x \in Nat \ T : \A y \in Nat \ T : ~(<<y, x>> \in R)
  <2>1. IsWellFoundedOn(R, Nat)
    BY NatLessThanWellFounded
  <2> HIDE DEF R
  <2> QED BY <2>1, WFMin
<1>2. ASSUME NEW y \in Nat \ T PROVE ~(y < x)
  BY <1>1, Zenon DEF OpToRel
<1>3. x # 0
  OBVIOUS
<1>4. x - 1 \in Nat /\ x - 1 < x /\ (x - 1) + 1 = x
  BY <1>3
<1>5. x - 1 \in T
  BY <1>2, <1>4
<1> QED BY <1>4, <1>5

\* The i-th cell on the way from one guard to the other by way of the nodes s.
Cell(from, s, to, i) == IF i = 0 THEN from ELSE IF i <= Len(s) THEN s[i] ELSE to

Distinct(s) == \A i, j \in 1 .. Len(s) : s[i] = s[j] => i = j

\* The cells of a way are different.
LEMMA CellFacts ==
  ASSUME NEW s \in Seq(Nodes), Distinct(s), NEW from, from \notin Nodes,
         NEW to, to \notin Nodes, from # to
  PROVE  /\ Len(s) \in Nat
         /\ Cell(from, s, to, 0) = from /\ Cell(from, s, to, Len(s) + 1) = to
         /\ \A i \in 1 .. Len(s) : Cell(from, s, to, i) = s[i] /\ s[i] \in Nodes
         /\ \A i, j \in 0 .. Len(s) + 1 : Cell(from, s, to, i) = Cell(from, s, to, j) => i = j
<1>1. Len(s) \in Nat /\ \A i \in 1 .. Len(s) : s[i] \in Nodes
  OBVIOUS
<1>2. Cell(from, s, to, 0) = from /\ Cell(from, s, to, Len(s) + 1) = to
  BY <1>1 DEF Cell
<1>3. \A i \in 1 .. Len(s) : Cell(from, s, to, i) = s[i]
  BY <1>1 DEF Cell
<1>4. ASSUME NEW i \in 0 .. Len(s) + 1, NEW j \in 0 .. Len(s) + 1,
             Cell(from, s, to, i) = Cell(from, s, to, j)
      PROVE  i = j
  <2>1. i = 0 \/ i = Len(s) + 1 \/ i \in 1 .. Len(s)
    BY <1>1
  <2>2. j = 0 \/ j = Len(s) + 1 \/ j \in 1 .. Len(s)
    BY <1>1
  <2> QED BY <1>1, <1>2, <1>3, <1>4, <2>1, <2>2 DEF Distinct
<1> QED BY <1>1, <1>2, <1>3, <1>4

StepsAlong(f, from, to, step) ==
  f = [i \in 0 .. Cardinality(Nodes) |->
         IF i = 0 THEN from ELSE IF f[i - 1] = to THEN to ELSE step[f[i - 1]]]

\* A walk along a way reads its nodes.
LEMMA WalkIs ==
  ASSUME NEW s \in Seq(Nodes), Distinct(s), NEW from, from \notin Nodes,
         NEW to, to \notin Nodes, from # to, NEW step, Len(s) <= Cardinality(Nodes),
         \A i \in 0 .. Len(s) : step[Cell(from, s, to, i)] = Cell(from, s, to, i + 1)
  PROVE  Walk(from, to, step) = s
<1> DEFINE N == Cardinality(Nodes)
           c(i) == Cell(from, s, to, i)
           at == CHOOSE f : StepsAlong(f, from, to, step)
<1>1. N \in Nat
  BY ListAssumption, FS_CardinalityType
<1>2. /\ Len(s) \in Nat /\ c(0) = from /\ \A i \in 1 .. Len(s) : c(i) = s[i] /\ s[i] \in Nodes
      /\ \A i \in Nat : i > Len(s) => c(i) = to
  BY CellFacts DEF Cell
<1>3. ASSUME NEW i \in 1 .. N
      PROVE  c(i) = IF c(i - 1) = to THEN to ELSE step[c(i - 1)]
  <2>1. CASE i <= Len(s) + 1
    <3>1. i - 1 \in 0 .. Len(s) /\ (i - 1) + 1 = i
      BY <1>1, <1>2, <2>1
    <3>2. c(i - 1) # to
      <4>1. i - 1 = 0 \/ i - 1 \in 1 .. Len(s)
        BY <1>1, <1>2, <3>1
      <4> QED BY <1>2, <4>1
    <3>3. step[c(i - 1)] = c(i)
      BY <3>1
    <3> QED BY <3>2, <3>3
  <2>2. CASE i > Len(s) + 1
    <3>1. i - 1 \in Nat /\ i - 1 > Len(s) /\ i \in Nat /\ i > Len(s)
      BY <1>1, <1>2, <2>2
    <3> QED BY <1>2, <3>1
  <2> QED BY <1>1, <1>2, <2>1, <2>2
<1>4. \E f : StepsAlong(f, from, to, step)
  <2> DEFINE f == [i \in 0 .. N |-> c(i)]
  <2>1. ASSUME NEW i \in 0 .. N
        PROVE  f[i] = IF i = 0 THEN from ELSE IF f[i - 1] = to THEN to ELSE step[f[i - 1]]
    <3>1. CASE i = 0
      BY <1>1, <1>2, <3>1
    <3>2. CASE i # 0
      <4>1. i \in 1 .. N /\ i - 1 \in 0 .. N
        BY <1>1, <3>2
      <4>2. f[i - 1] = c(i - 1) /\ f[i] = c(i)
        BY <4>1
      <4> HIDE DEF f, c
      <4> QED BY <1>3, <3>2, <4>1, <4>2
    <3> QED BY <3>1, <3>2
  <2>2. f = [i \in 0 .. N |->
               IF i = 0 THEN from ELSE IF f[i - 1] = to THEN to ELSE step[f[i - 1]]]
    <3> DEFINE h == [i \in 0 .. N |->
                       IF i = 0 THEN from ELSE IF f[i - 1] = to THEN to ELSE step[f[i - 1]]]
    <3>1. \A i \in 0 .. N : f[i] = h[i]
      BY <2>1
    <3>2. f = [i \in 0 .. N |-> f[i]] /\ h = [i \in 0 .. N |-> h[i]]
      OBVIOUS
    <3> HIDE DEF f, h
    <3>3. f = h
      BY <3>1, <3>2
    <3> QED BY <3>3 DEF h
  <2> HIDE DEF f
  <2> QED BY <2>2 DEF StepsAlong
<1>5. StepsAlong(at, from, to, step)
  BY <1>4, Zenon
<1> HIDE DEF at, c
<1>6. ASSUME NEW i \in 0 .. N
      PROVE  at[i] = IF i = 0 THEN from ELSE IF at[i - 1] = to THEN to ELSE step[at[i - 1]]
  BY <1>5, Zenon DEF StepsAlong
<1>7. \A i \in Nat : i <= N => at[i] = c(i)
  <2> DEFINE T == {i \in Nat : i <= N => at[i] = c(i)}
  <2>1. 0 \in T
    BY <1>1, <1>2, <1>6
  <2>2. ASSUME NEW i \in Nat, i \in T PROVE i + 1 \in T
    <3> SUFFICES ASSUME i + 1 <= N PROVE at[i + 1] = c(i + 1)
      OBVIOUS
    <3>1. i + 1 \in 1 .. N /\ i + 1 \in 0 .. N /\ (i + 1) - 1 = i /\ i + 1 # 0 /\ i <= N
      BY <1>1
    <3>2. at[i] = c(i)
      BY <2>2, <3>1
    <3>3. at[i + 1] = IF at[i] = to THEN to ELSE step[at[i]]
      BY <1>6, <3>1
    <3>4. c(i + 1) = IF c(i) = to THEN to ELSE step[c(i)]
      BY <1>3, <3>1
    <3> QED BY <3>2, <3>3, <3>4
  <2> HIDE DEF T
  <2>3. Nat \subseteq T
    BY <2>1, <2>2, AllNumbers
  <2> QED BY <2>3 DEF T
<1>8. Walk(from, to, step) = [i \in {j \in 1 .. N : at[j] \in Nodes} |-> at[i]]
  BY Zenon DEF Walk, at, StepsAlong
<1>9. {j \in 1 .. N : at[j] \in Nodes} = 1 .. Len(s)
  <2>1. ASSUME NEW j \in 1 .. N PROVE at[j] \in Nodes <=> j <= Len(s)
    <3>1. at[j] = c(j) /\ j \in Nat
      BY <1>1, <1>7
    <3>2. j \in 1 .. Len(s) \/ j > Len(s)
      BY <1>1, <1>2
    <3> QED BY <1>2, <3>1, <3>2
  <2> QED BY <1>1, <1>2, <2>1
<1>10. \A i \in 1 .. Len(s) : at[i] = s[i]
  BY <1>1, <1>2, <1>7
<1>11. s = [i \in 1 .. Len(s) |-> s[i]]
  OBVIOUS
<1>12. Walk(from, to, step) = [i \in 1 .. Len(s) |-> at[i]]
  BY <1>8, <1>9
<1> QED BY <1>10, <1>11, <1>12

\* List l of the heap h is the sequence s: next_ leads from the head guard through the
\* members to the tail guard, and there is no other member.
Reads(h, l, s) ==
  /\ s \in Seq(Nodes) /\ Distinct(s)
  /\ \A n \in Nodes : h.parent[n] = l <=> \E i \in 1 .. Len(s) : s[i] = n
  /\ \A i \in 0 .. Len(s) : h.next[Cell(HeadGuard(l), s, TailGuard(l), i)]
                              = Cell(HeadGuard(l), s, TailGuard(l), i + 1)

\* Where the cells of a list are, and that prev_ leads back.
LEMMA ReadsFacts ==
  ASSUME NEW h, Good(h), NEW l \in Lists, NEW s, Reads(h, l, s)
  PROVE  /\ Len(s) \in Nat
         /\ \A i \in 1 .. Len(s) : Cell(HeadGuard(l), s, TailGuard(l), i) = s[i]
         /\ \A i \in 0 .. Len(s) :
              /\ Cell(HeadGuard(l), s, TailGuard(l), i) \in InList(h, l) \cup {HeadGuard(l)}
              /\ Cell(HeadGuard(l), s, TailGuard(l), i + 1) \in InList(h, l) \cup {TailGuard(l)}
              /\ h.prev[Cell(HeadGuard(l), s, TailGuard(l), i + 1)]
                   = Cell(HeadGuard(l), s, TailGuard(l), i)
<1> DEFINE c(i) == Cell(HeadGuard(l), s, TailGuard(l), i)
<1>1. s \in Seq(Nodes) /\ Distinct(s)
  BY DEF Reads
<1>2. /\ Len(s) \in Nat /\ c(0) = HeadGuard(l) /\ c(Len(s) + 1) = TailGuard(l)
      /\ \A i \in 1 .. Len(s) : c(i) = s[i] /\ s[i] \in Nodes
  BY <1>1, CellFacts, Guards
<1>3. \A i \in 1 .. Len(s) : c(i) \in InList(h, l)
  BY <1>2 DEF Reads, InList
<1> HIDE DEF c
<1>4. ASSUME NEW i \in 0 .. Len(s)
      PROVE  /\ c(i) \in InList(h, l) \cup {HeadGuard(l)}
             /\ c(i + 1) \in InList(h, l) \cup {TailGuard(l)}
  <2>1. (i = 0 \/ i \in 1 .. Len(s)) /\ (i + 1 = Len(s) + 1 \/ i + 1 \in 1 .. Len(s))
    BY <1>2
  <2> QED BY <1>2, <1>3, <2>1
<1>5. ASSUME NEW i \in 0 .. Len(s) PROVE h.prev[c(i + 1)] = c(i)
  <2>1. h.next[c(i)] = c(i + 1)
    BY DEF Reads, c
  <2>2. h.prev[h.next[c(i)]] = c(i)
    BY <1>4 DEF Good, ForwardLinks
  <2> QED BY <2>1, <2>2
<1> QED BY <1>2, <1>4, <1>5 DEF c

\* size_ is the length.
LEMMA ReadsSize ==
  ASSUME NEW h, Good(h), NEW l \in Lists, NEW s, Reads(h, l, s)
  PROVE  /\ Len(s) \in Nat /\ Len(s) = h.size[l] /\ Len(s) <= Cardinality(Nodes)
         /\ ToSet(s) = InList(h, l)
<1>1. /\ s \in Seq(Nodes) /\ Len(s) \in Nat /\ DOMAIN s = 1 .. Len(s)
      /\ \A i \in 1 .. Len(s) : s[i] \in Nodes
  BY DEF Reads
<1>2. ToSet(s) = InList(h, l)
  <2>1. \A n \in Nodes : h.parent[n] = l <=> \E i \in 1 .. Len(s) : s[i] = n
    BY DEF Reads
  <2>2. ToSet(s) = {s[i] : i \in 1 .. Len(s)}
    BY <1>1, Zenon DEF ToSet
  <2> QED BY <1>1, <2>1, <2>2 DEF InList
<1>3. s \in Bijection(1 .. Len(s), InList(h, l))
  <2>1. /\ s \in [1 .. Len(s) -> InList(h, l)]
        /\ \A n \in InList(h, l) : \E i \in 1 .. Len(s) : s[i] = n
    BY <1>1 DEF Reads, InList
  <2>2. \A i, j \in 1 .. Len(s) : s[i] = s[j] => i = j
    BY DEF Reads, Distinct
  <2>3. DOMAIN s = 1 .. Len(s)
    BY <1>1
  <2> QED BY <2>1, <2>2, <2>3 DEF Bijection, Injection, Surjection, IsInjective
<1>4. IsFiniteSet(1 .. Len(s)) /\ Cardinality(1 .. Len(s)) = Len(s)
  <2>1. 1 \in Int /\ Len(s) \in Int
    BY <1>1
  <2>2. Cardinality(1 .. Len(s)) = IF 1 > Len(s) THEN 0 ELSE Len(s) - 1 + 1
    BY <2>1, FS_Interval
  <2> QED BY <1>1, <2>1, <2>2, FS_Interval
<1>5. Cardinality(InList(h, l)) = Len(s)
  BY <1>3, <1>4, FS_Bijection DEF ExistsBijection
<1>6. InList(h, l) \in SUBSET Nodes /\ IsFiniteSet(Nodes)
  BY ListAssumption DEF InList
<1>7. Cardinality(InList(h, l)) <= Cardinality(Nodes)
  BY <1>6, FS_Subset
<1>8. h.size[l] = Cardinality(InList(h, l))
  BY DEF Good, SizesAgree
<1> QED BY <1>1, <1>2, <1>5, <1>7, <1>8

\* next() and prev() of the cells of a list are their links.
LEMMA StepsAreLinks ==
  ASSUME NEW h, Good(h), NEW l \in Lists
  PROVE  /\ \A c \in InList(h, l) \cup {HeadGuard(l)} : c \in Cells /\ NextOf(h, c) = h.next[c]
         /\ \A c \in InList(h, l) \cup {TailGuard(l)} : c \in Cells /\ PrevOf(h, c) = h.prev[c]
<1>1. \A c \in InList(h, l) \cup {HeadGuard(l)} : c \in Cells /\ h.next[c] # NULL
  BY Guards DEF Good, ForwardLinks, InList
<1>2. \A c \in InList(h, l) \cup {TailGuard(l)} : c \in Cells /\ h.prev[c] # NULL
  BY Guards DEF Good, BackwardLinks, InList
<1> QED BY <1>1, <1>2 DEF NextOf, PrevOf

\* A forward walk reads the sequence.
LEMMA ForwardIs ==
  ASSUME NEW h, Good(h), NEW l \in Lists, NEW s, Reads(h, l, s)
  PROVE  Forward(h, l) = s
<1> DEFINE step == [c \in Cells |-> NextOf(h, c)]
           c(i) == Cell(HeadGuard(l), s, TailGuard(l), i)
<1>1. s \in Seq(Nodes) /\ Distinct(s)
  BY DEF Reads
<1>2. ASSUME NEW i \in 0 .. Len(s) PROVE step[c(i)] = c(i + 1)
  <2>1. c(i) \in InList(h, l) \cup {HeadGuard(l)}
    BY ReadsFacts
  <2>2. h.next[c(i)] = c(i + 1)
    BY DEF Reads
  <2>3. c(i) \in Cells /\ NextOf(h, c(i)) = h.next[c(i)]
    BY <2>1, StepsAreLinks
  <2> HIDE DEF c
  <2> QED BY <2>2, <2>3
<1> HIDE DEF step
<1>3. Walk(HeadGuard(l), TailGuard(l), step) = s
  BY <1>1, <1>2, ReadsSize, Guards, WalkIs
<1> QED BY <1>3 DEF Forward, step

\* A backward walk reads it in the opposite order.
LEMMA BackwardIs ==
  ASSUME NEW h, Good(h), NEW l \in Lists, NEW s, Reads(h, l, s)
  PROVE  Backward(h, l) = Reverse(s)
<1> DEFINE step == [c \in Cells |-> PrevOf(h, c)]
           r == Reverse(s)
           c(i) == Cell(HeadGuard(l), s, TailGuard(l), i)
           b(i) == Cell(TailGuard(l), r, HeadGuard(l), i)
<1>1. s \in Seq(Nodes) /\ Distinct(s) /\ Len(s) \in Nat
  BY DEF Reads
<1>2. /\ r = [i \in 1 .. Len(s) |-> s[(Len(s) - i) + 1]]
      /\ \A i \in 1 .. Len(s) : (Len(s) - i) + 1 \in 1 .. Len(s)
  BY <1>1 DEF Reverse
<1>3. r \in Seq(Nodes) /\ Len(r) = Len(s)
  <2>1. r \in [1 .. Len(s) -> Nodes]
    BY <1>1, <1>2
  <2> HIDE DEF r
  <2> QED BY <1>1, <2>1
<1>4. \A i \in 1 .. Len(s) : r[i] = s[(Len(s) - i) + 1]
  BY <1>2
<1> HIDE DEF r
<1>5. Distinct(r)
  BY <1>1, <1>2, <1>3, <1>4 DEF Distinct
<1>6. ASSUME NEW i \in 0 .. Len(s) + 1 PROVE b(i) = c((Len(s) - i) + 1)
  <2>1. i = 0 \/ i = Len(s) + 1 \/ i \in 1 .. Len(s)
    BY <1>1
  <2> QED BY <1>1, <1>2, <1>3, <1>4, <2>1 DEF Cell
<1>7. ASSUME NEW i \in 0 .. Len(r) PROVE step[b(i)] = b(i + 1)
  <2> DEFINE j == Len(s) - i
  <2>1. j \in 0 .. Len(s) /\ (Len(s) - i) + 1 = j + 1 /\ (Len(s) - (i + 1)) + 1 = j
        /\ i \in 0 .. Len(s) + 1 /\ i + 1 \in 0 .. Len(s) + 1
    BY <1>1, <1>3
  <2>2. b(i) = c(j + 1) /\ b(i + 1) = c(j)
    BY <1>6, <2>1
  <2> HIDE DEF j
  <2>3. c(j + 1) \in InList(h, l) \cup {TailGuard(l)} /\ h.prev[c(j + 1)] = c(j)
    BY <2>1, ReadsFacts
  <2>4. c(j + 1) \in Cells /\ PrevOf(h, c(j + 1)) = h.prev[c(j + 1)]
    BY <2>3, StepsAreLinks
  <2> HIDE DEF b, c
  <2> QED BY <2>2, <2>3, <2>4
<1> HIDE DEF step
<1>8. Walk(TailGuard(l), HeadGuard(l), step) = r
  BY <1>3, <1>5, <1>7, ReadsSize, Guards, WalkIs
<1> QED BY <1>8 DEF Backward, step, r

(***************************************************************************)
(* What the two changes of links do to the sequences.                      *)
(***************************************************************************)
\* A sequence without its k-th element.
LEMMA RemoveAtIs ==
  ASSUME NEW S, NEW s \in Seq(S), NEW k \in 1 .. Len(s)
  PROVE  /\ RemoveAt(s, k) \in Seq(S) /\ Len(RemoveAt(s, k)) = Len(s) - 1
         /\ \A i \in 1 .. Len(s) - 1 : RemoveAt(s, k)[i] = IF i < k THEN s[i] ELSE s[i + 1]
<1> DEFINE a == SubSeq(s, 1, k - 1)
           b == SubSeq(s, k + 1, Len(s))
<1>1. Len(s) \in Nat /\ \A i \in 1 .. Len(s) : s[i] \in S
  OBVIOUS
<1>2. a \in Seq(S) /\ Len(a) = k - 1 /\ \A i \in 1 .. k - 1 : a[i] = s[i]
  BY <1>1
<1>3. b \in Seq(S) /\ Len(b) = Len(s) - k /\ \A i \in 1 .. Len(s) - k : b[i] = s[k + i]
  BY <1>1
<1>4. RemoveAt(s, k) = a \o b
  BY DEF RemoveAt
<1> HIDE DEF a, b
<1>5. /\ a \o b \in Seq(S) /\ Len(a \o b) = Len(s) - 1
      /\ \A i \in 1 .. Len(s) - 1 :
           (a \o b)[i] = IF i <= k - 1 THEN a[i] ELSE b[i - (k - 1)]
  <2>1. Len(a) + Len(b) = Len(s) - 1
    BY <1>1, <1>2, <1>3
  <2>2. /\ a \o b \in Seq(S) /\ Len(a \o b) = Len(a) + Len(b)
        /\ \A i \in 1 .. Len(a) + Len(b) :
             (a \o b)[i] = IF i <= Len(a) THEN a[i] ELSE b[i - Len(a)]
    BY <1>2, <1>3, ConcatProperties
  <2> QED BY <1>2, <2>1, <2>2
<1>6. ASSUME NEW i \in 1 .. Len(s) - 1
      PROVE  (a \o b)[i] = IF i < k THEN s[i] ELSE s[i + 1]
  <2>1. CASE i < k
    BY <1>1, <1>2, <1>5, <2>1
  <2>2. CASE ~ i < k
    <3>1. i - (k - 1) \in 1 .. Len(s) - k /\ k + (i - (k - 1)) = i + 1 /\ ~ i <= k - 1
      BY <1>1, <2>2
    <3> QED BY <1>3, <1>5, <2>2, <3>1
  <2> QED BY <2>1, <2>2
<1> QED BY <1>4, <1>5, <1>6

\* A sequence with e at place k.
LEMMA InsertAtIs ==
  ASSUME NEW S, NEW s \in Seq(S), NEW k \in 1 .. Len(s) + 1, NEW e \in S
  PROVE  /\ InsertAt(s, k, e) \in Seq(S) /\ Len(InsertAt(s, k, e)) = Len(s) + 1
         /\ \A i \in 1 .. Len(s) + 1 :
              InsertAt(s, k, e)[i] = IF i < k THEN s[i] ELSE IF i = k THEN e ELSE s[i - 1]
<1> DEFINE a == SubSeq(s, 1, k - 1)
           b == SubSeq(s, k, Len(s))
           ae == a \o <<e>>
<1>1. Len(s) \in Nat /\ \A i \in 1 .. Len(s) : s[i] \in S
  OBVIOUS
<1>2. a \in Seq(S) /\ Len(a) = k - 1 /\ \A i \in 1 .. k - 1 : a[i] = s[i]
  BY <1>1
<1>3. b \in Seq(S) /\ Len(b) = Len(s) - (k - 1) /\ \A i \in 1 .. Len(b) : b[i] = s[(k - 1) + i]
  BY <1>1
<1>4. InsertAt(s, k, e) = ae \o b
  BY DEF InsertAt
<1> HIDE DEF a, b
<1>5. ae \in Seq(S) /\ Len(ae) = k /\ \A i \in 1 .. k : ae[i] = IF i = k THEN e ELSE a[i]
  BY <1>2
<1> HIDE DEF ae
<1>6. /\ ae \o b \in Seq(S) /\ Len(ae \o b) = Len(s) + 1
      /\ \A i \in 1 .. Len(s) + 1 : (ae \o b)[i] = IF i <= k THEN ae[i] ELSE b[i - k]
  BY <1>1, <1>3, <1>5
<1>7. ASSUME NEW i \in 1 .. Len(s) + 1
      PROVE  (ae \o b)[i] = IF i < k THEN s[i] ELSE IF i = k THEN e ELSE s[i - 1]
  <2>1. CASE i <= k
    BY <1>1, <1>2, <1>5, <1>6, <2>1
  <2>2. CASE ~ i <= k
    <3>1. i - k \in 1 .. Len(b) /\ (k - 1) + (i - k) = i - 1 /\ ~ i < k /\ i # k
      BY <1>1, <1>3, <2>2
    <3> QED BY <1>3, <1>6, <2>2, <3>1
  <2> QED BY <2>1, <2>2
<1> QED BY <1>4, <1>6, <1>7

\* removeFromList takes the k-th element out of its list.
LEMMA UnlinkReads ==
  ASSUME NEW h, Good(h), NEW l \in Lists, NEW s, Reads(h, l, s), NEW k \in 1 .. Len(s)
  PROVE  Reads(Unlink(h, s[k]), l, RemoveAt(s, k))
<1> DEFINE n == s[k]
           d == Unlink(h, n)
           t == RemoveAt(s, k)
           c(i) == Cell(HeadGuard(l), s, TailGuard(l), i)
           b(i) == Cell(HeadGuard(l), t, TailGuard(l), i)
<1>1. s \in Seq(Nodes) /\ Distinct(s) /\ Len(s) \in Nat
  BY DEF Reads
<1>2. /\ t \in Seq(Nodes) /\ Len(t) = Len(s) - 1
      /\ \A i \in 1 .. Len(s) - 1 : t[i] = IF i < k THEN s[i] ELSE s[i + 1]
  BY <1>1, RemoveAtIs
<1>3. n \in Nodes /\ h.parent[n] = l
  <2>1. n \in Nodes
    BY <1>1
  <2> QED BY <2>1 DEF Reads
<1> HIDE DEF t
<1>4. h.parent[n] # NULL /\ NextOf(h, n) = h.next[n] /\ PrevOf(h, n) = h.prev[n]
  BY <1>3, Guards, MemberLinks
<1>5. c(k) = n /\ h.next[n] = c(k + 1) /\ h.prev[n] = c(k - 1)
  <2>1. c(k) = n
    BY ReadsFacts
  <2>2. k \in 0 .. Len(s) /\ k - 1 \in 0 .. Len(s) /\ (k - 1) + 1 = k
    BY <1>1
  <2>3. h.next[c(k)] = c(k + 1)
    BY <2>2 DEF Reads
  <2>4. h.prev[c((k - 1) + 1)] = c(k - 1)
    BY <2>2, ReadsFacts
  <2> HIDE DEF c, n
  <2> QED BY <2>1, <2>2, <2>3, <2>4
<1>6. /\ d.next = [h.next EXCEPT ![c(k - 1)] = c(k + 1), ![n] = NULL]
      /\ d.parent = [h.parent EXCEPT ![n] = NULL]
  BY <1>4, <1>5 DEF Unlink
<1>7. h.next \in [Cells -> Cells \cup {NULL}] /\ h.parent \in [Nodes -> Lists \cup {NULL}]
  BY DEF Good, Heaps
<1>8. /\ \A i \in 0 .. Len(s) : c(i) \in Cells /\ h.next[c(i)] = c(i + 1)
      /\ \A i, j \in 0 .. Len(s) + 1 : c(i) = c(j) => i = j
  <2>1. \A i \in 0 .. Len(s) : c(i) \in InList(h, l) \cup {HeadGuard(l)}
    BY ReadsFacts
  <2>2. \A i \in 0 .. Len(s) : c(i) \in Cells
    BY <2>1, Guards DEF InList
  <2>3. \A i, j \in 0 .. Len(s) + 1 : c(i) = c(j) => i = j
    BY <1>1, Guards, CellFacts
  <2> QED BY <2>2, <2>3 DEF Reads
<1>9. \A i \in 0 .. Len(s) : b(i) = IF i < k THEN c(i) ELSE c(i + 1)
  <2> SUFFICES ASSUME NEW i \in 0 .. Len(s) PROVE b(i) = IF i < k THEN c(i) ELSE c(i + 1)
    OBVIOUS
  <2>1. i = 0 \/ i = Len(s) \/ i \in 1 .. Len(s) - 1
    BY <1>1
  <2> QED BY <1>1, <1>2, <2>1 DEF Cell
<1> HIDE DEF b, c
<1>10. ASSUME NEW i \in 0 .. Len(t) PROVE d.next[b(i)] = b(i + 1)
  <2>1. i \in 0 .. Len(s) /\ i + 1 \in 0 .. Len(s) /\ i \in Nat
    BY <1>1, <1>2
  <2>2. CASE i < k - 1
    <3>1. b(i) = c(i) /\ b(i + 1) = c(i + 1)
      BY <1>9, <2>1, <2>2
    <3>2. c(i) # c(k - 1) /\ c(i) # c(k)
      BY <1>1, <1>8, <2>1, <2>2
    <3> QED BY <1>5, <1>6, <1>7, <1>8, <2>1, <3>1, <3>2
  <2>3. CASE i = k - 1
    <3>1. b(i) = c(k - 1) /\ b(i + 1) = c(k + 1)
      BY <1>9, <2>1, <2>3
    <3>2. c(k - 1) # c(k) /\ c(k - 1) \in Cells
      BY <1>1, <1>8, <2>1, <2>3
    <3> QED BY <1>5, <1>6, <1>7, <3>1, <3>2
  <2>4. CASE i > k - 1
    <3>1. b(i) = c(i + 1) /\ b(i + 1) = c((i + 1) + 1)
      BY <1>9, <2>1, <2>4
    <3>2. c(i + 1) # c(k - 1) /\ c(i + 1) # c(k)
      BY <1>1, <1>8, <2>1, <2>4
    <3> QED BY <1>5, <1>6, <1>7, <1>8, <2>1, <3>1, <3>2
  <2> QED BY <2>1, <2>2, <2>3, <2>4
<1>11. Distinct(t)
  <2> SUFFICES ASSUME NEW i \in 1 .. Len(t), NEW j \in 1 .. Len(t), t[i] = t[j] PROVE i = j
    BY DEF Distinct
  <2>1. i \in 1 .. Len(s) - 1 /\ j \in 1 .. Len(s) - 1
    BY <1>2
  <2> QED BY <1>1, <1>2, <2>1 DEF Distinct
<1>12. ASSUME NEW m \in Nodes
       PROVE  d.parent[m] = l <=> \E i \in 1 .. Len(t) : t[i] = m
  <2>1. h.parent[m] = l <=> \E i \in 1 .. Len(s) : s[i] = m
    BY DEF Reads
  <2>2. d.parent[m] = l <=> h.parent[m] = l /\ m # n
    BY <1>3, <1>6, <1>7, Guards
  <2>3. ASSUME NEW i \in 1 .. Len(s), s[i] = m, m # n
        PROVE  \E j \in 1 .. Len(t) : t[j] = m
    <3>1. CASE i < k
      <4>1. i \in 1 .. Len(t) /\ t[i] = s[i]
        BY <1>1, <1>2, <3>1
      <4> QED BY <2>3, <4>1
    <3>2. CASE i > k
      <4>1. i - 1 \in 1 .. Len(t) /\ ~ i - 1 < k /\ (i - 1) + 1 = i
        BY <1>1, <1>2, <3>2
      <4>2. t[i - 1] = s[i]
        BY <1>2, <4>1
      <4> QED BY <2>3, <4>1, <4>2
    <3> QED BY <1>1, <2>3, <3>1, <3>2
  <2>4. ASSUME NEW j \in 1 .. Len(t), t[j] = m
        PROVE  m # n /\ \E i \in 1 .. Len(s) : s[i] = m
    <3>1. j \in 1 .. Len(s) - 1
      BY <1>2
    <3> QED BY <1>1, <1>2, <2>4, <3>1 DEF Distinct
  <2> HIDE DEF d, n
  <2> QED BY <2>1, <2>2, <2>3, <2>4
<1> HIDE DEF d
<1>13. Reads(d, l, t)
  BY <1>2, <1>10, <1>11, <1>12 DEF Reads, b
<1> QED BY <1>13 DEF d, t

\* Other lists are as they were.
LEMMA UnlinkReadsOthers ==
  ASSUME NEW h, Good(h), NEW n \in Nodes, h.parent[n] # NULL, NEW l \in Lists, h.parent[n] # l,
         NEW s, Reads(h, l, s)
  PROVE  Reads(Unlink(h, n), l, s)
<1> DEFINE d == Unlink(h, n)
           k == h.parent[n]
           c(i) == Cell(HeadGuard(l), s, TailGuard(l), i)
<1>1. k \in Lists /\ NextOf(h, n) = h.next[n] /\ PrevOf(h, n) = h.prev[n] /\ n \in InList(h, k)
  BY MemberLinks DEF InList
<1>2. h.prev[n] \in InList(h, k) \cup {HeadGuard(k)}
  BY <1>1 DEF Good, BackwardLinks
<1>3. /\ d.next = [h.next EXCEPT ![h.prev[n]] = h.next[n], ![n] = NULL]
      /\ d.parent = [h.parent EXCEPT ![n] = NULL]
  BY <1>1 DEF Unlink
<1>4. h.next \in [Cells -> Cells \cup {NULL}] /\ h.parent \in [Nodes -> Lists \cup {NULL}]
  BY DEF Good, Heaps
<1>5. \A m \in Nodes : d.parent[m] = l <=> h.parent[m] = l
  BY <1>3, <1>4, Guards
<1>6. \A i \in 0 .. Len(s) : c(i) \in InList(h, l) \cup {HeadGuard(l)}
  BY ReadsFacts
<1>7. ASSUME NEW i \in 0 .. Len(s) PROVE d.next[c(i)] = c(i + 1)
  <2>1. c(i) # n /\ c(i) # h.prev[n] /\ c(i) \in Cells
    BY <1>1, <1>2, <1>6, Guards DEF InList
  <2>2. h.next[c(i)] = c(i + 1)
    BY DEF Reads
  <2> HIDE DEF c
  <2> QED BY <1>3, <1>4, <2>1, <2>2
<1> HIDE DEF d
<1>8. /\ s \in Seq(Nodes) /\ Distinct(s)
      /\ \A m \in Nodes : h.parent[m] = l <=> \E i \in 1 .. Len(s) : s[i] = m
  BY DEF Reads
<1>9. Reads(d, l, s)
  BY <1>5, <1>7, <1>8 DEF Reads
<1> QED BY <1>9 DEF d

\* A splice puts a node at place k.
LEMMA SpliceReads ==
  ASSUME NEW h, Good(h), NEW l \in Lists, NEW s, Reads(h, l, s), NEW k \in 1 .. Len(s) + 1,
         NEW n \in Nodes, h.parent[n] = NULL
  PROVE  Reads(Splice(h, n, Cell(HeadGuard(l), s, TailGuard(l), k - 1),
                            Cell(HeadGuard(l), s, TailGuard(l), k), l), l, InsertAt(s, k, n))
<1> DEFINE t == InsertAt(s, k, n)
           c(i) == Cell(HeadGuard(l), s, TailGuard(l), i)
           b(i) == Cell(HeadGuard(l), t, TailGuard(l), i)
           d == Splice(h, n, c(k - 1), c(k), l)
<1>1. s \in Seq(Nodes) /\ Distinct(s) /\ Len(s) \in Nat
  BY DEF Reads
<1>2. /\ t \in Seq(Nodes) /\ Len(t) = Len(s) + 1
      /\ \A i \in 1 .. Len(s) + 1 : t[i] = IF i < k THEN s[i] ELSE IF i = k THEN n ELSE s[i - 1]
  <2> HIDE DEF t
  <2>1. t = InsertAt(s, k, n)
    BY DEF t
  <2>2. t \in Seq(Nodes) /\ Len(t) = Len(s) + 1
    BY <1>1, <2>1, InsertAtIs
  <2>3. ASSUME NEW i \in 1 .. Len(s) + 1
        PROVE  t[i] = IF i < k THEN s[i] ELSE IF i = k THEN n ELSE s[i - 1]
    BY <1>1, <2>1, InsertAtIs
  <2> QED BY <2>2, <2>3
<1>3. \A i \in 1 .. Len(s) : s[i] \in Nodes /\ s[i] # n
  <2> SUFFICES ASSUME NEW i \in 1 .. Len(s) PROVE s[i] \in Nodes /\ s[i] # n
    OBVIOUS
  <2>1. s[i] \in Nodes
    BY <1>1
  <2>2. h.parent[s[i]] = l
    BY <2>1 DEF Reads
  <2> QED BY <2>1, <2>2, Guards
<1> HIDE DEF t
<1>4. /\ d.next = [h.next EXCEPT ![n] = c(k), ![c(k - 1)] = n]
      /\ d.parent = [h.parent EXCEPT ![n] = l]
  BY DEF Splice
<1>5. h.next \in [Cells -> Cells \cup {NULL}] /\ h.parent \in [Nodes -> Lists \cup {NULL}]
  BY DEF Good, Heaps
<1>6. /\ \A i \in 0 .. Len(s) : c(i) \in Cells /\ c(i) # n /\ h.next[c(i)] = c(i + 1)
      /\ \A i, j \in 0 .. Len(s) + 1 : c(i) = c(j) => i = j
  <2>1. \A i \in 0 .. Len(s) : c(i) \in InList(h, l) \cup {HeadGuard(l)}
    BY ReadsFacts
  <2>2. \A i \in 0 .. Len(s) : c(i) \in Cells /\ c(i) # n
    BY <2>1, Guards DEF InList
  <2>3. \A i, j \in 0 .. Len(s) + 1 : c(i) = c(j) => i = j
    BY <1>1, Guards, CellFacts
  <2> QED BY <2>2, <2>3 DEF Reads
<1>7. \A i \in 0 .. Len(s) + 2 : b(i) = IF i < k THEN c(i) ELSE IF i = k THEN n ELSE c(i - 1)
  <2> SUFFICES ASSUME NEW i \in 0 .. Len(s) + 2
               PROVE  b(i) = IF i < k THEN c(i) ELSE IF i = k THEN n ELSE c(i - 1)
    OBVIOUS
  <2>1. i = 0 \/ i = Len(s) + 2 \/ i \in 1 .. Len(s) + 1
    BY <1>1
  <2> QED BY <1>1, <1>2, <2>1 DEF Cell
<1> HIDE DEF b, c
<1>8. ASSUME NEW i \in 0 .. Len(t) PROVE d.next[b(i)] = b(i + 1)
  <2>1. i \in 0 .. Len(s) + 1 /\ i \in 0 .. Len(s) + 2 /\ i + 1 \in 0 .. Len(s) + 2 /\ i \in Nat
    BY <1>1, <1>2
  <2>2. CASE i < k - 1
    <3>1. b(i) = c(i) /\ b(i + 1) = c(i + 1) /\ i \in 0 .. Len(s) /\ k - 1 \in 0 .. Len(s)
      BY <1>1, <1>7, <2>1, <2>2
    <3>2. c(i) # c(k - 1)
      BY <1>1, <1>6, <2>2, <3>1
    <3> QED BY <1>4, <1>5, <1>6, <3>1, <3>2
  <2>3. CASE i = k - 1
    <3>1. b(i) = c(k - 1) /\ b(i + 1) = n /\ k - 1 \in 0 .. Len(s)
      BY <1>1, <1>7, <2>1, <2>3
    <3> QED BY <1>4, <1>5, <1>6, <3>1
  <2>4. CASE i = k
    <3>1. b(i) = n /\ b(i + 1) = c(k) /\ k - 1 \in 0 .. Len(s)
      BY <1>1, <1>7, <2>1, <2>4
    <3>2. c(k - 1) # n /\ n \in Cells
      BY <1>6, <3>1, Guards
    <3> QED BY <1>4, <1>5, <3>1, <3>2
  <2>5. CASE i > k
    <3>1. b(i) = c(i - 1) /\ b(i + 1) = c(i) /\ i - 1 \in 0 .. Len(s) /\ k - 1 \in 0 .. Len(s)
          /\ (i - 1) + 1 = i
      BY <1>1, <1>7, <2>1, <2>5
    <3>2. c(i - 1) # c(k - 1) /\ c(i - 1) # n
      BY <1>1, <1>6, <2>5, <3>1
    <3> QED BY <1>4, <1>5, <1>6, <3>1, <3>2
  <2> QED BY <2>1, <2>2, <2>3, <2>4, <2>5
<1>9. Distinct(t)
  <2> SUFFICES ASSUME NEW i \in 1 .. Len(t), NEW j \in 1 .. Len(t), t[i] = t[j] PROVE i = j
    BY DEF Distinct
  <2>1. i \in 1 .. Len(s) + 1 /\ j \in 1 .. Len(s) + 1
    BY <1>2
  <2>2. /\ i < k => i \in 1 .. Len(s)
        /\ i > k => i - 1 \in 1 .. Len(s)
        /\ j < k => j \in 1 .. Len(s)
        /\ j > k => j - 1 \in 1 .. Len(s)
    BY <1>1, <2>1
  <2>3. /\ i < k => t[i] = s[i]
        /\ i = k => t[i] = n
        /\ i > k => t[i] = s[i - 1]
        /\ j < k => t[j] = s[j]
        /\ j = k => t[j] = n
        /\ j > k => t[j] = s[j - 1]
    BY <1>1, <1>2, <2>1
  <2>4. \A a, b2 \in 1 .. Len(s) : s[a] = s[b2] => a = b2
    BY <1>1 DEF Distinct
  <2>5. CASE i = k
    <3>1. ~ j < k /\ ~ j > k
      BY <1>3, <2>2, <2>3, <2>5
    <3> QED BY <1>1, <2>1, <2>5, <3>1
  <2>6. CASE j = k
    <3>1. ~ i < k /\ ~ i > k
      BY <1>3, <2>2, <2>3, <2>6
    <3> QED BY <1>1, <2>1, <2>6, <3>1
  <2>7. CASE i < k
    <3>1. CASE j < k
      BY <2>2, <2>3, <2>4, <2>7, <3>1
    <3>2. CASE j > k
      <4>1. i = j - 1
        BY <2>2, <2>3, <2>4, <2>7, <3>2
      <4> QED BY <1>1, <2>1, <2>7, <3>2, <4>1
    <3> QED BY <1>1, <2>1, <2>6, <3>1, <3>2
  <2>8. CASE i > k
    <3>1. CASE j > k
      <4>1. i - 1 = j - 1
        BY <2>2, <2>3, <2>4, <2>8, <3>1
      <4> QED BY <1>1, <2>1, <4>1
    <3>2. CASE j < k
      <4>1. i - 1 = j
        BY <2>2, <2>3, <2>4, <2>8, <3>2
      <4> QED BY <1>1, <2>1, <2>8, <3>2, <4>1
    <3> QED BY <1>1, <2>1, <2>6, <3>1, <3>2
  <2> QED BY <1>1, <2>1, <2>5, <2>6, <2>7, <2>8
<1>10. ASSUME NEW m \in Nodes
       PROVE  d.parent[m] = l <=> \E i \in 1 .. Len(t) : t[i] = m
  <2>1. h.parent[m] = l <=> \E i \in 1 .. Len(s) : s[i] = m
    BY DEF Reads
  <2>2. d.parent[m] = l <=> h.parent[m] = l \/ m = n
    BY <1>4, <1>5
  <2>3. ASSUME NEW i \in 1 .. Len(s), s[i] = m
        PROVE  \E j \in 1 .. Len(t) : t[j] = m
    <3>1. CASE i < k
      <4>1. i \in 1 .. Len(s) + 1 /\ i \in 1 .. Len(t) /\ t[i] = s[i]
        BY <1>1, <1>2, <3>1
      <4> QED BY <2>3, <4>1
    <3>2. CASE ~ i < k
      <4>1. i + 1 \in 1 .. Len(s) + 1 /\ i + 1 > k /\ (i + 1) - 1 = i
        BY <1>1, <3>2
      <4>2. t[i + 1] = s[i] /\ i + 1 \in 1 .. Len(t)
        BY <1>2, <4>1
      <4> QED BY <2>3, <4>2
    <3> QED BY <3>1, <3>2
  <2>4. k \in 1 .. Len(t) /\ t[k] = n
    BY <1>1, <1>2
  <2>5. ASSUME NEW j \in 1 .. Len(t), t[j] = m, m # n
        PROVE  \E i \in 1 .. Len(s) : s[i] = m
    <3>1. j \in 1 .. Len(s) + 1
      BY <1>2
    <3>2. CASE j < k
      <4>1. j \in 1 .. Len(s) /\ t[j] = s[j]
        BY <1>1, <1>2, <3>1, <3>2
      <4> QED BY <2>5, <4>1
    <3>3. CASE j > k
      <4>1. j - 1 \in 1 .. Len(s) /\ t[j] = s[j - 1]
        BY <1>1, <1>2, <3>1, <3>3
      <4> QED BY <2>5, <4>1
    <3>4. j # k
      BY <2>4, <2>5
    <3> QED BY <3>1, <3>2, <3>3, <3>4
  <2> HIDE DEF d
  <2> QED BY <2>1, <2>2, <2>3, <2>4, <2>5
<1> HIDE DEF d
<1>11. Reads(d, l, t)
  BY <1>2, <1>8, <1>9, <1>10 DEF Reads, b
<1> QED BY <1>11 DEF d, t, c

\* Other lists are as they were.
LEMMA SpliceReadsOthers ==
  ASSUME NEW h, Good(h), NEW l \in Lists, NEW k \in Lists, k # l, NEW s, Reads(h, k, s),
         NEW n \in Nodes, h.parent[n] = NULL, NEW q,
         NEW p \in InList(h, l) \cup {HeadGuard(l)}
  PROVE  Reads(Splice(h, n, p, q, l), k, s)
<1> DEFINE d == Splice(h, n, p, q, l)
           c(i) == Cell(HeadGuard(k), s, TailGuard(k), i)
<1>1. /\ d.next = [h.next EXCEPT ![n] = q, ![p] = n]
      /\ d.parent = [h.parent EXCEPT ![n] = l]
  BY DEF Splice
<1>2. h.next \in [Cells -> Cells \cup {NULL}] /\ h.parent \in [Nodes -> Lists \cup {NULL}]
  BY DEF Good, Heaps
<1>3. \A m \in Nodes : d.parent[m] = k <=> h.parent[m] = k
  BY <1>1, <1>2, Guards
<1>4. \A i \in 0 .. Len(s) : c(i) \in InList(h, k) \cup {HeadGuard(k)}
  BY ReadsFacts
<1>5. ASSUME NEW i \in 0 .. Len(s) PROVE d.next[c(i)] = c(i + 1)
  <2>1. c(i) # n /\ c(i) # p /\ c(i) \in Cells
    BY <1>4, Guards DEF InList
  <2>2. h.next[c(i)] = c(i + 1)
    BY DEF Reads
  <2> HIDE DEF c
  <2> QED BY <1>1, <1>2, <2>1, <2>2
<1> HIDE DEF d
<1>6. /\ s \in Seq(Nodes) /\ Distinct(s)
      /\ \A m \in Nodes : h.parent[m] = k <=> \E i \in 1 .. Len(s) : s[i] = m
  BY DEF Reads
<1>7. Reads(d, k, s)
  BY <1>3, <1>5, <1>6 DEF Reads
<1> QED BY <1>7 DEF d

(***************************************************************************)
(* What the member functions do to the sequences.                          *)
(***************************************************************************)
\* The operators of ListSpec on sequences.
LEMMA SpecOperators ==
  /\ \A s, n : Abstract!Without(s, n) = IF n \in ToSet(s) THEN RemoveAt(s, Abstract!Position(s, n))
                                        ELSE s
  /\ \A s, k, n : Abstract!InsertAt(s, k, n) = InsertAt(s, k, n)
  /\ \A s : Abstract!ToSet(s) = ToSet(s)
BY DEF Abstract!Without, Abstract!InsertAt, Abstract!ToSet, Abstract!RemoveAt,
       InsertAt, ToSet, RemoveAt

\* The place of an element.
LEMMA PositionIs ==
  ASSUME NEW s \in Seq(Nodes), Distinct(s), NEW k \in 1 .. Len(s)
  PROVE  Abstract!Position(s, s[k]) = k
BY DEF Abstract!Position, Distinct

\* Detached takes the node out of the list it is in.
LEMMA DetachedReads ==
  ASSUME NEW h, Good(h), NEW n \in Nodes, NEW l \in Lists, NEW s, Reads(h, l, s)
  PROVE  Reads(Detached(h, n), l, Abstract!Without(s, n))
<1>1. /\ s \in Seq(Nodes) /\ Distinct(s) /\ Len(s) \in Nat
      /\ \A m \in Nodes : h.parent[m] = l <=> \E i \in 1 .. Len(s) : s[i] = m
  BY DEF Reads
<1>2. n \in ToSet(s) <=> h.parent[n] = l
  BY <1>1, ReadsSize DEF InList
<1>3. CASE h.parent[n] = l
  <2>1. PICK k \in 1 .. Len(s) : s[k] = n
    BY <1>1, <1>3
  <2>2. Abstract!Without(s, n) = RemoveAt(s, k)
    BY <1>1, <1>2, <1>3, <2>1, PositionIs, SpecOperators
  <2>3. Detached(h, n) = Unlink(h, s[k])
    BY <1>3, <2>1, Guards DEF Detached
  <2> QED BY <2>2, <2>3, UnlinkReads
<1>4. CASE h.parent[n] # l
  <2>1. Abstract!Without(s, n) = s
    BY <1>2, <1>4, SpecOperators
  <2>2. CASE h.parent[n] = NULL
    BY <2>1, <2>2 DEF Detached
  <2>3. CASE h.parent[n] # NULL
    BY <1>4, <2>1, <2>3, UnlinkReadsOthers DEF Detached
  <2> QED BY <2>2, <2>3
<1> QED BY <1>3, <1>4

\* Every list is a sequence.
Chained(h) == \A l \in Lists : Reads(h, l, Forward(h, l))

\* What ListSpec makes of list k when n is put at place i of list l.
PutInto(h, n, l, i, k) ==
  IF k = l THEN InsertAt(Abstract!Without(Forward(h, l), n), i, n)
  ELSE Abstract!Without(Forward(h, k), n)

\* The heap d is h without n; a splice between neighbours of d is a Put.
LEMMA SplicedReads ==
  ASSUME NEW h, Good(h), Chained(h), NEW n \in Nodes, NEW l \in Lists, NEW t, NEW c0, NEW c1, NEW i,
         t = Abstract!Without(Forward(h, l), n), i \in 1 .. Len(t) + 1,
         c0 = Cell(HeadGuard(l), t, TailGuard(l), i - 1),
         c1 = Cell(HeadGuard(l), t, TailGuard(l), i)
  PROVE  \A k \in Lists : Reads(Splice(Detached(h, n), n, c0, c1, l), k, PutInto(h, n, l, i, k))
<1> DEFINE d == Detached(h, n)
<1>1. Good(d) /\ d.parent[n] = NULL
  BY DetachedGood
<1>2. \A k \in Lists : Reads(d, k, Abstract!Without(Forward(h, k), n))
  BY DetachedReads DEF Chained
<1> HIDE DEF d
<1>3. Reads(Splice(d, n, c0, c1, l), l, InsertAt(t, i, n))
  BY <1>1, <1>2, SpliceReads
<1>4. c0 \in InList(d, l) \cup {HeadGuard(l)}
  <2>1. Reads(d, l, t)
    BY <1>2
  <2>2. i - 1 \in 0 .. Len(t)
    BY <2>1 DEF Reads
  <2> QED BY <1>1, <2>1, <2>2, ReadsFacts
<1>5. ASSUME NEW k \in Lists, k # l
      PROVE  Reads(Splice(d, n, c0, c1, l), k, Abstract!Without(Forward(h, k), n))
  BY <1>1, <1>2, <1>4, <1>5, SpliceReadsOthers
<1> QED BY <1>3, <1>5 DEF PutInto, d

\* The heads and tails of a list.
LEMMA EndsReads ==
  ASSUME NEW h, Good(h), Chained(h), NEW n \in Nodes, NEW l \in Lists, NEW t,
         t = Abstract!Without(Forward(h, l), n)
  PROVE  /\ Len(t) \in Nat
         /\ \A k \in Lists : Reads(ToHead(h, n, l), k, PutInto(h, n, l, 1, k))
         /\ \A k \in Lists : Reads(ToTail(h, n, l), k, PutInto(h, n, l, Len(t) + 1, k))
<1> DEFINE d == Detached(h, n)
           c(i) == Cell(HeadGuard(l), t, TailGuard(l), i)
<1>1. Good(d) /\ Reads(d, l, t)
  BY DetachedGood, DetachedReads DEF Chained
<1>2. /\ t \in Seq(Nodes) /\ Distinct(t) /\ Len(t) \in Nat
      /\ c(0) = HeadGuard(l) /\ c(Len(t) + 1) = TailGuard(l)
  <2>1. t \in Seq(Nodes) /\ Distinct(t) /\ Len(t) \in Nat
    BY <1>1 DEF Reads
  <2> QED BY <2>1, CellFacts, Guards
<1> HIDE DEF d
<1>3. d.next[HeadGuard(l)] = c(1)
  <2>1. 0 \in 0 .. Len(t) /\ 0 + 1 = 1
    BY <1>2
  <2>2. d.next[c(0)] = c(0 + 1)
    BY <1>1, <2>1 DEF Reads
  <2> QED BY <1>2, <2>1, <2>2
<1>4. d.prev[TailGuard(l)] = c(Len(t))
  <2>1. Len(t) \in 0 .. Len(t)
    BY <1>2
  <2>2. d.prev[c(Len(t) + 1)] = c(Len(t))
    BY <1>1, <2>1, ReadsFacts
  <2> QED BY <1>2, <2>2
<1>5. ToHead(h, n, l) = Splice(d, n, c(0), c(1), l)
  BY <1>2, <1>3 DEF ToHead, d
<1>6. ToTail(h, n, l) = Splice(d, n, c(Len(t)), c(Len(t) + 1), l)
  BY <1>2, <1>4 DEF ToTail, d
<1>7. \A k \in Lists : Reads(ToHead(h, n, l), k, PutInto(h, n, l, 1, k))
  <2>1. 1 \in 1 .. Len(t) + 1 /\ 1 - 1 = 0
    BY <1>2
  <2> QED BY <1>5, <2>1, SplicedReads DEF d
<1>8. \A k \in Lists : Reads(ToTail(h, n, l), k, PutInto(h, n, l, Len(t) + 1, k))
  <2>1. Len(t) + 1 \in 1 .. Len(t) + 1 /\ (Len(t) + 1) - 1 = Len(t)
    BY <1>2
  <2> QED BY <1>6, <2>1, SplicedReads DEF d
<1> QED BY <1>2, <1>7, <1>8

\* Next to another node.
LEMMA BesideReads ==
  ASSUME NEW h, Good(h), Chained(h), NEW n \in Nodes, NEW m \in Nodes, n # m, h.parent[m] # NULL,
         NEW l, l = h.parent[m], NEW t, t = Abstract!Without(Forward(h, l), n)
  PROVE  /\ l \in Lists /\ m \in ToSet(Forward(h, l))
         /\ Abstract!Position(t, m) \in 1 .. Len(t) /\ Len(t) \in Nat
         /\ \A k \in Lists : Reads(Before(h, n, m), k, PutInto(h, n, l, Abstract!Position(t, m), k))
         /\ \A k \in Lists :
              Reads(After(h, n, m), k, PutInto(h, n, l, Abstract!Position(t, m) + 1, k))
<1> DEFINE d == Detached(h, n)
           c(i) == Cell(HeadGuard(l), t, TailGuard(l), i)
           p == Abstract!Position(t, m)
<1>1. l \in Lists
  BY MemberLinks
<1>2. m \in ToSet(Forward(h, l))
  BY <1>1, ReadsSize DEF Chained, InList
<1>3. Good(d) /\ Reads(d, l, t) /\ d.parent[m] = l
  BY <1>1, DetachedGood, DetachedReads DEF Chained
<1> HIDE DEF d
<1>4. t \in Seq(Nodes) /\ Distinct(t) /\ Len(t) \in Nat /\ \E i \in 1 .. Len(t) : t[i] = m
  BY <1>3 DEF Reads
<1>5. p \in 1 .. Len(t) /\ t[p] = m
  <2>1. PICK i \in 1 .. Len(t) : t[i] = m
    BY <1>4
  <2>2. p = i
    BY <1>4, <2>1, PositionIs
  <2> QED BY <2>1, <2>2
<1> HIDE DEF p
<1>6. c(p) = m
  BY <1>1, <1>3, <1>5, ReadsFacts
<1>7. d.parent[m] # NULL /\ NextOf(d, m) = d.next[m] /\ PrevOf(d, m) = d.prev[m]
  BY <1>1, <1>3, Guards, MemberLinks
<1>8. d.next[m] = c(p + 1) /\ d.prev[m] = c(p - 1)
  <2>1. p \in 0 .. Len(t) /\ p - 1 \in 0 .. Len(t) /\ (p - 1) + 1 = p
    BY <1>4, <1>5
  <2>2. d.next[c(p)] = c(p + 1)
    BY <1>3, <2>1 DEF Reads
  <2>3. d.prev[c((p - 1) + 1)] = c(p - 1)
    BY <1>1, <1>3, <2>1, ReadsFacts
  <2> HIDE DEF c
  <2> QED BY <1>6, <2>1, <2>2, <2>3
<1>9. Before(h, n, m) = Splice(d, n, c(p - 1), c(p), l)
  BY <1>3, <1>6, <1>7, <1>8 DEF Before, d
<1>10. After(h, n, m) = Splice(d, n, c(p), c(p + 1), l)
  BY <1>3, <1>6, <1>7, <1>8 DEF After, d
<1>11. \A k \in Lists : Reads(Before(h, n, m), k, PutInto(h, n, l, p, k))
  <2>1. p \in 1 .. Len(t) + 1
    BY <1>4, <1>5
  <2> QED BY <1>1, <1>9, <2>1, SplicedReads DEF d
<1>12. \A k \in Lists : Reads(After(h, n, m), k, PutInto(h, n, l, p + 1, k))
  <2>1. p + 1 \in 1 .. Len(t) + 1 /\ (p + 1) - 1 = p
    BY <1>4, <1>5
  <2> QED BY <1>1, <1>10, <2>1, SplicedReads DEF d
<1> QED BY <1>1, <1>2, <1>4, <1>5, <1>11, <1>12 DEF p

\* A new list is empty.
LEMMA EmptyReads == \A l \in Lists : Reads(EmptyHeap, l, <<>>)
<1> SUFFICES ASSUME NEW l \in Lists PROVE Reads(EmptyHeap, l, <<>>)
  OBVIOUS
<1>1. <<>> \in Seq(Nodes) /\ Len(<<>>) = 0 /\ Distinct(<<>>)
  BY DEF Distinct
<1>2. \A n \in Nodes : EmptyHeap.parent[n] # l
  BY Guards DEF EmptyHeap
<1>3. EmptyHeap.next[HeadGuard(l)] = TailGuard(l)
  <2>1. HeadGuard(l) \in HeadGuards /\ HeadGuard(l) \in Cells
    BY Guards DEF HeadGuards
  <2>2. (CHOOSE k \in Lists : HeadGuard(l) = HeadGuard(k)) = l
    BY Guards
  <2> QED BY <2>1, <2>2 DEF EmptyHeap
<1> QED BY <1>1, <1>2, <1>3 DEF Reads, Cell

(***************************************************************************)
(* The refinement, call by call.                                           *)
(***************************************************************************)
\* If the lists of the new heap are what Put says, the walks are.
LEMMA PutRefined ==
  ASSUME Good(heap'), NEW n, NEW l \in Lists, NEW i,
         \A k \in Lists : Reads(heap', k, PutInto(heap, n, l, i, k))
  PROVE  Chained(heap') /\ Abstract!Put(n, l, i)
<1>1. \A k \in Lists : Forward(heap', k) = PutInto(heap, n, l, i, k)
  BY ForwardIs
<1>2. Chained(heap')
  BY <1>1 DEF Chained
<1>3. Abstract!Put(n, l, i)
  BY <1>1, SpecOperators DEF Abstract!Put, PutInto
<1> QED BY <1>2, <1>3

\* insertToHead.
LEMMA HeadRefined ==
  ASSUME Good(heap), Chained(heap), NEW n \in Nodes, NEW l \in Lists, InsertToHead(n, l)
  PROVE  Chained(heap') /\ Abstract!InsertToHead(n, l)
<1>1. heap' = ToHead(heap, n, l) /\ Good(heap')
  BY InsertionsGood DEF InsertToHead
<1>2. \A k \in Lists : Reads(heap', k, PutInto(heap, n, l, 1, k))
  BY <1>1, EndsReads
<1> QED BY <1>1, <1>2, PutRefined DEF Abstract!InsertToHead

\* insertToTail.
LEMMA TailRefined ==
  ASSUME Good(heap), Chained(heap), NEW n \in Nodes, NEW l \in Lists, InsertToTail(n, l)
  PROVE  Chained(heap') /\ Abstract!InsertToTail(n, l)
<1> DEFINE t == Abstract!Without(Forward(heap, l), n)
<1>1. heap' = ToTail(heap, n, l) /\ Good(heap')
  BY InsertionsGood DEF InsertToTail
<1>2. \A k \in Lists : Reads(heap', k, PutInto(heap, n, l, Len(t) + 1, k))
  BY <1>1, EndsReads
<1>3. Chained(heap') /\ Abstract!Put(n, l, Len(t) + 1)
  BY <1>1, <1>2, PutRefined
<1> QED BY <1>3 DEF Abstract!InsertToTail

\* insertBefore and insertAfter.
LEMMA BesideRefined ==
  ASSUME Good(heap), Chained(heap), NEW n \in Nodes, NEW m \in Nodes,
         InsertBefore(n, m) \/ InsertAfter(n, m)
  PROVE  /\ Chained(heap')
         /\ InsertBefore(n, m) => Abstract!InsertBefore(n, m)
         /\ InsertAfter(n, m) => Abstract!InsertAfter(n, m)
<1> DEFINE l == heap.parent[m]
           t == Abstract!Without(Forward(heap, l), n)
           p == Abstract!Position(t, m)
<1>1. heap.parent[m] # NULL /\ n # m /\ Good(heap')
  BY InsertionsGood DEF InsertBefore, InsertAfter
<1>2. /\ l \in Lists /\ m \in ToSet(Forward(heap, l))
      /\ \A k \in Lists : Reads(Before(heap, n, m), k, PutInto(heap, n, l, p, k))
      /\ \A k \in Lists : Reads(After(heap, n, m), k, PutInto(heap, n, l, p + 1, k))
  BY <1>1, BesideReads
<1> HIDE DEF l
<1>3. m \in Abstract!ToSet(Forward(heap, l)) \ {n}
  BY <1>1, <1>2, SpecOperators
<1>4. ASSUME InsertBefore(n, m)
      PROVE  Chained(heap') /\ Abstract!InsertBefore(n, m)
  <2>1. heap' = Before(heap, n, m)
    BY <1>4 DEF InsertBefore
  <2>2. Chained(heap') /\ Abstract!Put(n, l, p)
    BY <1>1, <1>2, <2>1, PutRefined
  <2> QED BY <1>2, <1>3, <2>2 DEF Abstract!InsertBefore
<1>5. ASSUME InsertAfter(n, m)
      PROVE  Chained(heap') /\ Abstract!InsertAfter(n, m)
  <2>1. heap' = After(heap, n, m)
    BY <1>5 DEF InsertAfter
  <2>2. Chained(heap') /\ Abstract!Put(n, l, p + 1)
    BY <1>1, <1>2, <2>1, PutRefined
  <2> QED BY <1>2, <1>3, <2>2 DEF Abstract!InsertAfter
<1> QED BY <1>4, <1>5

\* removeFromList.
LEMMA RemoveRefined ==
  ASSUME Good(heap), Chained(heap), NEW n \in Nodes, RemoveFromList(n)
  PROVE  Chained(heap') /\ Abstract!RemoveFromList(n)
<1> DEFINE l == heap.parent[n]
<1>1. heap.parent[n] # NULL /\ heap' = Unlink(heap, n) /\ heap' = Detached(heap, n) /\ Good(heap')
  BY UnlinkGood DEF RemoveFromList, Detached
<1>2. \A k \in Lists : Reads(heap', k, Abstract!Without(Forward(heap, k), n))
  BY <1>1, DetachedReads DEF Chained
<1>3. \A k \in Lists : Forward(heap', k) = Abstract!Without(Forward(heap, k), n)
  BY <1>1, <1>2, ForwardIs
<1>4. l \in Lists
  BY <1>1, MemberLinks
<1>5. \A k \in Lists : n \in ToSet(Forward(heap, k)) <=> k = l
  BY ReadsSize DEF Chained, InList
<1>6. \A k \in Lists : k # l => Forward(heap', k) = Forward(heap, k)
  BY <1>3, <1>5, SpecOperators
<1>7. Chained(heap')
  BY <1>2, <1>3 DEF Chained
<1> DEFINE w == [k \in Lists |-> Forward(heap, k)]
           v == [k \in Lists |-> Forward(heap', k)]
<1>8. v = [w EXCEPT ![l] = Abstract!Without(w[l], n)]
  BY <1>3, <1>4, <1>6
<1>9. Abstract!RemoveFromList(n)
  BY <1>4, <1>5, <1>8, SpecOperators DEF Abstract!RemoveFromList
<1> QED BY <1>7, <1>9

\* What a call is to ListSpec.
Matching ==
  \A n \in Nodes :
     /\ \A l \in Lists : /\ InsertToHead(n, l) => Abstract!InsertToHead(n, l)
                        /\ InsertToTail(n, l) => Abstract!InsertToTail(n, l)
     /\ \A m \in Nodes : /\ InsertBefore(n, m) => Abstract!InsertBefore(n, m)
                        /\ InsertAfter(n, m) => Abstract!InsertAfter(n, m)
     /\ RemoveFromList(n) => Abstract!RemoveFromList(n)

\* The strengthening WellLinked lacks: a ring of members that the head guard does not lead
\* to would be well linked.
LEMMA Chains == Spec => [](Inv /\ Chained(heap))
<1>1. Init => Inv /\ Chained(heap)
  <2> SUFFICES ASSUME Init PROVE Inv /\ Chained(heap)
    OBVIOUS
  <2>1. heap = EmptyHeap /\ Good(heap)
    BY EmptyGood DEF Init
  <2>2. \A l \in Lists : Reads(heap, l, <<>>)
    BY <2>1, EmptyReads
  <2>3. \A l \in Lists : Forward(heap, l) = <<>>
    BY <2>1, <2>2, ForwardIs
  <2> QED BY <2>1, <2>2, <2>3 DEF Inv, Chained
<1>2. Inv /\ Chained(heap) /\ [Next]_vars => Chained(heap')
  <2> SUFFICES ASSUME Good(heap), Chained(heap), [Next]_vars PROVE Chained(heap')
    BY DEF Inv
  <2>1. CASE UNCHANGED vars
    <3>1. heap' = heap
      BY <2>1 DEF vars
    <3> QED BY <3>1
  <2>2. CASE Next
    BY <2>2, HeadRefined, TailRefined, BesideRefined, RemoveRefined DEF Next
  <2> QED BY <2>1, <2>2
<1>3. (Chained(heap))' <=> Chained(heap')
  BY DEF Chained
<1> QED BY <1>1, <1>2, <1>3, Goodness, PTL DEF Spec

\* For any nodes and lists the pointer manipulations implement ListSpec: each call moves one
\* node to the place its name says and nothing else, and a walk in either direction meets
\* every member once and as many as size() says.
THEOREM ListsAreSequences == Spec => ImplementsListSpec
<1>1. Init /\ Inv /\ Chained(heap) => Abstract!Init
  <2> SUFFICES ASSUME Init, Good(heap) PROVE Abstract!Init
    BY DEF Inv
  <2>1. \A l \in Lists : Reads(heap, l, <<>>)
    BY EmptyReads DEF Init
  <2>2. \A l \in Lists : Forward(heap, l) = <<>>
    BY <2>1, ForwardIs
  <2> QED BY <2>2 DEF Abstract!Init
<1>2. Inv /\ Chained(heap) /\ [Next]_vars => [Abstract!Next]_(Abstract!vars) /\ [Matching]_vars
  <2> SUFFICES ASSUME Good(heap), Chained(heap), [Next]_vars
               PROVE  [Abstract!Next]_(Abstract!vars) /\ [Matching]_vars
    BY DEF Inv
  <2>1. Matching
    BY HeadRefined, TailRefined, BesideRefined, RemoveRefined DEF Matching
  <2>2. CASE UNCHANGED vars
    BY <2>1, <2>2 DEF vars, Abstract!vars
  <2>3. CASE Next
    <3>1. PICK n \in Nodes : \/ \E l \in Lists : InsertToHead(n, l) \/ InsertToTail(n, l)
                            \/ \E m \in Nodes : InsertBefore(n, m) \/ InsertAfter(n, m)
                            \/ RemoveFromList(n)
      BY <2>3 DEF Next
    <3>2. \/ \E l \in Lists : Abstract!InsertToHead(n, l) \/ Abstract!InsertToTail(n, l)
          \/ \E m \in Nodes : Abstract!InsertBefore(n, m) \/ Abstract!InsertAfter(n, m)
          \/ Abstract!RemoveFromList(n)
      <4>1. CASE \E l \in Lists : InsertToHead(n, l) \/ InsertToTail(n, l)
        <5>1. PICK l \in Lists : InsertToHead(n, l) \/ InsertToTail(n, l)
          BY <4>1
        <5>2. Abstract!InsertToHead(n, l) \/ Abstract!InsertToTail(n, l)
          BY <5>1, HeadRefined, TailRefined
        <5> QED BY <5>2
      <4>2. CASE \E m \in Nodes : InsertBefore(n, m) \/ InsertAfter(n, m)
        <5>1. PICK m \in Nodes : InsertBefore(n, m) \/ InsertAfter(n, m)
          BY <4>2
        <5>2. Abstract!InsertBefore(n, m) \/ Abstract!InsertAfter(n, m)
          BY <5>1, BesideRefined
        <5> QED BY <5>2
      <4>3. CASE RemoveFromList(n)
        BY <4>3, RemoveRefined
      <4> QED BY <3>1, <4>1, <4>2, <4>3
    <3>3. Abstract!Next
      BY <3>2, Zenon DEF Abstract!Next
    <3> QED BY <2>1, <3>3
  <2> QED BY <2>1, <2>2, <2>3
<1>3. Inv /\ Chained(heap) => TraversalsAgree
  <2> SUFFICES ASSUME Good(heap), Chained(heap), NEW l \in Lists
               PROVE  /\ Backward(heap, l) = Reverse(Forward(heap, l))
                      /\ Len(Forward(heap, l)) = heap.size[l]
                      /\ ToSet(Forward(heap, l)) = InList(heap, l)
    BY DEF Inv, TraversalsAgree
  <2>1. Reads(heap, l, Forward(heap, l))
    BY DEF Chained
  <2> QED BY <2>1, BackwardIs, ReadsSize
<1>4. [][Matching]_vars <=> CallsMatchListSpec
  BY DEF Matching, CallsMatchListSpec
<1> QED BY <1>1, <1>2, <1>3, <1>4, Chains, PTL DEF Spec, ImplementsListSpec, Abstract!Spec
=============================================================================
