-------------------------- MODULE TranslatorProofs --------------------------
(***************************************************************************)
(* Proofs about Translator for any number of blocks and points and any     *)
(* nesting.  That the graph stays consistent is a matter of CfgProofs      *)
(* as long as each handler works on an open block; the invariant therefore *)
(* says of every handler in progress that the blocks it will come back to  *)
(* wait for it: nobody has written to them, they are not current, and no   *)
(* other handler has them.                                                 *)
(*                                                                         *)
(* What the pass leaves behind is a matter of the order of the block list: *)
(* a second invariant says that edges lead forward in it, except those to  *)
(* the start of a loop, and that the blocks a handler will come back to    *)
(* stand after everything translated until then.                           *)
(*                                                                         *)
(* Why the pass aborts is a matter of what the source can reach: a third   *)
(* invariant has a set of blocks that holds the entry and all it leads to, *)
(* and of which the current block, or a block a handler will come back to, *)
(* is a member only if live flow of the source leads there.                *)
(***************************************************************************)
EXTENDS Translator, CfgProofs, FiniteSetTheorems, WellFoundedInduction

Leaving  == (0 .. MaxPoints) \X {"any", "true", "false"}
Flows    == (0 .. MaxPoints) \X {"any", "true", "false"} \X (1 .. MaxPoints + 1)
Optional == Blocks \cup {NULL}

Frames == [kind   : {"if", "else", "do", "doCond", "while", "whileCond", "for", "forCond", "rhs"},
           head   : Optional, body : Optional, exit : Blocks,
           atExit : SUBSET Leaving, atBody : SUBSET Leaving, first : 1 .. MaxPoints + 1]

\* What a frame must hold for its handler to go on.
Shaped(f) == /\ f \in Frames
             /\ f.body # f.exit /\ f.head # f.exit
             /\ f.kind \in {"else", "do", "whileCond", "forCond"} => f.body \in Blocks
             /\ f.kind \in {"do", "doCond", "whileCond", "forCond", "while", "for"}
                  => f.head \in Blocks

\* The blocks a handler will come back to, and a block nobody has written to.
Waits(f)   == {f.body, f.exit} \cap Blocks
Untouched(gr, b) == gr.branch[b] = NULL /\ gr.code[b] = <<>>

\* The handlers in progress, when cur is the current block of the list ord.
Ready(gr, ord, cur, f) == \A w \in Waits(f) : w \in ToSet(ord) /\ w # cur /\ Untouched(gr, w)
Waiting(gr, ord, cur, fs) ==
  /\ fs \in Seq(Frames)
  /\ \A i \in 1 .. Len(fs) : Shaped(fs[i]) /\ Ready(gr, ord, cur, fs[i])
  /\ \A i, j \in 1 .. Len(fs) : i # j => Waits(fs[i]) \cap Waits(fs[j]) = {}

\* The block list is made of the blocks that exist; the others are as they were.
Listed(gr, ord, cre) == /\ ord \in Seq(Blocks) /\ cre \in Blocks
                        /\ ToSet(ord) \subseteq 1 .. cre
                        /\ \A b \in Blocks : b > cre => Untouched(gr, b)

Open(gr, ord, cur) == cur \in ToSet(ord) /\ cur \in Blocks /\ gr.branch[cur] = NULL

Building(gr, ord, cre, cur, fs) == /\ Good(gr, Blocks)
                                   /\ Listed(gr, ord, cre)
                                   /\ Open(gr, ord, cur)
                                   /\ Waiting(gr, ord, cur, fs)

Source(pts, fl, lo, ls) == /\ pts \in 0 .. MaxPoints
                           /\ fl \subseteq Flows /\ lo \subseteq Leaving
                           /\ ls \subseteq Blocks

\* The invariant.
Inv == /\ Source(points, flow, loose, loops)
       /\ phase \in {"body", "sweep", "done", "aborted"}
       /\ phase = "body" => Building(g, order, created, current, frames)
       /\ phase # "body" => /\ Good(g, Blocks) /\ order \in Seq(Blocks)
                            /\ created \in Blocks /\ current \in Blocks
       /\ rest \in Seq(Blocks) /\ (phase = "sweep" => rest # <<>>)

(***************************************************************************)
(* Least and greatest elements, from the order of the numbers.             *)
(***************************************************************************)
\* A nonempty set of numbers has a least one.
LEMMA LeastElement ==
  ASSUME NEW S \in SUBSET Nat, S # {}
  PROVE  \E x \in S : \A y \in S : x <= y
<1> DEFINE R == OpToRel(<, Nat)
<1>1. PICK x \in S : \A y \in S : ~ (<<y, x>> \in R)
  <2>1. IsWellFoundedOn(R, Nat)
    BY NatLessThanWellFounded
  <2> HIDE DEF R
  <2> QED BY <2>1, WFMin
<1>2. ASSUME NEW y \in S PROVE ~ (y < x)
  BY <1>1, Zenon DEF OpToRel
<1>3. \A y \in S : x <= y
  BY <1>2
<1> QED BY <1>3

\* A nonempty set of indices has a greatest one.
LEMMA GreatestElement ==
  ASSUME NEW n \in Nat, NEW S \in SUBSET (1 .. n), S # {}
  PROVE  \E x \in S : \A y \in S : y <= x
<1> DEFINE T == {n - x : x \in S}
<1>1. T \in SUBSET Nat /\ T # {}
  <2>1. \A x \in S : n - x \in Nat
    OBVIOUS
  <2>2. PICK x \in S : TRUE
    OBVIOUS
  <2>3. n - x \in T
    BY <2>2
  <2> QED BY <2>1, <2>3
<1>2. PICK t \in T : \A u \in T : t <= u
  BY <1>1, LeastElement
<1>3. PICK x \in S : t = n - x
  BY <1>2
<1>4. \A y \in S : t <= n - y
  BY <1>2
<1> QED BY <1>3, <1>4

(***************************************************************************)
(* Sets of elements of a sequence.                                         *)
(***************************************************************************)
\* ToSet of a sequence, by positions.
LEMMA ElementsOf ==
  ASSUME NEW S, NEW s \in Seq(S)
  PROVE  /\ ToSet(s) \subseteq S
         /\ \A x : x \in ToSet(s) <=> \E i \in 1 .. Len(s) : s[i] = x
BY ElementOfSeq, LenProperties DEF ToSet

\* The elements of two sequences one after the other.
LEMMA ElementsOfConcat ==
  ASSUME NEW S, NEW s \in Seq(S), NEW t \in Seq(S)
  PROVE  ToSet(s \o t) = ToSet(s) \cup ToSet(t)
<1>1. Len(s) \in Nat /\ Len(t) \in Nat /\ s \o t \in Seq(S) /\ Len(s \o t) = Len(s) + Len(t)
  BY LenProperties, ConcatProperties
<1>2. ASSUME NEW x PROVE x \in ToSet(s \o t) <=> x \in ToSet(s) \/ x \in ToSet(t)
  <2>1. ASSUME NEW i \in 1 .. Len(s) PROVE (s \o t)[i] = s[i] /\ i \in 1 .. Len(s) + Len(t)
    BY <1>1, ConcatProperties
  <2>2. ASSUME NEW i \in 1 .. Len(t)
        PROVE (s \o t)[Len(s) + i] = t[i] /\ Len(s) + i \in 1 .. Len(s) + Len(t)
    <3>1. Len(s) + i \in 1 .. Len(s) + Len(t) /\ ~ (Len(s) + i <= Len(s)) /\ (Len(s) + i) - Len(s) = i
      BY <1>1
    <3> QED BY <3>1, ConcatProperties
  <2>3. ASSUME NEW i \in 1 .. Len(s) + Len(t), (s \o t)[i] = x
        PROVE  x \in ToSet(s) \/ x \in ToSet(t)
    <3>1. CASE i <= Len(s)
      BY <1>1, <2>1, <2>3, <3>1, ElementsOf
    <3>2. CASE i > Len(s)
      <4>1. PICK j \in 1 .. Len(t) : i = Len(s) + j
        <5>1. i - Len(s) \in 1 .. Len(t) /\ i = Len(s) + (i - Len(s))
          BY <1>1, <3>2
        <5> QED BY <5>1
      <4> QED BY <2>2, <2>3, <4>1, ElementsOf
    <3> QED BY <1>1, <3>1, <3>2
  <2>4. x \in ToSet(s) \/ x \in ToSet(t) => x \in ToSet(s \o t)
    <3>1. ASSUME NEW i \in 1 .. Len(s), s[i] = x PROVE x \in ToSet(s \o t)
      BY <1>1, <2>1, <3>1, ElementsOf
    <3>2. ASSUME NEW i \in 1 .. Len(t), t[i] = x PROVE x \in ToSet(s \o t)
      BY <1>1, <2>2, <3>2, ElementsOf
    <3> QED BY <3>1, <3>2, ElementsOf
  <2>5. x \in ToSet(s \o t) => x \in ToSet(s) \/ x \in ToSet(t)
    <3> SUFFICES ASSUME x \in ToSet(s \o t) PROVE x \in ToSet(s) \/ x \in ToSet(t)
      OBVIOUS
    <3>1. PICK i \in 1 .. Len(s \o t) : (s \o t)[i] = x
      BY <1>1, ElementsOf
    <3> QED BY <1>1, <2>3, <3>1
  <2> QED BY <2>4, <2>5
<1> QED BY <1>2

\* Taking an element out of a sequence leaves a sequence.
LEMMA RemoveFirstType ==
  ASSUME NEW S, NEW s \in Seq(S), NEW e
  PROVE  RemoveFirst(s, e) \in Seq(S)
<1>1. CASE \E i \in 1 .. Len(s) : s[i] = e
  <2> DEFINE I == {i \in 1 .. Len(s) : s[i] = e}
             m == SelectInSeq(s, LAMBDA v : v = e)
  <2>1. Len(s) \in Nat
    BY LenProperties
  <2>2. I \in SUBSET Nat /\ I # {}
    BY <1>1
  <2>3. m = CHOOSE x \in I : \A y \in I : x <= y
    BY <2>2 DEF SelectInSeq, Min
  <2>4. m \in 1 .. Len(s)
    BY <2>2, <2>3, LeastElement
  <2> HIDE DEF m
  <2>5. RemoveFirst(s, e) = SubSeq(s, 1, m - 1) \o SubSeq(s, m + 1, Len(s))
    BY <1>1 DEF RemoveFirst, RemoveAt, m
  <2>6. SubSeq(s, 1, m - 1) \in Seq(S) /\ SubSeq(s, m + 1, Len(s)) \in Seq(S)
    BY <2>1, <2>4, ElementOfSeq, SubSeqProperties
  <2> QED BY <2>5, <2>6, ConcatProperties
<1>2. CASE ~ \E i \in 1 .. Len(s) : s[i] = e
  BY <1>2 DEF RemoveFirst
<1> QED BY <1>1, <1>2

\* Blocks put after one of the list: the old ones stay.
LEMMA PutAfterIs ==
  ASSUME order \in Seq(Blocks), NEW b \in ToSet(order), NEW news \in Seq(Blocks), PutAfter(b, news)
  PROVE  order' \in Seq(Blocks) /\ ToSet(order') = ToSet(order) \cup ToSet(news)
<1> DEFINE i == Place(b)
           p == SubSeq(order, 1, i)
           q == SubSeq(order, i + 1, Len(order))
<1>1. Len(order) \in Nat /\ DOMAIN order = 1 .. Len(order)
  BY LenProperties
<1>2. i \in 1 .. Len(order)
  <2>1. \E j \in DOMAIN order : order[j] = b
    BY <1>1, ElementsOf
  <2> QED BY <1>1, <2>1 DEF Place
<1> HIDE DEF i
<1>3. p \in Seq(Blocks) /\ q \in Seq(Blocks)
  BY <1>1, <1>2, ElementOfSeq, SubSeqProperties
<1>4. p \o q = order
  <2>1. SubSeq(order, 1, Len(order)) = order
    BY SubSeqFull
  <2>2. 1 \in 1 .. Len(order) + 1 /\ i \in 1 - 1 .. Len(order) /\ Len(order) \in i .. Len(order)
    BY <1>1, <1>2
  <2> QED BY <2>1, <2>2, ConcatAdjacentSubSeq
<1>5. order' = (p \o news) \o q
  BY DEF PutAfter, i
<1> HIDE DEF p, q
<1>6. p \o news \in Seq(Blocks) /\ ToSet(p \o news) = ToSet(p) \cup ToSet(news)
  BY <1>3, ConcatProperties, ElementsOfConcat
<1>7. ToSet((p \o news) \o q) = ToSet(p \o news) \cup ToSet(q)
  <2>1. \A s, t \in Seq(Blocks) : ToSet(s \o t) = ToSet(s) \cup ToSet(t)
    BY ElementsOfConcat
  <2> HIDE DEF ToSet
  <2> QED BY <1>3, <1>6, <2>1
<1>8. ToSet(p \o q) = ToSet(p) \cup ToSet(q)
  BY <1>3, ElementsOfConcat
<1>9. (p \o news) \o q \in Seq(Blocks)
  BY <1>3, <1>6, ConcatProperties
<1> QED BY <1>4, <1>5, <1>6, <1>7, <1>8, <1>9

(***************************************************************************)
(* What a step does to the graph outside the blocks C it works on.         *)
(***************************************************************************)
Same(gr, h, C) == \A b \in Blocks \ C : h.branch[b] = gr.branch[b] /\ h.code[b] = gr.code[b]

\* A block that gets new edges is the only one that changes.
LEMMA RelinkedSame ==
  ASSUME NEW gr \in Graphs, NEW h, NEW b \in Blocks, NEW v, NEW to, NEW else, NEW t,
         Relinked(h, gr, b, v, to, else, t)
  PROVE  Same(gr, h, {b})
<1>1. ASSUME NEW c \in Blocks \ {b} PROVE h.branch[c] = gr.branch[c] /\ h.code[c] = gr.code[c]
  <2>1. /\ h.code = [Stripped(gr, b) EXCEPT ![b] = Append(@, t)]
        /\ h.branch = [gr.branch EXCEPT ![b] = to]
    BY DEF Relinked, Has
  <2>2. Stripped(gr, b) \in [Blocks -> Seq(Insts)] /\ Stripped(gr, b)[c] = gr.code[c]
    BY <1>1, StrippedType, FieldTypes DEF Stripped
  <2> QED BY <1>1, <2>1, <2>2, FieldTypes
<1> QED BY <1>1 DEF Same

\* The graph before and after, one operation at a time.
LEMMA OpStep ==
  ASSUME NEW gr, Good(gr, Blocks), NEW c \in Blocks, gr.branch[c] = NULL, NEW v \in Values
  PROVE  /\ Good(InsertInst(gr, c, Op(v)), Blocks)
         /\ InsertInst(gr, c, Op(v)).branch = gr.branch
         /\ Same(gr, InsertInst(gr, c, Op(v)), {c})
<1>1. gr \in Graphs
  BY DEF Good, Edges
<1>2. Good(InsertInst(gr, c, Op(v)), Blocks)
  BY AppendGood
<1> QED BY <1>1, <1>2, FieldTypes DEF InsertInst, Same, Graphs

\* reset(branch) writes to its block only.
LEMMA JumpStep ==
  ASSUME NEW gr, Good(gr, Blocks), NEW c \in Blocks, NEW to \in Blocks
  PROVE  /\ Good(ResetTo(gr, c, to), Blocks)
         /\ Same(gr, ResetTo(gr, c, to), {c})
BY JumpGood, ResetToIs, RelinkedSame DEF Good, Edges

\* reset(control, branch, branchElse) writes to its block only.
LEMMA BranchStep ==
  ASSUME NEW gr, Good(gr, Blocks), NEW c \in Blocks, NEW v \in Values,
         NEW to \in Blocks, NEW else \in Blocks, to # else
  PROVE  /\ Good(ResetBranch(gr, c, v, to, else), Blocks)
         /\ Same(gr, ResetBranch(gr, c, v, to, else), {c})
BY BranchGood, ResetBranchIs, RelinkedSame DEF Good, Edges

\* tryMarkAsTerminal, where it returns true, writes to its block only.
LEMMA MarkStep ==
  ASSUME NEW gr, Good(gr, Blocks), NEW c \in Blocks, NEW hint, MarkReturns(gr, c, hint)
  PROVE  /\ Good(TryMarkAsTerminal(gr, c, hint), Blocks)
         /\ Same(gr, TryMarkAsTerminal(gr, c, hint), {c})
BY MarkGood, MarkIs, RelinkedSame DEF Good, Edges

\* Two steps on the same block.
LEMMA SameTwice ==
  ASSUME NEW gr, NEW h, NEW k, NEW C, NEW D, Same(gr, h, C), Same(h, k, D)
  PROVE  Same(gr, k, C \cup D)
BY DEF Same

(***************************************************************************)
(* The stack of handlers.                                                  *)
(***************************************************************************)
\* Handlers are not disturbed by a step that stays clear of their blocks.
LEMMA KeepWaiting ==
  ASSUME NEW gr, NEW h, NEW ord, NEW ord2, NEW cur, NEW cur2, NEW fs, NEW C,
         Waiting(gr, ord, cur, fs), Same(gr, h, C), ToSet(ord) \subseteq ToSet(ord2),
         \A i \in 1 .. Len(fs) : Waits(fs[i]) \cap (C \cup {cur2}) = {}
  PROVE  Waiting(h, ord2, cur2, fs)
<1>1. ASSUME NEW i \in 1 .. Len(fs) PROVE Ready(h, ord2, cur2, fs[i])
  <2> SUFFICES ASSUME NEW w \in Waits(fs[i])
               PROVE  w \in ToSet(ord2) /\ w # cur2 /\ Untouched(h, w)
    BY DEF Ready
  <2>1. w \in ToSet(ord) /\ Untouched(gr, w)
    BY <1>1 DEF Waiting, Ready
  <2>2. w \in Blocks \ C /\ w # cur2
    BY <1>1 DEF Waits
  <2> QED BY <2>1, <2>2 DEF Same, Untouched
<1> QED BY <1>1 DEF Waiting

\* A handler whose blocks are ready and its own can be added.
LEMMA PushWaiting ==
  ASSUME NEW gr, NEW ord, NEW cur, NEW fs, NEW f, Waiting(gr, ord, cur, fs),
         Shaped(f), Ready(gr, ord, cur, f),
         \A i \in 1 .. Len(fs) : Waits(fs[i]) \cap Waits(f) = {}
  PROVE  Waiting(gr, ord, cur, Append(fs, f))
<1> DEFINE gs == Append(fs, f)
<1>1. fs \in Seq(Frames) /\ f \in Frames /\ Len(fs) \in Nat
  BY LenProperties DEF Waiting, Shaped
<1>2. gs \in Seq(Frames) /\ Len(gs) = Len(fs) + 1 /\ gs[Len(fs) + 1] = f
      /\ \A i \in 1 .. Len(fs) : gs[i] = fs[i]
  BY <1>1
<1> HIDE DEF gs
<1>3. \A i \in 1 .. Len(gs) : i \in 1 .. Len(fs) \/ i = Len(fs) + 1
  BY <1>1, <1>2
<1>4. ASSUME NEW i \in 1 .. Len(gs) PROVE Shaped(gs[i]) /\ Ready(gr, ord, cur, gs[i])
  BY <1>2, <1>3 DEF Waiting
<1>5. ASSUME NEW i \in 1 .. Len(gs), NEW j \in 1 .. Len(gs), i # j
      PROVE  Waits(gs[i]) \cap Waits(gs[j]) = {}
  <2>1. CASE i \in 1 .. Len(fs) /\ j \in 1 .. Len(fs)
    BY <1>2, <1>5, <2>1 DEF Waiting
  <2>2. CASE i \in 1 .. Len(fs) /\ j = Len(fs) + 1
    BY <1>2, <2>2
  <2>3. CASE i = Len(fs) + 1 /\ j \in 1 .. Len(fs)
    BY <1>2, <2>3
  <2> QED BY <1>3, <1>5, <2>1, <2>2, <2>3
<1>6. Waiting(gr, ord, cur, gs)
  BY <1>2, <1>4, <1>5 DEF Waiting
<1> QED BY <1>6 DEF gs

\* Without the innermost handler, whose blocks are nobody else's.
LEMMA PopWaiting ==
  ASSUME NEW gr, NEW ord, NEW cur, NEW fs, Waiting(gr, ord, cur, fs), fs # <<>>
  PROVE  /\ Waiting(gr, ord, cur, Front(fs))
         /\ Shaped(fs[Len(fs)]) /\ Ready(gr, ord, cur, fs[Len(fs)])
         /\ \A i \in 1 .. Len(Front(fs)) : Waits(Front(fs)[i]) \cap Waits(fs[Len(fs)]) = {}
<1> DEFINE n == Len(fs)
           gs == Front(fs)
<1>1. fs \in Seq(Frames) /\ n \in Nat \ {0} /\ \A i \in 1 .. n - 1 : fs[i] \in Frames
  BY EmptySeq, ElementOfSeq DEF Waiting
<1>2. /\ gs \in Seq(Frames) /\ Len(gs) = IF 1 <= n - 1 THEN (n - 1) - 1 + 1 ELSE 0
      /\ \A i \in 1 .. (n - 1) - 1 + 1 : gs[i] = fs[1 + i - 1]
  <2>1. 1 \in Int /\ n - 1 \in Int
    BY <1>1
  <2> QED BY <1>1, <2>1, SubSeqProperties DEF Front
<1> HIDE DEF n, gs
<1>3. Len(gs) = n - 1
  BY <1>1, <1>2
<1>4. \A i \in 1 .. n - 1 : gs[i] = fs[i] /\ i \in 1 .. n /\ i # n
  BY <1>1, <1>2
<1>5. n \in 1 .. n
  BY <1>1
<1>6. Waiting(gr, ord, cur, gs)
  BY <1>2, <1>3, <1>4 DEF Waiting, n
<1>7. \A i \in 1 .. Len(gs) : Waits(gs[i]) \cap Waits(fs[n]) = {}
  BY <1>3, <1>4, <1>5 DEF Waiting, n
<1> QED BY <1>5, <1>6, <1>7 DEF Waiting, n, gs

(***************************************************************************)
(* The shapes a statement's step can have.                                 *)
(***************************************************************************)
\* What is needed of the state the handlers work in, pointwise.
LEMMA WaitsAreListed ==
  ASSUME NEW gr, NEW ord, NEW cre, NEW cur, NEW fs, Building(gr, ord, cre, cur, fs),
         NEW i \in 1 .. Len(fs)
  PROVE  Waits(fs[i]) \subseteq ToSet(ord) /\ Waits(fs[i]) \subseteq 1 .. cre /\ cur \notin Waits(fs[i])
BY DEF Building, Waiting, Ready, Listed

\* Work on the current block alone, which stays open.
LEMMA StayStep ==
  ASSUME NEW gr, NEW h, NEW ord, NEW cre, NEW cur, NEW fs, Building(gr, ord, cre, cur, fs),
         Good(h, Blocks), Same(gr, h, {cur}), h.branch[cur] = NULL
  PROVE  Building(h, ord, cre, cur, fs)
<1>1. Waiting(h, ord, cur, fs)
  <2>1. \A i \in 1 .. Len(fs) : Waits(fs[i]) \cap ({cur} \cup {cur}) = {}
    BY WaitsAreListed
  <2> QED BY <2>1, KeepWaiting DEF Building
<1>2. \A b \in Blocks : b > cre => Untouched(h, b)
  <2>1. cur \in 1 .. cre
    BY DEF Building, Open, Listed
  <2> SUFFICES ASSUME NEW b \in Blocks, b > cre PROVE Untouched(h, b)
    OBVIOUS
  <2>2. b # cur
    BY <2>1, TranslatorAssumption DEF Building, Listed
  <2>3. Untouched(gr, b)
    BY DEF Building, Listed
  <2> QED BY <2>2, <2>3 DEF Untouched, Same
<1> QED BY <1>1, <1>2 DEF Building, Listed, Open

\* New blocks are put after the current one, and one of them becomes current.
LEMMA GrowStep ==
  ASSUME NEW h, NEW k \in Nat, NEW news \in Seq(Blocks), NEW C, NEW cur \in ToSet(news) \ C,
         Building(g, order, created, current, frames),
         created + k \in Blocks, ToSet(news) \subseteq created + 1 .. created + k,
         PutAfter(current, news),
         Good(h, Blocks), Same(g, h, C), C \subseteq {current} \cup ToSet(news)
  PROVE  /\ Building(h, order', created + k, cur, frames)
         /\ \A w \in ToSet(news) \ C : Untouched(h, w)
         /\ ToSet(news) \subseteq ToSet(order')
         /\ \A i \in 1 .. Len(frames) : Waits(frames[i]) \cap ToSet(news) = {}
<1>1. /\ created \in Nat /\ created + k \in Nat /\ Blocks \subseteq Nat
      /\ order \in Seq(Blocks) /\ current \in ToSet(order)
      /\ ToSet(order) \subseteq 1 .. created /\ ToSet(news) \subseteq Blocks
  <2>1. Blocks \subseteq Nat
    BY TranslatorAssumption
  <2>2. ToSet(news) \subseteq Blocks
    BY ElementsOf
  <2>3. /\ order \in Seq(Blocks) /\ current \in ToSet(order) /\ created \in Blocks
        /\ ToSet(order) \subseteq 1 .. created
    BY DEF Building, Listed, Open
  <2> QED BY <2>1, <2>2, <2>3
<1>2. order' \in Seq(Blocks) /\ ToSet(order') = ToSet(order) \cup ToSet(news)
  BY <1>1, PutAfterIs
<1>3. \A i \in 1 .. Len(frames) : Waits(frames[i]) \cap ToSet(news) = {}
  <2> SUFFICES ASSUME NEW i \in 1 .. Len(frames), NEW w \in Waits(frames[i]), w \in ToSet(news)
               PROVE  FALSE
    OBVIOUS
  <2>1. w \in 1 .. created /\ w \in created + 1 .. created + k
    BY WaitsAreListed
  <2> QED BY <1>1, <2>1
<1>4. Waiting(h, order', cur, frames)
  <2>1. ASSUME NEW i \in 1 .. Len(frames) PROVE Waits(frames[i]) \cap (C \cup {cur}) = {}
    BY <1>3, WaitsAreListed
  <2> QED BY <1>2, <2>1, KeepWaiting DEF Building
<1>5. ASSUME NEW b \in Blocks, b \notin C, b > created PROVE Untouched(h, b)
  BY <1>5 DEF Building, Listed, Untouched, Same
<1>6. \A w \in ToSet(news) \ C : Untouched(h, w)
  <2> SUFFICES ASSUME NEW w \in ToSet(news) \ C PROVE Untouched(h, w)
    OBVIOUS
  <2>1. w \in created + 1 .. created + k /\ w \in Blocks
    BY <1>1
  <2>2. w > created
    BY <1>1, <2>1
  <2> QED BY <1>5, <2>1, <2>2
<1>7. \A b \in Blocks : b > created + k => Untouched(h, b)
  <2> SUFFICES ASSUME NEW b \in Blocks, b > created + k PROVE Untouched(h, b)
    OBVIOUS
  <2>1. b > created /\ b \notin ToSet(news) /\ b # current
    BY <1>1
  <2> QED BY <1>5, <2>1
<1>8. ToSet(order') \subseteq 1 .. created + k
  <2>1. \A w : w \in created + 1 .. created + k => w \in 1 .. created + k
    BY <1>1
  <2>2. \A w : w \in 1 .. created => w \in 1 .. created + k
    BY <1>1
  <2> QED BY <1>1, <1>2, <2>1, <2>2
<1>9. Open(h, order', cur)
  BY <1>1, <1>2, <1>6 DEF Open, Untouched
<1> QED BY <1>2, <1>3, <1>4, <1>6, <1>7, <1>8, <1>9 DEF Building, Listed

\* The same, and a handler starts whose blocks are among the new ones.
LEMMA EnterStep ==
  ASSUME NEW h, NEW k \in Nat, NEW news \in Seq(Blocks), NEW C, NEW cur \in ToSet(news) \ C,
         Building(g, order, created, current, frames),
         created + k \in Blocks, ToSet(news) \subseteq created + 1 .. created + k,
         PutAfter(current, news),
         Good(h, Blocks), Same(g, h, C), C \subseteq {current} \cup ToSet(news),
         NEW f, Shaped(f), Waits(f) \subseteq ToSet(news) \ (C \cup {cur})
  PROVE  Building(h, order', created + k, cur, Append(frames, f))
<1>1. /\ Building(h, order', created + k, cur, frames)
      /\ \A w \in ToSet(news) \ C : Untouched(h, w)
      /\ ToSet(news) \subseteq ToSet(order')
      /\ \A i \in 1 .. Len(frames) : Waits(frames[i]) \cap ToSet(news) = {}
  BY GrowStep
<1>2. Ready(h, order', cur, f)
  BY <1>1 DEF Ready
<1>3. \A i \in 1 .. Len(frames) : Waits(frames[i]) \cap Waits(f) = {}
  BY <1>1
<1>4. Waiting(h, order', cur, Append(frames, f))
  BY <1>1, <1>2, <1>3, PushWaiting DEF Building
<1> QED BY <1>1, <1>4 DEF Building

\* The usual case: of the old blocks, only the current one is written to.
LEMMA EnterFromCurrent ==
  ASSUME NEW h, NEW k \in Nat, NEW news \in Seq(Blocks), NEW cur \in ToSet(news) \ {current},
         Building(g, order, created, current, frames),
         created + k \in Blocks, ToSet(news) \subseteq created + 1 .. created + k,
         PutAfter(current, news),
         Good(h, Blocks), Same(g, h, {current}),
         NEW f, Shaped(f), Waits(f) \subseteq ToSet(news) \ {current, cur}
  PROVE  Building(h, order', created + k, cur, Append(frames, f))
<1> DEFINE C == {current}
<1>1. /\ cur \in ToSet(news) \ C /\ C \subseteq {current} \cup ToSet(news)
      /\ Same(g, h, C) /\ Waits(f) \subseteq ToSet(news) \ (C \cup {cur})
  OBVIOUS
<1> HIDE DEF C
<1> QED BY <1>1, EnterStep

\* The innermost handler comes back to one of its blocks, which becomes current.
LEMMA ReturnStep ==
  ASSUME NEW gr, NEW h, NEW ord, NEW cre, NEW cur, NEW fs, Building(gr, ord, cre, cur, fs),
         fs # <<>>, NEW next \in Waits(fs[Len(fs)]), Good(h, Blocks), Same(gr, h, {cur})
  PROVE  /\ Building(h, ord, cre, next, Front(fs))
         /\ Shaped(fs[Len(fs)])
         /\ \A w \in Waits(fs[Len(fs)]) : w \in ToSet(ord) /\ Untouched(h, w)
         /\ \A i \in 1 .. Len(Front(fs)) : Waits(Front(fs)[i]) \cap Waits(fs[Len(fs)]) = {}
<1> DEFINE t == fs[Len(fs)]
           gs == Front(fs)
<1>1. /\ Waiting(gr, ord, cur, gs) /\ Shaped(t) /\ Ready(gr, ord, cur, t)
      /\ \A i \in 1 .. Len(gs) : Waits(gs[i]) \cap Waits(t) = {}
  BY PopWaiting DEF Building
<1>2. next \in Waits(t)
  OBVIOUS
<1> HIDE DEF t, gs
<1>3. ASSUME NEW w \in Waits(t) PROVE w \in ToSet(ord) /\ Untouched(h, w)
  <2>1. w \in ToSet(ord) /\ w # cur /\ Untouched(gr, w) /\ w \in Blocks
    BY <1>1, <1>3 DEF Ready, Waits
  <2> QED BY <2>1 DEF Untouched, Same
<1>4. Waiting(h, ord, next, gs)
  <2>1. ASSUME NEW i \in 1 .. Len(gs) PROVE Waits(gs[i]) \cap ({cur} \cup {next}) = {}
    BY <1>1, <1>2 DEF Waiting, Ready
  <2> QED BY <1>1, <2>1, KeepWaiting
<1>5. Open(h, ord, next)
  BY <1>2, <1>3 DEF Open, Untouched, Waits
<1>6. \A b \in Blocks : b > cre => Untouched(h, b)
  <2> SUFFICES ASSUME NEW b \in Blocks, b > cre PROVE Untouched(h, b)
    OBVIOUS
  <2>1. cur \in 1 .. cre
    BY DEF Building, Open, Listed
  <2>2. b # cur
    BY <2>1, TranslatorAssumption DEF Building, Listed
  <2>3. Untouched(gr, b)
    BY DEF Building, Listed
  <2> QED BY <2>2, <2>3 DEF Untouched, Same
<1>7. Building(h, ord, cre, next, gs)
  BY <1>4, <1>5, <1>6 DEF Building, Listed
<1> QED BY <1>1, <1>3, <1>7 DEF t, gs

\* The same, and the handler goes on with a frame that needs only what is left.
LEMMA ReplaceStep ==
  ASSUME NEW gr, NEW h, NEW ord, NEW cre, NEW cur, NEW fs, Building(gr, ord, cre, cur, fs),
         fs # <<>>, NEW next \in Waits(fs[Len(fs)]), Good(h, Blocks), Same(gr, h, {cur}),
         NEW f, Shaped(f), Waits(f) \subseteq Waits(fs[Len(fs)]) \ {next}
  PROVE  Building(h, ord, cre, next, Append(Front(fs), f))
<1>1. /\ Building(h, ord, cre, next, Front(fs))
      /\ \A w \in Waits(fs[Len(fs)]) : w \in ToSet(ord) /\ Untouched(h, w)
      /\ \A i \in 1 .. Len(Front(fs)) : Waits(Front(fs)[i]) \cap Waits(fs[Len(fs)]) = {}
  BY ReturnStep
<1>2. Ready(h, ord, next, f)
  BY <1>1 DEF Ready
<1>3. \A i \in 1 .. Len(Front(fs)) : Waits(Front(fs)[i]) \cap Waits(f) = {}
  BY <1>1
<1>4. Waiting(h, ord, next, Append(Front(fs), f))
  BY <1>1, <1>2, <1>3, PushWaiting DEF Building
<1> QED BY <1>1, <1>4 DEF Building

\* An operation, then a new flow, on an open block.
LEMMA ConditionStep ==
  ASSUME NEW gr, Good(gr, Blocks), NEW c \in Blocks, gr.branch[c] = NULL, NEW p \in Values,
         NEW v \in Values, NEW to \in Blocks, NEW else \in Blocks, to # else
  PROVE  LET h == ResetBranch(InsertInst(gr, c, Op(p)), c, v, to, else)
         IN  Good(h, Blocks) /\ Same(gr, h, {c})
<1> DEFINE k == InsertInst(gr, c, Op(p))
           h == ResetBranch(k, c, v, to, else)
<1>1. Good(k, Blocks) /\ Same(gr, k, {c})
  BY OpStep
<1> HIDE DEF k
<1>2. Good(h, Blocks) /\ Same(k, h, {c})
  BY <1>1, BranchStep
<1> HIDE DEF h
<1>3. Same(gr, h, {c} \cup {c})
  BY <1>1, <1>2, SameTwice
<1>4. Good(h, Blocks) /\ Same(gr, h, {c})
  BY <1>2, <1>3
<1> QED BY <1>4 DEF h, k

\* An operation, then a jump, on an open block.
LEMMA OpJumpStep ==
  ASSUME NEW gr, Good(gr, Blocks), NEW c \in Blocks, gr.branch[c] = NULL, NEW p \in Values,
         NEW to \in Blocks
  PROVE  LET h == ResetTo(InsertInst(gr, c, Op(p)), c, to)
         IN  Good(h, Blocks) /\ Same(gr, h, {c})
<1> DEFINE k == InsertInst(gr, c, Op(p))
           h == ResetTo(k, c, to)
<1>1. Good(k, Blocks) /\ Same(gr, k, {c})
  BY OpStep
<1> HIDE DEF k
<1>2. Good(h, Blocks) /\ Same(k, h, {c})
  BY <1>1, JumpStep
<1> HIDE DEF h
<1>3. Same(gr, h, {c} \cup {c})
  BY <1>1, <1>2, SameTwice
<1>4. Good(h, Blocks) /\ Same(gr, h, {c})
  BY <1>2, <1>3
<1> QED BY <1>4 DEF h, k

\* A return where the open block can take one: the assertion around it holds.
LEMMA AssertedMarkStep ==
  ASSUME NEW gr, Good(gr, Blocks), NEW c \in Blocks, NEW hint, MarkReturns(gr, c, hint)
  PROVE  LET h == AssertThat(TryMarkAsTerminal(gr, c, hint), MarkReturns(gr, c, hint))
         IN  Good(h, Blocks) /\ Same(gr, h, {c})
<1> DEFINE k == TryMarkAsTerminal(gr, c, hint)
<1>1. Good(k, Blocks) /\ Same(gr, k, {c})
  BY MarkStep
<1> HIDE DEF k
<1>2. k \in Graphs /\ k.ok = TRUE
  BY <1>1 DEF Good, Edges, Graphs
<1>3. AssertThat(k, MarkReturns(gr, c, hint)) = k
  BY <1>2 DEF AssertThat, Graphs
<1> QED BY <1>1, <1>3 DEF k

(***************************************************************************)
(* The source side.                                                        *)
(***************************************************************************)
\* Flow to a point is well typed.
LEMMA JoinType ==
  ASSUME NEW from \in SUBSET Leaving, NEW p \in 1 .. MaxPoints + 1
  PROVE  Join(from, p) \subseteq Flows
BY DEF Join, Leaving, Flows

\* What leaves a condition or an expression is a set of points with outcomes.
LEMMA OutcomeTypes ==
  ASSUME NEW p \in 0 .. MaxPoints, NEW v
  PROVE  /\ Holds(p, v) \subseteq Leaving /\ Fails(p, v) \subseteq Leaving
         /\ {<<p, "any">>} \subseteq Leaving
BY DEF Holds, Fails, Leaving

\* The next point is a point, and a value a condition can name.
LEMMA NextPointType ==
  ASSUME points \in 0 .. MaxPoints, points < MaxPoints
  PROVE  /\ NextPoint \in 0 .. MaxPoints /\ NextPoint \in 1 .. MaxPoints + 1
         /\ NextPoint \in Values /\ Conditions(NextPoint) \subseteq Values
BY TranslatorAssumption DEF NextPoint, Points, Conditions

\* The flow of the source stays well typed when a point is evaluated.
LEMMA EvaluateSource ==
  ASSUME Source(points, flow, loose, loops), NEW more \in SUBSET Flows,
         NEW leaving \in SUBSET Leaving, Evaluate(more, leaving)
  PROVE  Source(points', flow', loose', loops)
<1>1. points \in 0 .. MaxPoints /\ points < MaxPoints /\ NextPoint \in 1 .. MaxPoints + 1
      /\ points + 1 \in 0 .. MaxPoints
  BY NextPointType DEF Source, Evaluate, NextPoint
<1>2. Join(loose, points + 1) \subseteq Flows
  BY <1>1, JoinType DEF Source, NextPoint
<1> QED BY <1>1, <1>2 DEF Source, Evaluate

\* ... and when flow is only joined.
LEMMA NoPointSource ==
  ASSUME Source(points, flow, loose, loops), NEW more \in SUBSET Flows,
         NEW leaving \in SUBSET Leaving, NoPoint(more, leaving)
  PROVE  Source(points', flow', loose', loops)
BY DEF Source, NoPoint

\* The flow back to the first point of a loop is well typed.
LEMMA LoopBackType ==
  ASSUME NEW f \in Frames, NEW from \in SUBSET Leaving
  PROVE  LoopBack(f, from) \subseteq Flows
BY JoinType DEF LoopBack, Frames

(***************************************************************************)
(* New blocks and new frames.                                              *)
(***************************************************************************)
\* A block made by New is one that did not exist.
LEMMA FreshBlocks ==
  ASSUME NEW k \in Nat, created \in Blocks, created + k \in Blocks, NEW j \in 1 .. k
  PROVE  Fresh(j) \in Blocks /\ Fresh(j) \in created + 1 .. created + k
BY TranslatorAssumption DEF Fresh

\* The elements of a list of one, two or three new blocks.
LEMMA Elements1 == \A a : ToSet(<<a>>) = {a}
BY DEF ToSet

\* Two blocks.
LEMMA Elements2 == \A a, b : ToSet(<<a, b>>) = {a, b}
<1> SUFFICES ASSUME NEW a, NEW b PROVE ToSet(<<a, b>>) = {a, b}
  OBVIOUS
<1> DEFINE s == <<a, b>>
<1>1. DOMAIN s = {1, 2} /\ s[1] = a /\ s[2] = b
  OBVIOUS
<1> HIDE DEF s
<1>2. ToSet(s) = {a, b}
  BY <1>1 DEF ToSet
<1> QED BY <1>2 DEF s

\* Three blocks.
LEMMA Elements3 == \A a, b, c : ToSet(<<a, b, c>>) = {a, b, c}
<1> SUFFICES ASSUME NEW a, NEW b, NEW c PROVE ToSet(<<a, b, c>>) = {a, b, c}
  OBVIOUS
<1> DEFINE s == <<a, b, c>>
<1>1. DOMAIN s = {1, 2, 3} /\ s[1] = a /\ s[2] = b /\ s[3] = c
  OBVIOUS
<1> HIDE DEF s
<1>2. ToSet(s) = {a, b, c}
  BY <1>1 DEF ToSet
<1> QED BY <1>2 DEF s

\* A new frame is a frame, with the fields it was given.
LEMMA FrameTypes ==
  ASSUME points \in 0 .. MaxPoints,
         NEW kind \in {"if", "else", "do", "doCond", "while", "whileCond", "for", "forCond", "rhs"},
         NEW head \in Optional, NEW body \in Optional, NEW exit \in Blocks,
         NEW atExit \in SUBSET Leaving, NEW atBody \in SUBSET Leaving
  PROVE  LET f == Frame(kind, head, body, exit, atExit, atBody)
         IN  /\ f \in Frames /\ f.kind = kind /\ f.head = head /\ f.body = body /\ f.exit = exit
             /\ f.atExit = atExit /\ f.atBody = atBody /\ f.first = points + 1
BY TranslatorAssumption DEF Frame, Frames

(***************************************************************************)
(* The statements.                                                         *)
(***************************************************************************)
\* What the invariant says while the body is translated.
LEMMA BodyState ==
  ASSUME Inv, phase = "body"
  PROVE  /\ Building(g, order, created, current, frames)
         /\ Good(g, Blocks) /\ g.branch[current] = NULL /\ current \in Blocks
         /\ created \in Blocks /\ current \in 1 .. created
         /\ Source(points, flow, loose, loops)
         /\ points \in 0 .. MaxPoints /\ loose \in SUBSET Leaving
BY DEF Inv, Building, Listed, Open, Source

\* A statement keeps the invariant when it keeps its parts.
LEMMA StatementStep ==
  ASSUME Inv, phase = "body", phase' = phase, rest' = rest,
         Source(points', flow', loose', loops'),
         Building(g', order', created', current', frames')
  PROVE  Inv'
BY DEF Inv

\* The blocks a handler creates are blocks, new, and different from each other.
LEMMA NewBlocks ==
  ASSUME Inv, phase = "body", NEW k \in 1 .. 3, New(k)
  PROVE  /\ k \in Nat /\ created' = created + k /\ created + k \in Blocks
         /\ \A j \in 1 .. k : /\ Fresh(j) \in Blocks /\ Fresh(j) \in created + 1 .. created + k
                              /\ Fresh(j) # current /\ Fresh(j) # NULL
         /\ \A i, j \in 1 .. k : i # j => Fresh(i) # Fresh(j)
<1>1. /\ created \in Blocks /\ current \in 1 .. created /\ k \in Nat
      /\ created' = created + k /\ created + k \in Blocks
  BY BodyState DEF New
<1>2. created \in Nat
  BY <1>1, TranslatorAssumption
<1>3. ASSUME NEW j \in 1 .. k
      PROVE  /\ Fresh(j) \in Blocks /\ Fresh(j) \in created + 1 .. created + k
             /\ Fresh(j) # current /\ Fresh(j) # NULL
  <2>1. Fresh(j) \in Blocks /\ Fresh(j) \in created + 1 .. created + k
    BY <1>1, FreshBlocks
  <2>2. Fresh(j) # current
    BY <1>1, <1>2, <2>1
  <2> QED BY <2>1, <2>2, CfgAssumption
<1>4. \A i, j \in 1 .. k : i # j => Fresh(i) # Fresh(j)
  BY <1>2 DEF Fresh
<1> QED BY <1>1, <1>3, <1>4

\* An expression keeps the invariant.
LEMMA ExpressionStep ==
  ASSUME Inv, Expression
  PROVE  Inv'
<1>1. /\ phase = "body" /\ phase' = phase /\ rest' = rest /\ loops' = loops
      /\ order' = order /\ created' = created /\ current' = current /\ frames' = frames
      /\ g' = WithOp(g, NextPoint) /\ points < MaxPoints
      /\ Evaluate({}, {<<NextPoint, "any">>})
  BY DEF Expression, InStatements, In, SweepState, Evaluate
<1>2. NextPoint \in Values /\ NextPoint \in 0 .. MaxPoints
  BY <1>1, BodyState, NextPointType
<1>3. Good(g', Blocks) /\ Same(g, g', {current}) /\ g'.branch[current] = NULL
  BY <1>1, <1>2, BodyState, OpStep DEF WithOp
<1>4. Building(g', order', created', current', frames')
  BY <1>1, <1>3, BodyState, StayStep
<1>5. Source(points', flow', loose', loops')
  <2>1. {<<NextPoint, "any">>} \in SUBSET Leaving /\ {} \in SUBSET Flows
    BY <1>2, OutcomeTypes
  <2> QED BY <1>1, <2>1, BodyState, EvaluateSource
<1> QED BY <1>1, <1>4, <1>5, StatementStep

\* The left operand of && and || keeps the invariant: the block of the right operand
\* becomes current, and the exit waits.
LEMMA LogicLeftStep ==
  ASSUME NEW isAnd \in BOOLEAN, NEW v \in Conditions(NextPoint), Inv, LogicLeft(isAnd, v)
  PROVE  Inv'
<1> DEFINE next == Fresh(1)
           exit == Fresh(2)
           on == IF isAnd THEN Holds(NextPoint, v) ELSE Fails(NextPoint, v)
           off == IF isAnd THEN Fails(NextPoint, v) ELSE Holds(NextPoint, v)
           f == Frame("rhs", NULL, NULL, exit, off, {})
           news == <<next, exit>>
<1>1. /\ phase = "body" /\ phase' = phase /\ rest' = rest /\ loops' = loops
      /\ New(2) /\ PutAfter(current, news) /\ current' = next
      /\ frames' = Append(frames, f) /\ points < MaxPoints /\ Evaluate({}, on)
      /\ g' = ResetBranch(WithOp(g, NextPoint), current, v,
                          IF isAnd THEN next ELSE exit, IF isAnd THEN exit ELSE next)
  BY DEF LogicLeft, InExpression, InStatements, In, Push, SweepState, Evaluate
<1>2. /\ next \in Blocks /\ exit \in Blocks /\ next # exit /\ next # current /\ exit # current
      /\ exit # NULL /\ {next, exit} \subseteq created + 1 .. created + 2
      /\ created' = created + 2 /\ created + 2 \in Blocks
  BY <1>1, NewBlocks
<1>3. news \in Seq(Blocks) /\ ToSet(news) = {next, exit}
  BY <1>2, Elements2
<1> HIDE DEF next, exit
<1>4. /\ NextPoint \in Values /\ v \in Values /\ NextPoint \in 0 .. MaxPoints
      /\ on \in SUBSET Leaving /\ off \in SUBSET Leaving
  BY <1>1, BodyState, NextPointType, OutcomeTypes
<1> HIDE DEF on, off, news
<1>5. Good(g', Blocks) /\ Same(g, g', {current})
  <2>1. CASE isAnd
    BY <1>1, <1>2, <1>4, <2>1, BodyState, ConditionStep DEF WithOp
  <2>2. CASE ~ isAnd
    BY <1>1, <1>2, <1>4, <2>2, BodyState, ConditionStep DEF WithOp
  <2> QED BY <2>1, <2>2
<1>6. Shaped(f) /\ Waits(f) = {exit}
  BY <1>1, <1>2, <1>4, BodyState, FrameTypes, CfgAssumption DEF Shaped, Waits, Optional
<1> HIDE DEF f
<1>7. Building(g', order', created', current', frames')
  BY <1>1, <1>2, <1>3, <1>5, <1>6, BodyState, EnterFromCurrent
<1>8. Source(points', flow', loose', loops')
  BY <1>1, <1>4, BodyState, EvaluateSource
<1> QED BY <1>1, <1>7, <1>8, StatementStep

\* An if without an else keeps the invariant: its exit waits.
LEMMA IfStep ==
  ASSUME NEW v \in Conditions(NextPoint), Inv, If(v)
  PROVE  Inv'
<1> DEFINE branchIf == Fresh(1)
           exit == Fresh(2)
           f == Frame("if", NULL, NULL, exit, Fails(NextPoint, v), {})
           news == <<branchIf, exit>>
<1>1. /\ phase = "body" /\ phase' = phase /\ rest' = rest /\ loops' = loops
      /\ New(2) /\ PutAfter(current, news) /\ current' = branchIf
      /\ frames' = Append(frames, f) /\ points < MaxPoints
      /\ Evaluate({}, Holds(NextPoint, v))
      /\ g' = ResetBranch(WithOp(g, NextPoint), current, v, branchIf, exit)
  BY DEF If, InStatements, In, Push, SweepState, Evaluate
<1>2. /\ branchIf \in Blocks /\ exit \in Blocks /\ branchIf # exit
      /\ branchIf # current /\ exit # current
      /\ exit # NULL /\ {branchIf, exit} \subseteq created + 1 .. created + 2
      /\ created' = created + 2 /\ created + 2 \in Blocks
  BY <1>1, NewBlocks
<1>3. news \in Seq(Blocks) /\ ToSet(news) = {branchIf, exit}
  BY <1>2, Elements2
<1> HIDE DEF branchIf, exit
<1>4. /\ NextPoint \in Values /\ v \in Values /\ NextPoint \in 0 .. MaxPoints
      /\ Holds(NextPoint, v) \in SUBSET Leaving /\ Fails(NextPoint, v) \in SUBSET Leaving
  BY <1>1, BodyState, NextPointType, OutcomeTypes
<1> HIDE DEF news
<1>5. Good(g', Blocks) /\ Same(g, g', {current})
  BY <1>1, <1>2, <1>4, BodyState, ConditionStep DEF WithOp
<1>6. Shaped(f) /\ Waits(f) = {exit}
  BY <1>1, <1>2, <1>4, BodyState, FrameTypes, CfgAssumption DEF Shaped, Waits, Optional
<1> HIDE DEF f
<1>7. Building(g', order', created', current', frames')
  BY <1>1, <1>2, <1>3, <1>5, <1>6, BodyState, EnterFromCurrent
<1>8. Source(points', flow', loose', loops')
  BY <1>1, <1>4, BodyState, EvaluateSource
<1> QED BY <1>1, <1>7, <1>8, StatementStep

\* An if with an else keeps the invariant: the block of the other arm waits too.
LEMMA IfElseStep ==
  ASSUME NEW v \in Conditions(NextPoint), Inv, IfElse(v)
  PROVE  Inv'
<1> DEFINE branchIf == Fresh(1)
           exit == Fresh(2)
           branchElse == Fresh(3)
           f == Frame("else", NULL, branchIf, exit, {}, Holds(NextPoint, v))
           news == <<branchIf, branchElse, exit>>
<1>1. /\ phase = "body" /\ phase' = phase /\ rest' = rest /\ loops' = loops
      /\ New(3) /\ PutAfter(current, news) /\ current' = branchElse
      /\ frames' = Append(frames, f) /\ points < MaxPoints
      /\ Evaluate({}, Fails(NextPoint, v))
      /\ g' = ResetBranch(WithOp(g, NextPoint), current, v, branchIf, branchElse)
  BY DEF IfElse, InStatements, In, Push, SweepState, Evaluate
<1>2. /\ branchIf \in Blocks /\ exit \in Blocks /\ branchElse \in Blocks
      /\ branchIf # exit /\ branchIf # branchElse /\ exit # branchElse
      /\ branchIf # current /\ exit # current /\ branchElse # current
      /\ exit # NULL /\ {branchIf, branchElse, exit} \subseteq created + 1 .. created + 3
      /\ created' = created + 3 /\ created + 3 \in Blocks
  BY <1>1, NewBlocks
<1>3. news \in Seq(Blocks) /\ ToSet(news) = {branchIf, branchElse, exit}
  BY <1>2, Elements3
<1> HIDE DEF branchIf, exit, branchElse
<1>4. /\ NextPoint \in Values /\ v \in Values /\ NextPoint \in 0 .. MaxPoints
      /\ Holds(NextPoint, v) \in SUBSET Leaving /\ Fails(NextPoint, v) \in SUBSET Leaving
  BY <1>1, BodyState, NextPointType, OutcomeTypes
<1> HIDE DEF news
<1>5. Good(g', Blocks) /\ Same(g, g', {current})
  BY <1>1, <1>2, <1>4, BodyState, ConditionStep DEF WithOp
<1>6. Shaped(f) /\ Waits(f) = {branchIf, exit}
  BY <1>1, <1>2, <1>4, BodyState, FrameTypes, CfgAssumption DEF Shaped, Waits, Optional
<1> HIDE DEF f
<1>7. Building(g', order', created', current', frames')
  BY <1>1, <1>2, <1>3, <1>5, <1>6, BodyState, EnterFromCurrent
<1>8. Source(points', flow', loose', loops')
  BY <1>1, <1>4, BodyState, EvaluateSource
<1> QED BY <1>1, <1>7, <1>8, StatementStep

\* The start of a do statement keeps the invariant.
LEMMA DoStep ==
  ASSUME Inv, Do
  PROVE  Inv'
<1> DEFINE cond == Fresh(1)
           exit == Fresh(2)
           loop == Fresh(3)
           f == Frame("do", loop, cond, exit, {}, {})
           news == <<loop, cond, exit>>
<1>1. /\ phase = "body" /\ phase' = phase /\ rest' = rest /\ loops' = loops \cup {loop}
      /\ points' = points /\ flow' = flow /\ loose' = loose
      /\ New(3) /\ PutAfter(current, news) /\ current' = loop
      /\ frames' = Append(frames, f) /\ g' = ResetTo(g, current, loop)
  BY DEF Do, InStatements, In, Push
<1>2. /\ cond \in Blocks /\ exit \in Blocks /\ loop \in Blocks
      /\ cond # exit /\ cond # loop /\ exit # loop
      /\ cond # current /\ exit # current /\ loop # current
      /\ {cond, exit, loop} \subseteq created + 1 .. created + 3
      /\ created' = created + 3 /\ created + 3 \in Blocks
  BY <1>1, NewBlocks
<1>3. news \in Seq(Blocks) /\ ToSet(news) = {loop, cond, exit}
  BY <1>2, Elements3
<1> HIDE DEF cond, exit, loop, news
<1>4. Good(g', Blocks) /\ Same(g, g', {current})
  BY <1>1, <1>2, BodyState, JumpStep
<1>5. Shaped(f) /\ Waits(f) = {cond, exit}
  <2>1. {} \in SUBSET Leaving
    OBVIOUS
  <2> QED BY <1>1, <1>2, <2>1, BodyState, FrameTypes, CfgAssumption DEF Shaped, Waits, Optional
<1> HIDE DEF f
<1>6. Building(g', order', created', current', frames')
  BY <1>1, <1>2, <1>3, <1>4, <1>5, BodyState, EnterFromCurrent
<1>7. Source(points', flow', loose', loops')
  BY <1>1, <1>2, BodyState DEF Source
<1> QED BY <1>1, <1>6, <1>7, StatementStep

\* The start of a while or for statement keeps the invariant.
LEMMA LoopStep ==
  ASSUME NEW kind \in {"whileCond", "forCond"}, Inv, Loop(kind)
  PROVE  Inv'
<1> DEFINE cond == Fresh(1)
           loop == Fresh(2)
           exit == Fresh(3)
           f == Frame(kind, cond, loop, exit, {}, {})
           news == <<cond, loop, exit>>
<1>1. /\ phase = "body" /\ phase' = phase /\ rest' = rest /\ loops' = loops \cup {cond}
      /\ points' = points /\ flow' = flow /\ loose' = loose
      /\ New(3) /\ PutAfter(current, news) /\ current' = cond
      /\ frames' = Append(frames, f) /\ g' = ResetTo(g, current, cond)
  BY DEF Loop, InStatements, In, Push
<1>2. /\ cond \in Blocks /\ exit \in Blocks /\ loop \in Blocks
      /\ cond # exit /\ cond # loop /\ exit # loop
      /\ cond # current /\ exit # current /\ loop # current
      /\ {cond, exit, loop} \subseteq created + 1 .. created + 3
      /\ created' = created + 3 /\ created + 3 \in Blocks
  BY <1>1, NewBlocks
<1>3. news \in Seq(Blocks) /\ ToSet(news) = {loop, cond, exit}
  BY <1>2, Elements3
<1> HIDE DEF cond, exit, loop, news
<1>4. Good(g', Blocks) /\ Same(g, g', {current})
  BY <1>1, <1>2, BodyState, JumpStep
<1>5. Shaped(f) /\ Waits(f) = {loop, exit}
  <2>1. {} \in SUBSET Leaving
    OBVIOUS
  <2> QED BY <1>1, <1>2, <2>1, BodyState, FrameTypes, CfgAssumption DEF Shaped, Waits, Optional
<1> HIDE DEF f
<1>6. Building(g', order', created', current', frames')
  BY <1>1, <1>2, <1>3, <1>4, <1>5, BodyState, EnterFromCurrent
<1>7. Source(points', flow', loose', loops')
  BY <1>1, <1>2, BodyState DEF Source
<1> QED BY <1>1, <1>6, <1>7, StatementStep

\* for (;;) keeps the invariant: its condition block is closed at once.
LEMMA EndlessForStep ==
  ASSUME Inv, EndlessFor
  PROVE  Inv'
<1> DEFINE cond == Fresh(1)
           loop == Fresh(2)
           exit == Fresh(3)
           f == Frame("for", cond, NULL, exit, {}, {})
           news == <<cond, loop, exit>>
           k == ResetTo(g, current, cond)
           C == {current} \cup {cond}
<1>1. /\ phase = "body" /\ phase' = phase /\ rest' = rest /\ loops' = loops \cup {cond}
      /\ points' = points /\ flow' = flow /\ loose' = loose
      /\ New(3) /\ PutAfter(current, news) /\ current' = loop
      /\ frames' = Append(frames, f) /\ g' = ResetTo(k, cond, loop)
  BY DEF EndlessFor, InStatements, In, Push
<1>2. /\ cond \in Blocks /\ exit \in Blocks /\ loop \in Blocks
      /\ cond # exit /\ cond # loop /\ exit # loop
      /\ cond # current /\ exit # current /\ loop # current
      /\ {cond, exit, loop} \subseteq created + 1 .. created + 3
      /\ created' = created + 3 /\ created + 3 \in Blocks
  BY <1>1, NewBlocks
<1>3. news \in Seq(Blocks) /\ ToSet(news) = {loop, cond, exit}
  BY <1>2, Elements3
<1> HIDE DEF cond, exit, loop, news
<1>4. Good(k, Blocks) /\ Same(g, k, {current})
  BY <1>1, <1>2, BodyState, JumpStep
<1> HIDE DEF k
<1>5. Good(g', Blocks) /\ Same(k, g', {cond})
  BY <1>1, <1>2, <1>4, JumpStep
<1>6. Same(g, g', C)
  BY <1>4, <1>5, SameTwice
<1>7. Shaped(f) /\ Waits(f) = {exit}
  <2>1. {} \in SUBSET Leaving
    OBVIOUS
  <2> QED BY <1>1, <1>2, <2>1, BodyState, FrameTypes, CfgAssumption DEF Shaped, Waits, Optional
<1> HIDE DEF f
<1>8. /\ C \subseteq {current} \cup ToSet(news) /\ loop \in ToSet(news) \ C
      /\ Waits(f) \subseteq ToSet(news) \ (C \cup {loop})
      /\ ToSet(news) \subseteq created + 1 .. created + 3 /\ 3 \in Nat
  BY <1>2, <1>3, <1>7
<1> HIDE DEF C
<1>9. Building(g', order', created', current', frames')
  BY <1>1, <1>2, <1>3, <1>5, <1>6, <1>7, <1>8, BodyState, EnterStep
<1>10. Source(points', flow', loose', loops')
  BY <1>1, <1>2, BodyState DEF Source
<1> QED BY <1>1, <1>9, <1>10, StatementStep

\* The innermost frame has what its kind promises.
LEMMA TopFrame ==
  ASSUME Inv, phase = "body", frames # <<>>
  PROVE  /\ Shaped(Top) /\ Top \in Frames
         /\ Top.exit \in Blocks /\ Top.exit \in Waits(Top)
         /\ Top.body \in Blocks => Top.body \in Waits(Top)
         /\ Top.atExit \in SUBSET Leaving /\ Top.atBody \in SUBSET Leaving
         /\ Top.first \in 1 .. MaxPoints + 1
<1>1. Shaped(Top)
  BY BodyState, PopWaiting DEF Building, Top
<1> QED BY <1>1 DEF Shaped, Frames, Waits

\* A frame that goes on without the block that was current.
LEMMA ReplacedFrame ==
  ASSUME NEW f, Shaped(f), NEW kind \in {"if", "doCond", "while", "for"},
         kind # "if" => f.head \in Blocks, NEW atExit \in SUBSET Leaving
  PROVE  LET h == [f EXCEPT !.kind = kind, !.atExit = atExit, !.body = NULL]
         IN  Shaped(h) /\ Waits(h) = {f.exit}
BY CfgAssumption DEF Shaped, Frames, Waits, Optional

\* The right operand of && and || keeps the invariant.
LEMMA LogicRightStep ==
  ASSUME Inv, LogicRight
  PROVE  Inv'
<1> DEFINE exit == Top.exit
           leaving == {<<NextPoint, "any">>} \cup Top.atExit
<1>1. /\ phase = "body" /\ frames # <<>> /\ phase' = phase /\ rest' = rest /\ loops' = loops
      /\ g' = ResetTo(WithOp(g, NextPoint), current, exit) /\ current' = exit
      /\ points < MaxPoints /\ Evaluate({}, leaving) /\ frames' = Front(frames)
      /\ order' = order /\ created' = created
  BY DEF LogicRight, In, Pop, SweepState, Evaluate
<1>2. exit \in Blocks /\ exit \in Waits(Top) /\ Top.atExit \in SUBSET Leaving
  BY <1>1, TopFrame
<1>3. /\ NextPoint \in Values /\ leaving \in SUBSET Leaving
  BY <1>1, <1>2, BodyState, NextPointType, OutcomeTypes
<1> HIDE DEF exit, leaving
<1>4. Good(g', Blocks) /\ Same(g, g', {current})
  BY <1>1, <1>2, <1>3, BodyState, OpJumpStep DEF WithOp
<1>5. Building(g', order', created', current', frames')
  BY <1>1, <1>2, <1>4, BodyState, ReturnStep DEF Top
<1>6. Source(points', flow', loose', loops')
  BY <1>1, <1>3, BodyState, EvaluateSource
<1> QED BY <1>1, <1>5, <1>6, StatementStep

\* The end of an if keeps the invariant.
LEMMA EndIfStep ==
  ASSUME Inv, EndIf
  PROVE  Inv'
<1> DEFINE exit == Top.exit
           leaving == loose \cup Top.atExit
<1>1. /\ phase = "body" /\ frames # <<>> /\ phase' = phase /\ rest' = rest /\ loops' = loops
      /\ g' = ResetTo(g, current, exit) /\ current' = exit
      /\ NoPoint({}, leaving) /\ frames' = Front(frames)
      /\ order' = order /\ created' = created
  BY DEF EndIf, In, Pop, SweepState
<1>2. exit \in Blocks /\ exit \in Waits(Top) /\ leaving \in SUBSET Leaving
  BY <1>1, TopFrame, BodyState
<1> HIDE DEF exit, leaving
<1>3. Good(g', Blocks) /\ Same(g, g', {current})
  BY <1>1, <1>2, BodyState, JumpStep
<1>4. Building(g', order', created', current', frames')
  BY <1>1, <1>2, <1>3, BodyState, ReturnStep DEF Top
<1>5. Source(points', flow', loose', loops')
  BY <1>1, <1>2, BodyState, NoPointSource
<1> QED BY <1>1, <1>4, <1>5, StatementStep

\* The end of an else keeps the invariant: the waiting arm becomes current.
LEMMA EndElseStep ==
  ASSUME Inv, EndElse
  PROVE  Inv'
<1> DEFINE exit == Top.exit
           body == Top.body
           f == [Top EXCEPT !.kind = "if", !.atExit = loose, !.body = NULL]
<1>1. /\ phase = "body" /\ frames # <<>> /\ phase' = phase /\ rest' = rest /\ loops' = loops
      /\ g' = ResetTo(g, current, exit) /\ current' = body /\ Top.kind = "else"
      /\ NoPoint({}, Top.atBody) /\ frames' = Append(Front(frames), f)
      /\ order' = order /\ created' = created
  BY DEF EndElse, In, Replace, SweepState
<1>2. /\ exit \in Blocks /\ exit \in Waits(Top) /\ body \in Waits(Top) /\ body # exit
      /\ Top.atBody \in SUBSET Leaving
  BY <1>1, TopFrame DEF Shaped
<1>3. Shaped(f) /\ Waits(f) = {exit}
  <2>1. Shaped(Top) /\ loose \in SUBSET Leaving
    BY <1>1, TopFrame, BodyState
  <2> QED BY <2>1, ReplacedFrame
<1> HIDE DEF exit, body, f
<1>4. Good(g', Blocks) /\ Same(g, g', {current})
  BY <1>1, <1>2, BodyState, JumpStep
<1>5. Building(g', order', created', current', frames')
  BY <1>1, <1>2, <1>3, <1>4, BodyState, ReplaceStep DEF Top
<1>6. Source(points', flow', loose', loops')
  BY <1>1, <1>2, BodyState, NoPointSource
<1> QED BY <1>1, <1>5, <1>6, StatementStep

\* The end of a do body keeps the invariant.
LEMMA EndDoBodyStep ==
  ASSUME Inv, EndDoBody
  PROVE  Inv'
<1> DEFINE body == Top.body
           f == [Top EXCEPT !.kind = "doCond", !.body = NULL]
<1>1. /\ phase = "body" /\ frames # <<>> /\ phase' = phase /\ rest' = rest /\ loops' = loops
      /\ g' = ResetTo(g, current, body) /\ current' = body /\ Top.kind = "do"
      /\ points' = points /\ flow' = flow /\ loose' = loose
      /\ frames' = Append(Front(frames), f)
      /\ order' = order /\ created' = created
  BY DEF EndDoBody, In, Replace, SweepState
<1>2. /\ Shaped(Top) /\ Top.exit \in Blocks /\ Top.exit \in Waits(Top)
      /\ body \in Blocks /\ body \in Waits(Top) /\ body # Top.exit
  BY <1>1, TopFrame DEF Shaped
<1>3. Shaped(f) /\ Waits(f) = {Top.exit}
  BY <1>1, <1>2, CfgAssumption DEF Shaped, Frames, Waits, Optional
<1> HIDE DEF body, f
<1>4. Good(g', Blocks) /\ Same(g, g', {current})
  BY <1>1, <1>2, BodyState, JumpStep
<1>5. Building(g', order', created', current', frames')
  BY <1>1, <1>2, <1>3, <1>4, BodyState, ReplaceStep DEF Top
<1>6. Source(points', flow', loose', loops')
  BY <1>1, BodyState
<1> QED BY <1>1, <1>5, <1>6, StatementStep

\* The condition of a do statement keeps the invariant.
LEMMA DoTestStep ==
  ASSUME NEW v \in Conditions(NextPoint), Inv, DoTest(v)
  PROVE  Inv'
<1> DEFINE exit == Top.exit
           head == Top.head
           back == Join(Holds(NextPoint, v), Top.first)
<1>1. /\ phase = "body" /\ frames # <<>> /\ phase' = phase /\ rest' = rest /\ loops' = loops
      /\ g' = ResetBranch(WithOp(g, NextPoint), current, v, head, exit) /\ current' = exit
      /\ Top.kind = "doCond" /\ points < MaxPoints
      /\ Evaluate(back, Fails(NextPoint, v)) /\ frames' = Front(frames)
      /\ order' = order /\ created' = created
  BY DEF DoTest, In, Pop, SweepState, Evaluate
<1>2. /\ exit \in Blocks /\ exit \in Waits(Top) /\ head \in Blocks /\ head # exit
      /\ Top.first \in 1 .. MaxPoints + 1
  BY <1>1, TopFrame DEF Shaped
<1>3. /\ NextPoint \in Values /\ v \in Values
      /\ Holds(NextPoint, v) \in SUBSET Leaving /\ Fails(NextPoint, v) \in SUBSET Leaving
  BY <1>1, BodyState, NextPointType, OutcomeTypes
<1>4. back \in SUBSET Flows
  BY <1>2, <1>3, JoinType
<1> HIDE DEF exit, head, back
<1>5. Good(g', Blocks) /\ Same(g, g', {current})
  BY <1>1, <1>2, <1>3, BodyState, ConditionStep DEF WithOp
<1>6. Building(g', order', created', current', frames')
  BY <1>1, <1>2, <1>5, BodyState, ReturnStep DEF Top
<1>7. Source(points', flow', loose', loops')
  BY <1>1, <1>3, <1>4, BodyState, EvaluateSource
<1> QED BY <1>1, <1>6, <1>7, StatementStep

\* The condition of a while or for statement keeps the invariant.
LEMMA LoopTestStep ==
  ASSUME NEW v \in Conditions(NextPoint), Inv,
         NEW kind \in {"while", "for"}, NEW cond \in {"whileCond", "forCond"},
         LoopTest(v, kind, cond)
  PROVE  Inv'
<1> DEFINE exit == Top.exit
           body == Top.body
           f == [Top EXCEPT !.kind = kind, !.atExit = Fails(NextPoint, v), !.body = NULL]
<1>1. /\ phase = "body" /\ frames # <<>> /\ phase' = phase /\ rest' = rest /\ loops' = loops
      /\ g' = ResetBranch(WithOp(g, NextPoint), current, v, body, exit) /\ current' = body
      /\ Top.kind = cond /\ points < MaxPoints
      /\ Evaluate({}, Holds(NextPoint, v)) /\ frames' = Append(Front(frames), f)
      /\ order' = order /\ created' = created
  BY DEF LoopTest, In, Replace, SweepState, Evaluate
<1>2. /\ Shaped(Top) /\ exit \in Blocks /\ exit \in Waits(Top)
      /\ body \in Blocks /\ body \in Waits(Top) /\ body # exit /\ Top.head \in Blocks
  BY <1>1, TopFrame DEF Shaped
<1>3. /\ NextPoint \in Values /\ v \in Values
      /\ Holds(NextPoint, v) \in SUBSET Leaving /\ Fails(NextPoint, v) \in SUBSET Leaving
  BY <1>1, BodyState, NextPointType, OutcomeTypes
<1>4. Shaped(f) /\ Waits(f) = {exit}
  BY <1>2, <1>3, ReplacedFrame
<1> HIDE DEF exit, body, f
<1>5. Good(g', Blocks) /\ Same(g, g', {current})
  BY <1>1, <1>2, <1>3, BodyState, ConditionStep DEF WithOp
<1>6. Building(g', order', created', current', frames')
  BY <1>1, <1>2, <1>4, <1>5, BodyState, ReplaceStep DEF Top
<1>7. Source(points', flow', loose', loops')
  BY <1>1, <1>3, BodyState, EvaluateSource
<1> QED BY <1>1, <1>6, <1>7, StatementStep

\* The end of a loop body keeps the invariant.
LEMMA EndLoopStep ==
  ASSUME Inv, EndLoop
  PROVE  Inv'
<1> DEFINE exit == Top.exit
           head == Top.head
           back == LoopBack(Top, loose)
<1>1. /\ phase = "body" /\ frames # <<>> /\ phase' = phase /\ rest' = rest /\ loops' = loops
      /\ g' = ResetTo(g, current, head) /\ current' = exit
      /\ Top.kind \in {"while", "for"}
      /\ NoPoint(back, Top.atExit) /\ frames' = Front(frames)
      /\ order' = order /\ created' = created
  BY DEF EndLoop, In, Pop, SweepState
<1>2. /\ exit \in Blocks /\ exit \in Waits(Top) /\ head \in Blocks
      /\ Top.atExit \in SUBSET Leaving /\ Top \in Frames
  BY <1>1, TopFrame DEF Shaped
<1>3. back \in SUBSET Flows
  BY <1>1, <1>2, BodyState, LoopBackType
<1> HIDE DEF exit, head, back
<1>4. Good(g', Blocks) /\ Same(g, g', {current})
  BY <1>1, <1>2, BodyState, JumpStep
<1>5. Building(g', order', created', current', frames')
  BY <1>1, <1>2, <1>4, BodyState, ReturnStep DEF Top
<1>6. Source(points', flow', loose', loops')
  BY <1>1, <1>2, <1>3, BodyState, NoPointSource
<1> QED BY <1>1, <1>5, <1>6, StatementStep

(***************************************************************************)
(* Control leaves: a new block, no new handler.                            *)
(***************************************************************************)
\* What follows goes to an open block with the handlers as they were.
LEMMA LeaveStep ==
  ASSUME Inv, phase = "body", NEW h, Leave(h), Good(h, Blocks), Same(g, h, {current})
  PROVE  Building(g', order', created', current', frames)
<1> DEFINE news == <<Fresh(1)>>
           C == {current}
<1>1. /\ New(1) /\ PutAfter(current, news) /\ g' = h /\ current' = Fresh(1)
  BY DEF Leave
<1>2. /\ Fresh(1) \in Blocks /\ Fresh(1) \in created + 1 .. created + 1
      /\ Fresh(1) # current /\ created' = created + 1 /\ created + 1 \in Blocks
  BY <1>1, NewBlocks
<1>3. news \in Seq(Blocks) /\ ToSet(news) = {Fresh(1)}
  BY <1>2, Elements1
<1>4. /\ C \subseteq {current} \cup ToSet(news) /\ Fresh(1) \in ToSet(news) \ C
      /\ ToSet(news) \subseteq created + 1 .. created + 1 /\ 1 \in Nat /\ Same(g, h, C)
  BY <1>2, <1>3
<1> HIDE DEF news, C
<1>5. Building(h, order', created + 1, Fresh(1), frames)
  BY <1>1, <1>2, <1>3, <1>4, BodyState, GrowStep
<1> QED BY <1>1, <1>2, <1>5

\* The innermost loop of a break or continue is a frame.
LEMMA InnerLoopIs ==
  ASSUME Inv, phase = "body", LoopFrames # {}
  PROVE  /\ InnerLoop \in 1 .. Len(frames)
         /\ Shaped(frames[InnerLoop]) /\ frames[InnerLoop] \in Frames
         /\ frames[InnerLoop].kind \in Loops
<1>1. frames \in Seq(Frames) /\ Len(frames) \in Nat /\ DOMAIN frames = 1 .. Len(frames)
  BY BodyState, LenProperties DEF Building, Waiting
<1>2. LoopFrames \in SUBSET (1 .. Len(frames))
  BY <1>1 DEF LoopFrames
<1>3. \E i \in LoopFrames : \A j \in LoopFrames : j <= i
  BY <1>1, <1>2, GreatestElement
<1>4. InnerLoop \in LoopFrames
  BY <1>3 DEF InnerLoop
<1>5. Shaped(frames[InnerLoop])
  BY <1>2, <1>4, BodyState DEF Building, Waiting
<1> QED BY <1>2, <1>4, <1>5 DEF LoopFrames, Shaped

\* Noting what flows to the exit of a loop changes nobody's blocks.
LEMMA NotedWaiting ==
  ASSUME NEW gr, NEW ord, NEW cre, NEW cur, NEW fs, Building(gr, ord, cre, cur, fs),
         NEW i \in 1 .. Len(fs), NEW atExit \in SUBSET Leaving
  PROVE  Building(gr, ord, cre, cur, [fs EXCEPT ![i].atExit = atExit])
<1> DEFINE f == [fs[i] EXCEPT !.atExit = atExit]
           gs == [fs EXCEPT ![i] = f]
<1>1. fs \in Seq(Frames) /\ Shaped(fs[i]) /\ fs[i] \in Frames
  BY DEF Building, Waiting, Shaped
<1>2. Shaped(f) /\ Waits(f) = Waits(fs[i])
  BY <1>1 DEF Shaped, Frames, Waits
<1> HIDE DEF f
<1>3. /\ gs \in Seq(Frames) /\ Len(gs) = Len(fs)
      /\ \A j \in 1 .. Len(fs) : gs[j] = IF j = i THEN f ELSE fs[j]
  BY <1>1, <1>2, ExceptSeq DEF Shaped
<1>4. gs = [fs EXCEPT ![i].atExit = atExit]
  BY DEF f
<1> HIDE DEF gs
<1>5. \A j \in 1 .. Len(fs) : Shaped(gs[j]) /\ Waits(gs[j]) = Waits(fs[j])
  BY <1>2, <1>3 DEF Building, Waiting
<1>6. Waiting(gr, ord, cur, gs)
  BY <1>3, <1>5 DEF Building, Waiting, Ready
<1> QED BY <1>4, <1>6 DEF Building

\* break keeps the invariant.
LEMMA BreakStep ==
  ASSUME Inv, Break
  PROVE  Inv'
<1> DEFINE i == InnerLoop
           exit == frames[i].exit
           h == ResetTo(g, current, exit)
           atExit == frames[i].atExit \cup loose
<1>1. /\ phase = "body" /\ phase' = phase /\ rest' = rest /\ loops' = loops
      /\ LoopFrames # {} /\ Leave(h) /\ NoPoint({}, {})
      /\ frames' = [frames EXCEPT ![i].atExit = @ \cup loose]
  BY DEF Break, InWhile, InStatements, In, SweepState
<1>2. i \in 1 .. Len(frames) /\ exit \in Blocks /\ atExit \in SUBSET Leaving
  BY <1>1, InnerLoopIs, BodyState DEF Frames
<1>3. frames' = [frames EXCEPT ![i].atExit = atExit]
  BY <1>1
<1> HIDE DEF i, exit, atExit
<1>4. Good(h, Blocks) /\ Same(g, h, {current})
  BY <1>1, <1>2, BodyState, JumpStep
<1> HIDE DEF h
<1>5. Building(g', order', created', current', frames)
  BY <1>1, <1>4, LeaveStep
<1>6. Building(g', order', created', current', frames')
  BY <1>2, <1>3, <1>5, NotedWaiting
<1>7. Source(points', flow', loose', loops')
  BY <1>1, BodyState, NoPointSource
<1> QED BY <1>1, <1>6, <1>7, StatementStep

\* continue keeps the invariant.
LEMMA ContinueStep ==
  ASSUME Inv, Continue
  PROVE  Inv'
<1> DEFINE f == frames[InnerLoop]
           h == ResetTo(g, current, f.head)
           back == LoopBack(f, loose)
<1>1. /\ phase = "body" /\ phase' = phase /\ rest' = rest /\ loops' = loops
      /\ LoopFrames # {} /\ Leave(h) /\ NoPoint(back, {}) /\ frames' = frames
  BY DEF Continue, InWhile, InStatements, In, SweepState
<1>2. f \in Frames /\ f.head \in Blocks
  BY <1>1, InnerLoopIs DEF Shaped, Loops
<1> HIDE DEF f
<1>3. back \in SUBSET Flows
  BY <1>1, <1>2, BodyState, LoopBackType
<1> HIDE DEF back
<1>4. Good(h, Blocks) /\ Same(g, h, {current})
  BY <1>1, <1>2, BodyState, JumpStep
<1> HIDE DEF h
<1>5. Building(g', order', created', current', frames')
  BY <1>1, <1>4, LeaveStep
<1>6. Source(points', flow', loose', loops')
  BY <1>1, <1>3, BodyState, NoPointSource
<1> QED BY <1>1, <1>5, <1>6, StatementStep

\* return with a value keeps the invariant: the open block can take it.
LEMMA ReturnValueStep ==
  ASSUME Inv, ReturnValue
  PROVE  Inv'
<1> DEFINE gr == WithOp(g, NextPoint)
           h == AssertThat(TryMarkAsTerminal(gr, current, TRUE), MarkReturns(gr, current, TRUE))
           more == {<<NextPoint, "any", EXIT>>}
<1>1. /\ phase = "body" /\ phase' = phase /\ rest' = rest /\ loops' = loops
      /\ Leave(h) /\ points < MaxPoints /\ Evaluate(more, {}) /\ frames' = frames
  BY DEF ReturnValue, InStatements, In, SweepState, Evaluate
<1>2. NextPoint \in Values /\ NextPoint \in 0 .. MaxPoints
  BY <1>1, BodyState, NextPointType
<1>3. more \in SUBSET Flows /\ {} \in SUBSET Leaving
  BY <1>2, TranslatorAssumption DEF EXIT, Flows
<1> HIDE DEF more
<1>4. Good(gr, Blocks) /\ Same(g, gr, {current}) /\ gr.branch[current] = NULL
  BY <1>1, <1>2, BodyState, OpStep DEF WithOp
<1>5. MarkReturns(gr, current, TRUE)
  BY <1>4 DEF MarkReturns, IsIncomplete
<1> HIDE DEF gr
<1>6. Good(h, Blocks) /\ Same(gr, h, {current})
  BY <1>1, <1>4, <1>5, BodyState, AssertedMarkStep
<1> HIDE DEF h
<1>7. Same(g, h, {current})
  BY <1>4, <1>6, SameTwice DEF Same
<1>8. Building(g', order', created', current', frames')
  BY <1>1, <1>6, <1>7, LeaveStep
<1>9. Source(points', flow', loose', loops')
  BY <1>1, <1>3, BodyState, EvaluateSource
<1> QED BY <1>1, <1>8, <1>9, StatementStep

\* return without a value keeps the invariant.
LEMMA ReturnVoidStep ==
  ASSUME Inv, ReturnVoid
  PROVE  Inv'
<1> DEFINE h == AssertThat(TryMarkAsTerminal(g, current, FALSE), MarkReturns(g, current, FALSE))
           more == Join(loose, EXIT)
<1>1. /\ phase = "body" /\ phase' = phase /\ rest' = rest /\ loops' = loops
      /\ Leave(h) /\ NoPoint(more, {}) /\ frames' = frames /\ g.void
  BY DEF ReturnVoid, InStatements, In, SweepState
<1>2. more \in SUBSET Flows /\ {} \in SUBSET Leaving
  BY <1>1, BodyState, JoinType, TranslatorAssumption DEF EXIT
<1> HIDE DEF more
<1>3. MarkReturns(g, current, FALSE)
  BY <1>1, BodyState DEF MarkReturns, IsIncomplete
<1>4. Good(h, Blocks) /\ Same(g, h, {current})
  BY <1>1, <1>3, BodyState, AssertedMarkStep
<1> HIDE DEF h
<1>5. Building(g', order', created', current', frames')
  BY <1>1, <1>4, LeaveStep
<1>6. Source(points', flow', loose', loops')
  BY <1>1, <1>2, BodyState, NoPointSource
<1> QED BY <1>1, <1>5, <1>6, StatementStep

\* The end of the body keeps the invariant.
LEMMA EndFunctionStep ==
  ASSUME Inv, EndFunction
  PROVE  Inv'
<1>1. /\ phase = "body" /\ phase' = "sweep" /\ rest' = order /\ loops' = loops
      /\ flow' = flow \cup Join(loose, EXIT) /\ points' = points /\ loose' = loose
      /\ g' = g /\ order' = order /\ created' = created /\ current' = current
  BY DEF EndFunction
<1>2. Source(points', flow', loose', loops')
  <2>1. Join(loose, EXIT) \subseteq Flows
    BY <1>1, BodyState, JoinType, TranslatorAssumption DEF EXIT
  <2> QED BY <1>1, <2>1, BodyState DEF Source
<1>3. order \in Seq(Blocks) /\ order # <<>>
  <2>1. order \in Seq(Blocks) /\ current \in ToSet(order)
    BY <1>1, BodyState DEF Building, Listed, Open
  <2> QED BY <2>1, ElementsOf, EmptySeq
<1> QED BY <1>1, <1>2, <1>3, BodyState DEF Inv

(***************************************************************************)
(* The pass.                                                               *)
(***************************************************************************)
\* A visit that leaves the graph good.
LEMMA VisitStep ==
  ASSUME Inv, phase = "sweep", NEW gr, NEW ord \in Seq(Blocks), NEW ph \in {"sweep", "aborted"},
         Good(gr, Blocks), Visit(gr, ord, ph)
  PROVE  Inv'
<1>1. /\ g' = gr /\ order' = ord /\ created' = created /\ current' = current
      /\ points' = points /\ flow' = flow /\ loose' = loose /\ loops' = loops
      /\ phase' \in {"sweep", "done", "aborted"}
      /\ rest' = IF ph = "aborted" THEN rest ELSE Tail(rest)
      /\ phase' = "sweep" => rest' # <<>>
  BY DEF Visit
<1>2. rest \in Seq(Blocks) /\ rest # <<>> /\ Source(points, flow, loose, loops)
      /\ created \in Blocks /\ current \in Blocks
  BY DEF Inv
<1>3. rest' \in Seq(Blocks)
  BY <1>1, <1>2, HeadTailProperties
<1> QED BY <1>1, <1>2, <1>3 DEF Inv

\* What the invariant says during the pass.
LEMMA SweepingState ==
  ASSUME Inv, phase = "sweep"
  PROVE  /\ Good(g, Blocks) /\ order \in Seq(Blocks) /\ Head(rest) \in Blocks
         /\ g \in Graphs
BY HeadTailProperties DEF Inv, Good, Edges

\* The pass keeps the invariant: where it removes a block,
LEMMA SweepRemoveStep ==
  ASSUME Inv, SweepRemove
  PROVE  Inv'
<1>1. /\ phase = "sweep"
      /\ Visit(RemoveBlock(g, Head(rest)), RemoveFirst(order, Head(rest)), "sweep")
  BY DEF SweepRemove
<1>2. Good(RemoveBlock(g, Head(rest)), Blocks)
  BY <1>1, SweepingState, GoodIsGoodBut, ResetGood DEF RemoveBlock
<1>3. RemoveFirst(order, Head(rest)) \in Seq(Blocks)
  BY <1>1, SweepingState, RemoveFirstType
<1> QED BY <1>1, <1>2, <1>3, VisitStep

\* ... where it folds a constant branch,
LEMMA SweepFoldStep ==
  ASSUME Inv, SweepFold
  PROVE  Inv'
<1> DEFINE b == Head(rest)
           to == IF g.control[b] = IMMTRUE THEN g.branch[b] ELSE g.branchElse[b]
<1>1. phase = "sweep" /\ IsBranched(g, b) /\ Visit(ResetTo(g, b, to), order, "sweep")
  BY DEF SweepFold, Constant
<1>2. Good(g, Blocks) /\ order \in Seq(Blocks) /\ b \in Blocks /\ g \in Graphs
  BY <1>1, SweepingState
<1>3. g.branch[b] \in Blocks /\ g.branchElse[b] \in Blocks
  BY <1>1, <1>2, FieldTypes DEF IsBranched, Good, Edges, WellShaped
<1>4. to \in Blocks
  BY <1>3
<1> HIDE DEF b, to
<1>5. Good(ResetTo(g, b, to), Blocks)
  BY <1>2, <1>4, JumpGood
<1> QED BY <1>1, <1>2, <1>5, VisitStep

\* ... where it ends an open block, or aborts,
LEMMA SweepTerminateStep ==
  ASSUME Inv, SweepTerminate
  PROVE  Inv'
<1> DEFINE b == Head(rest)
           gr == TryMarkAsTerminal(g, b, FALSE)
           ph == IF MarkReturns(g, b, FALSE) THEN "sweep" ELSE "aborted"
<1>1. phase = "sweep" /\ Visit(gr, order, ph)
  BY DEF SweepTerminate
<1>2. Good(g, Blocks) /\ order \in Seq(Blocks) /\ b \in Blocks
  BY <1>1, SweepingState
<1> HIDE DEF b
<1>3. Good(gr, Blocks)
  <2>1. CASE MarkReturns(g, b, FALSE)
    BY <1>2, <2>1, MarkGood
  <2>2. CASE ~ MarkReturns(g, b, FALSE)
    BY <1>2, <2>2 DEF TryMarkAsTerminal
  <2> QED BY <2>1, <2>2
<1>4. ph \in {"sweep", "aborted"}
  OBVIOUS
<1> HIDE DEF gr, ph
<1> QED BY <1>1, <1>2, <1>3, <1>4, VisitStep

\* ... and where it passes over a block.
LEMMA SweepSkipStep ==
  ASSUME Inv, SweepSkip
  PROVE  Inv'
BY SweepingState, VisitStep DEF SweepSkip

(***************************************************************************)
(* The invariant.                                                          *)
(***************************************************************************)
\* It holds of a new function.
LEMMA InitInv ==
  ASSUME Init
  PROVE  Inv
<1>1. PICK void \in BOOLEAN : g = EmptyGraph(void)
  BY DEF Init
<1>2. /\ order = <<1>> /\ created = 1 /\ current = 1 /\ frames = <<>> /\ phase = "body"
      /\ rest = <<>> /\ points = 0 /\ flow = {} /\ loose = {<<START, "any">>} /\ loops = {}
  BY DEF Init
<1>3. 1 \in Blocks
  BY TranslatorAssumption
<1>4. /\ g \in Graphs /\ g.ok
      /\ \A b \in Blocks : /\ g.code[b] = <<>> /\ g.branch[b] = NULL /\ g.branchElse[b] = NULL
                           /\ g.control[b] = NULL /\ g.in[b] = {}
  BY <1>1 DEF EmptyGraph, Graphs
<1>5. Good(g, Blocks)
  <2>1. InBlocksAreExact(g)
    BY <1>4, CfgAssumption DEF InBlocksAreExact, Succ
  <2>2. WellShaped(g)
    BY <1>4 DEF WellShaped
  <2>3. CodeAgrees(g)
    <3> SUFFICES ASSUME NEW b \in Blocks PROVE AgreesAt(g, b)
      BY DEF CodeAgrees
    <3>1. Len(g.code[b]) = 0
      BY <1>4
    <3> QED BY <1>4, <3>1, AgreesForm DEF Plain
  <2> QED BY <1>4, <2>1, <2>2, <2>3 DEF Good, Edges
<1>6. order \in Seq(Blocks) /\ ToSet(order) = {1}
  BY <1>2, <1>3, Elements1
<1>7. Listed(g, order, created) /\ Open(g, order, current)
  BY <1>2, <1>3, <1>4, <1>6 DEF Listed, Open, Untouched
<1>8. Waiting(g, order, current, frames)
  <2>1. frames \in Seq(Frames) /\ Len(frames) = 0
    BY <1>2
  <2> QED BY <2>1 DEF Waiting
<1>9. Source(points, flow, loose, loops)
  BY <1>2, TranslatorAssumption DEF Source, START, Leaving
<1> QED BY <1>2, <1>5, <1>7, <1>8, <1>9 DEF Inv, Building

\* Every step keeps the invariant.
LEMMA NextInv ==
  ASSUME Inv, [Next]_vars
  PROVE  Inv'
<1>1. CASE UNCHANGED vars
  BY <1>1 DEF Inv, Building, Listed, Open, Waiting, Ready, Untouched, Source, vars
<1>2. CASE Sweep
  BY <1>2, SweepRemoveStep, SweepFoldStep, SweepTerminateStep, SweepSkipStep DEF Sweep
<1>3. CASE \E v \in Conditions(NextPoint) :
             \/ If(v) \/ IfElse(v) \/ DoTest(v) \/ WhileTest(v) \/ ForTest(v)
             \/ \E isAnd \in BOOLEAN : LogicLeft(isAnd, v)
  <2>1. PICK v \in Conditions(NextPoint) :
               \/ If(v) \/ IfElse(v) \/ DoTest(v) \/ WhileTest(v) \/ ForTest(v)
               \/ \E isAnd \in BOOLEAN : LogicLeft(isAnd, v)
    BY <1>3
  <2>2. CASE If(v)
    BY <2>2, IfStep
  <2>3. CASE IfElse(v)
    BY <2>3, IfElseStep
  <2>4. CASE DoTest(v)
    BY <2>4, DoTestStep
  <2>5. CASE WhileTest(v)
    BY <2>5, LoopTestStep DEF WhileTest
  <2>6. CASE ForTest(v)
    BY <2>6, LoopTestStep DEF ForTest
  <2>7. CASE \E isAnd \in BOOLEAN : LogicLeft(isAnd, v)
    BY <2>7, LogicLeftStep
  <2> QED BY <2>1, <2>2, <2>3, <2>4, <2>5, <2>6, <2>7
<1>4. CASE While
  BY <1>4, LoopStep DEF While
<1>5. CASE For
  BY <1>5, LoopStep DEF For
<1>6. CASE Expression \/ LogicRight \/ EndElse \/ EndIf \/ Do \/ EndDoBody
  BY <1>6, ExpressionStep, LogicRightStep, EndElseStep, EndIfStep, DoStep, EndDoBodyStep
<1>7. CASE EndlessFor \/ EndLoop \/ Break \/ Continue
  BY <1>7, EndlessForStep, EndLoopStep, BreakStep, ContinueStep
<1>8. CASE ReturnValue \/ ReturnVoid \/ EndFunction
  BY <1>8, ReturnValueStep, ReturnVoidStep, EndFunctionStep
<1> QED BY <1>1, <1>2, <1>3, <1>4, <1>5, <1>6, <1>7, <1>8 DEF Next, Statement

\* The invariant is strong enough.
LEMMA InvIsConsistent ==
  ASSUME Inv
  PROVE  GraphConsistent
<1>1. Good(g, Blocks) /\ Source(points, flow, loose, loops)
      /\ order \in Seq(Blocks) /\ created \in Blocks /\ current \in Blocks
      /\ phase \in {"body", "sweep", "done", "aborted"} /\ rest \in Seq(Blocks)
  BY DEF Inv, Building, Listed, Open
<1>2. TypeOK
  BY <1>1 DEF TypeOK, Good, Edges, Source, Flows, Leaving
<1>3. CurrentBlockIsOpen
  <2> SUFFICES ASSUME phase = "body"
               PROVE  /\ current \in ToSet(order) /\ IsIncomplete(g, current)
                      /\ \A i \in DOMAIN frames : \A b \in {frames[i].body, frames[i].exit} \ {NULL} :
                            b \in ToSet(order) /\ b # current /\ IsIncomplete(g, b)
                            /\ g.code[b] = <<>>
    BY DEF CurrentBlockIsOpen
  <2>1. Open(g, order, current) /\ Waiting(g, order, current, frames)
    BY DEF Inv, Building
  <2>2. ASSUME NEW i \in DOMAIN frames, NEW b \in {frames[i].body, frames[i].exit} \ {NULL}
        PROVE  b \in ToSet(order) /\ b # current /\ IsIncomplete(g, b) /\ g.code[b] = <<>>
    <3>1. i \in 1 .. Len(frames)
      BY <2>1, LenProperties DEF Waiting
    <3>2. Shaped(frames[i]) /\ Ready(g, order, current, frames[i])
      BY <2>1, <3>1 DEF Waiting
    <3>3. b \in Waits(frames[i])
      BY <2>2, <3>2 DEF Shaped, Frames, Optional, Waits
    <3> QED BY <3>2, <3>3 DEF Ready, Untouched, IsIncomplete
  <2> QED BY <2>1, <2>2 DEF Open, IsIncomplete
<1> QED BY <1>1, <1>2, <1>3 DEF GraphConsistent, Good, Edges

\* For any bounds: at every statement boundary of every function, and throughout the
\* pass, edges, targets and terminators agree, currentBlock_ is an open block of the
\* function, and each handler finds the blocks it comes back to as it left them.  No
\* assertion of CFGNode fails on the way.
THEOREM GraphStaysConsistent == Spec => []GraphConsistent
<1>1. Init => Inv
  BY InitInv
<1>2. Inv /\ [Next]_vars => Inv'
  BY NextInv
<1>3. Inv => GraphConsistent
  BY InvIsConsistent
<1> QED BY <1>1, <1>2, <1>3, PTL DEF Spec

(***************************************************************************)
(* The order of the blocks.  Edges lead forward in the block list, except  *)
(* those that lead back to the start of a loop, and the blocks a handler   *)
(* comes back to stand after everything translated until then.             *)
(***************************************************************************)
\* x stands before y, and nothing stands twice.
Precedes(s, x, y) == \E i, j \in 1 .. Len(s) : i < j /\ s[i] = x /\ s[j] = y
Distinct(s)       == \A i, j \in 1 .. Len(s) : s[i] = s[j] => i = j

\* The positions of three sequences one after the other.
LEMMA ThreeParts ==
  ASSUME NEW S, NEW p \in Seq(S), NEW n \in Seq(S), NEW q \in Seq(S)
  PROVE  LET t == (p \o n) \o q
         IN  /\ t \in Seq(S) /\ Len(t) = Len(p) + Len(n) + Len(q)
             /\ Len(p) \in Nat /\ Len(n) \in Nat /\ Len(q) \in Nat
             /\ \A i \in 1 .. Len(p) : t[i] = p[i]
             /\ \A i \in 1 .. Len(n) : t[Len(p) + i] = n[i]
             /\ \A i \in 1 .. Len(q) : t[Len(p) + Len(n) + i] = q[i]
<1> DEFINE u == p \o n
           t == u \o q
<1>1. /\ u \in Seq(S) /\ Len(u) = Len(p) + Len(n)
      /\ Len(p) \in Nat /\ Len(n) \in Nat /\ Len(q) \in Nat
      /\ \A i \in 1 .. Len(p) + Len(n) : u[i] = IF i <= Len(p) THEN p[i] ELSE n[i - Len(p)]
  BY LenProperties, ConcatProperties
<1> HIDE DEF u
<1>2. /\ t \in Seq(S) /\ Len(t) = Len(u) + Len(q)
      /\ \A i \in 1 .. Len(u) + Len(q) : t[i] = IF i <= Len(u) THEN u[i] ELSE q[i - Len(u)]
  <2>1. \A w, z \in Seq(S) :
          /\ w \o z \in Seq(S) /\ Len(w \o z) = Len(w) + Len(z)
          /\ \A i \in 1 .. Len(w) + Len(z) : (w \o z)[i] = IF i <= Len(w) THEN w[i] ELSE z[i - Len(w)]
    BY ConcatProperties
  <2> QED BY <1>1, <2>1, Zenon
<1> HIDE DEF t
<1>3. ASSUME NEW i \in 1 .. Len(p) PROVE t[i] = p[i]
  <2>1. i \in 1 .. Len(p) + Len(n) /\ i <= Len(p) /\ i \in 1 .. Len(u) + Len(q) /\ i <= Len(u)
    BY <1>1
  <2> QED BY <1>1, <1>2, <2>1
<1>4. ASSUME NEW i \in 1 .. Len(n) PROVE t[Len(p) + i] = n[i]
  <2> DEFINE k == Len(p) + i
  <2>1. k \in 1 .. Len(p) + Len(n) /\ ~ (k <= Len(p)) /\ k \in 1 .. Len(u) + Len(q) /\ k <= Len(u)
        /\ k - Len(p) = i
    BY <1>1
  <2> QED BY <1>1, <1>2, <2>1
<1>5. ASSUME NEW i \in 1 .. Len(q) PROVE t[Len(p) + Len(n) + i] = q[i]
  <2> DEFINE k == Len(p) + Len(n) + i
  <2>1. k \in 1 .. Len(u) + Len(q) /\ ~ (k <= Len(u)) /\ k - Len(u) = i
    BY <1>1
  <2> QED BY <1>1, <1>2, <2>1
<1> QED BY <1>1, <1>2, <1>3, <1>4, <1>5 DEF t, u

\* New blocks stand right after the current one, in their order.
Grown(ord, ord2, cur, news) ==
  /\ Distinct(ord2) /\ ord2 # <<>>
  /\ \A x, y : Precedes(ord, x, y) \/ Precedes(news, x, y) => Precedes(ord2, x, y)
  /\ \A y \in ToSet(news) : Precedes(ord2, cur, y)
  /\ \A x \in ToSet(news) : \A y : Precedes(ord, cur, y) => Precedes(ord2, x, y)

\* What putting news between p and q does to the order of the elements.
LEMMA Interposed ==
  ASSUME NEW S, NEW p \in Seq(S), NEW n \in Seq(S), NEW q \in Seq(S), p # <<>>,
         Distinct(p \o q), Distinct(n), ToSet(n) \cap ToSet(p \o q) = {}
  PROVE  Grown(p \o q, (p \o n) \o q, p[Len(p)], n)
<1> DEFINE s == p \o q
           t == (p \o n) \o q
           a == Len(p)
           k == Len(n)
           c == Len(q)
<1>1. /\ t \in Seq(S) /\ Len(t) = a + k + c /\ a \in Nat \ {0} /\ k \in Nat /\ c \in Nat
      /\ \A i \in 1 .. a : t[i] = p[i]
      /\ \A i \in 1 .. k : t[a + i] = n[i]
      /\ \A i \in 1 .. c : t[a + k + i] = q[i]
  BY ThreeParts, EmptySeq
<1>2. /\ s \in Seq(S) /\ Len(s) = a + c
      /\ \A i \in 1 .. a : s[i] = p[i]
      /\ \A i \in 1 .. c : s[a + i] = q[i]
  <2>1. /\ s \in Seq(S) /\ Len(s) = a + c
        /\ \A i \in 1 .. a + c : s[i] = IF i <= a THEN p[i] ELSE q[i - a]
    BY ConcatProperties
  <2>2. ASSUME NEW i \in 1 .. c PROVE s[a + i] = q[i]
    <3>1. a + i \in 1 .. a + c /\ ~ (a + i <= a) /\ (a + i) - a = i
      BY <1>1
    <3> QED BY <2>1, <3>1
  <2>3. ASSUME NEW i \in 1 .. a PROVE s[i] = p[i]
    BY <1>1, <2>1
  <2> QED BY <2>1, <2>2, <2>3
<1>13. Distinct(s) /\ Distinct(n) /\ ToSet(n) \cap ToSet(s) = {}
  OBVIOUS
<1> HIDE DEF a, k, c, s, t
<1> DEFINE At(i) == IF i <= a THEN i ELSE i + k
<1>3. ASSUME NEW i \in 1 .. Len(s)
      PROVE  At(i) \in 1 .. Len(t) /\ t[At(i)] = s[i] /\ ~ (At(i) \in a + 1 .. a + k)
  <2>1. CASE i <= a
    BY <1>1, <1>2, <2>1
  <2>2. CASE ~ (i <= a)
    <3>1. i - a \in 1 .. c /\ At(i) = a + k + (i - a) /\ i = a + (i - a)
      BY <1>1, <1>2, <2>2
    <3>2. s[i] = q[i - a] /\ t[At(i)] = q[i - a]
      BY <1>1, <1>2, <3>1
    <3> QED BY <1>1, <1>2, <3>1, <3>2, SMTT(30)
  <2> QED BY <2>1, <2>2
<1>4. ASSUME NEW i \in 1 .. k PROVE a + i \in 1 .. Len(t) /\ t[a + i] = n[i] /\ n[i] \in ToSet(n)
  BY <1>1, ElementsOf DEF k
<1>5. ASSUME NEW j \in 1 .. Len(t)
      PROVE  \/ \E i \in 1 .. Len(s) : j = At(i)
             \/ \E i \in 1 .. k : j = a + i
  <2>1. CASE j <= a
    <3>1. j \in 1 .. Len(s) /\ At(j) = j
      BY <1>1, <1>2, <2>1
    <3> QED BY <3>1
  <2>2. CASE j > a /\ j <= a + k
    <3>1. j - a \in 1 .. k /\ j = a + (j - a)
      BY <1>1, <2>2
    <3> QED BY <3>1
  <2>3. CASE j > a + k
    <3>1. j - k \in 1 .. Len(s) /\ At(j - k) = j
      BY <1>1, <1>2, <2>3
    <3> QED BY <3>1
  <2> QED BY <1>1, <2>1, <2>2, <2>3
<1>6. \A i \in 1 .. Len(s) : s[i] \in ToSet(s)
  BY <1>2, ElementsOf
<1>7. Distinct(t)
  <2> SUFFICES ASSUME NEW j \in 1 .. Len(t), NEW m \in 1 .. Len(t), t[j] = t[m] PROVE j = m
    BY DEF Distinct
  <2>1. ASSUME NEW i \in 1 .. Len(s), j = At(i), NEW l \in 1 .. Len(s), m = At(l)
        PROVE  j = m
    <3>1. s[i] = s[l]
      BY <1>3, <2>1
    <3> QED BY <1>13, <2>1, <3>1 DEF Distinct
  <2>2. ASSUME NEW i \in 1 .. k, j = a + i, NEW l \in 1 .. k, m = a + l PROVE j = m
    <3>1. n[i] = n[l]
      BY <1>4, <2>2
    <3> QED BY <1>13, <2>2, <3>1 DEF Distinct, k
  <2>3. ASSUME NEW i \in 1 .. Len(s), NEW l \in 1 .. k, s[i] = n[l] PROVE FALSE
    BY <1>4, <1>6, <1>13, <2>3
  <2>4. ASSUME NEW i \in 1 .. Len(s), j = At(i), NEW l \in 1 .. k, m = a + l PROVE FALSE
    BY <1>3, <1>4, <2>3, <2>4
  <2>5. ASSUME NEW i \in 1 .. k, j = a + i, NEW l \in 1 .. Len(s), m = At(l) PROVE FALSE
    BY <1>3, <1>4, <2>3, <2>5
  <2> QED BY <1>5, <2>1, <2>2, <2>4, <2>5
<1>8. t # <<>>
  BY <1>1, EmptySeq
<1>9. ASSUME NEW x, NEW y, Precedes(s, x, y) PROVE Precedes(t, x, y)
  <2>1. PICK i, j \in 1 .. Len(s) : i < j /\ s[i] = x /\ s[j] = y
    BY <1>9 DEF Precedes
  <2>2. At(i) < At(j)
    BY <1>1, <1>2, <2>1
  <2> QED BY <1>3, <2>1, <2>2 DEF Precedes
<1>10. ASSUME NEW x, NEW y, Precedes(n, x, y) PROVE Precedes(t, x, y)
  <2>1. PICK i, j \in 1 .. k : i < j /\ n[i] = x /\ n[j] = y
    BY <1>10 DEF Precedes, k
  <2>2. a + i < a + j
    BY <1>1, <2>1
  <2> QED BY <1>4, <2>1, <2>2 DEF Precedes
<1>11. ASSUME NEW y \in ToSet(n) PROVE Precedes(t, p[a], y)
  <2>1. PICK i \in 1 .. k : n[i] = y
    BY ElementsOf DEF k
  <2>2. a \in 1 .. Len(t) /\ t[a] = p[a] /\ a < a + i
    BY <1>1
  <2> QED BY <1>4, <2>1, <2>2 DEF Precedes
<1>12. ASSUME NEW x \in ToSet(n), NEW y, Precedes(s, p[a], y) PROVE Precedes(t, x, y)
  <2>1. PICK i \in 1 .. k : n[i] = x
    BY ElementsOf DEF k
  <2>2. PICK l, j \in 1 .. Len(s) : l < j /\ s[l] = p[a] /\ s[j] = y
    BY <1>12 DEF Precedes
  <2>3. a \in 1 .. Len(s) /\ s[a] = p[a]
    <3>1. a \in 1 .. a /\ a \in 1 .. Len(s)
      BY <1>1, <1>2
    <3> QED BY <1>2, <3>1
  <2>4. l = a
    BY <1>13, <2>2, <2>3 DEF Distinct
  <2>5. a + i < At(j)
    BY <1>1, <1>2, <2>2, <2>4
  <2> QED BY <1>3, <1>4, <2>1, <2>2, <2>5 DEF Precedes
<1>14. Grown(s, t, p[a], n)
  BY <1>7, <1>8, <1>9, <1>10, <1>11, <1>12 DEF Grown
<1> QED BY <1>14 DEF s, t, a

(***************************************************************************)
(* What a step does to the edges.                                          *)
(***************************************************************************)
\* Only the edges of c change, and they then lead into ts.
Redirected(gr, h, c, ts) == /\ Succ(h, c) \subseteq ts
                            /\ \A b \in Blocks \ {c} : Succ(h, b) = Succ(gr, b)

\* A block that gets new edges is the only one that changes.
LEMMA RelinkedEdges ==
  ASSUME NEW gr \in Graphs, NEW h, NEW b \in Blocks, NEW v, NEW to, NEW else, NEW t,
         Relinked(h, gr, b, v, to, else, t)
  PROVE  Redirected(gr, h, b, {to, else} \cap Blocks)
<1>1. h.branch = [gr.branch EXCEPT ![b] = to] /\ h.branchElse = [gr.branchElse EXCEPT ![b] = else]
  BY DEF Relinked, Has
<1> QED BY <1>1, FieldTypes DEF Redirected, Succ

\* An operation leaves the edges alone; the open block has none.
LEMMA OpEdges ==
  ASSUME NEW gr, Good(gr, Blocks), NEW c \in Blocks, gr.branch[c] = NULL, NEW inst
  PROVE  Redirected(gr, InsertInst(gr, c, inst), c, {})
<1> DEFINE h == InsertInst(gr, c, inst)
<1>1. h.branch = gr.branch /\ h.branchElse = gr.branchElse
  BY DEF InsertInst, Good, Edges, Graphs
<1>2. gr.branchElse[c] = NULL
  BY CfgAssumption DEF Good, Edges, WellShaped
<1> QED BY <1>1, <1>2, CfgAssumption DEF Redirected, Succ

\* reset(branch) leaves one edge.
LEMMA JumpEdges ==
  ASSUME NEW gr, Good(gr, Blocks), NEW c \in Blocks, NEW to \in Blocks
  PROVE  Redirected(gr, ResetTo(gr, c, to), c, {to})
<1>1. Redirected(gr, ResetTo(gr, c, to), c, {to, NULL} \cap Blocks)
  BY ResetToIs, RelinkedEdges DEF Good, Edges
<1> QED BY <1>1, CfgAssumption DEF Redirected

\* reset(control, branch, branchElse) leaves two.
LEMMA BranchEdges ==
  ASSUME NEW gr, Good(gr, Blocks), NEW c \in Blocks, NEW v \in Values,
         NEW to \in Blocks, NEW else \in Blocks, to # else
  PROVE  Redirected(gr, ResetBranch(gr, c, v, to, else), c, {to, else})
<1>1. Redirected(gr, ResetBranch(gr, c, v, to, else), c, {to, else} \cap Blocks)
  BY ResetBranchIs, RelinkedEdges DEF Good, Edges
<1> QED BY <1>1 DEF Redirected

\* tryMarkAsTerminal, where it returns true, leaves none.
LEMMA MarkEdges ==
  ASSUME NEW gr, Good(gr, Blocks), NEW c \in Blocks, NEW hint, MarkReturns(gr, c, hint)
  PROVE  Redirected(gr, TryMarkAsTerminal(gr, c, hint), c, {})
<1>1. Redirected(gr, TryMarkAsTerminal(gr, c, hint), c, {TERMINAL, NULL} \cap Blocks)
  BY MarkIs, RelinkedEdges DEF Good, Edges
<1> QED BY <1>1, CfgAssumption DEF Redirected

\* reset() leaves none.
LEMMA ResetLeavesNone ==
  ASSUME NEW gr, Good(gr, Blocks), NEW c \in Blocks
  PROVE  Redirected(gr, Reset(gr, c), c, {})
<1> DEFINE h == Reset(gr, c)
<1>1. h.branch = [gr.branch EXCEPT ![c] = NULL] /\ h.branchElse = [gr.branchElse EXCEPT ![c] = NULL]
  BY ResetIs DEF Good, Edges, Has
<1> HIDE DEF h
<1>2. Redirected(gr, h, c, {})
  BY <1>1, FieldTypes, CfgAssumption DEF Redirected, Succ, Good, Edges
<1> QED BY <1>2 DEF h

\* Two steps on the same block.
LEMMA RedirectedTwice ==
  ASSUME NEW gr, NEW h, NEW k, NEW c, NEW A, NEW B,
         Redirected(gr, h, c, A), Redirected(h, k, c, B)
  PROVE  Redirected(gr, k, c, B)
BY DEF Redirected

\* An operation, then a branch, on an open block.
LEMMA ConditionEdges ==
  ASSUME NEW gr, Good(gr, Blocks), NEW c \in Blocks, gr.branch[c] = NULL, NEW p \in Values,
         NEW v \in Values, NEW to \in Blocks, NEW else \in Blocks, to # else
  PROVE  Redirected(gr, ResetBranch(InsertInst(gr, c, Op(p)), c, v, to, else), c, {to, else})
<1> DEFINE k == InsertInst(gr, c, Op(p))
<1>1. Good(k, Blocks) /\ Redirected(gr, k, c, {})
  BY OpStep, OpEdges
<1> HIDE DEF k
<1>2. Redirected(k, ResetBranch(k, c, v, to, else), c, {to, else})
  BY <1>1, BranchEdges
<1>3. Redirected(gr, ResetBranch(k, c, v, to, else), c, {to, else})
  BY <1>1, <1>2, RedirectedTwice
<1> QED BY <1>3 DEF k

\* An operation, then a jump, on an open block.
LEMMA OpJumpEdges ==
  ASSUME NEW gr, Good(gr, Blocks), NEW c \in Blocks, gr.branch[c] = NULL, NEW p \in Values,
         NEW to \in Blocks
  PROVE  Redirected(gr, ResetTo(InsertInst(gr, c, Op(p)), c, to), c, {to})
<1> DEFINE k == InsertInst(gr, c, Op(p))
<1>1. Good(k, Blocks) /\ Redirected(gr, k, c, {})
  BY OpStep, OpEdges
<1> HIDE DEF k
<1>2. Redirected(k, ResetTo(k, c, to), c, {to})
  BY <1>1, JumpEdges
<1>3. Redirected(gr, ResetTo(k, c, to), c, {to})
  BY <1>1, <1>2, RedirectedTwice
<1> QED BY <1>3 DEF k

\* A return, with the assertion around it.
LEMMA AssertedMarkEdges ==
  ASSUME NEW gr, Good(gr, Blocks), NEW c \in Blocks, NEW hint, MarkReturns(gr, c, hint)
  PROVE  Redirected(gr, AssertThat(TryMarkAsTerminal(gr, c, hint), MarkReturns(gr, c, hint)), c, {})
<1> DEFINE k == TryMarkAsTerminal(gr, c, hint)
           h == AssertThat(k, MarkReturns(gr, c, hint))
<1>1. Good(k, Blocks) /\ Redirected(gr, k, c, {})
  BY MarkStep, MarkEdges
<1> HIDE DEF k
<1>2. h.branch = k.branch /\ h.branchElse = k.branchElse
  BY <1>1 DEF AssertThat, Good, Edges, Graphs
<1> HIDE DEF h
<1>3. Redirected(gr, h, c, {})
  BY <1>1, <1>2 DEF Redirected, Succ
<1> QED BY <1>3 DEF h, k

(***************************************************************************)
(* The order of the blocks while the body is translated.                   *)
(***************************************************************************)
\* An edge leads forward in the list, or back to the start of a loop.
Flowing(gr, ord, ls) ==
  \A a, b \in Blocks : b \in Succ(gr, a) => /\ a \in ToSet(ord)
                                            /\ b \in ls \/ Precedes(ord, a, b)

\* The blocks a handler will let the current block jump to: not the block of the
\* if-arm, which is translated after the else-arm.
Targets(f) == {f.exit} \cup (IF f.kind = "else" THEN {} ELSE {f.body} \cap Blocks)

LoopKinds == {"do", "doCond", "while", "whileCond", "for", "forCond"}

\* They stand after the current block and after the blocks of handlers further in,
\* and the head of a loop is the start of one.
Placed(ord, cur, f, ls) == /\ \A t \in Targets(f) : Precedes(ord, cur, t)
                           /\ f.body \in Blocks => Precedes(ord, f.body, f.exit)
                           /\ f.kind \in LoopKinds => f.head \in ls
Ahead(ord, cur, fs, ls) ==
  /\ \A i \in 1 .. Len(fs) : Placed(ord, cur, fs[i], ls)
  /\ \A i, j \in 1 .. Len(fs) :
        i < j => \A t \in Targets(fs[i]), w \in Waits(fs[j]) : Precedes(ord, w, t)

Ordered(gr, ord, cur, fs, ls) == /\ Distinct(ord) /\ ord # <<>>
                                 /\ Flowing(gr, ord, ls)
                                 /\ Ahead(ord, cur, fs, ls)

\* New edges that lead forward, or to a loop, keep the order.
LEMMA FlowStep ==
  ASSUME NEW gr, NEW h, NEW ord, NEW ord2, NEW c, NEW ts, NEW ls, NEW ls2,
         Flowing(gr, ord, ls), Redirected(gr, h, c, ts), ls \subseteq ls2,
         ToSet(ord) \subseteq ToSet(ord2), c \in ToSet(ord2),
         \A x, y : Precedes(ord, x, y) => Precedes(ord2, x, y),
         \A t \in ts : t \in ls2 \/ Precedes(ord2, c, t)
  PROVE  Flowing(h, ord2, ls2)
<1> SUFFICES ASSUME NEW a \in Blocks, NEW b \in Blocks, b \in Succ(h, a)
             PROVE  a \in ToSet(ord2) /\ (b \in ls2 \/ Precedes(ord2, a, b))
  BY DEF Flowing
<1>1. CASE a = c
  BY <1>1 DEF Redirected
<1>2. CASE a # c
  <2>1. b \in Succ(gr, a)
    BY <1>2 DEF Redirected
  <2> QED BY <2>1 DEF Flowing
<1> QED BY <1>1, <1>2

\* That is what insertOrMoveAfter does.
LEMMA PutAfterGrows ==
  ASSUME Building(g, order, created, current, frames), Distinct(order),
         NEW k \in Nat, NEW news \in Seq(Blocks), Distinct(news),
         ToSet(news) \subseteq created + 1 .. created + k, PutAfter(current, news)
  PROVE  Grown(order, order', current, news)
<1> DEFINE i == Place(current)
           p == SubSeq(order, 1, i)
           q == SubSeq(order, i + 1, Len(order))
<1>1. /\ order \in Seq(Blocks) /\ current \in ToSet(order) /\ created \in Nat
      /\ ToSet(order) \subseteq 1 .. created
      /\ Len(order) \in Nat /\ DOMAIN order = 1 .. Len(order)
  BY LenProperties, TranslatorAssumption DEF Building, Listed, Open
<1>2. i \in 1 .. Len(order) /\ order[i] = current
  <2>1. \E j \in DOMAIN order : order[j] = current
    BY <1>1, ElementsOf
  <2> QED BY <1>1, <2>1 DEF Place
<1> HIDE DEF i
<1>3. p \in Seq(Blocks) /\ q \in Seq(Blocks) /\ Len(p) = i /\ p[i] = current
  <2>1. 1 \in Int /\ i \in Int /\ \A j \in 1 .. i : order[j] \in Blocks
    BY <1>1, <1>2, ElementOfSeq
  <2>2. \A j \in i + 1 .. Len(order) : order[j] \in Blocks
    BY <1>1, <1>2, ElementOfSeq
  <2>3. /\ p \in Seq(Blocks) /\ Len(p) = IF 1 <= i THEN i - 1 + 1 ELSE 0
        /\ \A j \in 1 .. i - 1 + 1 : p[j] = order[1 + j - 1]
    BY <1>1, <2>1, SubSeqProperties
  <2>4. q \in Seq(Blocks)
    BY <1>1, <1>2, <2>2, SubSeqProperties
  <2>5. i \in 1 .. i - 1 + 1 /\ 1 + i - 1 = i /\ i - 1 + 1 = i
    BY <1>2
  <2> QED BY <1>2, <2>3, <2>4, <2>5
<1>4. p \o q = order
  <2>1. SubSeq(order, 1, Len(order)) = order
    BY <1>1, SubSeqFull
  <2>2. 1 \in 1 .. Len(order) + 1 /\ i \in 1 - 1 .. Len(order) /\ Len(order) \in i .. Len(order)
    BY <1>1, <1>2
  <2> QED BY <1>1, <2>1, <2>2, ConcatAdjacentSubSeq
<1>5. order' = (p \o news) \o q
  BY DEF PutAfter, i
<1> HIDE DEF p, q
<1>7. ToSet(news) \cap ToSet(order) = {}
  BY <1>1
<1>8. p # <<>>
  BY <1>2, <1>3, EmptySeq
<1>9. Grown(p \o q, (p \o news) \o q, p[Len(p)], news)
  BY <1>3, <1>4, <1>7, <1>8, Interposed
<1> QED BY <1>3, <1>4, <1>5, <1>9

\* What keeps the order of a list keeps the handlers in place.
LEMMA PlacedKept ==
  ASSUME NEW ord, NEW ord2, NEW cur, NEW cur2, NEW f, NEW ls, NEW ls2, Placed(ord, cur, f, ls),
         \A x, y : Precedes(ord, x, y) => Precedes(ord2, x, y), ls \subseteq ls2,
         \A t : Precedes(ord, cur, t) => Precedes(ord2, cur2, t)
  PROVE  Placed(ord2, cur2, f, ls2)
BY DEF Placed

\* One of the new blocks becomes current: it stands where the current block stood.
LEMMA GrowAhead ==
  ASSUME NEW ord, NEW ord2, NEW cur, NEW news, NEW new \in ToSet(news), NEW fs,
         NEW ls, NEW ls2, Ahead(ord, cur, fs, ls), Grown(ord, ord2, cur, news), ls \subseteq ls2
  PROVE  Ahead(ord2, new, fs, ls2)
<1>1. \A i \in 1 .. Len(fs) : Placed(ord2, new, fs[i], ls2)
  BY PlacedKept DEF Ahead, Grown
<1> QED BY <1>1 DEF Ahead, Grown

\* A handler is added whose blocks stand before those of the others.
LEMMA PushAhead ==
  ASSUME NEW ord, NEW cur, NEW fs \in Seq(Frames), NEW ls, Ahead(ord, cur, fs, ls),
         NEW f \in Frames, Placed(ord, cur, f, ls),
         \A i \in 1 .. Len(fs) : \A t \in Targets(fs[i]), w \in Waits(f) : Precedes(ord, w, t)
  PROVE  Ahead(ord, cur, Append(fs, f), ls)
<1> DEFINE gs == Append(fs, f)
<1>1. Len(fs) \in Nat /\ Len(gs) = Len(fs) + 1 /\ gs[Len(fs) + 1] = f
      /\ \A i \in 1 .. Len(fs) : gs[i] = fs[i]
  BY LenProperties
<1> HIDE DEF gs
<1>2. ASSUME NEW i \in 1 .. Len(gs) PROVE Placed(ord, cur, gs[i], ls)
  BY <1>1 DEF Ahead
<1>3. ASSUME NEW i \in 1 .. Len(gs), NEW j \in 1 .. Len(gs), i < j,
             NEW t \in Targets(gs[i]), NEW w \in Waits(gs[j])
      PROVE  Precedes(ord, w, t)
  <2>1. i \in 1 .. Len(fs) /\ gs[i] = fs[i]
    BY <1>1, <1>3
  <2>2. CASE j \in 1 .. Len(fs)
    <3>1. gs[j] = fs[j]
      BY <1>1, <2>2
    <3> QED BY <1>3, <2>1, <2>2, <3>1 DEF Ahead
  <2>3. CASE j = Len(fs) + 1
    BY <1>1, <1>3, <2>1, <2>3
  <2> QED BY <1>1, <2>2, <2>3
<1>4. Ahead(ord, cur, gs, ls)
  BY <1>2, <1>3 DEF Ahead
<1> QED BY <1>4 DEF gs

\* A block of the innermost handler becomes current.
LEMMA ReturnAhead ==
  ASSUME NEW ord, NEW cur, NEW fs \in Seq(Frames), fs # <<>>, NEW ls, Ahead(ord, cur, fs, ls),
         NEW next \in Waits(fs[Len(fs)])
  PROVE  /\ Ahead(ord, next, Front(fs), ls)
         /\ Front(fs) \in Seq(Frames) /\ Placed(ord, cur, fs[Len(fs)], ls)
         /\ \A i \in 1 .. Len(Front(fs)) :
              \A t \in Targets(Front(fs)[i]), w \in Waits(fs[Len(fs)]) : Precedes(ord, w, t)
<1> DEFINE n == Len(fs)
           gs == Front(fs)
<1>1. n \in Nat \ {0} /\ \A i \in 1 .. n - 1 : fs[i] \in Frames
  BY EmptySeq, ElementOfSeq
<1>2. /\ gs \in Seq(Frames) /\ Len(gs) = IF 1 <= n - 1 THEN (n - 1) - 1 + 1 ELSE 0
      /\ \A i \in 1 .. (n - 1) - 1 + 1 : gs[i] = fs[1 + i - 1]
  <2>1. 1 \in Int /\ n - 1 \in Int
    BY <1>1
  <2> QED BY <1>1, <2>1, SubSeqProperties DEF Front
<1>3. next \in Waits(fs[n])
  OBVIOUS
<1> HIDE DEF n, gs
<1>4. Len(gs) = n - 1 /\ n \in 1 .. n
  BY <1>1, <1>2
<1>5. \A i \in 1 .. n - 1 : gs[i] = fs[i] /\ i \in 1 .. n /\ i < n
  BY <1>1, <1>2
<1>6. ASSUME NEW i \in 1 .. n - 1, NEW t \in Targets(fs[i]), NEW w \in Waits(fs[n])
      PROVE  Precedes(ord, w, t)
  BY <1>4, <1>5 DEF Ahead, n
<1>7. ASSUME NEW i \in 1 .. Len(gs) PROVE Placed(ord, next, gs[i], ls)
  <2>1. i \in 1 .. n - 1 /\ gs[i] = fs[i] /\ Placed(ord, cur, fs[i], ls)
    BY <1>4, <1>5 DEF Ahead, n
  <2> QED BY <1>3, <1>6, <2>1 DEF Placed
<1>8. ASSUME NEW i \in 1 .. Len(gs), NEW j \in 1 .. Len(gs), i < j,
             NEW t \in Targets(gs[i]), NEW w \in Waits(gs[j])
      PROVE  Precedes(ord, w, t)
  <2>1. i \in 1 .. n /\ j \in 1 .. n /\ gs[i] = fs[i] /\ gs[j] = fs[j]
    BY <1>4, <1>5
  <2> QED BY <1>8, <2>1 DEF Ahead, n
<1>9. \A i \in 1 .. Len(gs) : \A t \in Targets(gs[i]), w \in Waits(fs[n]) : Precedes(ord, w, t)
  BY <1>4, <1>5, <1>6
<1>10. Placed(ord, cur, fs[n], ls)
  BY <1>4 DEF Ahead, n
<1>11. Ahead(ord, next, gs, ls)
  BY <1>7, <1>8 DEF Ahead
<1> QED BY <1>2, <1>9, <1>10, <1>11 DEF n, gs

\* The invariant of the body, and the frames it is about.
OrderedNow == Ordered(g, order, current, frames, loops)
OrderedNext == Ordered(g', order', current', frames', loops')

\* Lists of one, two and three different blocks.
LEMMA Lists1 == \A a : Distinct(<<a>>)
BY DEF Distinct

\* Two blocks.
LEMMA Lists2 == \A a, b : a # b => Distinct(<<a, b>>) /\ Precedes(<<a, b>>, a, b)
<1> SUFFICES ASSUME NEW a, NEW b, a # b PROVE Distinct(<<a, b>>) /\ Precedes(<<a, b>>, a, b)
  OBVIOUS
<1> DEFINE s == <<a, b>>
<1>1. Len(s) = 2 /\ s[1] = a /\ s[2] = b
  OBVIOUS
<1> HIDE DEF s
<1>2. \A i \in 1 .. Len(s) : i = 1 \/ i = 2
  BY <1>1
<1>3. Distinct(s)
  BY <1>1, <1>2 DEF Distinct
<1>4. 1 \in 1 .. Len(s) /\ 2 \in 1 .. Len(s) /\ 1 < 2
  BY <1>1
<1>5. Precedes(s, a, b)
  BY <1>1, <1>4 DEF Precedes
<1> QED BY <1>3, <1>5 DEF s

\* Three blocks.
LEMMA Lists3 ==
  \A a, b, c : a # b /\ a # c /\ b # c =>
    /\ Distinct(<<a, b, c>>)
    /\ Precedes(<<a, b, c>>, a, b) /\ Precedes(<<a, b, c>>, a, c) /\ Precedes(<<a, b, c>>, b, c)
<1> SUFFICES ASSUME NEW a, NEW b, NEW c, a # b, a # c, b # c
             PROVE  /\ Distinct(<<a, b, c>>)
                    /\ Precedes(<<a, b, c>>, a, b) /\ Precedes(<<a, b, c>>, a, c)
                    /\ Precedes(<<a, b, c>>, b, c)
  OBVIOUS
<1> DEFINE s == <<a, b, c>>
<1>1. Len(s) = 3 /\ s[1] = a /\ s[2] = b /\ s[3] = c
  OBVIOUS
<1> HIDE DEF s
<1>2. \A i \in 1 .. Len(s) : i = 1 \/ i = 2 \/ i = 3
  BY <1>1
<1>3. Distinct(s)
  BY <1>1, <1>2 DEF Distinct
<1>4. 1 \in 1 .. Len(s) /\ 2 \in 1 .. Len(s) /\ 3 \in 1 .. Len(s) /\ 1 < 2 /\ 1 < 3 /\ 2 < 3
  BY <1>1
<1>5. Precedes(s, a, b) /\ Precedes(s, a, c) /\ Precedes(s, b, c)
  BY <1>1, <1>4 DEF Precedes
<1> QED BY <1>3, <1>5 DEF s

\* New blocks, edges from the current block to them, and perhaps a handler.
LEMMA EnterOrder ==
  ASSUME NEW h, NEW k \in Nat, NEW news \in Seq(Blocks), Distinct(news), NEW new \in ToSet(news),
         Building(g, order, created, current, frames), OrderedNow,
         ToSet(news) \subseteq created + 1 .. created + k, PutAfter(current, news),
         NEW ls2, loops \subseteq ls2, NEW ts,
         Redirected(g, h, current, ts),
         \A t \in ts : t \in ls2 \cup ToSet(news) \/ Precedes(order, current, t)
  PROVE  /\ Ordered(h, order', new, frames, ls2)
         /\ \A x, y : Precedes(news, x, y) => Precedes(order', x, y)
         /\ \A f \in Frames : Placed(order', new, f, ls2) /\ Waits(f) \subseteq ToSet(news)
               => Ordered(h, order', new, Append(frames, f), ls2)
<1>1. Grown(order, order', current, news)
  BY PutAfterGrows DEF OrderedNow, Ordered
<1>2. current \in ToSet(order) /\ order \in Seq(Blocks) /\ frames \in Seq(Frames)
  BY DEF Building, Open, Listed, Waiting
<1>3. ToSet(order) \subseteq ToSet(order')
  BY <1>2, PutAfterIs
<1>4. Flowing(h, order', ls2)
  BY <1>1, <1>2, <1>3, FlowStep DEF OrderedNow, Ordered, Grown
<1>5. Ahead(order', new, frames, ls2)
  BY <1>1, GrowAhead DEF OrderedNow, Ordered
<1>6. ASSUME NEW f \in Frames, Placed(order', new, f, ls2), Waits(f) \subseteq ToSet(news)
      PROVE  Ahead(order', new, Append(frames, f), ls2)
  <2>1. ASSUME NEW i \in 1 .. Len(frames), NEW t \in Targets(frames[i]), NEW w \in Waits(f)
        PROVE  Precedes(order', w, t)
    <3>1. Precedes(order, current, t)
      BY DEF OrderedNow, Ordered, Ahead, Placed
    <3> QED BY <1>1, <1>6, <3>1 DEF Grown
  <2> QED BY <1>2, <1>5, <1>6, <2>1, PushAhead
<1> QED BY <1>1, <1>4, <1>5, <1>6 DEF Ordered, Grown

\* A block of the innermost handler becomes current, and perhaps the handler goes on.
LEMMA ReturnOrder ==
  ASSUME NEW h, Building(g, order, created, current, frames), OrderedNow, frames # <<>>,
         NEW next \in Waits(Top), NEW ts, Redirected(g, h, current, ts),
         ts \subseteq Targets(Top) \cup loops
  PROVE  /\ Ordered(h, order, next, Front(frames), loops)
         /\ \A f \in Frames : Placed(order, next, f, loops) /\ Waits(f) \subseteq Waits(Top)
               => Ordered(h, order, next, Append(Front(frames), f), loops)
<1>1. current \in ToSet(order) /\ order \in Seq(Blocks) /\ frames \in Seq(Frames)
  BY DEF Building, Open, Listed, Waiting
<1>2. /\ Ahead(order, next, Front(frames), loops)
      /\ Front(frames) \in Seq(Frames) /\ Placed(order, current, Top, loops)
      /\ \A i \in 1 .. Len(Front(frames)) :
           \A t \in Targets(Front(frames)[i]), w \in Waits(Top) : Precedes(order, w, t)
  <2>1. next \in Waits(frames[Len(frames)])
    BY DEF Top
  <2>2. Ahead(order, current, frames, loops)
    BY DEF OrderedNow, Ordered
  <2> QED BY <1>1, <2>1, <2>2, ReturnAhead DEF Top
<1>3. Flowing(h, order, loops)
  <2>1. \A t \in ts : t \in loops \/ Precedes(order, current, t)
    BY <1>2 DEF Placed
  <2> QED BY <1>1, <2>1, FlowStep DEF OrderedNow, Ordered
<1>4. ASSUME NEW f \in Frames, Placed(order, next, f, loops), Waits(f) \subseteq Waits(Top)
      PROVE  Ahead(order, next, Append(Front(frames), f), loops)
  BY <1>2, <1>4, PushAhead
<1> QED BY <1>2, <1>3, <1>4 DEF OrderedNow, Ordered

\* The innermost handler is in its place.
LEMMA TopPlaced ==
  ASSUME Building(g, order, created, current, frames), OrderedNow, frames # <<>>
  PROVE  Placed(order, current, Top, loops) /\ Len(frames) \in 1 .. Len(frames)
<1>1. Len(frames) \in 1 .. Len(frames)
  BY EmptySeq DEF Building, Waiting
<1> QED BY <1>1 DEF OrderedNow, Ordered, Ahead, Top

(***************************************************************************)
(* The statements keep the order.                                          *)
(***************************************************************************)
\* An expression.
LEMMA ExpressionOrder ==
  ASSUME Inv, OrderedNow, Expression
  PROVE  OrderedNext
<1>1. /\ phase = "body" /\ loops' = loops
      /\ order' = order /\ current' = current /\ frames' = frames
      /\ g' = WithOp(g, NextPoint)
  BY DEF Expression, InStatements, In, SweepState
<1>2. Redirected(g, g', current, {})
  BY <1>1, BodyState, OpEdges DEF WithOp
<1>3. current \in ToSet(order)
  BY <1>1, BodyState DEF Building, Open
<1>4. Flowing(g', order, loops)
  <2> DEFINE h == g'
  <2>1. Redirected(g, h, current, {})
    BY <1>2
  <2> HIDE DEF h
  <2>2. Flowing(h, order, loops)
    BY <1>3, <2>1, FlowStep DEF OrderedNow, Ordered
  <2> QED BY <2>2 DEF h
<1> QED BY <1>1, <1>4 DEF OrderedNow, OrderedNext, Ordered

\* The left operand of && and ||.
LEMMA LogicLeftOrder ==
  ASSUME NEW isAnd \in BOOLEAN, NEW v \in Conditions(NextPoint), Inv, OrderedNow,
         LogicLeft(isAnd, v)
  PROVE  OrderedNext
<1> DEFINE next == Fresh(1)
           exit == Fresh(2)
           off == IF isAnd THEN Fails(NextPoint, v) ELSE Holds(NextPoint, v)
           f == Frame("rhs", NULL, NULL, exit, off, {})
           news == <<next, exit>>
           h == ResetBranch(WithOp(g, NextPoint), current, v,
                            IF isAnd THEN next ELSE exit, IF isAnd THEN exit ELSE next)
<1>1. /\ phase = "body" /\ loops' = loops
      /\ New(2) /\ PutAfter(current, news) /\ current' = next
      /\ frames' = Append(frames, f) /\ points < MaxPoints /\ g' = h
  BY DEF LogicLeft, InExpression, InStatements, In, Push, SweepState, Evaluate
<1>2. /\ next \in Blocks /\ exit \in Blocks /\ next # exit
      /\ {next, exit} \subseteq created + 1 .. created + 2
  BY <1>1, NewBlocks
<1>3. /\ news \in Seq(Blocks) /\ ToSet(news) = {next, exit}
      /\ Distinct(news) /\ Precedes(news, next, exit)
  BY <1>2, Elements2, Lists2
<1> HIDE DEF next, exit
<1>4. /\ NextPoint \in Values /\ v \in Values /\ NextPoint \in 0 .. MaxPoints
      /\ off \in SUBSET Leaving
  BY <1>1, BodyState, NextPointType, OutcomeTypes
<1> HIDE DEF off, news
<1>5. Redirected(g, h, current, {next, exit})
  <2>1. CASE isAnd
    BY <1>1, <1>2, <1>4, <2>1, BodyState, ConditionEdges DEF WithOp
  <2>2. CASE ~ isAnd
    <3>1. Redirected(g, h, current, {exit, next})
      BY <1>1, <1>2, <1>4, <2>2, BodyState, ConditionEdges DEF WithOp
    <3> QED BY <3>1 DEF Redirected
  <2> QED BY <2>1, <2>2
<1> HIDE DEF h
<1>6. /\ f \in Frames /\ Waits(f) = {exit} /\ Targets(f) = {exit}
      /\ f.body \notin Blocks /\ f.exit = exit /\ f.kind = "rhs"
  BY <1>1, <1>2, <1>4, BodyState, FrameTypes, CfgAssumption DEF Waits, Targets, Optional
<1> HIDE DEF f
<1>7. /\ \A x, y : Precedes(news, x, y) => Precedes(order', x, y)
      /\ Placed(order', next, f, loops) /\ Waits(f) \subseteq ToSet(news)
            => Ordered(h, order', next, Append(frames, f), loops)
  <2> DEFINE ts == {next, exit}
  <2>1. ts \subseteq ToSet(news) /\ Redirected(g, h, current, ts) /\ 2 \in Nat
    BY <1>3, <1>5
  <2> HIDE DEF ts
  <2> QED BY <1>1, <1>2, <1>3, <1>6, <2>1, BodyState, EnterOrder, ZenonT(40)
<1>8. Placed(order', next, f, loops)
  BY <1>3, <1>6, <1>7 DEF Placed, LoopKinds
<1> QED BY <1>1, <1>3, <1>6, <1>7, <1>8 DEF OrderedNext

\* An if without an else.
LEMMA IfOrder ==
  ASSUME NEW v \in Conditions(NextPoint), Inv, OrderedNow, If(v)
  PROVE  OrderedNext
<1> DEFINE branchIf == Fresh(1)
           exit == Fresh(2)
           f == Frame("if", NULL, NULL, exit, Fails(NextPoint, v), {})
           news == <<branchIf, exit>>
           h == ResetBranch(WithOp(g, NextPoint), current, v, branchIf, exit)
<1>1. /\ phase = "body" /\ loops' = loops
      /\ New(2) /\ PutAfter(current, news) /\ current' = branchIf
      /\ frames' = Append(frames, f) /\ points < MaxPoints /\ g' = h
  BY DEF If, InStatements, In, Push, SweepState, Evaluate
<1>2. /\ branchIf \in Blocks /\ exit \in Blocks /\ branchIf # exit
      /\ {branchIf, exit} \subseteq created + 1 .. created + 2
  BY <1>1, NewBlocks
<1>3. /\ news \in Seq(Blocks) /\ ToSet(news) = {branchIf, exit}
      /\ Distinct(news) /\ Precedes(news, branchIf, exit)
  BY <1>2, Elements2, Lists2
<1> HIDE DEF branchIf, exit
<1>4. /\ NextPoint \in Values /\ v \in Values /\ NextPoint \in 0 .. MaxPoints
      /\ Fails(NextPoint, v) \in SUBSET Leaving
  BY <1>1, BodyState, NextPointType, OutcomeTypes
<1> HIDE DEF news
<1>5. Redirected(g, h, current, {branchIf, exit})
  BY <1>1, <1>2, <1>4, BodyState, ConditionEdges DEF WithOp
<1> HIDE DEF h
<1>6. /\ f \in Frames /\ Waits(f) = {exit} /\ Targets(f) = {exit}
      /\ f.body \notin Blocks /\ f.exit = exit /\ f.kind = "if"
  BY <1>1, <1>2, <1>4, BodyState, FrameTypes, CfgAssumption DEF Waits, Targets, Optional
<1> HIDE DEF f
<1>7. /\ \A x, y : Precedes(news, x, y) => Precedes(order', x, y)
      /\ Placed(order', branchIf, f, loops) /\ Waits(f) \subseteq ToSet(news)
            => Ordered(h, order', branchIf, Append(frames, f), loops)
  <2> DEFINE ts == {branchIf, exit}
  <2>1. ts \subseteq ToSet(news) /\ Redirected(g, h, current, ts) /\ 2 \in Nat
    BY <1>3, <1>5
  <2> HIDE DEF ts
  <2> QED BY <1>1, <1>2, <1>3, <1>6, <2>1, BodyState, EnterOrder, ZenonT(40)
<1>8. Placed(order', branchIf, f, loops)
  BY <1>3, <1>6, <1>7 DEF Placed, LoopKinds
<1> QED BY <1>1, <1>3, <1>6, <1>7, <1>8 DEF OrderedNext

\* An if with an else: the arm translated last stands first.
LEMMA IfElseOrder ==
  ASSUME NEW v \in Conditions(NextPoint), Inv, OrderedNow, IfElse(v)
  PROVE  OrderedNext
<1> DEFINE branchIf == Fresh(1)
           exit == Fresh(2)
           branchElse == Fresh(3)
           f == Frame("else", NULL, branchIf, exit, {}, Holds(NextPoint, v))
           news == <<branchIf, branchElse, exit>>
           h == ResetBranch(WithOp(g, NextPoint), current, v, branchIf, branchElse)
<1>1. /\ phase = "body" /\ loops' = loops
      /\ New(3) /\ PutAfter(current, news) /\ current' = branchElse
      /\ frames' = Append(frames, f) /\ points < MaxPoints /\ g' = h
  BY DEF IfElse, InStatements, In, Push, SweepState, Evaluate
<1>2. /\ branchIf \in Blocks /\ exit \in Blocks /\ branchElse \in Blocks
      /\ branchIf # exit /\ branchIf # branchElse /\ branchElse # exit
      /\ {branchIf, exit, branchElse} \subseteq created + 1 .. created + 3
  BY <1>1, NewBlocks
<1>3. /\ news \in Seq(Blocks) /\ ToSet(news) = {branchIf, branchElse, exit}
      /\ Distinct(news) /\ Precedes(news, branchElse, exit) /\ Precedes(news, branchIf, exit)
  BY <1>2, Elements3, Lists3
<1> HIDE DEF branchIf, exit, branchElse
<1>4. /\ NextPoint \in Values /\ v \in Values /\ NextPoint \in 0 .. MaxPoints
      /\ Holds(NextPoint, v) \in SUBSET Leaving
  BY <1>1, BodyState, NextPointType, OutcomeTypes
<1> HIDE DEF news
<1>5. Redirected(g, h, current, {branchIf, branchElse})
  BY <1>1, <1>2, <1>4, BodyState, ConditionEdges DEF WithOp
<1> HIDE DEF h
<1>6. /\ f \in Frames /\ Waits(f) = {branchIf, exit} /\ Targets(f) = {exit}
      /\ f.body = branchIf /\ f.exit = exit /\ f.kind = "else"
  <2>1. {} \in SUBSET Leaving
    OBVIOUS
  <2> QED BY <1>1, <1>2, <1>4, <2>1, BodyState, FrameTypes, CfgAssumption DEF Waits, Targets, Optional
<1> HIDE DEF f
<1>7. /\ \A x, y : Precedes(news, x, y) => Precedes(order', x, y)
      /\ Placed(order', branchElse, f, loops) /\ Waits(f) \subseteq ToSet(news)
            => Ordered(h, order', branchElse, Append(frames, f), loops)
  <2> DEFINE ts == {branchIf, branchElse}
  <2>1. ts \subseteq ToSet(news) /\ Redirected(g, h, current, ts) /\ 3 \in Nat
    BY <1>3, <1>5
  <2> HIDE DEF ts
  <2> QED BY <1>1, <1>2, <1>3, <1>6, <2>1, BodyState, EnterOrder, ZenonT(40)
<1>8. Placed(order', branchElse, f, loops)
  BY <1>3, <1>6, <1>7 DEF Placed, LoopKinds
<1> QED BY <1>1, <1>3, <1>6, <1>7, <1>8 DEF OrderedNext

\* The start of a do statement.
LEMMA DoOrder ==
  ASSUME Inv, OrderedNow, Do
  PROVE  OrderedNext
<1> DEFINE cond == Fresh(1)
           exit == Fresh(2)
           loop == Fresh(3)
           f == Frame("do", loop, cond, exit, {}, {})
           news == <<loop, cond, exit>>
           h == ResetTo(g, current, loop)
           ls == loops \cup {loop}
<1>1. /\ phase = "body" /\ loops' = ls
      /\ New(3) /\ PutAfter(current, news) /\ current' = loop
      /\ frames' = Append(frames, f) /\ g' = h
  BY DEF Do, InStatements, In, Push
<1>2. /\ cond \in Blocks /\ exit \in Blocks /\ loop \in Blocks
      /\ cond # exit /\ cond # loop /\ loop # exit
      /\ {cond, exit, loop} \subseteq created + 1 .. created + 3
  BY <1>1, NewBlocks
<1>3. /\ news \in Seq(Blocks) /\ ToSet(news) = {loop, cond, exit} /\ Distinct(news)
      /\ Precedes(news, loop, cond) /\ Precedes(news, loop, exit) /\ Precedes(news, cond, exit)
  BY <1>2, Elements3, Lists3
<1> HIDE DEF cond, exit, loop, news
<1>4. Redirected(g, h, current, {loop})
  BY <1>1, <1>2, BodyState, JumpEdges
<1> HIDE DEF h
<1>5. /\ f \in Frames /\ Waits(f) = {cond, exit} /\ Targets(f) = {cond, exit}
      /\ f.body = cond /\ f.exit = exit /\ f.kind = "do" /\ f.head = loop
  <2>1. {} \in SUBSET Leaving
    OBVIOUS
  <2> QED BY <1>1, <1>2, <2>1, BodyState, FrameTypes, CfgAssumption DEF Waits, Targets, Optional
<1> HIDE DEF f
<1>6. loops \subseteq ls /\ loop \in ls
  OBVIOUS
<1> HIDE DEF ls
<1>7. /\ \A x, y : Precedes(news, x, y) => Precedes(order', x, y)
      /\ Placed(order', loop, f, ls) /\ Waits(f) \subseteq ToSet(news)
            => Ordered(h, order', loop, Append(frames, f), ls)
  <2> DEFINE ts == {loop}
  <2>1. ts \subseteq ToSet(news) /\ Redirected(g, h, current, ts) /\ 3 \in Nat
    BY <1>3, <1>4
  <2> HIDE DEF ts
  <2> QED BY <1>1, <1>2, <1>3, <1>5, <1>6, <2>1, BodyState, EnterOrder
<1>8. Placed(order', loop, f, ls)
  BY <1>3, <1>5, <1>6, <1>7 DEF Placed
<1> QED BY <1>1, <1>3, <1>5, <1>7, <1>8 DEF OrderedNext

\* The start of a while or for statement.
LEMMA LoopOrder ==
  ASSUME NEW kind \in {"whileCond", "forCond"}, Inv, OrderedNow, Loop(kind)
  PROVE  OrderedNext
<1> DEFINE cond == Fresh(1)
           loop == Fresh(2)
           exit == Fresh(3)
           f == Frame(kind, cond, loop, exit, {}, {})
           news == <<cond, loop, exit>>
           h == ResetTo(g, current, cond)
           ls == loops \cup {cond}
<1>1. /\ phase = "body" /\ loops' = ls
      /\ New(3) /\ PutAfter(current, news) /\ current' = cond
      /\ frames' = Append(frames, f) /\ g' = h
  BY DEF Loop, InStatements, In, Push
<1>2. /\ cond \in Blocks /\ exit \in Blocks /\ loop \in Blocks
      /\ cond # exit /\ cond # loop /\ loop # exit
      /\ {cond, exit, loop} \subseteq created + 1 .. created + 3
  BY <1>1, NewBlocks
<1>3. /\ news \in Seq(Blocks) /\ ToSet(news) = {loop, cond, exit} /\ Distinct(news)
      /\ Precedes(news, cond, loop) /\ Precedes(news, cond, exit) /\ Precedes(news, loop, exit)
  BY <1>2, Elements3, Lists3
<1> HIDE DEF cond, exit, loop, news
<1>4. Redirected(g, h, current, {cond})
  BY <1>1, <1>2, BodyState, JumpEdges
<1> HIDE DEF h
<1>5. /\ f \in Frames /\ Waits(f) = {loop, exit} /\ Targets(f) = {loop, exit}
      /\ f.body = loop /\ f.exit = exit /\ f.head = cond
  <2>1. {} \in SUBSET Leaving
    OBVIOUS
  <2> QED BY <1>1, <1>2, <2>1, BodyState, FrameTypes, CfgAssumption DEF Waits, Targets, Optional
<1> HIDE DEF f
<1>6. loops \subseteq ls /\ cond \in ls
  OBVIOUS
<1> HIDE DEF ls
<1>7. /\ \A x, y : Precedes(news, x, y) => Precedes(order', x, y)
      /\ Placed(order', cond, f, ls) /\ Waits(f) \subseteq ToSet(news)
            => Ordered(h, order', cond, Append(frames, f), ls)
  <2> DEFINE ts == {cond}
  <2>1. ts \subseteq ToSet(news) /\ Redirected(g, h, current, ts) /\ 3 \in Nat
    BY <1>3, <1>4
  <2> HIDE DEF ts
  <2> QED BY <1>1, <1>2, <1>3, <1>5, <1>6, <2>1, BodyState, EnterOrder
<1>8. Placed(order', cond, f, ls)
  BY <1>3, <1>5, <1>6, <1>7 DEF Placed
<1> QED BY <1>1, <1>3, <1>5, <1>7, <1>8 DEF OrderedNext

\* for (;;): its condition block jumps on to the body.
LEMMA EndlessForOrder ==
  ASSUME Inv, OrderedNow, EndlessFor
  PROVE  OrderedNext
<1> DEFINE cond == Fresh(1)
           loop == Fresh(2)
           exit == Fresh(3)
           f == Frame("for", cond, NULL, exit, {}, {})
           news == <<cond, loop, exit>>
           k == ResetTo(g, current, cond)
           h == ResetTo(k, cond, loop)
           ls == loops \cup {cond}
<1>1. /\ phase = "body" /\ loops' = ls
      /\ New(3) /\ PutAfter(current, news) /\ current' = loop
      /\ frames' = Append(frames, f) /\ g' = h
  BY DEF EndlessFor, InStatements, In, Push
<1>2. /\ cond \in Blocks /\ exit \in Blocks /\ loop \in Blocks
      /\ cond # exit /\ cond # loop /\ loop # exit
      /\ {cond, exit, loop} \subseteq created + 1 .. created + 3
  BY <1>1, NewBlocks
<1>3. /\ news \in Seq(Blocks) /\ ToSet(news) = {loop, cond, exit} /\ Distinct(news)
      /\ Precedes(news, cond, loop) /\ Precedes(news, loop, exit)
  BY <1>2, Elements3, Lists3
<1> HIDE DEF cond, exit, loop, news
<1>4. Good(k, Blocks) /\ Redirected(g, k, current, {cond})
  BY <1>1, <1>2, BodyState, JumpStep, JumpEdges
<1> HIDE DEF k
<1>5. Redirected(k, h, cond, {loop})
  BY <1>2, <1>4, JumpEdges
<1> HIDE DEF h
<1>6. /\ f \in Frames /\ Waits(f) = {exit} /\ Targets(f) = {exit}
      /\ f.body \notin Blocks /\ f.exit = exit /\ f.head = cond
  <2>1. {} \in SUBSET Leaving
    OBVIOUS
  <2> QED BY <1>1, <1>2, <2>1, BodyState, FrameTypes, CfgAssumption DEF Waits, Targets, Optional
<1> HIDE DEF f
<1>7. loops \subseteq ls /\ cond \in ls
  OBVIOUS
<1> HIDE DEF ls
<1>8. /\ \A x, y : Precedes(news, x, y) => Precedes(order', x, y)
      /\ Placed(order', loop, f, ls) /\ Waits(f) \subseteq ToSet(news)
            => Ordered(k, order', loop, Append(frames, f), ls)
  <2> DEFINE ts == {cond}
  <2>1. ts \subseteq ToSet(news) /\ Redirected(g, k, current, ts) /\ 3 \in Nat
    BY <1>3, <1>4
  <2> HIDE DEF ts
  <2> QED BY <1>1, <1>2, <1>3, <1>6, <1>7, <2>1, BodyState, EnterOrder
<1>9. Placed(order', loop, f, ls)
  BY <1>3, <1>6, <1>7, <1>8 DEF Placed
<1>10. Ordered(k, order', loop, Append(frames, f), ls)
  BY <1>3, <1>6, <1>8, <1>9
<1>11. Flowing(h, order', ls)
  <2> DEFINE ord2 == order'
             ts == {loop}
  <2>1. /\ cond \in ToSet(ord2) /\ Flowing(k, ord2, ls) /\ Redirected(k, h, cond, ts)
        /\ \A t \in ts : t \in ls \/ Precedes(ord2, cond, t)
    <3>1. cond \in ToSet(order')
      BY <1>1, <1>3, BodyState, PutAfterIs DEF Building, Open, Listed
    <3> QED BY <1>3, <1>5, <1>8, <1>10, <3>1 DEF Ordered
  <2> HIDE DEF ord2, ts
  <2>2. Flowing(h, ord2, ls)
    BY <2>1, FlowStep
  <2> QED BY <2>2 DEF ord2
<1>12. Ordered(h, order', loop, Append(frames, f), ls)
  BY <1>10, <1>11 DEF Ordered
<1> QED BY <1>1, <1>12 DEF OrderedNext

\* A step of the innermost handler.
LEMMA FromTop ==
  ASSUME Inv, phase = "body", OrderedNow, frames # <<>>
  PROVE  /\ Building(g, order, created, current, frames)
         /\ Placed(order, current, Top, loops)
         /\ Top.exit \in Targets(Top) /\ Top.exit \in Waits(Top)
         /\ \A w \in Waits(Top) : w = Top.exit \/ w = Top.body
BY BodyState, TopPlaced, TopFrame DEF Targets, Waits

\* A frame that goes on without the block that is current now.
LEMMA ReplacedPlaced ==
  ASSUME NEW f, Shaped(f), NEW kind \in {"if", "doCond", "while", "for"}, NEW atExit \in SUBSET Leaving,
         kind # "if" => f.head \in loops, f.head \in Optional, Precedes(order, f.body, f.exit)
  PROVE  LET h == [f EXCEPT !.kind = kind, !.atExit = atExit, !.body = NULL]
         IN  /\ h \in Frames /\ Placed(order, f.body, h, loops) /\ Waits(h) \subseteq Waits(f)
<1> DEFINE h == [f EXCEPT !.kind = kind, !.atExit = atExit, !.body = NULL]
<1>1. /\ h \in Frames /\ h.kind = kind /\ h.body = NULL /\ h.exit = f.exit /\ h.head = f.head
  BY DEF Shaped, Frames, Optional
<1> HIDE DEF h
<1>2. Placed(order, f.body, h, loops) /\ Waits(h) \subseteq Waits(f)
  BY <1>1, CfgAssumption DEF Placed, Targets, Waits, LoopKinds
<1> QED BY <1>1, <1>2 DEF h

\* The right operand of && and ||.
LEMMA LogicRightOrder ==
  ASSUME Inv, OrderedNow, LogicRight
  PROVE  OrderedNext
<1> DEFINE exit == Top.exit
           h == ResetTo(WithOp(g, NextPoint), current, exit)
           ts == {exit}
<1>1. /\ phase = "body" /\ frames # <<>> /\ loops' = loops
      /\ g' = h /\ current' = exit /\ points < MaxPoints /\ frames' = Front(frames)
      /\ order' = order
  BY DEF LogicRight, In, Pop, SweepState, Evaluate
<1>2. exit \in Blocks /\ exit \in Waits(Top) /\ ts \subseteq Targets(Top) \cup loops
  BY <1>1, TopFrame, FromTop
<1>3. NextPoint \in Values
  BY <1>1, BodyState, NextPointType
<1> HIDE DEF exit
<1>4. Redirected(g, h, current, ts)
  BY <1>1, <1>2, <1>3, BodyState, OpJumpEdges DEF WithOp
<1> HIDE DEF h, ts
<1>5. Ordered(h, order, exit, Front(frames), loops)
  BY <1>1, <1>2, <1>4, FromTop, ReturnOrder
<1> QED BY <1>1, <1>5 DEF OrderedNext

\* The end of an if.
LEMMA EndIfOrder ==
  ASSUME Inv, OrderedNow, EndIf
  PROVE  OrderedNext
<1> DEFINE exit == Top.exit
           h == ResetTo(g, current, exit)
           ts == {exit}
<1>1. /\ phase = "body" /\ frames # <<>> /\ loops' = loops
      /\ g' = h /\ current' = exit /\ frames' = Front(frames) /\ order' = order
  BY DEF EndIf, In, Pop, SweepState
<1>2. exit \in Blocks /\ exit \in Waits(Top) /\ ts \subseteq Targets(Top) \cup loops
  BY <1>1, TopFrame, FromTop
<1> HIDE DEF exit
<1>3. Redirected(g, h, current, ts)
  BY <1>1, <1>2, BodyState, JumpEdges
<1> HIDE DEF h, ts
<1>4. Ordered(h, order, exit, Front(frames), loops)
  BY <1>1, <1>2, <1>3, FromTop, ReturnOrder
<1> QED BY <1>1, <1>4 DEF OrderedNext

\* The end of an else.
LEMMA EndElseOrder ==
  ASSUME Inv, OrderedNow, EndElse
  PROVE  OrderedNext
<1> DEFINE exit == Top.exit
           body == Top.body
           f == [Top EXCEPT !.kind = "if", !.atExit = loose, !.body = NULL]
           h == ResetTo(g, current, exit)
           ts == {exit}
<1>1. /\ phase = "body" /\ frames # <<>> /\ loops' = loops
      /\ g' = h /\ current' = body /\ Top.kind = "else"
      /\ frames' = Append(Front(frames), f) /\ order' = order
  BY DEF EndElse, In, Replace, SweepState
<1>2. /\ exit \in Blocks /\ body \in Blocks /\ body \in Waits(Top)
      /\ ts \subseteq Targets(Top) \cup loops
  BY <1>1, TopFrame, FromTop DEF Shaped
<1>3. f \in Frames /\ Placed(order, body, f, loops) /\ Waits(f) \subseteq Waits(Top)
  <2>1. Shaped(Top) /\ loose \in SUBSET Leaving /\ Top.head \in Optional
    BY <1>1, TopFrame, BodyState DEF Frames
  <2>2. Precedes(order, Top.body, Top.exit)
    BY <1>1, <1>2, FromTop DEF Placed
  <2> QED BY <2>1, <2>2, ReplacedPlaced
<1> HIDE DEF exit, f
<1>4. Redirected(g, h, current, ts)
  BY <1>1, <1>2, BodyState, JumpEdges
<1> HIDE DEF h, ts
<1>5. Ordered(h, order, body, Append(Front(frames), f), loops)
  <2> HIDE DEF body
  <2> QED BY <1>1, <1>2, <1>3, <1>4, FromTop, ReturnOrder
<1> QED BY <1>1, <1>5 DEF OrderedNext

\* The end of a do body.
LEMMA EndDoBodyOrder ==
  ASSUME Inv, OrderedNow, EndDoBody
  PROVE  OrderedNext
<1> DEFINE body == Top.body
           f == [Top EXCEPT !.kind = "doCond", !.body = NULL]
           h == ResetTo(g, current, body)
           ts == {body}
<1>1. /\ phase = "body" /\ frames # <<>> /\ loops' = loops
      /\ g' = h /\ current' = body /\ Top.kind = "do"
      /\ frames' = Append(Front(frames), f) /\ order' = order
  BY DEF EndDoBody, In, Replace, SweepState
<1>2. /\ body \in Blocks /\ body \in Waits(Top) /\ ts \subseteq Targets(Top) \cup loops
  BY <1>1, TopFrame DEF Shaped, Targets
<1>3. f \in Frames /\ Placed(order, body, f, loops) /\ Waits(f) \subseteq Waits(Top)
  <2>1. Shaped(Top) /\ Top.head \in Optional /\ Top.atExit \in SUBSET Leaving
    BY <1>1, TopFrame DEF Frames
  <2>2. Precedes(order, Top.body, Top.exit) /\ Top.head \in loops
    BY <1>1, <1>2, FromTop DEF Placed, LoopKinds
  <2>3. f = [Top EXCEPT !.kind = "doCond", !.atExit = Top.atExit, !.body = NULL]
    BY <2>1 DEF Shaped, Frames
  <2> QED BY <2>1, <2>2, <2>3, ReplacedPlaced
<1> HIDE DEF f
<1>4. Redirected(g, h, current, ts)
  BY <1>1, <1>2, BodyState, JumpEdges
<1> HIDE DEF h, ts
<1>5. Ordered(h, order, body, Append(Front(frames), f), loops)
  <2> HIDE DEF body
  <2> QED BY <1>1, <1>2, <1>3, <1>4, FromTop, ReturnOrder
<1> QED BY <1>1, <1>5 DEF OrderedNext

\* The condition of a do statement: the way back leads to the start of the loop.
LEMMA DoTestOrder ==
  ASSUME NEW v \in Conditions(NextPoint), Inv, OrderedNow, DoTest(v)
  PROVE  OrderedNext
<1> DEFINE exit == Top.exit
           head == Top.head
           h == ResetBranch(WithOp(g, NextPoint), current, v, head, exit)
           ts == {head, exit}
<1>1. /\ phase = "body" /\ frames # <<>> /\ loops' = loops
      /\ g' = h /\ current' = exit /\ Top.kind = "doCond" /\ points < MaxPoints
      /\ frames' = Front(frames) /\ order' = order
  BY DEF DoTest, In, Pop, SweepState, Evaluate
<1>2. /\ exit \in Blocks /\ exit \in Waits(Top) /\ head \in Blocks /\ head # exit
      /\ ts \subseteq Targets(Top) \cup loops
  BY <1>1, TopFrame, FromTop DEF Shaped, Placed, LoopKinds
<1>3. NextPoint \in Values /\ v \in Values
  BY <1>1, BodyState, NextPointType
<1> HIDE DEF exit, head
<1>4. Redirected(g, h, current, ts)
  BY <1>1, <1>2, <1>3, BodyState, ConditionEdges DEF WithOp
<1> HIDE DEF h, ts
<1>5. Ordered(h, order, exit, Front(frames), loops)
  BY <1>1, <1>2, <1>4, FromTop, ReturnOrder
<1> QED BY <1>1, <1>5 DEF OrderedNext

\* The condition of a while or for statement.
LEMMA LoopTestOrder ==
  ASSUME NEW v \in Conditions(NextPoint), NEW kind \in {"while", "for"},
         NEW cond \in {"whileCond", "forCond"}, Inv, OrderedNow, LoopTest(v, kind, cond)
  PROVE  OrderedNext
<1> DEFINE exit == Top.exit
           body == Top.body
           f == [Top EXCEPT !.kind = kind, !.atExit = Fails(NextPoint, v), !.body = NULL]
           h == ResetBranch(WithOp(g, NextPoint), current, v, body, exit)
           ts == {body, exit}
<1>1. /\ phase = "body" /\ frames # <<>> /\ loops' = loops
      /\ g' = h /\ current' = body /\ Top.kind = cond /\ points < MaxPoints
      /\ frames' = Append(Front(frames), f) /\ order' = order
  BY DEF LoopTest, In, Replace, SweepState, Evaluate
<1>2. /\ exit \in Blocks /\ body \in Blocks /\ body \in Waits(Top) /\ body # exit
      /\ ts \subseteq Targets(Top) \cup loops
  BY <1>1, TopFrame, FromTop DEF Shaped, Targets
<1>3. /\ NextPoint \in Values /\ v \in Values /\ Fails(NextPoint, v) \in SUBSET Leaving
  BY <1>1, BodyState, NextPointType, OutcomeTypes
<1>4. f \in Frames /\ Placed(order, body, f, loops) /\ Waits(f) \subseteq Waits(Top)
  <2>1. Shaped(Top) /\ Top.head \in Optional
    BY <1>1, TopFrame DEF Frames
  <2>2. Precedes(order, Top.body, Top.exit) /\ Top.head \in loops
    BY <1>1, <1>2, FromTop DEF Placed, LoopKinds
  <2> QED BY <1>3, <2>1, <2>2, ReplacedPlaced
<1> HIDE DEF exit, f
<1>5. Redirected(g, h, current, ts)
  BY <1>1, <1>2, <1>3, BodyState, ConditionEdges DEF WithOp
<1> HIDE DEF h, ts
<1>6. Ordered(h, order, body, Append(Front(frames), f), loops)
  <2> HIDE DEF body
  <2> QED BY <1>1, <1>2, <1>4, <1>5, FromTop, ReturnOrder
<1> QED BY <1>1, <1>6 DEF OrderedNext

\* The end of a loop.
LEMMA EndLoopOrder ==
  ASSUME Inv, OrderedNow, EndLoop
  PROVE  OrderedNext
<1> DEFINE exit == Top.exit
           head == Top.head
           h == ResetTo(g, current, head)
           ts == {head}
<1>1. /\ phase = "body" /\ frames # <<>> /\ loops' = loops
      /\ g' = h /\ current' = exit /\ Top.kind \in {"while", "for"}
      /\ frames' = Front(frames) /\ order' = order
  BY DEF EndLoop, In, Pop, SweepState
<1>2. /\ exit \in Blocks /\ exit \in Waits(Top) /\ head \in Blocks
      /\ ts \subseteq Targets(Top) \cup loops
  BY <1>1, TopFrame, FromTop DEF Shaped, Placed, LoopKinds
<1> HIDE DEF exit, head
<1>3. Redirected(g, h, current, ts)
  BY <1>1, <1>2, BodyState, JumpEdges
<1> HIDE DEF h, ts
<1>4. Ordered(h, order, exit, Front(frames), loops)
  BY <1>1, <1>2, <1>3, FromTop, ReturnOrder
<1> QED BY <1>1, <1>4 DEF OrderedNext

\* Control leaves: the new block stands where the current one stood.
LEMMA LeaveOrder ==
  ASSUME Inv, phase = "body", OrderedNow, NEW h, Leave(h), loops' = loops,
         NEW ts, Redirected(g, h, current, ts),
         \A t \in ts : t \in loops \/ Precedes(order, current, t)
  PROVE  Ordered(g', order', current', frames, loops')
<1> DEFINE new == Fresh(1)
           news == <<new>>
<1>1. /\ New(1) /\ PutAfter(current, news) /\ g' = h /\ current' = new
  BY DEF Leave
<1>2. new \in Blocks /\ new \in created + 1 .. created + 1
  BY <1>1, NewBlocks
<1>3. news \in Seq(Blocks) /\ ToSet(news) = {new} /\ Distinct(news) /\ 1 \in Nat
  BY <1>2, Elements1, Lists1
<1> HIDE DEF new, news
<1>4. Ordered(h, order', new, frames, loops)
  BY <1>1, <1>2, <1>3, BodyState, EnterOrder
<1> QED BY <1>1, <1>4

\* A loop handler in progress is in its place.
LEMMA InnerPlaced ==
  ASSUME Inv, phase = "body", OrderedNow, LoopFrames # {}
  PROVE  /\ Precedes(order, current, frames[InnerLoop].exit)
         /\ frames[InnerLoop].head \in loops
         /\ frames[InnerLoop].head \in Blocks /\ frames[InnerLoop].exit \in Blocks
<1>1. Placed(order, current, frames[InnerLoop], loops)
  BY InnerLoopIs DEF OrderedNow, Ordered, Ahead
<1> QED BY <1>1, InnerLoopIs DEF Placed, Targets, Loops, LoopKinds, Shaped, Frames

\* What a handler notes about the source does not move its blocks.
LEMMA NotedOrder ==
  ASSUME NEW gr, NEW ord, NEW cur, NEW ls, NEW fs \in Seq(Frames), Ordered(gr, ord, cur, fs, ls),
         NEW i \in 1 .. Len(fs), NEW atExit \in SUBSET Leaving
  PROVE  Ordered(gr, ord, cur, [fs EXCEPT ![i].atExit = atExit], ls)
<1> DEFINE f == [fs[i] EXCEPT !.atExit = atExit]
           gs == [fs EXCEPT ![i] = f]
<1>1. fs[i] \in Frames
  BY ElementOfSeq
<1>2. /\ f \in Frames /\ f.kind = fs[i].kind /\ f.head = fs[i].head
      /\ f.body = fs[i].body /\ f.exit = fs[i].exit
  BY <1>1 DEF Frames
<1> HIDE DEF f
<1>3. /\ Len(gs) = Len(fs)
      /\ \A j \in 1 .. Len(fs) : gs[j] = IF j = i THEN f ELSE fs[j]
  BY <1>2, ExceptSeq
<1>4. gs = [fs EXCEPT ![i].atExit = atExit]
  BY DEF f
<1> HIDE DEF gs
<1>5. \A j \in 1 .. Len(fs) : /\ gs[j].kind = fs[j].kind /\ gs[j].head = fs[j].head
                              /\ gs[j].body = fs[j].body /\ gs[j].exit = fs[j].exit
  BY <1>2, <1>3
<1>6. \A j \in 1 .. Len(fs) : /\ Targets(gs[j]) = Targets(fs[j]) /\ Waits(gs[j]) = Waits(fs[j])
                              /\ Placed(ord, cur, gs[j], ls) <=> Placed(ord, cur, fs[j], ls)
  BY <1>5 DEF Targets, Waits, Placed
<1>7. Ahead(ord, cur, gs, ls)
  BY <1>3, <1>6 DEF Ordered, Ahead
<1> QED BY <1>4, <1>7 DEF Ordered

\* break.
LEMMA BreakOrder ==
  ASSUME Inv, OrderedNow, Break
  PROVE  OrderedNext
<1> DEFINE i == InnerLoop
           exit == frames[i].exit
           h == ResetTo(g, current, exit)
           ts == {exit}
           atExit == frames[i].atExit \cup loose
<1>1. /\ phase = "body" /\ loops' = loops /\ LoopFrames # {} /\ Leave(h)
      /\ frames' = [frames EXCEPT ![i].atExit = @ \cup loose]
  BY DEF Break, InWhile, InStatements, In, SweepState
<1>2. i \in 1 .. Len(frames) /\ exit \in Blocks /\ atExit \in SUBSET Leaving
  BY <1>1, InnerLoopIs, BodyState DEF Frames
<1>3. frames' = [frames EXCEPT ![i].atExit = atExit] /\ frames \in Seq(Frames)
  BY <1>1, BodyState DEF Building, Waiting
<1>4. \A t \in ts : t \in loops \/ Precedes(order, current, t)
  BY <1>1, InnerPlaced
<1> HIDE DEF i, exit, atExit
<1>5. Redirected(g, h, current, ts)
  BY <1>1, <1>2, BodyState, JumpEdges
<1> HIDE DEF h, ts
<1>6. Ordered(g', order', current', frames, loops')
  BY <1>1, <1>4, <1>5, LeaveOrder
<1>7. Ordered(g', order', current', [frames EXCEPT ![i].atExit = atExit], loops')
  BY <1>2, <1>3, <1>6, NotedOrder
<1> QED BY <1>3, <1>7 DEF OrderedNext

\* continue.
LEMMA ContinueOrder ==
  ASSUME Inv, OrderedNow, Continue
  PROVE  OrderedNext
<1> DEFINE head == frames[InnerLoop].head
           h == ResetTo(g, current, head)
           ts == {head}
<1>1. /\ phase = "body" /\ loops' = loops /\ LoopFrames # {} /\ Leave(h) /\ frames' = frames
  BY DEF Continue, InWhile, InStatements, In, SweepState
<1>2. head \in Blocks /\ \A t \in ts : t \in loops \/ Precedes(order, current, t)
  BY <1>1, InnerPlaced
<1> HIDE DEF head
<1>3. Redirected(g, h, current, ts)
  BY <1>1, <1>2, BodyState, JumpEdges
<1> HIDE DEF h, ts
<1>4. Ordered(g', order', current', frames, loops')
  BY <1>1, <1>2, <1>3, LeaveOrder
<1> QED BY <1>1, <1>4 DEF OrderedNext

\* return with a value.
LEMMA ReturnValueOrder ==
  ASSUME Inv, OrderedNow, ReturnValue
  PROVE  OrderedNext
<1> DEFINE gr == WithOp(g, NextPoint)
           h == AssertThat(TryMarkAsTerminal(gr, current, TRUE), MarkReturns(gr, current, TRUE))
<1>1. /\ phase = "body" /\ loops' = loops /\ Leave(h) /\ points < MaxPoints /\ frames' = frames
  BY DEF ReturnValue, InStatements, In, SweepState, Evaluate
<1>2. NextPoint \in Values
  BY <1>1, BodyState, NextPointType
<1>3. /\ Good(gr, Blocks) /\ gr.branch[current] = NULL /\ Redirected(g, gr, current, {})
  BY <1>1, <1>2, BodyState, OpStep, OpEdges DEF WithOp
<1>4. MarkReturns(gr, current, TRUE)
  BY <1>3 DEF MarkReturns, IsIncomplete
<1> HIDE DEF gr
<1>5. Redirected(gr, h, current, {})
  BY <1>1, <1>3, <1>4, BodyState, AssertedMarkEdges
<1> HIDE DEF h
<1>6. Redirected(g, h, current, {})
  BY <1>3, <1>5, RedirectedTwice
<1>7. Ordered(g', order', current', frames, loops')
  <2> DEFINE ts == {}
  <2>1. Redirected(g, h, current, ts) /\ \A t \in ts : t \in loops \/ Precedes(order, current, t)
    BY <1>6
  <2> HIDE DEF ts
  <2> QED BY <1>1, <2>1, LeaveOrder
<1> QED BY <1>1, <1>7 DEF OrderedNext

\* return without a value.
LEMMA ReturnVoidOrder ==
  ASSUME Inv, OrderedNow, ReturnVoid
  PROVE  OrderedNext
<1> DEFINE h == AssertThat(TryMarkAsTerminal(g, current, FALSE), MarkReturns(g, current, FALSE))
<1>1. /\ phase = "body" /\ loops' = loops /\ Leave(h) /\ frames' = frames /\ g.void
  BY DEF ReturnVoid, InStatements, In, SweepState
<1>2. MarkReturns(g, current, FALSE)
  BY <1>1, BodyState DEF MarkReturns, IsIncomplete
<1>3. Redirected(g, h, current, {})
  BY <1>1, <1>2, BodyState, AssertedMarkEdges
<1> HIDE DEF h
<1>4. Ordered(g', order', current', frames, loops')
  <2> DEFINE ts == {}
  <2>1. Redirected(g, h, current, ts) /\ \A t \in ts : t \in loops \/ Precedes(order, current, t)
    BY <1>3
  <2> HIDE DEF ts
  <2> QED BY <1>1, <2>1, LeaveOrder
<1> QED BY <1>1, <1>4 DEF OrderedNext

(***************************************************************************)
(* The blocks some path leads to.                                          *)
(***************************************************************************)
\* A set with 0 and with every successor of its numbers has every number.
LEMMA AllNumbers ==
  ASSUME NEW T, 0 \in T, \A n \in Nat : n \in T => n + 1 \in T
  PROVE  Nat \subseteq T
<1> SUFFICES ASSUME Nat \ T # {} PROVE FALSE
  OBVIOUS
<1>1. Nat \ T \in SUBSET Nat
  OBVIOUS
<1>2. PICK x \in Nat \ T : \A y \in Nat \ T : x <= y
  BY <1>1, LeastElement
<1>3. x - 1 \in Nat /\ ~ (x <= x - 1) /\ (x - 1) + 1 = x
  BY <1>2
<1> QED BY <1>2, <1>3

\* f collects, round by round, what next adds to base.
Rounds(f, next, base, n) == /\ f = [i \in 0 .. n |-> f[i]]
                            /\ f[0] = base
                            /\ \A i \in Nat : i + 1 <= n => f[i + 1] = next[f[i]]

\* A recursion of this kind can be carried on for any number of rounds.
LEMMA RoundsExist ==
  ASSUME NEW next, NEW base
  PROVE  \A n \in Nat : \E f : Rounds(f, next, base, n)
<1> DEFINE T == {n \in Nat : \E f : Rounds(f, next, base, n)}
<1>1. 0 \in T
  <2> DEFINE f == [i \in 0 .. 0 |-> base]
  <2>1. f[0] = base /\ f = [i \in 0 .. 0 |-> f[i]] /\ \A i \in Nat : ~ (i + 1 <= 0)
    OBVIOUS
  <2> HIDE DEF f
  <2>2. Rounds(f, next, base, 0)
    BY <2>1 DEF Rounds
  <2> QED BY <2>2
<1>2. ASSUME NEW n \in Nat, n \in T PROVE n + 1 \in T
  <2>1. PICK f : Rounds(f, next, base, n)
    BY <1>2
  <2> DEFINE e == next[f[n]]
             h == [i \in 0 .. (n + 1) |-> IF i = n + 1 THEN e ELSE f[i]]
  <2> HIDE DEF e
  <2>2. h[n + 1] = e /\ n + 1 # 0 /\ n \in 0 .. n /\ 0 \in 0 .. n
    OBVIOUS
  <2>3. \A i \in 0 .. n : h[i] = f[i]
    OBVIOUS
  <2>4. h = [i \in 0 .. (n + 1) |-> h[i]]
    OBVIOUS
  <2> HIDE DEF h
  <2>5. ASSUME NEW i \in Nat, i + 1 <= n + 1 PROVE h[i + 1] = next[h[i]]
    <3>1. CASE i + 1 = n + 1
      BY <2>2, <2>3, <3>1 DEF e
    <3>2. CASE i + 1 # n + 1
      <4>1. i \in 0 .. n /\ i + 1 \in 0 .. n /\ i + 1 <= n
        BY <2>5, <3>2
      <4> QED BY <2>1, <2>3, <4>1 DEF Rounds
    <3> QED BY <3>1, <3>2
  <2>6. h[0] = base
    BY <2>1, <2>2, <2>3 DEF Rounds
  <2>7. Rounds(h, next, base, n + 1)
    BY <2>4, <2>5, <2>6 DEF Rounds
  <2> QED BY <2>7
<1>3. Nat \subseteq T
  <2> HIDE DEF T
  <2> QED BY <1>1, <1>2, AllNumbers
<1> QED BY <1>3

\* next adds elements of X to subsets of X, and base is one of these.
Adds(next, base, X) == /\ IsFiniteSet(X) /\ base \in SUBSET X /\ base # {}
                       /\ next \in [SUBSET X -> SUBSET X]
                       /\ \A s \in SUBSET X : s \subseteq next[s]

\* S is the least set with base that next adds nothing to.
Settled(S, next, base, X) ==
  /\ base \subseteq S /\ S \in SUBSET X /\ next[S] = S
  /\ \A T \in SUBSET X : base \subseteq T /\ (\A s \in SUBSET T : next[s] \subseteq T) => S \subseteq T

\* As many rounds as X has elements are enough: there are not elements enough for each
\* of them to add one.
LEMMA RoundsClose ==
  ASSUME NEW X, NEW next, NEW base, Adds(next, base, X),
         NEW n \in Nat, n = Cardinality(X), NEW f, Rounds(f, next, base, n)
  PROVE  Settled(f[n], next, base, X)
<1>0. IsFiniteSet(X) /\ base \in SUBSET X /\ base # {}
  BY DEF Adds
<1>1. n \in Nat
  OBVIOUS
<1>2. f[0] = base /\ \A i \in Nat : i + 1 <= n => f[i + 1] = next[f[i]]
  BY DEF Rounds
<1>3. \A i \in Nat : i <= n => base \subseteq f[i] /\ f[i] \in SUBSET X
  <2> DEFINE T == {i \in Nat : i <= n => base \subseteq f[i] /\ f[i] \in SUBSET X}
  <2>1. 0 \in T
    BY <1>0, <1>2
  <2>2. ASSUME NEW i \in Nat, i \in T PROVE i + 1 \in T
    <3> SUFFICES ASSUME i + 1 <= n PROVE base \subseteq f[i + 1] /\ f[i + 1] \in SUBSET X
      OBVIOUS
    <3>1. i <= n
      BY <1>1
    <3>2. base \subseteq f[i] /\ f[i] \in SUBSET X /\ f[i + 1] = next[f[i]]
      BY <1>2, <2>2, <3>1
    <3> QED BY <3>2 DEF Adds
  <2>3. Nat \subseteq T
    <3> HIDE DEF T
    <3> QED BY <2>1, <2>2, AllNumbers
  <2> QED BY <2>3
<1>4. \E i \in Nat : i + 1 <= n /\ f[i + 1] = f[i]
  <2> SUFFICES ASSUME \A i \in Nat : i + 1 <= n => f[i + 1] # f[i] PROVE FALSE
    OBVIOUS
  <2> DEFINE T == {i \in Nat : i <= n => Cardinality(f[i]) >= i + 1}
  <2>1. 0 \in T
    <3>1. IsFiniteSet(base)
      BY <1>0, FS_Subset
    <3>2. Cardinality(base) \in Nat /\ Cardinality(base) # 0
      BY <1>0, <3>1, FS_CardinalityType, FS_EmptySet
    <3> QED BY <1>2, <3>2
  <2>2. ASSUME NEW i \in Nat, i \in T PROVE i + 1 \in T
    <3> SUFFICES ASSUME i + 1 <= n PROVE Cardinality(f[i + 1]) >= (i + 1) + 1
      OBVIOUS
    <3>1. i <= n /\ f[i + 1] # f[i] /\ f[i + 1] = next[f[i]]
      BY <1>1, <1>2
    <3>2. f[i] \subseteq f[i + 1] /\ f[i + 1] \in SUBSET X
      BY <1>3, <3>1 DEF Adds
    <3>3. IsFiniteSet(f[i + 1])
      BY <1>0, <3>2, FS_Subset
    <3>4. /\ Cardinality(f[i]) \in Nat /\ Cardinality(f[i + 1]) \in Nat
          /\ Cardinality(f[i]) <= Cardinality(f[i + 1])
          /\ Cardinality(f[i]) # Cardinality(f[i + 1])
      BY <3>1, <3>2, <3>3, FS_Subset, FS_CardinalityType
    <3> QED BY <2>2, <3>1, <3>4
  <2>3. Nat \subseteq T
    <3> HIDE DEF T
    <3> QED BY <2>1, <2>2, AllNumbers
  <2>4. Cardinality(f[n]) >= n + 1
    BY <1>1, <2>3
  <2>5. Cardinality(f[n]) <= n /\ Cardinality(f[n]) \in Nat
    <3>1. f[n] \subseteq X
      BY <1>1, <1>3
    <3>2. IsFiniteSet(f[n]) /\ Cardinality(f[n]) <= Cardinality(X)
      BY <1>0, <3>1, FS_Subset
    <3> QED BY <3>2, FS_CardinalityType
  <2> QED BY <1>1, <2>4, <2>5
<1>5. PICK i \in Nat : i + 1 <= n /\ f[i + 1] = f[i]
  BY <1>4
<1>6. \A j \in Nat : i + j <= n => f[i + j] = f[i]
  <2> DEFINE T == {j \in Nat : i + j <= n => f[i + j] = f[i]}
  <2>1. 0 \in T
    BY <1>5
  <2>2. ASSUME NEW j \in Nat, j \in T PROVE j + 1 \in T
    <3> SUFFICES ASSUME i + (j + 1) <= n PROVE f[i + (j + 1)] = f[i]
      OBVIOUS
    <3>1. i + j \in Nat /\ i + j <= n /\ (i + j) + 1 = i + (j + 1) /\ (i + j) + 1 <= n
      BY <1>1
    <3>2. f[(i + j) + 1] = next[f[i + j]]
      BY <1>2, <3>1
    <3>3. f[i + 1] = next[f[i]]
      BY <1>2, <1>5
    <3> QED BY <1>5, <2>2, <3>1, <3>2, <3>3
  <2>3. Nat \subseteq T
    <3> HIDE DEF T
    <3> QED BY <2>1, <2>2, AllNumbers
  <2> QED BY <2>3
<1>7. f[n] = f[i]
  <2>1. n - i \in Nat /\ i + (n - i) = n
    BY <1>1, <1>5
  <2> QED BY <1>1, <1>6, <2>1
<1>8. next[f[n]] = f[n]
  BY <1>2, <1>5, <1>7
<1>9. base \subseteq f[n] /\ f[n] \in SUBSET X
  BY <1>1, <1>3
<1>10. ASSUME NEW T \in SUBSET X, base \subseteq T, \A s \in SUBSET T : next[s] \subseteq T
       PROVE  f[n] \subseteq T
  <2> DEFINE U == {k \in Nat : k <= n => f[k] \subseteq T}
  <2>1. 0 \in U
    BY <1>2, <1>10
  <2>2. ASSUME NEW k \in Nat, k \in U PROVE k + 1 \in U
    <3>1. k + 1 <= n => k <= n
      BY <1>1
    <3> QED BY <1>2, <1>10, <2>2, <3>1
  <2>3. Nat \subseteq U
    <3> HIDE DEF U
    <3> QED BY <2>1, <2>2, AllNumbers
  <2> QED BY <1>1, <2>3
<1> QED BY <1>8, <1>9, <1>10 DEF Settled

\* Two recursions that agree on subsets of X are one.
LEMMA RoundsAgree ==
  ASSUME NEW X, NEW next, NEW base, Adds(next, base, X), NEW n \in Nat, NEW c,
         c[0] = base, \A i \in Nat : i + 1 <= n /\ c[i] \in SUBSET X => c[i + 1] = next[c[i]],
         NEW f, Rounds(f, next, base, n)
  PROVE  c[n] = f[n]
<1>1. f[0] = base /\ \A i \in Nat : i + 1 <= n => f[i + 1] = next[f[i]]
  BY DEF Rounds
<1> DEFINE T == {i \in Nat : i <= n => c[i] = f[i] /\ c[i] \in SUBSET X}
<1>2. 0 \in T
  BY <1>1 DEF Adds
<1>3. ASSUME NEW i \in Nat, i \in T PROVE i + 1 \in T
  <2> SUFFICES ASSUME i + 1 <= n PROVE c[i + 1] = f[i + 1] /\ c[i + 1] \in SUBSET X
    OBVIOUS
  <2>1. i <= n
    OBVIOUS
  <2>2. c[i] = f[i] /\ c[i] \in SUBSET X
    BY <1>3, <2>1
  <2>3. c[i + 1] = next[c[i]] /\ f[i + 1] = next[f[i]]
    BY <1>1, <2>2
  <2> QED BY <2>2, <2>3 DEF Adds
<1>4. Nat \subseteq T
  <2> HIDE DEF T
  <2> QED BY <1>2, <1>3, AllNumbers
<1> QED BY <1>4

\* From(b) is the least set that has b and every block one of its members jumps to.
LEMMA FromIsClosed ==
  ASSUME NEW b \in Blocks
  PROVE  /\ b \in From(b) /\ From(b) \subseteq Blocks
         /\ \A x \in From(b) : Succ(g, x) \subseteq From(b)
         /\ \A T \in SUBSET Blocks :
              b \in T /\ (\A x \in T : Succ(g, x) \subseteq T) => From(b) \subseteq T
<1> DEFINE n == Cardinality(Blocks)
           base == {b}
           next == [s \in SUBSET Blocks |-> s \cup UNION {Succ(g, x) : x \in s}]
<1>1. n \in Nat /\ IsFiniteSet(Blocks) /\ n = Cardinality(Blocks)
  <2>1. Blocks = 1 .. n /\ n \in Nat
    BY TranslatorAssumption
  <2>2. IsFiniteSet(1 .. n)
    BY <2>1, FS_Interval
  <2> QED BY <2>1, <2>2
<1>2. Adds(next, base, Blocks)
  BY <1>1 DEF Adds, Succ
<1>3. \A s \in SUBSET Blocks : next[s] = s \cup UNION {Succ(g, x) : x \in s}
  OBVIOUS
<1>4. PICK f : Rounds(f, next, base, n)
  BY <1>1, RoundsExist
<1> HIDE DEF next
<1>5. base \in SUBSET Blocks /\ base # {} /\ base = {b}
  OBVIOUS
<1>10. From(b) = Closure({b}, LAMBDA x : Succ(g, x), n)
  BY DEF From
<1> HIDE DEF n, base
<1> DEFINE S == f[n]
<1>6. /\ base \subseteq S /\ S \in SUBSET Blocks /\ next[S] = S
      /\ \A T \in SUBSET Blocks :
           base \subseteq T /\ (\A s \in SUBSET T : next[s] \subseteq T) => S \subseteq T
  <2>1. Settled(f[n], next, base, Blocks)
    BY <1>1, <1>2, <1>4, RoundsClose
  <2> QED BY <2>1 DEF Settled
<1>7. From(b) = S
  <2> DEFINE Rec(c) == c = [i \in 0 .. n |-> IF i = 0 THEN {b}
                                             ELSE c[i - 1] \cup UNION {Succ(g, x) : x \in c[i - 1]}]
  <2>1. Rec(f)
    <3>1. f[0] = base /\ \A i \in Nat : i + 1 <= n => f[i + 1] = next[f[i]]
      BY <1>4 DEF Rounds
    <3>2. \A i \in Nat : i <= n => f[i] \in SUBSET Blocks
      <4> DEFINE T == {i \in Nat : i <= n => f[i] \in SUBSET Blocks}
      <4>1. 0 \in T
        BY <1>5, <3>1
      <4>2. ASSUME NEW i \in Nat, i \in T PROVE i + 1 \in T
        <5>1. i + 1 <= n => i <= n
          BY <1>1
        <5> QED BY <1>2, <3>1, <4>2, <5>1 DEF Adds
      <4>3. Nat \subseteq T
        <5> HIDE DEF T
        <5> QED BY <4>1, <4>2, AllNumbers
      <4> QED BY <4>3
    <3>3. ASSUME NEW i \in 0 .. n
          PROVE  f[i] = IF i = 0 THEN {b} ELSE f[i - 1] \cup UNION {Succ(g, x) : x \in f[i - 1]}
      <4>1. CASE i = 0
        BY <1>5, <3>1, <4>1
      <4>2. CASE i # 0
        <5>1. i - 1 \in Nat /\ (i - 1) + 1 = i /\ i <= n /\ i - 1 <= n
          BY <1>1, <4>2
        <5>2. f[i] = next[f[i - 1]] /\ f[i - 1] \in SUBSET Blocks
          BY <3>1, <3>2, <5>1
        <5> QED BY <1>3, <4>2, <5>2
      <4> QED BY <4>1, <4>2
    <3>4. f = [i \in 0 .. n |-> f[i]]
      BY <1>4 DEF Rounds
    <3> QED BY <3>3, <3>4, Zenon
  <2>2. \E c : Rec(c) /\ From(b) = c[n]
    BY <1>10, <2>1, Zenon DEF Closure
  <2>3. PICK c : Rec(c) /\ From(b) = c[n]
    BY <2>2
  <2>4. ASSUME NEW i \in 0 .. n
        PROVE  c[i] = IF i = 0 THEN {b} ELSE c[i - 1] \cup UNION {Succ(g, x) : x \in c[i - 1]}
    BY <2>3, Zenon
  <2> HIDE DEF Rec
  <2>5. 0 \in 0 .. n
    BY <1>1
  <2>6. c[0] = base
    BY <1>5, <2>4, <2>5
  <2>7. ASSUME NEW i \in Nat, i + 1 <= n, c[i] \in SUBSET Blocks PROVE c[i + 1] = next[c[i]]
    <3>1. i + 1 \in 0 .. n /\ i + 1 # 0 /\ (i + 1) - 1 = i
      BY <1>1, <2>7
    <3>2. c[i + 1] = c[i] \cup UNION {Succ(g, x) : x \in c[i]}
      BY <2>4, <3>1
    <3> QED BY <1>3, <2>7, <3>2
  <2>8. c[n] = f[n]
    <3>1. n \in Nat /\ base \in SUBSET Blocks
      BY <1>1, <1>5
    <3>2. \A i \in Nat : i + 1 <= n /\ c[i] \in SUBSET Blocks => c[i + 1] = next[c[i]]
      BY <2>7
    <3> QED BY <1>2, <1>4, <2>6, <3>1, <3>2, RoundsAgree
  <2> QED BY <2>3, <2>8
<1> HIDE DEF S
<1>8. \A x \in S : Succ(g, x) \subseteq S
  BY <1>3, <1>6
<1>9. ASSUME NEW T \in SUBSET Blocks, b \in T, \A x \in T : Succ(g, x) \subseteq T
      PROVE  S \subseteq T
  <2>1. \A s \in SUBSET T : next[s] \subseteq T
    BY <1>3, <1>9
  <2> QED BY <1>5, <1>6, <1>9, <2>1
<1> QED BY <1>5, <1>6, <1>7, <1>8, <1>9

(***************************************************************************)
(* The pass keeps the order, and leaves behind it only blocks that are     *)
(* finished and have a reason to stay.                                     *)
(***************************************************************************)
\* What stands in a list before, at and after the block to be visited next.
LEMMA AtHead ==
  ASSUME NEW S, NEW p \in Seq(S), NEW r \in Seq(S), r # <<>>
  PROVE  LET s == p \o r
         IN  /\ s \in Seq(S) /\ Tail(r) \in Seq(S) /\ Head(r) \in S
             /\ Len(p) \in Nat /\ Len(Tail(r)) \in Nat
             /\ Len(s) = Len(p) + 1 + Len(Tail(r))
             /\ \A i \in 1 .. Len(p) : s[i] = p[i]
             /\ s[Len(p) + 1] = Head(r)
             /\ \A i \in 1 .. Len(Tail(r)) : s[Len(p) + 1 + i] = Tail(r)[i]
<1> DEFINE s == p \o r
           t == Tail(r)
           m == Len(p)
<1>1. /\ s \in Seq(S) /\ Len(s) = m + Len(r)
      /\ \A i \in 1 .. m + Len(r) : s[i] = IF i <= m THEN p[i] ELSE r[i - m]
  BY ConcatProperties
<1>2. /\ Head(r) \in S /\ t \in Seq(S) /\ Len(t) = Len(r) - 1
      /\ \A i \in 1 .. Len(t) : t[i] = r[i + 1]
  BY HeadTailProperties
<1>3. m \in Nat /\ Len(r) \in Nat \ {0} /\ Head(r) = r[1]
  BY LenProperties, EmptySeq
<1> HIDE DEF s, t, m
<1>4. \A i \in 1 .. m : s[i] = p[i]
  BY <1>1, <1>3
<1>5. s[m + 1] = Head(r)
  <2>1. m + 1 \in 1 .. m + Len(r) /\ ~ (m + 1 <= m) /\ (m + 1) - m = 1
    BY <1>3
  <2> QED BY <1>1, <1>3, <2>1
<1>6. ASSUME NEW i \in 1 .. Len(t) PROVE s[m + 1 + i] = t[i]
  <2>1. m + 1 + i \in 1 .. m + Len(r) /\ ~ (m + 1 + i <= m) /\ (m + 1 + i) - m = i + 1
    BY <1>2, <1>3
  <2> QED BY <1>1, <1>2, <2>1
<1>7. Len(t) \in Nat /\ Len(s) = m + 1 + Len(t)
  BY <1>1, <1>2, <1>3
<1> QED BY <1>1, <1>2, <1>3, <1>4, <1>5, <1>6, <1>7 DEF s, t, m

\* It is not one of those before it, and only those precede it.
LEMMA HeadIsNext ==
  ASSUME NEW S, NEW p \in Seq(S), NEW r \in Seq(S), r # <<>>, Distinct(p \o r)
  PROVE  LET s == p \o r
             b == Head(r)
         IN  /\ b \in ToSet(s) /\ b \notin ToSet(p)
             /\ \A a : Precedes(s, a, b) => a \in ToSet(p)
             /\ Append(p, b) \o Tail(r) = s
             /\ ToSet(Append(p, b)) = ToSet(p) \cup {b}
             /\ b # s[1] => p # <<>> /\ p[1] = s[1]
<1> DEFINE s == p \o r
           b == Head(r)
           t == Tail(r)
           m == Len(p)
           u == Append(p, b)
<1>1. /\ s \in Seq(S) /\ t \in Seq(S) /\ b \in S
      /\ m \in Nat /\ Len(t) \in Nat /\ Len(s) = m + 1 + Len(t)
      /\ \A i \in 1 .. m : s[i] = p[i]
      /\ s[m + 1] = b
      /\ \A i \in 1 .. Len(t) : s[m + 1 + i] = t[i]
  BY AtHead
<1>2. /\ u \in Seq(S) /\ Len(u) = m + 1 /\ \A i \in 1 .. m : u[i] = p[i]
      /\ u[m + 1] = b
  BY <1>1, AppendProperties
<1>3. Distinct(s)
  OBVIOUS
<1>4. m + 1 \in 1 .. Len(s)
  BY <1>1
<1>5. m = 0 => p = <<>>
  BY EmptySeq
<1>6. \A x : x \in ToSet(p) <=> \E i \in 1 .. m : p[i] = x
  BY ElementsOf
<1> HIDE DEF s, b, t, m, u
<1>7. b \in ToSet(s)
  BY <1>1, <1>4, ElementsOf
<1>8. b \notin ToSet(p)
  <2> SUFFICES ASSUME NEW i \in 1 .. m, p[i] = b PROVE FALSE
    BY <1>6
  <2>1. i \in 1 .. Len(s) /\ s[i] = s[m + 1] /\ i # m + 1
    BY <1>1
  <2> QED BY <1>3, <1>4, <2>1 DEF Distinct
<1>9. ASSUME NEW a, Precedes(s, a, b) PROVE a \in ToSet(p)
  <2>1. PICK i, j \in 1 .. Len(s) : i < j /\ s[i] = a /\ s[j] = b
    BY <1>9 DEF Precedes
  <2>2. j = m + 1
    BY <1>1, <1>3, <1>4, <2>1 DEF Distinct
  <2>3. i \in 1 .. m
    <3>1. i \in Nat /\ 1 <= i /\ i < m + 1 /\ m \in Nat
      BY <1>1, <2>1, <2>2
    <3> QED BY <3>1
  <2>4. p[i] = a
    <3>1. s[i] = p[i]
      BY <1>1, <2>3
    <3> QED BY <2>1, <3>1
  <2> QED BY <1>6, <2>3, <2>4
<1>10. u \o t = s
  <2>1. /\ u \o t \in Seq(S) /\ Len(u \o t) = (m + 1) + Len(t)
        /\ \A i \in 1 .. (m + 1) + Len(t) : (u \o t)[i] = IF i <= m + 1 THEN u[i] ELSE t[i - (m + 1)]
    <3>1. /\ u \o t \in Seq(S) /\ Len(u \o t) = Len(u) + Len(t)
          /\ \A i \in 1 .. Len(u) + Len(t) :
                (u \o t)[i] = IF i <= Len(u) THEN u[i] ELSE t[i - Len(u)]
      <4>1. u \in Seq(S) /\ t \in Seq(S)
        BY <1>1, <1>2
      <4> QED BY <4>1, ConcatProperties
    <3>2. Len(u) = m + 1
      BY <1>2
    <3> HIDE DEF u, t, m
    <3> QED BY <3>1, <3>2
  <2> DEFINE w == u \o t
  <2>2. ASSUME NEW i \in 1 .. Len(w) PROVE w[i] = s[i]
    <3>1. i \in 1 .. (m + 1) + Len(t) /\ w[i] = IF i <= m + 1 THEN u[i] ELSE t[i - (m + 1)]
      BY <2>1
    <3> HIDE DEF w
    <3>2. CASE i <= m
      BY <1>1, <1>2, <3>1, <3>2
    <3>3. CASE i = m + 1
      BY <1>1, <1>2, <3>1, <3>3
    <3>4. CASE i > m + 1
      <4>1. i - (m + 1) \in 1 .. Len(t) /\ m + 1 + (i - (m + 1)) = i /\ ~ (i <= m + 1)
        BY <1>1, <3>1, <3>4
      <4> QED BY <1>1, <3>1, <4>1
    <3> QED BY <1>1, <3>1, <3>2, <3>3, <3>4
  <2>3. Len(w) = Len(s) /\ w \in Seq(S)
    BY <1>1, <2>1
  <2> HIDE DEF w
  <2>4. w = s
    BY <1>1, <2>2, <2>3, SeqEqual
  <2> QED BY <2>4 DEF w
<1>11. ToSet(u) = ToSet(p) \cup {b}
  <2>1. \A x : x \in ToSet(u) <=> \E i \in 1 .. m + 1 : u[i] = x
    BY <1>2, ElementsOf
  <2>2. \A i \in 1 .. m + 1 : i \in 1 .. m \/ i = m + 1
    BY <1>1
  <2>3. m + 1 \in 1 .. m + 1 /\ \A i \in 1 .. m : i \in 1 .. m + 1
    BY <1>1
  <2>4. ASSUME NEW x PROVE x \in ToSet(u) <=> x \in ToSet(p) \cup {b}
    BY <1>2, <1>6, <2>1, <2>2, <2>3
  <2> QED BY <2>4
<1>12. b # s[1] => p # <<>> /\ p[1] = s[1]
  <2> SUFFICES ASSUME b # s[1] PROVE p # <<>> /\ p[1] = s[1]
    OBVIOUS
  <2>1. m # 0
    BY <1>1
  <2>2. p # <<>>
    BY <2>1 DEF m
  <2>3. 1 \in 1 .. m
    BY <1>1, <2>1
  <2> QED BY <1>1, <2>2, <2>3
<1> QED BY <1>7, <1>8, <1>9, <1>10, <1>11, <1>12 DEF s, b, t, u

\* Taking it out leaves the others as they stand.
LEMMA WithoutHead ==
  ASSUME NEW S, NEW p \in Seq(S), NEW r \in Seq(S), r # <<>>, Distinct(p \o r)
  PROVE  LET s == p \o r
             b == Head(r)
             q == p \o Tail(r)
         IN  /\ RemoveFirst(s, b) = q /\ Distinct(q)
             /\ ToSet(q) = ToSet(s) \ {b}
             /\ \A x, y : x # b /\ y # b /\ Precedes(s, x, y) => Precedes(q, x, y)
             /\ p # <<>> => q # <<>> /\ q[1] = p[1]
<1> DEFINE s == p \o r
           b == Head(r)
           t == Tail(r)
           m == Len(p)
           q == p \o t
           n == Len(s)
<1>1. /\ s \in Seq(S) /\ t \in Seq(S) /\ b \in S
      /\ m \in Nat /\ Len(t) \in Nat /\ n = m + 1 + Len(t)
      /\ \A i \in 1 .. m : s[i] = p[i]
      /\ s[m + 1] = b
      /\ \A i \in 1 .. Len(t) : s[m + 1 + i] = t[i]
  BY AtHead
<1>2. /\ q \in Seq(S) /\ Len(q) = m + Len(t)
      /\ \A i \in 1 .. m + Len(t) : q[i] = IF i <= m THEN p[i] ELSE t[i - m]
  BY <1>1, ConcatProperties
<1>3. Distinct(s) /\ (p # <<>> => m # 0)
  BY EmptySeq
<1>4. Len(p) = m /\ p \o t = q
  OBVIOUS
<1> HIDE DEF s, b, t, m, q
<1>5. m + 1 \in 1 .. n /\ n \in Nat
  BY <1>1
<1>6. RemoveFirst(s, b) = q
  <2> DEFINE I == {i \in 1 .. n : s[i] = b}
             k == SelectInSeq(s, LAMBDA v : v = b)
  <2>1. I = {m + 1}
    BY <1>1, <1>3, <1>5 DEF Distinct
  <2>2. k = CHOOSE x \in I : \A y \in I : x <= y
    BY <2>1 DEF SelectInSeq, Min
  <2>3. k = m + 1
    <3>1. m + 1 \in I /\ \A y \in I : m + 1 <= y
      <4>1. m + 1 <= m + 1
        BY <1>1
      <4> HIDE DEF I
      <4> QED BY <2>1, <4>1, Zenon
    <3> HIDE DEF I, k
    <3>2. k \in I
      BY <2>2, <3>1, Zenon
    <3> QED BY <2>1, <3>2
  <2> HIDE DEF k
  <2>4. RemoveFirst(s, b) = SubSeq(s, 1, k - 1) \o SubSeq(s, k + 1, n)
    BY <1>1, <1>5 DEF RemoveFirst, RemoveAt, k
  <2>5. SubSeq(s, 1, k - 1) = p
    <3> DEFINE u == SubSeq(s, 1, k - 1)
    <3>1. 1 \in Int /\ k - 1 \in Int /\ k - 1 = m /\ (k - 1) - 1 + 1 = m
          /\ \A i \in 1 .. k - 1 : s[i] \in S
      BY <1>1, <2>3, ElementOfSeq
    <3>2. /\ u \in Seq(S) /\ Len(u) = IF 1 <= k - 1 THEN (k - 1) - 1 + 1 ELSE 0
          /\ \A i \in 1 .. (k - 1) - 1 + 1 : u[i] = s[1 + i - 1]
      BY <3>1, SubSeqProperties
    <3> HIDE DEF u
    <3>3. Len(u) = m /\ \A i \in 1 .. m : u[i] = p[i]
      BY <1>1, <3>1, <3>2
    <3>4. u = p
      BY <1>4, <3>2, <3>3, SeqEqual
    <3> QED BY <3>4 DEF u
  <2>6. SubSeq(s, k + 1, n) = t
    <3> DEFINE u == SubSeq(s, k + 1, n)
    <3>1. k + 1 \in Int /\ n \in Int /\ n - (k + 1) + 1 = Len(t)
          /\ \A i \in k + 1 .. n : s[i] \in S
      BY <1>1, <2>3, ElementOfSeq
    <3>2. /\ u \in Seq(S) /\ Len(u) = IF k + 1 <= n THEN n - (k + 1) + 1 ELSE 0
          /\ \A i \in 1 .. n - (k + 1) + 1 : u[i] = s[(k + 1) + i - 1]
      BY <3>1, SubSeqProperties
    <3> HIDE DEF u
    <3>3. Len(u) = Len(t)
      BY <1>1, <2>3, <3>1, <3>2
    <3>4. ASSUME NEW i \in 1 .. Len(t) PROVE u[i] = t[i]
      <4>1. (k + 1) + i - 1 = m + 1 + i
        BY <1>1, <2>3
      <4> QED BY <1>1, <3>1, <3>2, <4>1
    <3>5. u = t
      BY <1>1, <3>2, <3>3, <3>4, SeqEqual
    <3> QED BY <3>5 DEF u
  <2> QED BY <1>4, <2>4, <2>5, <2>6
<1> DEFINE At(i) == IF i <= m THEN i ELSE i + 1
<1>7. ASSUME NEW i \in 1 .. Len(q) PROVE At(i) \in 1 .. n /\ At(i) # m + 1 /\ s[At(i)] = q[i]
  <2>1. CASE i <= m
    BY <1>1, <1>2, <2>1
  <2>2. CASE ~ (i <= m)
    <3>1. i - m \in 1 .. Len(t) /\ At(i) = m + 1 + (i - m)
      BY <1>1, <1>2, <2>2
    <3>2. q[i] = t[i - m] /\ s[At(i)] = t[i - m]
      BY <1>1, <1>2, <2>2, <3>1
    <3> QED BY <1>1, <3>1, <3>2
  <2> QED BY <2>1, <2>2
<1>8. ASSUME NEW j \in 1 .. n, j # m + 1
      PROVE  (IF j <= m THEN j ELSE j - 1) \in 1 .. Len(q)
             /\ At(IF j <= m THEN j ELSE j - 1) = j
  BY <1>1, <1>2, <1>8
<1>9. Distinct(q)
  <2> SUFFICES ASSUME NEW i \in 1 .. Len(q), NEW j \in 1 .. Len(q), q[i] = q[j] PROVE i = j
    BY DEF Distinct
  <2>1. At(i) = At(j)
    BY <1>3, <1>7 DEF Distinct, n
  <2> QED BY <1>1, <1>2, <2>1
<1>10. ASSUME NEW j \in 1 .. n PROVE s[j] = b <=> j = m + 1
  BY <1>1, <1>3, <1>5 DEF Distinct, n
<1>11. ToSet(q) = ToSet(s) \ {b}
  <2>1. \A x : x \in ToSet(q) <=> \E i \in 1 .. Len(q) : q[i] = x
    BY <1>2, ElementsOf
  <2>2. \A x : x \in ToSet(s) <=> \E i \in 1 .. n : s[i] = x
    BY <1>1, ElementsOf DEF n
  <2>3. ASSUME NEW x \in ToSet(q) PROVE x \in ToSet(s) \ {b}
    <3>1. PICK i \in 1 .. Len(q) : q[i] = x
      BY <2>1
    <3>2. At(i) \in 1 .. n /\ s[At(i)] = x /\ At(i) # m + 1
      BY <1>7, <3>1
    <3> HIDE DEF At
    <3> QED BY <1>10, <2>2, <3>2
  <2>4. ASSUME NEW x \in ToSet(s), x # b PROVE x \in ToSet(q)
    <3>1. PICK j \in 1 .. n : s[j] = x
      BY <2>2
    <3> DEFINE i == IF j <= m THEN j ELSE j - 1
    <3>2. j # m + 1
      BY <1>10, <2>4, <3>1
    <3>3. i \in 1 .. Len(q) /\ At(i) = j
      BY <1>8, <3>2
    <3>4. q[i] = x
      <4> HIDE DEF i
      <4> QED BY <1>7, <3>1, <3>3
    <3> QED BY <2>1, <3>3, <3>4
  <2> QED BY <2>3, <2>4
<1>12. ASSUME NEW x, NEW y, x # b, y # b, Precedes(s, x, y) PROVE Precedes(q, x, y)
  <2>1. PICK j, l \in 1 .. n : j < l /\ s[j] = x /\ s[l] = y
    BY <1>12 DEF Precedes, n
  <2>2. j # m + 1 /\ l # m + 1
    BY <1>10, <1>12, <2>1
  <2> DEFINE i == IF j <= m THEN j ELSE j - 1
             k == IF l <= m THEN l ELSE l - 1
  <2>3. i \in 1 .. Len(q) /\ At(i) = j /\ k \in 1 .. Len(q) /\ At(k) = l
    BY <1>8, <2>2
  <2>4. i < k
    BY <1>1, <2>1, <2>2
  <2> HIDE DEF i, k
  <2>5. q[i] = x /\ q[k] = y
    BY <1>7, <2>1, <2>3
  <2> QED BY <2>3, <2>4, <2>5 DEF Precedes
<1>13. p # <<>> => q # <<>> /\ q[1] = p[1]
  <2> SUFFICES ASSUME m # 0 PROVE q # <<>> /\ q[1] = p[1]
    BY <1>3
  <2>1. 1 \in 1 .. m + Len(t) /\ 1 <= m /\ Len(q) # 0
    BY <1>1, <1>2
  <2> QED BY <1>2, <2>1, EmptySeq
<1> QED BY <1>6, <1>9, <1>11, <1>12, <1>13 DEF s, b, t, q

\* A block that ends, and whose end is no constant branch.
Finished(gr, b) == gr.branch[b] # NULL
                   /\ ~ (gr.branchElse[b] # NULL /\ gr.control[b] \in {IMMTRUE, IMMFALSE})

\* A reason to stay: the entry, a loop, or an edge from a block that was visited.
Kept(gr, ord, p, ls, b) == \/ b = ord[1] \/ b \in ls
                           \/ \E a \in ToSet(p) : Precedes(ord, a, b) /\ b \in Succ(gr, a)

Swept(gr, ord, rs, ls) ==
  \E p \in Seq(Blocks) : /\ ord = p \o rs
                         /\ \A b \in ToSet(p) : Finished(gr, b) /\ Kept(gr, ord, p, ls, b)

\* The graph changes at one block only.
OnlyAt(gr, h, b) == \A c \in Blocks \ {b} : /\ h.branch[c] = gr.branch[c]
                                            /\ h.branchElse[c] = gr.branchElse[c]
                                            /\ h.control[c] = gr.control[c]

\* The blocks before the one that changes stay finished.
LEMMA FinishedKept ==
  ASSUME NEW gr, NEW h, NEW b, NEW c \in Blocks \ {b}, OnlyAt(gr, h, b), Finished(gr, c)
  PROVE  Finished(h, c)
BY DEF Finished, OnlyAt

\* ... and keep their edges.
LEMMA SuccKept ==
  ASSUME NEW gr, NEW h, NEW b, NEW c \in Blocks \ {b}, OnlyAt(gr, h, b)
  PROVE  Succ(h, c) = Succ(gr, c)
BY DEF Succ, OnlyAt

\* A block that is kept joins those the pass has dealt with.
LEMMA KeepStep ==
  ASSUME NEW gr, NEW h, NEW ord, NEW rs \in Seq(Blocks), rs # <<>>, NEW ls,
         InBlocksAreExact(gr), gr \in Graphs,
         Distinct(ord), Flowing(gr, ord, ls), Swept(gr, ord, rs, ls),
         OnlyAt(gr, h, Head(rs)), Succ(h, Head(rs)) \subseteq Succ(gr, Head(rs)),
         Finished(h, Head(rs)), gr.in[Head(rs)] # {} \/ Head(rs) = ord[1]
  PROVE  Flowing(h, ord, ls) /\ Swept(h, ord, Tail(rs), ls)
<1> DEFINE b == Head(rs)
           t == Tail(rs)
<1>1. PICK p \in Seq(Blocks) :
         /\ ord = p \o rs
         /\ \A c \in ToSet(p) : Finished(gr, c) /\ Kept(gr, ord, p, ls, c)
  BY DEF Swept
<1> DEFINE u == Append(p, b)
<1>2. /\ b \in ToSet(ord) /\ b \notin ToSet(p)
      /\ \A a : Precedes(ord, a, b) => a \in ToSet(p)
      /\ u \o t = ord /\ ToSet(u) = ToSet(p) \cup {b}
  BY <1>1, HeadIsNext
<1>3. b \in Blocks /\ u \in Seq(Blocks) /\ ToSet(p) \subseteq Blocks \ {b}
  <2>1. b \in Blocks
    BY HeadTailProperties
  <2> QED BY <1>2, <2>1, ElementsOf, AppendProperties
<1>4. /\ OnlyAt(gr, h, b) /\ Succ(h, b) \subseteq Succ(gr, b) /\ Finished(h, b)
      /\ gr.in[b] # {} \/ b = ord[1]
  OBVIOUS
<1> HIDE DEF b, t, u
<1>5. Flowing(h, ord, ls)
  <2> DEFINE ts == Succ(gr, b)
  <2>1. Redirected(gr, h, b, ts)
    BY <1>3, <1>4, SuccKept DEF Redirected
  <2>2. \A x \in ts : x \in ls \/ Precedes(ord, b, x)
    BY <1>3 DEF Flowing, Succ
  <2> HIDE DEF ts
  <2> QED BY <1>2, <2>1, <2>2, FlowStep
<1>6. ASSUME NEW c \in ToSet(p) PROVE Finished(h, c) /\ Kept(h, ord, u, ls, c)
  <2>1. Finished(gr, c) /\ Kept(gr, ord, p, ls, c) /\ c \in Blocks \ {b}
    BY <1>1, <1>3
  <2>2. Finished(h, c)
    BY <1>4, <2>1, FinishedKept
  <2>3. \A a \in ToSet(p) : Succ(h, a) = Succ(gr, a) /\ a \in ToSet(u)
    BY <1>2, <1>3, <1>4, SuccKept
  <2> QED BY <2>1, <2>2, <2>3 DEF Kept
<1>7. Kept(h, ord, u, ls, b)
  <2>1. CASE b = ord[1]
    BY <2>1 DEF Kept
  <2>2. CASE gr.in[b] # {}
    <3>1. PICK a \in Blocks : b \in Succ(gr, a)
      BY <1>3, <2>2, FieldTypes DEF InBlocksAreExact
    <3>2. b \in ls \/ Precedes(ord, a, b)
      BY <1>3, <3>1 DEF Flowing
    <3>3. CASE Precedes(ord, a, b)
      <4>1. a \in ToSet(p) /\ a \in ToSet(u)
        BY <1>2, <3>3
      <4>2. b \in Succ(h, a)
        BY <1>3, <1>4, <3>1, <4>1, SuccKept
      <4> QED BY <3>3, <4>1, <4>2 DEF Kept
    <3> QED BY <3>2, <3>3 DEF Kept
  <2> QED BY <1>4, <2>1, <2>2
<1>8. \A c \in ToSet(u) : Finished(h, c) /\ Kept(h, ord, u, ls, c)
  BY <1>2, <1>4, <1>6, <1>7
<1>9. Swept(h, ord, t, ls)
  BY <1>2, <1>3, <1>8 DEF Swept
<1> QED BY <1>5, <1>9 DEF t

\* A block nobody jumps to is taken out without a gap.
LEMMA DropStep ==
  ASSUME NEW gr, NEW h, NEW ord, NEW rs \in Seq(Blocks), rs # <<>>, NEW ls,
         InBlocksAreExact(gr), gr \in Graphs,
         Distinct(ord), Flowing(gr, ord, ls), Swept(gr, ord, rs, ls),
         OnlyAt(gr, h, Head(rs)), Succ(h, Head(rs)) = {},
         gr.in[Head(rs)] = {}, Head(rs) # ord[1]
  PROVE  LET ord2 == RemoveFirst(ord, Head(rs))
         IN  /\ Distinct(ord2) /\ ord2 # <<>>
             /\ Flowing(h, ord2, ls) /\ Swept(h, ord2, Tail(rs), ls)
<1> DEFINE b == Head(rs)
           t == Tail(rs)
<1>1. PICK p \in Seq(Blocks) :
         /\ ord = p \o rs
         /\ \A c \in ToSet(p) : Finished(gr, c) /\ Kept(gr, ord, p, ls, c)
  BY DEF Swept
<1> DEFINE q == p \o t
<1>2. /\ b \notin ToSet(p) /\ p # <<>> /\ p[1] = ord[1]
  BY <1>1, HeadIsNext
<1>3. /\ RemoveFirst(ord, b) = q /\ Distinct(q)
      /\ ToSet(q) = ToSet(ord) \ {b}
      /\ \A x, y : x # b /\ y # b /\ Precedes(ord, x, y) => Precedes(q, x, y)
      /\ q # <<>> /\ q[1] = p[1]
  BY <1>1, <1>2, WithoutHead
<1>4. b \in Blocks /\ ToSet(p) \subseteq Blocks \ {b}
  <2>1. b \in Blocks
    BY HeadTailProperties
  <2> QED BY <1>2, <2>1, ElementsOf
<1>5. OnlyAt(gr, h, b) /\ Succ(h, b) = {} /\ gr.in[b] = {}
  OBVIOUS
<1>6. p \o t = q
  OBVIOUS
<1> HIDE DEF b, t, q
<1>7. ASSUME NEW a \in Blocks, NEW c \in Blocks, c \in Succ(h, a)
      PROVE  a # b /\ c # b /\ c \in Succ(gr, a)
  <2>1. a # b
    BY <1>5, <1>7
  <2>2. c \in Succ(gr, a)
    BY <1>5, <1>7, <2>1, SuccKept
  <2> QED BY <1>4, <1>5, <2>1, <2>2 DEF InBlocksAreExact
<1>8. Flowing(h, q, ls)
  <2> SUFFICES ASSUME NEW a \in Blocks, NEW c \in Blocks, c \in Succ(h, a)
               PROVE  a \in ToSet(q) /\ (c \in ls \/ Precedes(q, a, c))
    BY DEF Flowing
  <2>1. a # b /\ c # b /\ c \in Succ(gr, a)
    BY <1>7
  <2> QED BY <1>3, <2>1 DEF Flowing
<1>9. ASSUME NEW c \in ToSet(p) PROVE Finished(h, c) /\ Kept(h, q, p, ls, c)
  <2>1. Finished(gr, c) /\ Kept(gr, ord, p, ls, c) /\ c \in Blocks \ {b}
    BY <1>1, <1>4
  <2>2. Finished(h, c)
    BY <1>5, <2>1, FinishedKept
  <2>3. \A a \in ToSet(p) : Succ(h, a) = Succ(gr, a) /\ a # b
    BY <1>4, <1>5, SuccKept
  <2>4. \A a \in ToSet(p) : Precedes(ord, a, c) => Precedes(q, a, c)
    BY <1>3, <2>1, <2>3
  <2> QED BY <1>2, <1>3, <2>1, <2>2, <2>3, <2>4 DEF Kept
<1>10. Swept(h, q, t, ls)
  BY <1>6, <1>9 DEF Swept
<1> QED BY <1>3, <1>8, <1>10 DEF b, t

\* Every operation of the pass changes the block it is given and no other.
LEMMA RelinkedOnlyAt ==
  ASSUME NEW gr \in Graphs, NEW h, NEW b \in Blocks, NEW v, NEW to, NEW else, NEW t,
         Relinked(h, gr, b, v, to, else, t)
  PROVE  /\ OnlyAt(gr, h, b)
         /\ h.branch[b] = to /\ h.branchElse[b] = else /\ h.control[b] = v
<1>1. /\ h.branch = [gr.branch EXCEPT ![b] = to] /\ h.branchElse = [gr.branchElse EXCEPT ![b] = else]
      /\ h.control = [gr.control EXCEPT ![b] = v]
  BY DEF Relinked, Has
<1> QED BY <1>1, FieldTypes DEF OnlyAt

(***************************************************************************)
(* The invariant of the block list.                                        *)
(***************************************************************************)
InOrder == /\ Distinct(order) /\ order # <<>> /\ Flowing(g, order, loops)
           /\ phase = "body" => Ahead(order, current, frames, loops)
           /\ phase \in {"sweep", "done"} => Swept(g, order, rest, loops)
           /\ phase = "done" => rest = <<>>

\* It is what the statements keep.
LEMMA StatementOrder ==
  ASSUME phase' = "body", OrderedNext
  PROVE  InOrder'
BY DEF InOrder, OrderedNext, Ordered

\* A visit after which the list is in order.
LEMMA VisitOrder ==
  ASSUME phase = "sweep", NEW gr, NEW ord, Visit(gr, ord, "sweep"),
         Distinct(ord), ord # <<>>, Flowing(gr, ord, loops), Swept(gr, ord, Tail(rest), loops)
  PROVE  InOrder'
<1>1. /\ g' = gr /\ order' = ord /\ loops' = loops /\ rest' = Tail(rest)
      /\ phase' \in {"sweep", "done"} /\ (phase' = "done" => Tail(rest) = <<>>)
  BY DEF Visit
<1> QED BY <1>1 DEF InOrder

\* What the pass may assume of the block it visits.
LEMMA VisitedState ==
  ASSUME Inv, InOrder, phase = "sweep"
  PROVE  /\ Distinct(order) /\ order # <<>> /\ Flowing(g, order, loops)
         /\ Swept(g, order, rest, loops)
         /\ rest \in Seq(Blocks) /\ rest # <<>> /\ Head(rest) \in Blocks
         /\ g \in Graphs /\ Edges(g) /\ InBlocksAreExact(g) /\ Good(g, Blocks)
BY SweepingState DEF Inv, InOrder, Good, Edges

\* A kept block.
LEMMA KeepOrder ==
  ASSUME Inv, InOrder, phase = "sweep", NEW h, Visit(h, order, "sweep"),
         ~ Unused(Head(rest)), OnlyAt(g, h, Head(rest)),
         Succ(h, Head(rest)) \subseteq Succ(g, Head(rest)), Finished(h, Head(rest))
  PROVE  InOrder'
<1>1. Flowing(h, order, loops) /\ Swept(h, order, Tail(rest), loops)
  BY VisitedState, KeepStep DEF Unused
<1> QED BY <1>1, VisitedState, VisitOrder

\* The pass removes a block,
LEMMA SweepRemoveOrder ==
  ASSUME Inv, InOrder, SweepRemove
  PROVE  InOrder'
<1> DEFINE b == Head(rest)
           h == Reset(g, b)
           ord == RemoveFirst(order, b)
<1>1. phase = "sweep" /\ g.in[b] = {} /\ b # order[1] /\ Visit(h, ord, "sweep")
  BY DEF SweepRemove, Unused, RemoveBlock
<1>2. b \in Blocks /\ g \in Graphs /\ Edges(g)
  BY <1>1, VisitedState
<1>3. /\ h.branch = [g.branch EXCEPT ![b] = NULL] /\ h.control = [g.control EXCEPT ![b] = NULL]
      /\ h.branchElse = [g.branchElse EXCEPT ![b] = NULL]
  BY <1>2, ResetIs DEF Has
<1>4. OnlyAt(g, h, b) /\ Succ(h, b) = {}
  <2> HIDE DEF h, b
  <2> QED BY <1>2, <1>3, FieldTypes, CfgAssumption DEF OnlyAt, Succ
<1>5. /\ Distinct(ord) /\ ord # <<>>
      /\ Flowing(h, ord, loops) /\ Swept(h, ord, Tail(rest), loops)
  <2> HIDE DEF h
  <2> QED BY <1>1, <1>4, VisitedState, DropStep
<1> QED BY <1>1, <1>5, VisitOrder

\* ... folds a constant branch,
LEMMA SweepFoldOrder ==
  ASSUME Inv, InOrder, SweepFold
  PROVE  InOrder'
<1> DEFINE b == Head(rest)
           to == IF g.control[b] = IMMTRUE THEN g.branch[b] ELSE g.branchElse[b]
           h == ResetTo(g, b, to)
<1>1. /\ phase = "sweep" /\ ~ Unused(b) /\ g.branchElse[b] # NULL
      /\ Visit(h, order, "sweep")
  BY DEF SweepFold, Constant, IsBranched
<1>2. b \in Blocks /\ g \in Graphs /\ Edges(g)
  BY <1>1, VisitedState
<1>3. to \in Blocks /\ to \in Succ(g, b)
  <2>1. g.branch[b] \in Blocks /\ g.branchElse[b] \in Blocks
    BY <1>1, <1>2, FieldTypes DEF Edges, WellShaped
  <2> QED BY <2>1 DEF Succ
<1>4. /\ OnlyAt(g, h, b)
      /\ h.branch[b] = to /\ h.branchElse[b] = NULL
  <2> HIDE DEF b, to
  <2> QED BY <1>2, <1>3, ResetToIs, RelinkedOnlyAt
<1> HIDE DEF h, to
<1>5. Succ(h, b) \subseteq Succ(g, b) /\ Finished(h, b)
  BY <1>3, <1>4, CfgAssumption DEF Succ, Finished
<1> QED BY <1>1, <1>4, <1>5, KeepOrder

\* ... ends an open block, or aborts,
LEMMA SweepTerminateOrder ==
  ASSUME Inv, InOrder, SweepTerminate
  PROVE  InOrder'
<1> DEFINE b == Head(rest)
           h == TryMarkAsTerminal(g, b, FALSE)
<1>1. phase = "sweep" /\ ~ Unused(b)
  BY DEF SweepTerminate
<1>2. CASE MarkReturns(g, b, FALSE)
  <2>1. Visit(h, order, "sweep")
    BY <1>2 DEF SweepTerminate
  <2>2. b \in Blocks /\ g \in Graphs /\ Edges(g)
    BY <1>1, VisitedState
  <2>3. /\ OnlyAt(g, h, b)
        /\ h.branch[b] = TERMINAL /\ h.branchElse[b] = NULL
    <3> HIDE DEF b
    <3>1. Relinked(h, g, b, NULL, TERMINAL, NULL, Ret)
      BY <1>2, <2>2, MarkIs
    <3> HIDE DEF h
    <3> QED BY <2>2, <3>1, RelinkedOnlyAt
  <2> HIDE DEF h
  <2>4. Succ(h, b) \subseteq Succ(g, b) /\ Finished(h, b)
    BY <2>3, CfgAssumption DEF Succ, Finished
  <2> QED BY <1>1, <2>1, <2>3, <2>4, KeepOrder
<1>3. CASE ~ MarkReturns(g, b, FALSE)
  <2>1. g' = g /\ order' = order /\ loops' = loops /\ phase' = "aborted"
    BY <1>3 DEF SweepTerminate, Visit, TryMarkAsTerminal
  <2> QED BY <2>1 DEF InOrder
<1> QED BY <1>2, <1>3

\* ... or passes over a block.
LEMMA SweepSkipOrder ==
  ASSUME Inv, InOrder, SweepSkip
  PROVE  InOrder'
<1> DEFINE b == Head(rest)
<1>1. phase = "sweep" /\ ~ Unused(b) /\ Visit(g, order, "sweep") /\ Finished(g, b)
  BY DEF SweepSkip, Finished, Constant, IsBranched, IsIncomplete
<1>2. OnlyAt(g, g, b) /\ Succ(g, b) \subseteq Succ(g, b)
  BY DEF OnlyAt
<1> QED BY <1>1, <1>2, KeepOrder

\* When the body ends the pass has dealt with no block.
LEMMA EndFunctionOrder ==
  ASSUME Inv, InOrder, EndFunction
  PROVE  InOrder'
<1>1. /\ phase = "body" /\ phase' = "sweep" /\ rest' = order
      /\ g' = g /\ order' = order /\ loops' = loops
  BY DEF EndFunction
<1>2. order \in Seq(Blocks)
  BY <1>1 DEF Inv, Building, Listed
<1>3. Swept(g, order, order, loops)
  <2>1. <<>> \in Seq(Blocks) /\ <<>> \o order = order /\ ToSet(<<>>) = {}
    BY <1>2, ConcatEmptySeq DEF ToSet
  <2> QED BY <2>1 DEF Swept
<1> QED BY <1>1, <1>3 DEF InOrder

\* One block, no edges.
LEMMA InitOrder ==
  ASSUME Init
  PROVE  InOrder
<1>1. /\ order = <<1>> /\ frames = <<>> /\ phase = "body"
      /\ \A b \in Blocks : Succ(g, b) = {}
  BY CfgAssumption DEF Init, EmptyGraph, Succ
<1>2. Distinct(order) /\ order # <<>>
  BY <1>1, Lists1
<1>3. Len(frames) = 0
  BY <1>1
<1>4. Ahead(order, current, frames, loops)
  BY <1>3 DEF Ahead
<1> QED BY <1>1, <1>2, <1>4 DEF InOrder, Flowing

\* Every step keeps the blocks in order.
LEMMA NextOrder ==
  ASSUME Inv, InOrder, [Next]_vars
  PROVE  InOrder'
<1>1. CASE UNCHANGED vars
  BY <1>1 DEF InOrder, vars
<1>2. CASE Sweep
  BY <1>2, SweepRemoveOrder, SweepFoldOrder, SweepTerminateOrder, SweepSkipOrder DEF Sweep
<1>3. phase = "body" => OrderedNow
  BY DEF InOrder, OrderedNow, Ordered
<1>4. CASE \E v \in Conditions(NextPoint) :
             \/ If(v) \/ IfElse(v) \/ DoTest(v) \/ WhileTest(v) \/ ForTest(v)
             \/ \E isAnd \in BOOLEAN : LogicLeft(isAnd, v)
  <2>1. PICK v \in Conditions(NextPoint) :
               \/ If(v) \/ IfElse(v) \/ DoTest(v) \/ WhileTest(v) \/ ForTest(v)
               \/ \E isAnd \in BOOLEAN : LogicLeft(isAnd, v)
    BY <1>4
  <2>2. phase = "body" /\ phase' = "body"
    BY <2>1 DEF If, IfElse, DoTest, WhileTest, ForTest, LoopTest, LogicLeft, InExpression,
                InStatements, In, SweepState
  <2>3. CASE If(v)
    BY <1>3, <2>2, <2>3, IfOrder, StatementOrder
  <2>4. CASE IfElse(v)
    BY <1>3, <2>2, <2>4, IfElseOrder, StatementOrder
  <2>5. CASE DoTest(v)
    BY <1>3, <2>2, <2>5, DoTestOrder, StatementOrder
  <2>6. CASE WhileTest(v)
    BY <1>3, <2>2, <2>6, LoopTestOrder, StatementOrder DEF WhileTest
  <2>7. CASE ForTest(v)
    BY <1>3, <2>2, <2>7, LoopTestOrder, StatementOrder DEF ForTest
  <2>8. CASE \E isAnd \in BOOLEAN : LogicLeft(isAnd, v)
    BY <1>3, <2>2, <2>8, LogicLeftOrder, StatementOrder
  <2> QED BY <2>1, <2>3, <2>4, <2>5, <2>6, <2>7, <2>8
<1>5. CASE While \/ For
  <2>1. phase = "body" /\ phase' = "body"
    BY <1>5 DEF While, For, Loop, InStatements, In
  <2> QED BY <1>3, <1>5, <2>1, LoopOrder, StatementOrder DEF While, For
<1>6. CASE Expression \/ LogicRight \/ EndElse \/ EndIf \/ Do \/ EndDoBody
  <2>1. phase = "body" /\ phase' = "body"
    BY <1>6 DEF Expression, LogicRight, EndElse, EndIf, Do, EndDoBody, InStatements, In, SweepState
  <2> QED BY <1>3, <1>6, <2>1, StatementOrder,
             ExpressionOrder, LogicRightOrder, EndElseOrder, EndIfOrder, DoOrder, EndDoBodyOrder
<1>7. CASE EndlessFor \/ EndLoop \/ Break \/ Continue
  <2>1. phase = "body" /\ phase' = "body"
    BY <1>7 DEF EndlessFor, EndLoop, Break, Continue, InWhile, InStatements, In, SweepState
  <2> QED BY <1>3, <1>7, <2>1, StatementOrder,
             EndlessForOrder, EndLoopOrder, BreakOrder, ContinueOrder
<1>8. CASE ReturnValue \/ ReturnVoid
  <2>1. phase = "body" /\ phase' = "body"
    BY <1>8 DEF ReturnValue, ReturnVoid, InStatements, In, SweepState
  <2> QED BY <1>3, <1>8, <2>1, StatementOrder, ReturnValueOrder, ReturnVoidOrder
<1>9. CASE EndFunction
  BY <1>9, EndFunctionOrder
<1> QED BY <1>1, <1>2, <1>4, <1>5, <1>6, <1>7, <1>8, <1>9 DEF Next, Statement

\* Every block that has a reason to stay is reached from the entry, or from a loop that is
\* not: of the blocks for which that fails, take the first in the list.
LEMMA KeptExplained ==
  ASSUME order \in Seq(Blocks), Distinct(order), order # <<>>,
         \A b \in ToSet(order) : Kept(g, order, order, loops, b)
  PROVE  \A b \in ToSet(order) : b \in From(order[1]) \/ \E c \in DeadLoops : b \in From(c)
<1> DEFINE n == Len(order)
           Explained(b) == b \in From(order[1]) \/ \E c \in DeadLoops : b \in From(c)
<1>3. /\ n \in Nat \ {0} /\ 1 \in 1 .. n
      /\ \A x : x \in ToSet(order) <=> \E i \in 1 .. n : order[i] = x
      /\ ToSet(order) \subseteq Blocks
  BY ElementsOf, EmptySeq, LenProperties
<1>4. \A b \in Blocks : b \in From(b) /\ \A x \in From(b) : Succ(g, x) \subseteq From(b)
  BY FromIsClosed
<1> HIDE DEF n
<1>5. order[1] \in ToSet(order) /\ order[1] \in Blocks /\ DeadLoops \subseteq ToSet(order)
  BY <1>3 DEF DeadLoops
<1>6. ASSUME NEW a, NEW b \in Succ(g, a), Explained(a) PROVE Explained(b)
  <2>1. CASE a \in From(order[1])
    BY <1>4, <1>5, <2>1
  <2>2. CASE \E c \in DeadLoops : a \in From(c)
    <3>1. PICK c \in DeadLoops : a \in From(c)
      BY <2>2
    <3>2. c \in Blocks
      BY <1>3, <1>5
    <3>3. b \in From(c)
      BY <1>4, <3>1, <3>2
    <3> QED BY <3>1, <3>3
  <2> QED BY <1>6, <2>1, <2>2
<1>7. ASSUME NEW b \in ToSet(order) \cap loops PROVE Explained(b)
  <2>1. b \in From(b)
    BY <1>3, <1>4
  <2> QED BY <2>1 DEF DeadLoops
<1>8. Explained(order[1])
  BY <1>4, <1>5
<1> HIDE DEF Explained
<1>9. \A b \in ToSet(order) : Explained(b)
  <2> DEFINE J == {i \in 1 .. n : ~ Explained(order[i])}
  <2> SUFFICES ASSUME J # {} PROVE FALSE
    BY <1>3
  <2>1. J \in SUBSET Nat
    OBVIOUS
  <2>2. PICK i \in J : \A j \in J : i <= j
    <3> HIDE DEF J
    <3> QED BY <2>1, LeastElement
  <2> DEFINE b == order[i]
  <2>3. i \in 1 .. n /\ ~ Explained(b) /\ b \in ToSet(order)
    BY <1>3
  <2>4. b # order[1] /\ b \notin loops
    BY <1>7, <1>8, <2>3
  <2>5. PICK a \in ToSet(order) : Precedes(order, a, b) /\ b \in Succ(g, a)
    BY <2>3, <2>4 DEF Kept
  <2>6. PICK k, j \in 1 .. n : k < j /\ order[k] = a /\ order[j] = b
    BY <2>5 DEF Precedes, n
  <2>7. j = i
    BY <2>3, <2>6 DEF Distinct, n
  <2>8. ~ (i <= k)
    BY <2>3, <2>6, <2>7
  <2>9. Explained(a)
    BY <2>2, <2>6, <2>8
  <2> QED BY <1>6, <2>3, <2>5, <2>9
<1> QED BY <1>9 DEF Explained

\* When the pass is done every block is finished and has a reason to stay.
LEMMA OrderedIsSwept ==
  ASSUME Inv, InOrder
  PROVE  SweepLeavesOnlyLoops
<1> SUFFICES ASSUME phase = "done" PROVE SweepLeavesOnlyLoops
  BY DEF SweepLeavesOnlyLoops
<1>1. order \in Seq(Blocks) /\ Distinct(order) /\ order # <<>>
  BY DEF Inv, InOrder
<1>2. \A b \in ToSet(order) : Finished(g, b) /\ Kept(g, order, order, loops, b)
  <2>1. PICK p \in Seq(Blocks) :
           /\ order = p \o <<>>
           /\ \A b \in ToSet(p) : Finished(g, b) /\ Kept(g, order, p, loops, b)
    BY DEF InOrder, Swept
  <2>2. p = order
    BY <2>1, ConcatEmptySeq
  <2> QED BY <2>1, <2>2
<1>3. \A b \in ToSet(order) : b \in From(order[1]) \/ \E c \in DeadLoops : b \in From(c)
  BY <1>1, <1>2, KeptExplained
<1> QED BY <1>2, <1>3 DEF SweepLeavesOnlyLoops, Finished, Constant, IsBranched, IsIncomplete

\* For any bounds: after the pass of translate() every block ends in a terminator, no
\* conditional branch has a constant condition, and a block that cannot be reached from
\* the entry is reached from a loop that cannot.  One pass in the order of the list is
\* enough because edges lead forward except to the starts of loops: a block that loses
\* its last incoming edge is still to be visited.
THEOREM OnlyLoopsAreLeft == Spec => []SweepLeavesOnlyLoops
<1>1. Init => Inv /\ InOrder
  BY InitInv, InitOrder
<1>2. Inv /\ InOrder /\ [Next]_vars => (Inv /\ InOrder)'
  BY NextInv, NextOrder
<1>3. Inv /\ InOrder => SweepLeavesOnlyLoops
  BY OrderedIsSwept
<1> QED BY <1>1, <1>2, <1>3, PTL DEF Spec

(***************************************************************************)
(* The points that can be reached.                                         *)
(***************************************************************************)
\* Live, for any flow.
After(fl, p) == {x[3] : x \in {y \in fl : y[1] = p}}
LiveIn(fl) == Closure({START}, LAMBDA p : After(fl, p), MaxPoints + 2)
AllPoints  == 0 .. MaxPoints + 1

\* The live points are the least set with the start and everything that follows one of
\* its points.
LEMMA LiveIsClosed ==
  ASSUME NEW fl \in SUBSET Flows
  PROVE  /\ START \in LiveIn(fl) /\ LiveIn(fl) \subseteq AllPoints
         /\ \A p \in LiveIn(fl) : After(fl, p) \subseteq LiveIn(fl)
         /\ \A T \in SUBSET AllPoints :
              START \in T /\ (\A p \in T : After(fl, p) \subseteq T) => LiveIn(fl) \subseteq T
<1> DEFINE n == MaxPoints + 2
           base == {START}
           next == [s \in SUBSET AllPoints |-> s \cup UNION {After(fl, p) : p \in s}]
<1>1. n \in Nat /\ IsFiniteSet(AllPoints) /\ n = Cardinality(AllPoints)
  <2>1. MaxPoints \in Nat /\ 0 \in Int /\ MaxPoints + 1 \in Int /\ 0 <= MaxPoints + 1
    BY TranslatorAssumption
  <2>2. IsFiniteSet(AllPoints) /\ Cardinality(AllPoints) = MaxPoints + 1 - 0 + 1
    BY <2>1, FS_Interval DEF AllPoints
  <2> QED BY <2>1, <2>2
<1>2. Adds(next, base, AllPoints)
  <2>1. \A p : After(fl, p) \subseteq AllPoints
    BY DEF After, Flows, AllPoints
  <2>2. START \in AllPoints
    BY <1>1, TranslatorAssumption DEF START, AllPoints
  <2> HIDE DEF AllPoints
  <2> QED BY <1>1, <2>1, <2>2 DEF Adds
<1>3. \A s \in SUBSET AllPoints : next[s] = s \cup UNION {After(fl, p) : p \in s}
  OBVIOUS
<1>4. PICK f : Rounds(f, next, base, n)
  BY <1>1, RoundsExist
<1> HIDE DEF next
<1>5. base \in SUBSET AllPoints /\ base # {} /\ base = {START}
  BY <1>2 DEF Adds
<1>10. LiveIn(fl) = Closure({START}, LAMBDA p : After(fl, p), n)
  BY DEF LiveIn
<1> HIDE DEF n, base
<1> DEFINE S == f[n]
<1>6. /\ base \subseteq S /\ S \in SUBSET AllPoints /\ next[S] = S
      /\ \A T \in SUBSET AllPoints :
           base \subseteq T /\ (\A s \in SUBSET T : next[s] \subseteq T) => S \subseteq T
  <2>1. Settled(f[n], next, base, AllPoints)
    BY <1>1, <1>2, <1>4, RoundsClose
  <2> QED BY <2>1 DEF Settled
<1>7. LiveIn(fl) = S
  <2> DEFINE Rec(c) == c = [i \in 0 .. n |-> IF i = 0 THEN {START}
                                             ELSE c[i - 1] \cup UNION {After(fl, p) : p \in c[i - 1]}]
  <2>1. Rec(f)
    <3>1. f[0] = base /\ \A i \in Nat : i + 1 <= n => f[i + 1] = next[f[i]]
      BY <1>4 DEF Rounds
    <3>2. \A i \in Nat : i <= n => f[i] \in SUBSET AllPoints
      <4> DEFINE T == {i \in Nat : i <= n => f[i] \in SUBSET AllPoints}
      <4>1. 0 \in T
        BY <1>5, <3>1
      <4>2. ASSUME NEW i \in Nat, i \in T PROVE i + 1 \in T
        <5>1. i + 1 <= n => i <= n
          BY <1>1
        <5> QED BY <1>2, <3>1, <4>2, <5>1 DEF Adds
      <4>3. Nat \subseteq T
        <5> HIDE DEF T
        <5> QED BY <4>1, <4>2, AllNumbers
      <4> QED BY <4>3
    <3>3. ASSUME NEW i \in 0 .. n
          PROVE  f[i] = IF i = 0 THEN {START}
                        ELSE f[i - 1] \cup UNION {After(fl, p) : p \in f[i - 1]}
      <4>1. CASE i = 0
        BY <1>5, <3>1, <4>1
      <4>2. CASE i # 0
        <5>1. i - 1 \in Nat /\ (i - 1) + 1 = i /\ i <= n /\ i - 1 <= n
          BY <1>1, <4>2
        <5>2. f[i] = next[f[i - 1]] /\ f[i - 1] \in SUBSET AllPoints
          BY <3>1, <3>2, <5>1
        <5> QED BY <1>3, <4>2, <5>2
      <4> QED BY <4>1, <4>2
    <3>4. f = [i \in 0 .. n |-> f[i]]
      BY <1>4 DEF Rounds
    <3> QED BY <3>3, <3>4, Zenon
  <2>2. \E c : Rec(c) /\ LiveIn(fl) = c[n]
    BY <1>10, <2>1, Zenon DEF Closure
  <2>3. PICK c : Rec(c) /\ LiveIn(fl) = c[n]
    BY <2>2
  <2>4. ASSUME NEW i \in 0 .. n
        PROVE  c[i] = IF i = 0 THEN {START}
                      ELSE c[i - 1] \cup UNION {After(fl, p) : p \in c[i - 1]}
    BY <2>3, Zenon
  <2> HIDE DEF Rec
  <2>5. 0 \in 0 .. n
    BY <1>1
  <2>6. c[0] = base
    BY <1>5, <2>4, <2>5
  <2>7. ASSUME NEW i \in Nat, i + 1 <= n, c[i] \in SUBSET AllPoints PROVE c[i + 1] = next[c[i]]
    <3>1. i + 1 \in 0 .. n /\ i + 1 # 0 /\ (i + 1) - 1 = i
      BY <1>1, <2>7
    <3>2. c[i + 1] = c[i] \cup UNION {After(fl, p) : p \in c[i]}
      BY <2>4, <3>1
    <3> QED BY <1>3, <2>7, <3>2
  <2>8. c[n] = f[n]
    <3>1. n \in Nat /\ base \in SUBSET AllPoints
      BY <1>1, <1>5
    <3>2. \A i \in Nat : i + 1 <= n /\ c[i] \in SUBSET AllPoints => c[i + 1] = next[c[i]]
      BY <2>7
    <3> QED BY <1>2, <1>4, <2>6, <3>1, <3>2, RoundsAgree
  <2> QED BY <2>3, <2>8
<1> HIDE DEF S
<1>8. \A p \in S : After(fl, p) \subseteq S
  BY <1>3, <1>6
<1>9. ASSUME NEW T \in SUBSET AllPoints, START \in T, \A p \in T : After(fl, p) \subseteq T
      PROVE  S \subseteq T
  <2>1. \A s \in SUBSET T : next[s] \subseteq T
    BY <1>3, <1>9
  <2> QED BY <1>5, <1>6, <1>9, <2>1
<1> QED BY <1>5, <1>6, <1>7, <1>8, <1>9

\* Something in from can be reached.
SomeLive(fl, from) == \E x \in from : x[1] \in LiveIn(fl)

\* More flow leaves no fewer points live, and what flows from a live point is live.
LEMMA LiveGrows ==
  ASSUME NEW fl \in SUBSET Flows, NEW fl2 \in SUBSET Flows, fl \subseteq fl2
  PROVE  /\ LiveIn(fl) \subseteq LiveIn(fl2)
         /\ \A from : SomeLive(fl, from) => SomeLive(fl2, from)
         /\ \A from, more : SomeLive(fl, from) \/ SomeLive(fl, more) => SomeLive(fl, from \cup more)
<1>1. \A p : After(fl, p) \subseteq After(fl2, p)
  BY DEF After
<1>2. LiveIn(fl) \subseteq LiveIn(fl2)
  BY <1>1, LiveIsClosed
<1> QED BY <1>2 DEF SomeLive

\* A point that something live flows to is live.
LEMMA LiveNext ==
  ASSUME NEW fl \in SUBSET Flows, NEW from, NEW p, Join(from, p) \subseteq fl, SomeLive(fl, from)
  PROVE  p \in LiveIn(fl)
<1>1. PICK x \in from : x[1] \in LiveIn(fl)
  BY DEF SomeLive
<1>2. <<x[1], x[2], p>> \in fl
  BY DEF Join
<1>3. p \in After(fl, x[1])
  BY <1>2 DEF After
<1> QED BY <1>1, <1>3, LiveIsClosed

(***************************************************************************)
(* What the finished function can reach.                                   *)
(***************************************************************************)
\* Where control can go from b, a constant condition being decided.
Leads(gr, b) == IF gr.branchElse[b] # NULL /\ gr.control[b] = IMMTRUE THEN {gr.branch[b]}
                ELSE IF gr.branchElse[b] # NULL /\ gr.control[b] = IMMFALSE THEN {gr.branchElse[b]}
                ELSE Succ(gr, b)

\* S has the entry and everything control can go to from there.
Closed(S, gr)     == \A a \in S : Leads(gr, a) \subseteq S
Entered(S, gr, ord, cre) == S \subseteq 1 .. cre /\ ord[1] \in S /\ Closed(S, gr)

\* A handler whose exit can be reached knows live flow that joins there, one whose body
\* can be reached live flow that enters it; a loop that control is in has its head in S.
FrameReached(S, fl, f) ==
  /\ f.exit \in S => f.kind \in {"if", "rhs", "while", "for"} /\ SomeLive(fl, f.atExit)
  /\ f.body \in S => f.kind = "else" /\ SomeLive(fl, f.atBody)
Inside(S, cur, fs, i) == cur \in S \/ \E j \in i .. Len(fs) : Waits(fs[j]) \cap S # {}
FramesReached(S, cur, fs, fl) ==
  \A i \in 1 .. Len(fs) :
     /\ FrameReached(S, fl, fs[i])
     /\ fs[i].kind \in LoopKinds /\ Inside(S, cur, fs, i) => fs[i].head \in S

\* Control can be in the current block only if the source can get that far.
Reached(S, gr, ord, cre, cur, fs, fl, lo) ==
  /\ Entered(S, gr, ord, cre)
  /\ cur \in S => SomeLive(fl, lo)
  /\ FramesReached(S, cur, fs, fl)

\* S with the blocks in T, when the current block is in S.
With(S, cur, T) == S \cup {t \in T : cur \in S}

\* The graph has new edges at one block.
Rewired(gr, h, c, v, to, else) == /\ OnlyAt(gr, h, c)
                                  /\ h.branch[c] = to /\ h.branchElse[c] = else /\ h.control[c] = v

\* An open block leads nowhere.
LEMMA OpenLeads ==
  ASSUME NEW gr, WellShaped(gr), NEW b \in Blocks, gr.branch[b] = NULL
  PROVE  Leads(gr, b) = {}
<1>1. gr.branchElse[b] = NULL
  BY CfgAssumption DEF WellShaped
<1> QED BY <1>1, CfgAssumption DEF Leads, Succ

\* Where a jump and a branch lead.
LEMMA RewiredLeads ==
  ASSUME NEW gr, NEW h, NEW c \in Blocks, NEW v, NEW to, NEW else, Rewired(gr, h, c, v, to, else)
  PROVE  /\ else = NULL => Leads(h, c) = {to} \cap Blocks
         /\ else \in Blocks /\ v = IMMTRUE => Leads(h, c) = {to}
         /\ else \in Blocks /\ v = IMMFALSE => Leads(h, c) = {else}
         /\ else \in Blocks /\ to \in Blocks /\ v \notin {IMMTRUE, IMMFALSE} => Leads(h, c) = {to, else}
         /\ \A b \in Blocks \ {c} : Leads(h, b) = Leads(gr, b)
BY CfgAssumption, TranslatorAssumption DEF Rewired, Leads, Succ, OnlyAt

\* New edges at the current block are followed from there.
LEMMA Spread ==
  ASSUME NEW gr, WellShaped(gr), NEW h, NEW cur \in Blocks, NEW S \in SUBSET Blocks, Closed(S, gr),
         \A b \in Blocks \ {cur} : Leads(h, b) = Leads(gr, b),
         NEW T \in SUBSET Blocks, cur \in S => Leads(h, cur) \subseteq S \cup T,
         cur \in S => \A t \in T : t \in S \/ gr.branch[t] = NULL
  PROVE  Closed(With(S, cur, T), h)
<1>1. CASE cur \in S
  <2>1. With(S, cur, T) = S \cup T
    BY <1>1 DEF With
  <2>2. ASSUME NEW a \in S \cup T PROVE Leads(h, a) \subseteq S \cup T
    <3>1. CASE a = cur
      BY <1>1, <3>1
    <3>2. CASE a # cur /\ a \in S
      BY <3>2 DEF Closed
    <3>3. CASE a # cur /\ a \notin S
      <4>1. Leads(gr, a) = {}
        BY <1>1, <3>3, OpenLeads
      <4> QED BY <3>3, <4>1
    <3> QED BY <3>1, <3>2, <3>3
  <2> QED BY <2>1, <2>2 DEF Closed
<1>2. CASE cur \notin S
  <2>1. With(S, cur, T) = S
    BY <1>2 DEF With
  <2>2. \A a \in S : Leads(h, a) = Leads(gr, a)
    BY <1>2
  <2> QED BY <2>1, <2>2 DEF Closed
<1> QED BY <1>1, <1>2

\* The blocks of the handlers that come after the first n.
TopWaits(fs, n) == UNION {Waits(fs[j]) : j \in n + 1 .. Len(fs)}

\* The first n handlers stay, nothing is reached that they wait for, and control is
\* nowhere it was not before, unless it was in the current block.
Carried(n, fs, fs2, fl, fl2, S, S2, cur, cur2) ==
  /\ Len(fs) \in Nat /\ Len(fs2) \in Nat /\ n \in Nat /\ n <= Len(fs) /\ n <= Len(fs2)
  /\ \A i \in 1 .. n : fs2[i] = fs[i] /\ Waits(fs[i]) \cap S2 \subseteq S
  /\ fl \in SUBSET Flows /\ fl2 \in SUBSET Flows /\ fl \subseteq fl2
  /\ S2 \in SUBSET Blocks /\ S \subseteq S2
  /\ cur \notin S => S2 = S /\ ({cur2} \cup TopWaits(fs2, n)) \cap S \subseteq TopWaits(fs, n)

\* Then what is known of the handlers is known of them afterwards, if it is of new ones.
LEMMA FramesStep ==
  ASSUME NEW n, NEW fs, NEW fs2, NEW fl, NEW fl2, NEW S, NEW S2, NEW cur, NEW cur2,
         Carried(n, fs, fs2, fl, fl2, S, S2, cur, cur2), FramesReached(S, cur, fs, fl),
         \A i \in n + 1 .. Len(fs2) :
            /\ FrameReached(S2, fl2, fs2[i])
            /\ fs2[i].kind \in LoopKinds /\ Inside(S2, cur2, fs2, i) => fs2[i].head \in S2
  PROVE  FramesReached(S2, cur2, fs2, fl2)
<1>0. /\ Len(fs) \in Nat /\ Len(fs2) \in Nat /\ n \in Nat /\ n <= Len(fs) /\ n <= Len(fs2)
      /\ \A i \in 1 .. n : fs2[i] = fs[i] /\ Waits(fs[i]) \cap S2 \subseteq S
      /\ fl \in SUBSET Flows /\ fl2 \in SUBSET Flows /\ fl \subseteq fl2
      /\ S2 \in SUBSET Blocks /\ S \subseteq S2
      /\ cur \notin S => S2 = S /\ ({cur2} \cup TopWaits(fs2, n)) \cap S \subseteq TopWaits(fs, n)
  BY DEF Carried
<1>1. ASSUME NEW i \in 1 .. n PROVE FrameReached(S2, fl2, fs2[i])
  <2>1. i \in 1 .. Len(fs) /\ fs2[i] = fs[i] /\ FrameReached(S, fl, fs[i])
    BY <1>0 DEF FramesReached
  <2>2. \A from : SomeLive(fl, from) => SomeLive(fl2, from)
    BY <1>0, LiveGrows
  <2>3. {fs[i].exit, fs[i].body} \cap S2 \subseteq S
    BY <1>0 DEF Waits
  <2> QED BY <2>1, <2>2, <2>3 DEF FrameReached
<1>2. ASSUME NEW i \in 1 .. n, fs2[i].kind \in LoopKinds, Inside(S2, cur2, fs2, i)
      PROVE  fs2[i].head \in S2
  <2>1. i \in 1 .. Len(fs) /\ fs2[i] = fs[i]
    BY <1>0
  <2>2. Inside(S, cur, fs, i)
    <3> SUFFICES ASSUME cur \notin S PROVE \E j \in i .. Len(fs) : Waits(fs[j]) \cap S # {}
      BY DEF Inside
    <3>1. S2 = S /\ ({cur2} \cup TopWaits(fs2, n)) \cap S \subseteq TopWaits(fs, n)
      BY <1>0
    <3>2. ASSUME NEW w \in TopWaits(fs, n) \cap S PROVE \E j \in i .. Len(fs) : Waits(fs[j]) \cap S # {}
      <4>1. PICK j \in n + 1 .. Len(fs) : w \in Waits(fs[j])
        BY <3>2 DEF TopWaits
      <4>2. j \in i .. Len(fs)
        BY <1>0
      <4> QED BY <3>2, <4>1, <4>2
    <3>3. CASE cur2 \in S
      BY <3>1, <3>2, <3>3
    <3>4. CASE \E j \in i .. Len(fs2) : Waits(fs2[j]) \cap S # {}
      <4>1. PICK j \in i .. Len(fs2), w \in S : w \in Waits(fs2[j])
        BY <3>4
      <4>2. CASE j <= n
        <5>1. j \in 1 .. n /\ j \in i .. Len(fs)
          BY <1>0, <4>2
        <5>2. fs2[j] = fs[j]
          BY <1>0, <5>1
        <5> QED BY <4>1, <5>1, <5>2
      <4>3. CASE ~ (j <= n)
        <5>1. j \in n + 1 .. Len(fs2)
          BY <1>0, <4>3
        <5>2. w \in TopWaits(fs2, n)
          BY <4>1, <5>1 DEF TopWaits
        <5>3. w \in TopWaits(fs, n) \cap S
          BY <3>1, <4>1, <5>2
        <5> QED BY <3>2, <5>3
      <4> QED BY <4>2, <4>3
    <3> QED BY <1>2, <3>1, <3>3, <3>4 DEF Inside
  <2> QED BY <1>0, <1>2, <2>1, <2>2 DEF FramesReached
<1>3. ASSUME NEW i \in 1 .. Len(fs2), i \notin 1 .. n PROVE i \in n + 1 .. Len(fs2)
  BY <1>0, <1>3
<1> QED BY <1>1, <1>2, <1>3 DEF FramesReached

\* The state is as it should be, with S.
ReachedNow(S)  == Reached(S, g, order, created, current, frames, flow, loose)
ReachedNext(S) == Reached(S, g', order', created', current', frames', flow', loose')

\* What is known of S.
LEMMA ReachedTypes ==
  ASSUME Building(g, order, created, current, frames), NEW S, ReachedNow(S)
  PROVE  /\ S \in SUBSET Blocks /\ S \subseteq 1 .. created /\ Closed(S, g)
         /\ created \in Nat /\ 1 .. created \subseteq Blocks
         /\ FramesReached(S, current, frames, flow) /\ order[1] \in S
         /\ current \in S => SomeLive(flow, loose)
         /\ frames \in Seq(Frames) /\ Len(frames) \in Nat
         /\ \A i \in 1 .. Len(frames) : frames[i] \in Frames /\ Waits(frames[i]) \subseteq 1 .. created
<1>1. created \in Blocks /\ created \in Nat /\ 1 .. created \subseteq Blocks
  BY TranslatorAssumption DEF Building, Listed
<1>2. S \subseteq 1 .. created /\ Closed(S, g) /\ order[1] \in S
      /\ FramesReached(S, current, frames, flow) /\ (current \in S => SomeLive(flow, loose))
  BY DEF ReachedNow, Reached, Entered
<1>3. frames \in Seq(Frames) /\ Len(frames) \in Nat
  BY LenProperties DEF Building, Waiting
<1>4. \A i \in 1 .. Len(frames) : frames[i] \in Frames
  BY <1>3, ElementOfSeq
<1> QED BY <1>1, <1>2, <1>3, <1>4, WaitsAreListed

\* New blocks and a new handler.
LEMMA EnterReached ==
  ASSUME Building(g, order, created, current, frames), NEW S, ReachedNow(S),
         NEW k \in Nat, created + k \in Blocks, NEW h, NEW ord, ord[1] = order[1],
         flow \in SUBSET Flows, NEW fl2 \in SUBSET Flows, flow \subseteq fl2, NEW lo,
         NEW T \in SUBSET (created + 1 .. created + k), Closed(With(S, current, T), h),
         NEW new \in created + 1 .. created + k,
         NEW f \in Frames, Waits(f) \subseteq created + 1 .. created + k,
         current \in S => /\ new \in T => SomeLive(fl2, lo)
                          /\ FrameReached(T, fl2, f)
                          /\ f.kind \in LoopKinds => f.head \in T
  PROVE  Reached(With(S, current, T), h, ord, created + k, new, Append(frames, f), fl2, lo)
<1> DEFINE S2 == With(S, current, T)
           gs == Append(frames, f)
           n == Len(frames)
<1>1. /\ S \in SUBSET Blocks /\ S \subseteq 1 .. created /\ created \in Nat
      /\ FramesReached(S, current, frames, flow) /\ order[1] \in S
      /\ n \in Nat
      /\ \A i \in 1 .. n : frames[i] \in Frames /\ Waits(frames[i]) \subseteq 1 .. created
  BY ReachedTypes
<1>2. created + 1 .. created + k \subseteq Blocks /\ created + k \in Nat
      /\ 1 .. created \cap (created + 1 .. created + k) = {}
  BY <1>1, TranslatorAssumption
<1>3. S2 \in SUBSET Blocks /\ S \subseteq S2 /\ S2 \subseteq 1 .. created + k
      /\ S2 \subseteq S \cup T /\ (current \notin S => S2 = S)
  <2>1. 1 .. created \subseteq 1 .. created + k /\ created + 1 .. created + k \subseteq 1 .. created + k
    BY <1>1
  <2>2. S \subseteq S2 /\ S2 \subseteq S \cup T /\ (current \notin S => S2 = S)
    BY DEF With
  <2> QED BY <1>1, <1>2, <2>1, <2>2
<1>4. Len(gs) = n + 1 /\ gs[n + 1] = f /\ \A i \in 1 .. n : gs[i] = frames[i]
  BY <1>1, ReachedTypes
<1>5. Entered(S2, h, ord, created + k)
  BY <1>1, <1>3 DEF Entered
<1> HIDE DEF S2
<1>6. new \in S2 => SomeLive(fl2, lo)
  BY <1>1, <1>2, <1>3
<1>7. FrameReached(S2, fl2, f)
  <2>1. {f.exit, f.body} \cap S2 \subseteq Waits(f)
    BY <1>3 DEF Waits
  <2>2. {f.exit, f.body} \cap S2 \subseteq T
    BY <1>1, <1>2, <1>3, <2>1
  <2>3. CASE current \in S
    BY <2>2, <2>3 DEF FrameReached
  <2>4. CASE current \notin S
    <3>1. {f.exit, f.body} \cap S2 = {}
      BY <1>1, <1>2, <1>3, <2>1, <2>4
    <3> QED BY <3>1 DEF FrameReached
  <2> QED BY <2>3, <2>4
<1> HIDE DEF gs, n
<1>8. FramesReached(S2, new, gs, fl2)
  <2>1. n <= n + 1 /\ Len(gs) \in Nat /\ n = Len(frames)
    BY <1>1, <1>4 DEF n
  <2>2. TopWaits(gs, n) = Waits(f)
    <3>1. n + 1 .. Len(gs) = {n + 1}
      BY <1>1, <1>4
    <3> QED BY <1>4, <3>1 DEF TopWaits
  <2>3. ({new} \cup TopWaits(gs, n)) \cap S = {}
    BY <1>1, <1>2, <2>2
  <2>4. \A i \in 1 .. n : Waits(frames[i]) \cap S2 \subseteq S
    BY <1>1, <1>2, <1>3
  <2>5. ASSUME NEW i \in n + 1 .. Len(gs)
        PROVE  /\ FrameReached(S2, fl2, gs[i])
               /\ gs[i].kind \in LoopKinds /\ Inside(S2, new, gs, i) => gs[i].head \in S2
    <3>1. i = n + 1 /\ gs[i] = f
      BY <1>1, <1>4
    <3>2. CASE current \in S
      <4>1. T \subseteq S2
        BY <3>2 DEF S2, With
      <4> QED BY <1>7, <3>1, <3>2, <4>1
    <3>3. CASE current \notin S
      <4>1. ~ Inside(S2, new, gs, i)
        <5>1. Waits(f) \cap S2 = {} /\ new \notin S2
          BY <1>1, <1>2, <1>3, <3>3
        <5>2. \A j \in i .. Len(gs) : gs[j] = f
          BY <1>1, <1>4, <3>1
        <5> QED BY <5>1, <5>2 DEF Inside
      <4> QED BY <1>7, <3>1, <4>1
    <3> QED BY <3>2, <3>3
  <2>6. \A i \in 1 .. n : gs[i] = frames[i]
    BY <1>4
  <2>7. n <= Len(frames) /\ n <= Len(gs) /\ Len(frames) \in Nat /\ n \in Nat
    BY <1>1, <1>4, <2>1
  <2>8. current \notin S => S2 = S /\ ({new} \cup TopWaits(gs, n)) \cap S \subseteq TopWaits(frames, n)
    BY <1>3, <2>3
  <2>9. Carried(n, frames, gs, flow, fl2, S, S2, current, new)
    BY <1>3, <2>1, <2>4, <2>6, <2>7, <2>8 DEF Carried
  <2> QED BY <1>1, <2>5, <2>9, FramesStep
<1> QED BY <1>5, <1>6, <1>8 DEF Reached, S2, gs

\* Without the innermost handler.
LEMMA FrontFrames ==
  ASSUME NEW fs \in Seq(Frames), fs # <<>>
  PROVE  /\ Len(fs) \in Nat \ {0} /\ Front(fs) \in Seq(Frames) /\ Len(Front(fs)) = Len(fs) - 1
         /\ \A i \in 1 .. Len(fs) - 1 : Front(fs)[i] = fs[i]
<1> DEFINE n == Len(fs)
           gs == Front(fs)
<1>1. n \in Nat \ {0} /\ \A i \in 1 .. n - 1 : fs[i] \in Frames
  BY EmptySeq, ElementOfSeq
<1>2. /\ gs \in Seq(Frames) /\ Len(gs) = IF 1 <= n - 1 THEN (n - 1) - 1 + 1 ELSE 0
      /\ \A i \in 1 .. (n - 1) - 1 + 1 : gs[i] = fs[1 + i - 1]
  <2>1. 1 \in Int /\ n - 1 \in Int
    BY <1>1
  <2> QED BY <1>1, <2>1, SubSeqProperties DEF Front
<1> HIDE DEF n, gs
<1>3. Len(gs) = n - 1 /\ \A i \in 1 .. n - 1 : gs[i] = fs[i]
  BY <1>1, <1>2
<1> QED BY <1>1, <1>2, <1>3 DEF n, gs

\* The innermost handler comes back to one of its blocks, and perhaps goes on.
LEMMA ReturnReached ==
  ASSUME Building(g, order, created, current, frames), NEW S, ReachedNow(S), frames # <<>>, NEW h,
         flow \in SUBSET Flows, NEW fl2 \in SUBSET Flows, flow \subseteq fl2, NEW lo,
         NEW T \in SUBSET Blocks, current \in S => T \subseteq Waits(Top) \cup S,
         Closed(With(S, current, T), h), NEW next \in Waits(Top),
         next \in With(S, current, T) => SomeLive(fl2, lo)
  PROVE  /\ Reached(With(S, current, T), h, order, created, next, Front(frames), fl2, lo)
         /\ \A f \in Frames :
              /\ Waits(f) \subseteq Waits(Top) /\ FrameReached(With(S, current, T), fl2, f)
              /\ f.kind \in LoopKinds => Top.kind \in LoopKinds /\ f.head = Top.head
              => Reached(With(S, current, T), h, order, created, next, Append(Front(frames), f), fl2, lo)
<1> DEFINE S2 == With(S, current, T)
           es == Front(frames)
           n == Len(frames) - 1
           m == Len(frames)
<1>1. /\ S \in SUBSET Blocks /\ S \subseteq 1 .. created /\ created \in Nat
      /\ FramesReached(S, current, frames, flow) /\ order[1] \in S
      /\ frames \in Seq(Frames)
      /\ \A i \in 1 .. m : frames[i] \in Frames /\ Waits(frames[i]) \subseteq 1 .. created
  BY ReachedTypes
<1>2. /\ m \in Nat \ {0} /\ n \in Nat /\ m = n + 1 /\ Len(es) = n /\ es \in Seq(Frames)
      /\ \A i \in 1 .. n : es[i] = frames[i] /\ i \in 1 .. m
  BY <1>1, FrontFrames
<1>3. Top = frames[m] /\ m \in 1 .. m /\ TopWaits(frames, n) = Waits(Top)
  <2>1. n + 1 .. m = {m} /\ m \in 1 .. m
    BY <1>2
  <2> QED BY <2>1 DEF Top, TopWaits
<1>4. \A i \in 1 .. n : Waits(frames[i]) \cap Waits(Top) = {}
  <2>1. Waiting(g, order, current, frames)
    BY DEF Building
  <2>2. \A i \in 1 .. Len(es) : Waits(es[i]) \cap Waits(frames[m]) = {}
    BY <2>1, PopWaiting
  <2> HIDE DEF es, n, m
  <2> QED BY <1>2, <1>3, <2>2
<1>5. S2 \in SUBSET Blocks /\ S \subseteq S2 /\ S2 \subseteq S \cup Waits(Top)
      /\ (current \notin S => S2 = S)
  BY <1>1 DEF With
<1>6. S2 \subseteq 1 .. created
  BY <1>1, <1>3, <1>5
<1>7. Entered(S2, h, order, created)
  BY <1>1, <1>5, <1>6 DEF Entered
<1>8. next \in S2 => SomeLive(fl2, lo)
  OBVIOUS
<1>9. Top.kind \in LoopKinds /\ (current \in S \/ Waits(Top) \cap S # {}) => Top.head \in S2
  <2>1. m \in m .. Len(frames)
    BY <1>2
  <2>2. current \in S \/ Waits(Top) \cap S # {} => Inside(S, current, frames, m)
    BY <1>3, <2>1 DEF Inside
  <2> HIDE DEF m
  <2>3. Top.kind \in LoopKinds /\ Inside(S, current, frames, m) => Top.head \in S
    BY <1>1, <1>3 DEF FramesReached, m
  <2> QED BY <1>5, <2>2, <2>3
<1> HIDE DEF S2, es, n
<1>10. ASSUME NEW gs, Len(gs) \in Nat, n <= Len(gs), \A i \in 1 .. n : gs[i] = frames[i],
             TopWaits(gs, n) \subseteq Waits(Top),
             \A i \in n + 1 .. Len(gs) :
               /\ FrameReached(S2, fl2, gs[i])
               /\ gs[i].kind \in LoopKinds /\ Inside(S2, next, gs, i) => gs[i].head \in S2
      PROVE  FramesReached(S2, next, gs, fl2)
  <2>1. \A i \in 1 .. n : Waits(frames[i]) \cap S2 \subseteq S
    BY <1>4, <1>5
  <2>2. current \notin S => S2 = S /\ ({next} \cup TopWaits(gs, n)) \cap S \subseteq TopWaits(frames, n)
    BY <1>3, <1>5, <1>10
  <2>3. n <= Len(frames) /\ Len(frames) \in Nat
    BY <1>2
  <2> HIDE DEF m
  <2>4. Carried(n, frames, gs, flow, fl2, S, S2, current, next)
    BY <1>2, <1>5, <1>10, <2>1, <2>2, <2>3 DEF Carried
  <2> QED BY <1>1, <1>10, <2>4, FramesStep
<1>11. FramesReached(S2, next, es, fl2)
  <2>1. n + 1 .. Len(es) = {}
    BY <1>2
  <2>2. TopWaits(es, n) = {}
    BY <2>1 DEF TopWaits
  <2> QED BY <1>2, <1>10, <2>1, <2>2
<1>12. ASSUME NEW f \in Frames, Waits(f) \subseteq Waits(Top), FrameReached(S2, fl2, f),
              f.kind \in LoopKinds => Top.kind \in LoopKinds /\ f.head = Top.head
       PROVE  FramesReached(S2, next, Append(es, f), fl2)
  <2> DEFINE gs == Append(es, f)
  <2>1. Len(gs) = n + 1 /\ gs[n + 1] = f /\ \A i \in 1 .. n : gs[i] = frames[i]
    BY <1>2
  <2> HIDE DEF gs
  <2>2. n + 1 .. Len(gs) = {n + 1}
    BY <1>2, <2>1
  <2>3. TopWaits(gs, n) = Waits(f)
    BY <2>1, <2>2 DEF TopWaits
  <2>4. ASSUME NEW i \in n + 1 .. Len(gs)
        PROVE  /\ FrameReached(S2, fl2, gs[i])
               /\ gs[i].kind \in LoopKinds /\ Inside(S2, next, gs, i) => gs[i].head \in S2
    <3>1. i = n + 1 /\ gs[i] = f
      BY <2>1, <2>2
    <3>2. Inside(S2, next, gs, i) => current \in S \/ Waits(Top) \cap S # {}
      <4> SUFFICES ASSUME current \notin S, Inside(S2, next, gs, i) PROVE Waits(Top) \cap S # {}
        OBVIOUS
      <4>1. \A j \in i .. Len(gs) : gs[j] = f
        BY <2>1, <2>2, <3>1
      <4>2. next \in S \/ Waits(f) \cap S # {}
        BY <1>5, <4>1 DEF Inside
      <4> QED BY <1>12, <4>2
    <3> QED BY <1>9, <1>12, <3>1, <3>2
  <2>5. FramesReached(S2, next, gs, fl2)
    <3>1. Len(gs) \in Nat /\ n <= Len(gs)
      BY <1>2, <2>1
    <3>2. TopWaits(gs, n) \subseteq Waits(Top)
      BY <1>12, <2>3
    <3> QED BY <1>10, <2>1, <2>4, <3>1, <3>2
  <2> QED BY <2>5 DEF gs
<1> QED BY <1>7, <1>8, <1>11, <1>12 DEF Reached, S2, es

(***************************************************************************)
(* Which blocks are open, and which is the last.                           *)
(***************************************************************************)
\* Only the current block and those of the handlers are open, the last block of the list
\* is the one the outermost handler ends in, and a handler that is in its last part has
\* no block left to translate.
Pending(fs) == UNION {Waits(fs[i]) : i \in 1 .. Len(fs)}
LastPart    == {"if", "rhs", "doCond", "while", "for"}
Tidy(gr, ord, cur, fs) ==
  /\ \A b \in ToSet(ord) : gr.branch[b] = NULL => b = cur \/ b \in Pending(fs)
  /\ LastOf(ord) = IF Len(fs) = 0 THEN cur ELSE fs[1].exit
  /\ \A i \in 1 .. Len(fs) : fs[i].kind \in LastPart => fs[i].body = NULL

\* The current block c is ended, and no other opened.
Ends(gr, h, ord, c) == \A b \in ToSet(ord) : h.branch[b] = NULL => gr.branch[b] = NULL /\ b # c

\* New edges end a block.
LEMMA RewiredEnds ==
  ASSUME NEW gr, NEW h, NEW c \in Blocks, NEW v, NEW to, NEW else, Rewired(gr, h, c, v, to, else),
         to # NULL, NEW ord \in Seq(Blocks)
  PROVE  Ends(gr, h, ord, c)
<1>1. ToSet(ord) \subseteq Blocks
  BY ElementsOf
<1> QED BY <1>1 DEF Rewired, OnlyAt, Ends

\* New blocks leave the first of the list where it is, and the last unless it was current.
LEMMA PutAfterEnds ==
  ASSUME order \in Seq(Blocks), current \in ToSet(order), Distinct(order),
         NEW news \in Seq(Blocks), news # <<>>, PutAfter(current, news)
  PROVE  /\ order'[1] = order[1]
         /\ LastOf(order') = IF current = LastOf(order) THEN LastOf(news) ELSE LastOf(order)
<1> DEFINE i == Place(current)
           p == SubSeq(order, 1, i)
           q == SubSeq(order, i + 1, Len(order))
           m == Len(order)
<1>1. m \in Nat /\ DOMAIN order = 1 .. m
  BY LenProperties
<1>2. i \in 1 .. m /\ order[i] = current
  <2>1. \E j \in DOMAIN order : order[j] = current
    BY <1>1, ElementsOf
  <2> QED BY <1>1, <2>1 DEF Place
<1>3. order' = (p \o news) \o q
  BY DEF PutAfter
<1> HIDE DEF i
<1>4. /\ p \in Seq(Blocks) /\ Len(p) = i /\ p[1] = order[1]
      /\ q \in Seq(Blocks) /\ Len(q) = m - i /\ \A j \in 1 .. m - i : q[j] = order[i + j]
  <2>1. 1 \in Int /\ i \in Int /\ i + 1 \in Int /\ m \in Int
        /\ (\A j \in 1 .. i : order[j] \in Blocks) /\ \A j \in i + 1 .. m : order[j] \in Blocks
    BY <1>1, <1>2, ElementOfSeq
  <2>2. /\ p \in Seq(Blocks) /\ Len(p) = IF 1 <= i THEN i - 1 + 1 ELSE 0
        /\ \A j \in 1 .. i - 1 + 1 : p[j] = order[1 + j - 1]
    BY <1>1, <2>1, SubSeqProperties
  <2> HIDE DEF p
  <2>3. Len(p) = i /\ p[1] = order[1]
    BY <1>2, <2>2
  <2>4. /\ q \in Seq(Blocks) /\ Len(q) = IF i + 1 <= m THEN m - (i + 1) + 1 ELSE 0
        /\ \A j \in 1 .. m - (i + 1) + 1 : q[j] = order[i + 1 + j - 1]
    BY <1>1, <2>1, SubSeqProperties
  <2> HIDE DEF q, m
  <2>5. Len(q) = m - i /\ \A j \in 1 .. m - i : q[j] = order[i + j]
    BY <1>1, <1>2, <2>4
  <2> QED BY <2>2, <2>3, <2>4, <2>5
<1> HIDE DEF p, q
<1> DEFINE t == (p \o news) \o q
<1>5. /\ Len(t) = i + Len(news) + Len(q) /\ Len(news) \in Nat
      /\ \A j \in 1 .. i : t[j] = p[j]
      /\ \A j \in 1 .. Len(news) : t[i + j] = news[j]
      /\ \A j \in 1 .. Len(q) : t[i + Len(news) + j] = q[j]
  <2>1. /\ Len(t) = Len(p) + Len(news) + Len(q) /\ Len(news) \in Nat
        /\ \A j \in 1 .. Len(p) : t[j] = p[j]
        /\ \A j \in 1 .. Len(news) : t[Len(p) + j] = news[j]
        /\ \A j \in 1 .. Len(q) : t[Len(p) + Len(news) + j] = q[j]
    <3>1. p \in Seq(Blocks) /\ q \in Seq(Blocks)
      BY <1>4
    <3> QED BY <3>1, ThreeParts
  <2> HIDE DEF t
  <2> QED BY <1>4, <2>1
<1> HIDE DEF t
<1>6. Len(news) # 0
  BY EmptySeq
<1>7. order'[1] = order[1]
  BY <1>2, <1>3, <1>4, <1>5 DEF t
<1>8. CASE i = m
  <2>1. Len(t) = i + Len(news) /\ Len(news) \in 1 .. Len(news)
    BY <1>1, <1>4, <1>5, <1>6, <1>8
  <2>2. LastOf(t) = LastOf(news) /\ current = LastOf(order)
    BY <1>2, <1>5, <1>8, <2>1 DEF LastOf, m
  <2> QED BY <1>3, <1>7, <2>2 DEF t
<1>9. CASE i # m
  <2>1. Len(t) = i + Len(news) + Len(q) /\ Len(q) \in 1 .. Len(q) /\ Len(q) = m - i
        /\ i + (m - i) = m /\ m \in 1 .. m
    <3> HIDE DEF m
    <3> QED BY <1>1, <1>2, <1>4, <1>5, <1>9
  <2>2. LastOf(t) = q[Len(q)] /\ q[Len(q)] = order[m]
    BY <1>4, <1>5, <2>1 DEF LastOf
  <2>3. current # order[m]
    BY <1>2, <1>9, <2>1 DEF Distinct, m
  <2> QED BY <1>3, <1>7, <2>2, <2>3 DEF t, LastOf, m
<1> QED BY <1>8, <1>9

\* New blocks, and a new handler that ends in the last of them.
LEMMA EnterTidy ==
  ASSUME Building(g, order, created, current, frames), Distinct(order),
         Tidy(g, order, current, frames), NEW h, Ends(g, h, order, current),
         NEW news \in Seq(Blocks), news # <<>>, PutAfter(current, news), NEW new, NEW f \in Frames,
         \A b \in ToSet(news) : h.branch[b] = NULL => b = new \/ b \in Waits(f),
         f.exit = LastOf(news), f.kind \in LastPart => f.body = NULL
  PROVE  /\ order'[1] = order[1]
         /\ Tidy(h, order', new, Append(frames, f))
<1> DEFINE gs == Append(frames, f)
           n == Len(frames)
<1>1. /\ order \in Seq(Blocks) /\ current \in ToSet(order) /\ frames \in Seq(Frames)
      /\ n \in Nat
  BY LenProperties DEF Building, Listed, Open, Waiting
<1>2. Len(gs) = n + 1 /\ gs[n + 1] = f /\ \A i \in 1 .. n : gs[i] = frames[i]
  BY <1>1
<1> HIDE DEF gs
<1>3. /\ order'[1] = order[1]
      /\ LastOf(order') = IF current = LastOf(order) THEN LastOf(news) ELSE LastOf(order)
      /\ ToSet(order') = ToSet(order) \cup ToSet(news)
  BY <1>1, PutAfterEnds, PutAfterIs
<1>4. Pending(gs) = Pending(frames) \cup Waits(f)
  <2>1. 1 .. Len(gs) = 1 .. n \cup {n + 1}
    BY <1>1, <1>2
  <2> QED BY <1>2, <2>1 DEF Pending
<1>5. \A b \in ToSet(order') : h.branch[b] = NULL => b = new \/ b \in Pending(gs)
  BY <1>3, <1>4 DEF Tidy, Ends
<1>6. LastOf(order') = IF Len(gs) = 0 THEN new ELSE gs[1].exit
  <2>1. CASE n = 0
    BY <1>2, <1>3, <2>1 DEF Tidy
  <2>2. CASE n # 0
    <3>1. 1 \in 1 .. n /\ gs[1] = frames[1] /\ Len(gs) # 0
      BY <1>1, <1>2, <2>2
    <3>2. frames[1].exit \in Waits(frames[1])
      <4>1. frames[1] \in Frames
        BY <1>1, <3>1, ElementOfSeq
      <4> QED BY <4>1 DEF Frames, Waits
    <3>3. current # frames[1].exit
      BY <3>1, <3>2, WaitsAreListed
    <3> QED BY <1>3, <2>2, <3>1, <3>3 DEF Tidy
  <2> QED BY <2>1, <2>2
<1>7. \A i \in 1 .. Len(gs) : gs[i].kind \in LastPart => gs[i].body = NULL
  <2>1. \A i \in 1 .. Len(gs) : i \in 1 .. n \/ i = n + 1
    BY <1>1, <1>2
  <2> QED BY <1>2, <2>1 DEF Tidy
<1> QED BY <1>3, <1>5, <1>6, <1>7 DEF Tidy, gs

\* A new block and no new handler.
LEMMA LeaveTidy ==
  ASSUME Building(g, order, created, current, frames), Distinct(order),
         Tidy(g, order, current, frames), NEW h, Ends(g, h, order, current),
         NEW new \in Blocks, PutAfter(current, <<new>>)
  PROVE  /\ order'[1] = order[1]
         /\ Tidy(h, order', new, frames)
<1> DEFINE news == <<new>>
           n == Len(frames)
<1>1. /\ order \in Seq(Blocks) /\ current \in ToSet(order) /\ frames \in Seq(Frames)
      /\ n \in Nat
  BY LenProperties DEF Building, Listed, Open, Waiting
<1>2. news \in Seq(Blocks) /\ news # <<>> /\ LastOf(news) = new /\ ToSet(news) = {new}
  BY Elements1 DEF LastOf
<1>0. PutAfter(current, news)
  OBVIOUS
<1> HIDE DEF news
<1>3. /\ order'[1] = order[1]
      /\ LastOf(order') = IF current = LastOf(order) THEN LastOf(news) ELSE LastOf(order)
      /\ ToSet(order') = ToSet(order) \cup ToSet(news)
  BY <1>0, <1>1, <1>2, PutAfterEnds, PutAfterIs
<1>4. \A b \in ToSet(order') : h.branch[b] = NULL => b = new \/ b \in Pending(frames)
  BY <1>2, <1>3 DEF Tidy, Ends
<1>5. LastOf(order') = IF n = 0 THEN new ELSE frames[1].exit
  <2>1. CASE n = 0
    BY <1>2, <1>3, <2>1 DEF Tidy
  <2>2. CASE n # 0
    <3>1. 1 \in 1 .. n
      BY <1>1, <2>2
    <3>2. frames[1].exit \in Waits(frames[1])
      <4>1. frames[1] \in Frames
        BY <1>1, <3>1, ElementOfSeq
      <4> QED BY <4>1 DEF Frames, Waits
    <3>3. current # frames[1].exit
      BY <3>1, <3>2, WaitsAreListed
    <3> QED BY <1>3, <2>2, <3>3 DEF Tidy
  <2> QED BY <2>1, <2>2
<1> QED BY <1>3, <1>4, <1>5 DEF Tidy

\* The innermost handler comes back to its exit, or goes on with another block.
LEMMA ReturnTidy ==
  ASSUME Building(g, order, created, current, frames), frames # <<>>,
         Tidy(g, order, current, frames), NEW h, Ends(g, h, order, current), NEW next
  PROVE  /\ Waits(Top) = {next} /\ Top.exit = next => Tidy(h, order, next, Front(frames))
         /\ \A f \in Frames : /\ Waits(Top) \subseteq {next} \cup Waits(f) /\ f.exit = Top.exit
                              /\ f.kind \in LastPart => f.body = NULL
                => Tidy(h, order, next, Append(Front(frames), f))
<1> DEFINE es == Front(frames)
           m == Len(frames)
           n == Len(frames) - 1
<1>1. frames \in Seq(Frames)
  BY DEF Building, Waiting
<1>2. /\ m \in Nat \ {0} /\ n \in Nat /\ m = n + 1 /\ Len(es) = n /\ es \in Seq(Frames)
      /\ \A i \in 1 .. n : es[i] = frames[i] /\ i \in 1 .. m
  BY <1>1, FrontFrames
<1>3. Top = frames[m]
  BY DEF Top
<1> HIDE DEF es, n
<1>4. Pending(frames) = Pending(es) \cup Waits(Top)
  <2>1. 1 .. Len(frames) = 1 .. n \cup {m}
    BY <1>2
  <2> QED BY <1>2, <1>3, <2>1 DEF Pending
<1>5. \A b \in ToSet(order) : h.branch[b] = NULL => b \in Pending(es) \/ b \in Waits(Top)
  BY <1>4 DEF Tidy, Ends
<1>6. \A i \in 1 .. n : es[i].kind \in LastPart => es[i].body = NULL
  BY <1>2 DEF Tidy
<1>7. LastOf(order) = IF n = 0 THEN Top.exit ELSE es[1].exit
  <2>1. LastOf(order) = frames[1].exit
    BY <1>2 DEF Tidy
  <2>2. n # 0 => es[1] = frames[1]
    BY <1>2
  <2>3. n = 0 => m = 1
    BY <1>2
  <2> QED BY <1>3, <2>1, <2>2, <2>3
<1>8. ASSUME Waits(Top) = {next}, Top.exit = next PROVE Tidy(h, order, next, es)
  BY <1>2, <1>5, <1>6, <1>7, <1>8 DEF Tidy
<1>9. ASSUME NEW f \in Frames, Waits(Top) \subseteq {next} \cup Waits(f), f.exit = Top.exit,
             f.kind \in LastPart => f.body = NULL
      PROVE  Tidy(h, order, next, Append(es, f))
  <2> DEFINE gs == Append(es, f)
  <2>1. Len(gs) = n + 1 /\ gs[n + 1] = f /\ \A i \in 1 .. n : gs[i] = es[i]
    BY <1>2
  <2> HIDE DEF gs
  <2>2. 1 .. Len(gs) = 1 .. n \cup {n + 1} /\ Len(es) = n
    BY <1>2, <2>1
  <2>3. Pending(gs) = Pending(es) \cup Waits(f)
    BY <2>1, <2>2 DEF Pending
  <2>4. \A i \in 1 .. Len(gs) : gs[i].kind \in LastPart => gs[i].body = NULL
    BY <1>6, <1>9, <2>1, <2>2
  <2>5. gs[1].exit = (IF n = 0 THEN Top.exit ELSE es[1].exit) /\ Len(gs) # 0
    BY <1>2, <1>9, <2>1
  <2>6. Tidy(h, order, next, gs)
    BY <1>5, <1>7, <1>9, <2>3, <2>4, <2>5 DEF Tidy
  <2> QED BY <2>6 DEF gs
<1> QED BY <1>8, <1>9 DEF es

\* What the statements keep, for some S.
Followed(S, gr, ord, cre, cur, fs, fl, lo) ==
  Tidy(gr, ord, cur, fs) /\ Reached(S, gr, ord, cre, cur, fs, fl, lo)
FollowedNow(S) == Followed(S, g, order, created, current, frames, flow, loose)
FollowedNext   == \E S : Followed(S, g', order', created', current', frames', flow', loose')

\* A change at one block, and another.
LEMMA RewiredTwice ==
  ASSUME NEW gr, NEW k, NEW h, NEW c, NEW v, NEW to, NEW else,
         OnlyAt(gr, k, c), Rewired(k, h, c, v, to, else)
  PROVE  Rewired(gr, h, c, v, to, else)
BY DEF Rewired, OnlyAt

\* The edges after each operation.
LEMMA JumpRewired ==
  ASSUME NEW gr, Good(gr, Blocks), NEW c \in Blocks, NEW to \in Blocks
  PROVE  Rewired(gr, ResetTo(gr, c, to), c, NULL, to, NULL)
BY ResetToIs, RelinkedOnlyAt DEF Rewired, Good, Edges

\* An operation changes no edge.
LEMMA OpOnlyAt ==
  ASSUME NEW gr \in Graphs, NEW c, NEW inst
  PROVE  LET k == InsertInst(gr, c, inst)
         IN  /\ k.branch = gr.branch /\ k.branchElse = gr.branchElse /\ k.control = gr.control
             /\ OnlyAt(gr, k, c)
BY DEF InsertInst, Graphs, OnlyAt

\* An operation, then a branch.
LEMMA ConditionRewired ==
  ASSUME NEW gr, Good(gr, Blocks), NEW c \in Blocks, gr.branch[c] = NULL, NEW p \in Values,
         NEW v \in Values, NEW to \in Blocks, NEW else \in Blocks, to # else
  PROVE  Rewired(gr, ResetBranch(InsertInst(gr, c, Op(p)), c, v, to, else), c, v, to, else)
<1> DEFINE k == InsertInst(gr, c, Op(p))
<1>1. Good(k, Blocks) /\ OnlyAt(gr, k, c)
  BY OpStep, OpOnlyAt DEF Good, Edges
<1> HIDE DEF k
<1>2. Rewired(k, ResetBranch(k, c, v, to, else), c, v, to, else)
  BY <1>1, ResetBranchIs, RelinkedOnlyAt DEF Rewired, Good, Edges
<1>3. Rewired(gr, ResetBranch(k, c, v, to, else), c, v, to, else)
  BY <1>1, <1>2, RewiredTwice
<1> QED BY <1>3 DEF k

\* An operation, then a jump.
LEMMA OpJumpRewired ==
  ASSUME NEW gr, Good(gr, Blocks), NEW c \in Blocks, gr.branch[c] = NULL, NEW p \in Values,
         NEW to \in Blocks
  PROVE  Rewired(gr, ResetTo(InsertInst(gr, c, Op(p)), c, to), c, NULL, to, NULL)
<1> DEFINE k == InsertInst(gr, c, Op(p))
<1>1. Good(k, Blocks) /\ OnlyAt(gr, k, c)
  BY OpStep, OpOnlyAt DEF Good, Edges
<1> HIDE DEF k
<1>2. Rewired(k, ResetTo(k, c, to), c, NULL, to, NULL)
  BY <1>1, JumpRewired
<1>3. Rewired(gr, ResetTo(k, c, to), c, NULL, to, NULL)
  BY <1>1, <1>2, RewiredTwice
<1> QED BY <1>3 DEF k

\* A return, with the assertion around it.
LEMMA AssertedMarkRewired ==
  ASSUME NEW gr, Good(gr, Blocks), NEW c \in Blocks, NEW hint, MarkReturns(gr, c, hint)
  PROVE  Rewired(gr, AssertThat(TryMarkAsTerminal(gr, c, hint), MarkReturns(gr, c, hint)),
                 c, NULL, TERMINAL, NULL)
<1> DEFINE k == TryMarkAsTerminal(gr, c, hint)
           h == AssertThat(k, MarkReturns(gr, c, hint))
<1>1. Good(k, Blocks) /\ Rewired(gr, k, c, NULL, TERMINAL, NULL)
  <2>1. Good(k, Blocks) /\ gr \in Graphs /\ Edges(gr)
    BY MarkStep DEF Good, Edges
  <2>2. Relinked(k, gr, c, NULL, TERMINAL, NULL, Ret)
    BY <2>1, MarkIs
  <2> HIDE DEF k
  <2> QED BY <2>1, <2>2, RelinkedOnlyAt DEF Rewired
<1> HIDE DEF k
<1>2. h.branch = k.branch /\ h.branchElse = k.branchElse /\ h.control = k.control
  BY <1>1 DEF AssertThat, Good, Edges, Graphs
<1> HIDE DEF h
<1>3. Rewired(gr, h, c, NULL, TERMINAL, NULL)
  BY <1>1, <1>2 DEF Rewired, OnlyAt
<1> QED BY <1>3 DEF h, k

\* Where a condition v can lead.
Taken(v, to, else) == IF v = IMMTRUE THEN {to} ELSE IF v = IMMFALSE THEN {else} ELSE {to, else}

\* The outcomes of a condition evaluated at a live point are live where it can lead.
LEMMA TakenLive ==
  ASSUME NEW fl, NEW p \in LiveIn(fl), NEW v \in Conditions(p), NEW to, NEW else, to # else
  PROVE  /\ to \in Taken(v, to, else) => SomeLive(fl, Holds(p, v))
         /\ else \in Taken(v, to, else) => SomeLive(fl, Fails(p, v))
<1>1. v # IMMFALSE => \E x \in Holds(p, v) : x[1] = p
  BY DEF Conditions, Holds
<1>2. v # IMMTRUE => \E x \in Fails(p, v) : x[1] = p
  BY DEF Conditions, Fails
<1>3. (to \in Taken(v, to, else) => v # IMMFALSE) /\ (else \in Taken(v, to, else) => v # IMMTRUE)
  BY TranslatorAssumption DEF Taken
<1> QED BY <1>1, <1>2, <1>3 DEF SomeLive

\* A point evaluated where control is live is live.
LEMMA EvaluateLive ==
  ASSUME Inv, phase = "body", NEW more \in SUBSET Flows, NEW leaving \in SUBSET Leaving,
         Evaluate(more, leaving)
  PROVE  /\ flow \in SUBSET Flows /\ flow' \in SUBSET Flows /\ flow \subseteq flow'
         /\ loose' = leaving
         /\ SomeLive(flow, loose) => NextPoint \in LiveIn(flow')
<1>1. Source(points, flow, loose, loops)
  BY BodyState
<1>2. points \in 0 .. MaxPoints /\ points < MaxPoints /\ NextPoint \in 1 .. MaxPoints + 1
  BY <1>1, NextPointType DEF Source, Evaluate
<1>3. Join(loose, NextPoint) \in SUBSET Flows
  BY <1>1, <1>2, JoinType DEF Source
<1>4. flow' = flow \cup Join(loose, NextPoint) \cup more /\ loose' = leaving
  BY DEF Evaluate, NextPoint
<1>5. flow \in SUBSET Flows /\ flow' \in SUBSET Flows /\ flow \subseteq flow'
      /\ Join(loose, NextPoint) \subseteq flow'
  BY <1>1, <1>3, <1>4 DEF Source
<1>6. SomeLive(flow, loose) => SomeLive(flow', loose)
  BY <1>5, LiveGrows
<1>7. SomeLive(flow', loose) => NextPoint \in LiveIn(flow')
  BY <1>5, LiveNext
<1> QED BY <1>4, <1>5, <1>6, <1>7

\* Flow that is only joined.
LEMMA NoPointLive ==
  ASSUME Inv, phase = "body", NEW more \in SUBSET Flows, NEW leaving, NoPoint(more, leaving)
  PROVE  /\ flow \in SUBSET Flows /\ flow' \in SUBSET Flows /\ flow \subseteq flow'
         /\ loose' = leaving
<1>1. Source(points, flow, loose, loops)
  BY BodyState
<1> QED BY <1>1 DEF Source, NoPoint

\* A jump from the current block is followed.
LEMMA JumpSpread ==
  ASSUME Inv, phase = "body", NEW S, ReachedNow(S), NEW h, NEW v, NEW to \in Blocks,
         Rewired(g, h, current, v, to, NULL),
         current \in S => to \in S \/ g.branch[to] = NULL
  PROVE  Closed(With(S, current, {to}), h)
<1>1. WellShaped(g) /\ current \in Blocks /\ S \in SUBSET Blocks /\ Closed(S, g)
  BY BodyState, ReachedTypes DEF Good, Edges
<1>2. Leads(h, current) = {to} /\ \A b \in Blocks \ {current} : Leads(h, b) = Leads(g, b)
  BY <1>1, RewiredLeads
<1> QED BY <1>1, <1>2, Spread

\* A branch is followed where its condition can lead.
LEMMA BranchSpread ==
  ASSUME Inv, phase = "body", NEW S, ReachedNow(S), NEW h, NEW v, NEW to \in Blocks,
         NEW else \in Blocks, Rewired(g, h, current, v, to, else),
         current \in S => /\ to \in S \/ g.branch[to] = NULL
                          /\ else \in S \/ g.branch[else] = NULL
  PROVE  Closed(With(S, current, Taken(v, to, else)), h)
<1> DEFINE T == Taken(v, to, else)
<1>1. WellShaped(g) /\ current \in Blocks /\ S \in SUBSET Blocks /\ Closed(S, g)
  BY BodyState, ReachedTypes DEF Good, Edges
<1>2. Leads(h, current) = T /\ \A b \in Blocks \ {current} : Leads(h, b) = Leads(g, b)
  BY <1>1, RewiredLeads, TranslatorAssumption DEF Taken
<1>3. T \in SUBSET Blocks /\ T \subseteq {to, else}
  BY DEF Taken
<1> HIDE DEF T
<1>4. Closed(With(S, current, T), h)
  BY <1>1, <1>2, <1>3, Spread
<1> QED BY <1>4 DEF T

\* A block that is new is open.
LEMMA FreshOpen ==
  ASSUME Inv, phase = "body", NEW k \in Nat, created + k \in Blocks
  PROVE  \A b \in created + 1 .. created + k : b \in Blocks /\ g.branch[b] = NULL
<1>1. created \in Nat /\ created + 1 .. created + k \subseteq Blocks
  BY BodyState, TranslatorAssumption
<1>2. \A b \in Blocks : b > created => Untouched(g, b)
  BY BodyState DEF Building, Listed
<1> SUFFICES ASSUME NEW b \in created + 1 .. created + k PROVE b \in Blocks /\ g.branch[b] = NULL
  OBVIOUS
<1>3. b \in Blocks /\ b > created
  BY <1>1
<1> QED BY <1>2, <1>3 DEF Untouched

\* The state, for the lemmas about lists and frames.
LEMMA FollowedState ==
  ASSUME Inv, phase = "body", OrderedNow, NEW S, FollowedNow(S)
  PROVE  /\ Building(g, order, created, current, frames) /\ Distinct(order)
         /\ Tidy(g, order, current, frames) /\ ReachedNow(S)
         /\ order \in Seq(Blocks) /\ current \in Blocks
BY BodyState DEF FollowedNow, Followed, ReachedNow, OrderedNow, Ordered, Building, Listed

\* The result of a step.
LEMMA FollowedStep ==
  ASSUME NEW S, Tidy(g', order', current', frames'),
         Reached(S, g', order', created', current', frames', flow', loose')
  PROVE  FollowedNext
BY DEF FollowedNext, Followed

\* An if without an else.
LEMMA IfFollowed ==
  ASSUME NEW v \in Conditions(NextPoint), Inv, OrderedNow, NEW S, FollowedNow(S), If(v)
  PROVE  FollowedNext
<1> DEFINE branchIf == Fresh(1)
           exit == Fresh(2)
           f == Frame("if", NULL, NULL, exit, Fails(NextPoint, v), {})
           news == <<branchIf, exit>>
           h == ResetBranch(WithOp(g, NextPoint), current, v, branchIf, exit)
           T == Taken(v, branchIf, exit)
<1>1. /\ phase = "body" /\ New(2) /\ PutAfter(current, news) /\ current' = branchIf
      /\ frames' = Append(frames, f) /\ points < MaxPoints /\ g' = h
      /\ Evaluate({}, Holds(NextPoint, v))
  BY DEF If, InStatements, In, Push, SweepState, Evaluate
<1>2. /\ branchIf \in Blocks /\ exit \in Blocks
      /\ branchIf # exit /\ exit # NULL
      /\ {branchIf, exit} \subseteq created + 1 .. created + 2
      /\ created' = created + 2 /\ created + 2 \in Blocks /\ 2 \in Nat
  BY <1>1, NewBlocks
<1>3. /\ news \in Seq(Blocks) /\ ToSet(news) = {branchIf, exit}
      /\ news # <<>> /\ LastOf(news) = exit
  BY <1>2, Elements2 DEF LastOf
<1> HIDE DEF branchIf, exit
<1>4. /\ NextPoint \in Values /\ v \in Values /\ NextPoint \in 0 .. MaxPoints
      /\ Holds(NextPoint, v) \in SUBSET Leaving /\ Fails(NextPoint, v) \in SUBSET Leaving
  BY <1>1, BodyState, NextPointType, OutcomeTypes
<1> HIDE DEF news
<1>5. Rewired(g, h, current, v, branchIf, exit)
  BY <1>1, <1>2, <1>4, BodyState, ConditionRewired DEF WithOp
<1> HIDE DEF h
<1>6. /\ f \in Frames /\ f.body = NULL /\ f.exit = exit /\ f.kind = "if" /\ f.head = NULL
      /\ f.atExit = Fails(NextPoint, v) /\ f.atBody = {}
  <2> HIDE DEF T
  <2>1. points \in 0 .. MaxPoints /\ NULL \in Optional /\ {} \in SUBSET Leaving /\ Blocks \subseteq Optional
    BY <1>1, BodyState DEF Optional
  <2> QED BY <1>2, <1>4, <2>1, FrameTypes
<1> HIDE DEF f
<1>7. Waits(f) = {exit}
  BY <1>2, <1>6, CfgAssumption DEF Waits
<1>8. /\ flow \in SUBSET Flows /\ flow' \in SUBSET Flows /\ flow \subseteq flow'
      /\ loose' = Holds(NextPoint, v)
      /\ SomeLive(flow, loose) => NextPoint \in LiveIn(flow')
  BY <1>1, <1>4, EvaluateLive
<1>9. g.branch[branchIf] = NULL /\ g.branch[exit] = NULL
  BY <1>1, <1>2, FreshOpen
<1>10. Closed(With(S, current, T), h)
  BY <1>1, <1>2, <1>5, <1>9, BranchSpread, FollowedState
<1>11. current \in S => /\ branchIf \in T => SomeLive(flow', loose')
                        /\ FrameReached(T, flow', f)
                        /\ f.kind \in LoopKinds => f.head \in T
  <2> SUFFICES ASSUME current \in S
               PROVE  /\ branchIf \in T => SomeLive(flow', loose')
                      /\ FrameReached(T, flow', f)
                      /\ f.kind \in LoopKinds => f.head \in T
    OBVIOUS
  <2>1. NextPoint \in LiveIn(flow')
    BY <1>1, <1>8, FollowedState, ReachedTypes
  <2>2. NULL \notin T
    BY <1>2, CfgAssumption DEF Taken
  <2> QED BY <1>2, <1>6, <1>8, <2>1, <2>2, TakenLive DEF FrameReached, LoopKinds
<1>12. T \in SUBSET (created + 1 .. created + 2)
  BY <1>2 DEF Taken
<1> HIDE DEF T
<1>13. order'[1] = order[1] /\ Tidy(h, order', branchIf, Append(frames, f))
  <2>1. Ends(g, h, order, current)
    BY <1>1, <1>2, <1>5, CfgAssumption, RewiredEnds, FollowedState
  <2>2. \A b \in ToSet(news) : h.branch[b] = NULL => b = branchIf \/ b \in Waits(f)
    BY <1>3, <1>7
  <2>3. f.kind \in LastPart => f.body = NULL
    BY <1>6 DEF LastPart
  <2> QED BY <1>1, <1>3, <1>6, <2>1, <2>2, <2>3, EnterTidy, FollowedState
<1>14. Reached(With(S, current, T), h, order', created + 2, branchIf, Append(frames, f), flow', loose')
  <2>1. Waits(f) \subseteq created + 1 .. created + 2 /\ branchIf \in created + 1 .. created + 2
    BY <1>2, <1>7
  <2> QED BY <1>1, <1>2, <1>6, <1>8, <1>10, <1>11, <1>12, <1>13, <2>1, EnterReached, FollowedState
<1> QED BY <1>1, <1>2, <1>13, <1>14, FollowedStep

\* An if with an else: the if-arm is entered by what holds.
LEMMA IfElseFollowed ==
  ASSUME NEW v \in Conditions(NextPoint), Inv, OrderedNow, NEW S, FollowedNow(S), IfElse(v)
  PROVE  FollowedNext
<1> DEFINE branchIf == Fresh(1)
           exit == Fresh(2)
           branchElse == Fresh(3)
           f == Frame("else", NULL, branchIf, exit, {}, Holds(NextPoint, v))
           news == <<branchIf, branchElse, exit>>
           h == ResetBranch(WithOp(g, NextPoint), current, v, branchIf, branchElse)
           T == Taken(v, branchIf, branchElse)
<1>1. /\ phase = "body" /\ New(3) /\ PutAfter(current, news) /\ current' = branchElse
      /\ frames' = Append(frames, f) /\ points < MaxPoints /\ g' = h
      /\ Evaluate({}, Fails(NextPoint, v))
  BY DEF IfElse, InStatements, In, Push, SweepState, Evaluate
<1>2. /\ branchIf \in Blocks /\ exit \in Blocks /\ branchElse \in Blocks
      /\ branchIf # exit /\ branchIf # branchElse /\ exit # branchElse /\ exit # NULL
      /\ {branchIf, exit, branchElse} \subseteq created + 1 .. created + 3
      /\ created' = created + 3 /\ created + 3 \in Blocks /\ 3 \in Nat
  BY <1>1, NewBlocks
<1>3. /\ news \in Seq(Blocks) /\ ToSet(news) = {branchIf, branchElse, exit}
      /\ news # <<>> /\ LastOf(news) = exit
  BY <1>2, Elements3 DEF LastOf
<1> HIDE DEF branchIf, exit, branchElse
<1>4. /\ NextPoint \in Values /\ v \in Values /\ NextPoint \in 0 .. MaxPoints
      /\ Holds(NextPoint, v) \in SUBSET Leaving /\ Fails(NextPoint, v) \in SUBSET Leaving
  BY <1>1, BodyState, NextPointType, OutcomeTypes
<1> HIDE DEF news
<1>5. Rewired(g, h, current, v, branchIf, branchElse)
  BY <1>1, <1>2, <1>4, BodyState, ConditionRewired DEF WithOp
<1> HIDE DEF h
<1>6. /\ f \in Frames /\ f.body = branchIf /\ f.exit = exit /\ f.kind = "else" /\ f.head = NULL
      /\ f.atExit = {} /\ f.atBody = Holds(NextPoint, v)
  <2> HIDE DEF T
  <2>1. points \in 0 .. MaxPoints /\ NULL \in Optional /\ {} \in SUBSET Leaving /\ Blocks \subseteq Optional
    BY <1>1, BodyState DEF Optional
  <2> QED BY <1>2, <1>4, <2>1, FrameTypes
<1> HIDE DEF f
<1>7. Waits(f) = {branchIf, exit}
  BY <1>2, <1>6, CfgAssumption DEF Waits
<1>8. /\ flow \in SUBSET Flows /\ flow' \in SUBSET Flows /\ flow \subseteq flow'
      /\ loose' = Fails(NextPoint, v)
      /\ SomeLive(flow, loose) => NextPoint \in LiveIn(flow')
  BY <1>1, <1>4, EvaluateLive
<1>9. g.branch[branchIf] = NULL /\ g.branch[exit] = NULL /\ g.branch[branchElse] = NULL
  BY <1>1, <1>2, FreshOpen
<1>10. Closed(With(S, current, T), h)
  BY <1>1, <1>2, <1>5, <1>9, BranchSpread, FollowedState
<1>11. current \in S => /\ branchElse \in T => SomeLive(flow', loose')
                        /\ FrameReached(T, flow', f)
                        /\ f.kind \in LoopKinds => f.head \in T
  <2> SUFFICES ASSUME current \in S
               PROVE  /\ branchElse \in T => SomeLive(flow', loose')
                      /\ FrameReached(T, flow', f)
                      /\ f.kind \in LoopKinds => f.head \in T
    OBVIOUS
  <2>1. NextPoint \in LiveIn(flow')
    BY <1>1, <1>8, FollowedState, ReachedTypes
  <2>2. NULL \notin T
    BY <1>2, CfgAssumption DEF Taken
  <2>3. exit \notin T
    BY <1>2 DEF Taken
  <2> QED BY <1>2, <1>6, <1>8, <2>1, <2>2, <2>3, TakenLive DEF FrameReached, LoopKinds
<1>12. T \in SUBSET (created + 1 .. created + 3)
  BY <1>2 DEF Taken
<1> HIDE DEF T
<1>13. order'[1] = order[1] /\ Tidy(h, order', branchElse, Append(frames, f))
  <2>1. Ends(g, h, order, current)
    BY <1>1, <1>2, <1>5, CfgAssumption, RewiredEnds, FollowedState
  <2>2. \A b \in ToSet(news) : h.branch[b] = NULL => b = branchElse \/ b \in Waits(f)
    BY <1>3, <1>7
  <2>3. f.kind \in LastPart => f.body = NULL
    BY <1>6 DEF LastPart
  <2> QED BY <1>1, <1>3, <1>6, <2>1, <2>2, <2>3, EnterTidy, FollowedState
<1>14. Reached(With(S, current, T), h, order', created + 3, branchElse, Append(frames, f), flow', loose')
  <2>1. Waits(f) \subseteq created + 1 .. created + 3 /\ branchElse \in created + 1 .. created + 3
    BY <1>2, <1>7
  <2> QED BY <1>1, <1>2, <1>6, <1>8, <1>10, <1>11, <1>12, <1>13, <2>1, EnterReached, FollowedState
<1> QED BY <1>1, <1>2, <1>13, <1>14, FollowedStep

\* The start of a do statement.
LEMMA DoFollowed ==
  ASSUME Inv, OrderedNow, NEW S, FollowedNow(S), Do
  PROVE  FollowedNext
<1> DEFINE cond == Fresh(1)
           exit == Fresh(2)
           loop == Fresh(3)
           f == Frame("do", loop, cond, exit, {}, {})
           news == <<loop, cond, exit>>
           h == ResetTo(g, current, loop)
           T == {loop}
<1>1. /\ phase = "body" /\ New(3) /\ PutAfter(current, news) /\ current' = loop
      /\ frames' = Append(frames, f) /\ g' = h
      /\ flow' = flow /\ loose' = loose
  BY DEF Do, InStatements, In, Push
<1>2. /\ cond \in Blocks /\ exit \in Blocks /\ loop \in Blocks
      /\ cond # exit /\ cond # loop /\ exit # loop /\ exit # NULL
      /\ {cond, exit, loop} \subseteq created + 1 .. created + 3
      /\ created' = created + 3 /\ created + 3 \in Blocks /\ 3 \in Nat
  BY <1>1, NewBlocks
<1>3. /\ news \in Seq(Blocks) /\ ToSet(news) = {loop, cond, exit}
      /\ news # <<>> /\ LastOf(news) = exit
  BY <1>2, Elements3 DEF LastOf
<1> HIDE DEF cond, exit, loop
<1> HIDE DEF news
<1>5. Rewired(g, h, current, NULL, loop, NULL)
  BY <1>1, <1>2, BodyState, JumpRewired
<1> HIDE DEF h
<1>6. /\ f \in Frames /\ f.body = cond /\ f.exit = exit /\ f.kind = "do" /\ f.head = loop
      /\ f.atExit = {} /\ f.atBody = {}
  <2> HIDE DEF T
  <2>1. points \in 0 .. MaxPoints /\ NULL \in Optional /\ {} \in SUBSET Leaving /\ Blocks \subseteq Optional
    BY <1>1, BodyState DEF Optional
  <2> QED BY <1>2, <2>1, FrameTypes
<1> HIDE DEF f
<1>7. Waits(f) = {cond, exit}
  BY <1>2, <1>6, CfgAssumption DEF Waits
<1>8. flow \in SUBSET Flows /\ flow' \in SUBSET Flows /\ flow \subseteq flow' /\ loose' = loose
  BY <1>1, BodyState DEF Source
<1>9. g.branch[cond] = NULL /\ g.branch[exit] = NULL /\ g.branch[loop] = NULL
  BY <1>1, <1>2, FreshOpen
<1>10. Closed(With(S, current, T), h)
  BY <1>1, <1>2, <1>5, <1>9, JumpSpread, FollowedState
<1>11. current \in S => /\ loop \in T => SomeLive(flow', loose')
                        /\ FrameReached(T, flow', f)
                        /\ f.kind \in LoopKinds => f.head \in T
  <2> SUFFICES ASSUME current \in S
               PROVE  /\ loop \in T => SomeLive(flow', loose')
                      /\ FrameReached(T, flow', f)
                      /\ f.kind \in LoopKinds => f.head \in T
    OBVIOUS
  <2>1. SomeLive(flow', loose')
    BY <1>1, FollowedState, ReachedTypes
  <2>2. NULL \notin T
    BY <1>2, CfgAssumption
  <2> QED BY <1>2, <1>6, <2>1, <2>2 DEF FrameReached
<1>12. T \in SUBSET (created + 1 .. created + 3)
  BY <1>2
<1> HIDE DEF T
<1>13. order'[1] = order[1] /\ Tidy(h, order', loop, Append(frames, f))
  <2>1. Ends(g, h, order, current)
    BY <1>1, <1>2, <1>5, CfgAssumption, RewiredEnds, FollowedState
  <2>2. \A b \in ToSet(news) : h.branch[b] = NULL => b = loop \/ b \in Waits(f)
    BY <1>3, <1>7
  <2>3. f.kind \in LastPart => f.body = NULL
    BY <1>6 DEF LastPart
  <2> QED BY <1>1, <1>3, <1>6, <2>1, <2>2, <2>3, EnterTidy, FollowedState
<1>14. Reached(With(S, current, T), h, order', created + 3, loop, Append(frames, f), flow', loose')
  <2>1. Waits(f) \subseteq created + 1 .. created + 3 /\ loop \in created + 1 .. created + 3
    BY <1>2, <1>7
  <2> QED BY <1>1, <1>2, <1>6, <1>8, <1>10, <1>11, <1>12, <1>13, <2>1, EnterReached, FollowedState
<1> QED BY <1>1, <1>2, <1>13, <1>14, FollowedStep

\* The start of a while or for statement.
LEMMA LoopFollowed ==
  ASSUME NEW kind \in {"whileCond", "forCond"}, Inv, OrderedNow, NEW S, FollowedNow(S), Loop(kind)
  PROVE  FollowedNext
<1> DEFINE cond == Fresh(1)
           loop == Fresh(2)
           exit == Fresh(3)
           f == Frame(kind, cond, loop, exit, {}, {})
           news == <<cond, loop, exit>>
           h == ResetTo(g, current, cond)
           T == {cond}
<1>1. /\ phase = "body" /\ New(3) /\ PutAfter(current, news) /\ current' = cond
      /\ frames' = Append(frames, f) /\ g' = h
      /\ flow' = flow /\ loose' = loose
  BY DEF Loop, InStatements, In, Push
<1>2. /\ cond \in Blocks /\ loop \in Blocks /\ exit \in Blocks
      /\ cond # loop /\ cond # exit /\ loop # exit /\ exit # NULL
      /\ {cond, loop, exit} \subseteq created + 1 .. created + 3
      /\ created' = created + 3 /\ created + 3 \in Blocks /\ 3 \in Nat
  BY <1>1, NewBlocks
<1>3. /\ news \in Seq(Blocks) /\ ToSet(news) = {cond, loop, exit}
      /\ news # <<>> /\ LastOf(news) = exit
  BY <1>2, Elements3 DEF LastOf
<1> HIDE DEF cond, loop, exit
<1> HIDE DEF news
<1>5. Rewired(g, h, current, NULL, cond, NULL)
  BY <1>1, <1>2, BodyState, JumpRewired
<1> HIDE DEF h
<1>6. /\ f \in Frames /\ f.body = loop /\ f.exit = exit /\ f.kind = kind /\ f.head = cond
      /\ f.atExit = {} /\ f.atBody = {}
  <2> HIDE DEF T
  <2>1. points \in 0 .. MaxPoints /\ NULL \in Optional /\ {} \in SUBSET Leaving /\ Blocks \subseteq Optional
    BY <1>1, BodyState DEF Optional
  <2> QED BY <1>2, <2>1, FrameTypes
<1> HIDE DEF f
<1>7. Waits(f) = {loop, exit}
  BY <1>2, <1>6, CfgAssumption DEF Waits
<1>8. flow \in SUBSET Flows /\ flow' \in SUBSET Flows /\ flow \subseteq flow' /\ loose' = loose
  BY <1>1, BodyState DEF Source
<1>9. g.branch[cond] = NULL /\ g.branch[loop] = NULL /\ g.branch[exit] = NULL
  BY <1>1, <1>2, FreshOpen
<1>10. Closed(With(S, current, T), h)
  BY <1>1, <1>2, <1>5, <1>9, JumpSpread, FollowedState
<1>11. current \in S => /\ cond \in T => SomeLive(flow', loose')
                        /\ FrameReached(T, flow', f)
                        /\ f.kind \in LoopKinds => f.head \in T
  <2> SUFFICES ASSUME current \in S
               PROVE  /\ cond \in T => SomeLive(flow', loose')
                      /\ FrameReached(T, flow', f)
                      /\ f.kind \in LoopKinds => f.head \in T
    OBVIOUS
  <2>1. SomeLive(flow', loose')
    BY <1>1, FollowedState, ReachedTypes
  <2>2. NULL \notin T
    BY <1>2, CfgAssumption
  <2> QED BY <1>2, <1>6, <2>1, <2>2 DEF FrameReached
<1>12. T \in SUBSET (created + 1 .. created + 3)
  BY <1>2
<1> HIDE DEF T
<1>13. order'[1] = order[1] /\ Tidy(h, order', cond, Append(frames, f))
  <2>1. Ends(g, h, order, current)
    BY <1>1, <1>2, <1>5, CfgAssumption, RewiredEnds, FollowedState
  <2>2. \A b \in ToSet(news) : h.branch[b] = NULL => b = cond \/ b \in Waits(f)
    BY <1>3, <1>7
  <2>3. f.kind \in LastPart => f.body = NULL
    BY <1>6 DEF LastPart
  <2> QED BY <1>1, <1>3, <1>6, <2>1, <2>2, <2>3, EnterTidy, FollowedState
<1>14. Reached(With(S, current, T), h, order', created + 3, cond, Append(frames, f), flow', loose')
  <2>1. Waits(f) \subseteq created + 1 .. created + 3 /\ cond \in created + 1 .. created + 3
    BY <1>2, <1>7
  <2> QED BY <1>1, <1>2, <1>6, <1>8, <1>10, <1>11, <1>12, <1>13, <2>1, EnterReached, FollowedState
<1> QED BY <1>1, <1>2, <1>13, <1>14, FollowedStep

\* The left operand of && and ||: one outcome goes to the right operand, the other to the
\* exit.
LEMMA LogicLeftFollowed ==
  ASSUME NEW v \in Conditions(NextPoint), NEW isAnd \in BOOLEAN, Inv, OrderedNow,
         NEW S, FollowedNow(S), LogicLeft(isAnd, v)
  PROVE  FollowedNext
<1> DEFINE next == Fresh(1)
           exit == Fresh(2)
           a == IF isAnd THEN next ELSE exit
           b == IF isAnd THEN exit ELSE next
           on == IF isAnd THEN Holds(NextPoint, v) ELSE Fails(NextPoint, v)
           off == IF isAnd THEN Fails(NextPoint, v) ELSE Holds(NextPoint, v)
           f == Frame("rhs", NULL, NULL, exit, off, {})
           news == <<next, exit>>
           h == ResetBranch(WithOp(g, NextPoint), current, v, a, b)
           T == Taken(v, a, b)
<1>1. /\ phase = "body" /\ New(2) /\ PutAfter(current, news) /\ current' = next
      /\ frames' = Append(frames, f) /\ points < MaxPoints /\ g' = h
      /\ Evaluate({}, on)
  BY DEF LogicLeft, InExpression, InStatements, In, Push, SweepState, Evaluate
<1>2. /\ next \in Blocks /\ exit \in Blocks
      /\ next # exit /\ exit # NULL
      /\ {next, exit} \subseteq created + 1 .. created + 2
      /\ created' = created + 2 /\ created + 2 \in Blocks /\ 2 \in Nat
  BY <1>1, NewBlocks
<1>3. /\ news \in Seq(Blocks) /\ ToSet(news) = {next, exit}
      /\ news # <<>> /\ LastOf(news) = exit
  BY <1>2, Elements2 DEF LastOf
<1> HIDE DEF next, exit
<1>4. /\ NextPoint \in Values /\ v \in Values /\ NextPoint \in 0 .. MaxPoints
      /\ on \in SUBSET Leaving /\ off \in SUBSET Leaving
  BY <1>1, BodyState, NextPointType, OutcomeTypes
<1> HIDE DEF news
<1>5. a \in Blocks /\ b \in Blocks /\ a # b /\ {a, b} = {next, exit}
  BY <1>2
<1>6. NextPoint \in LiveIn(flow') =>
        /\ next \in T => SomeLive(flow', on)
        /\ exit \in T => SomeLive(flow', off)
  <2>1. CASE isAnd
    BY <1>2, <2>1, TakenLive
  <2>2. CASE ~ isAnd
    BY <1>2, <2>2, TakenLive
  <2> QED BY <2>1, <2>2
<1> HIDE DEF a, b, on, off
<1>7. Rewired(g, h, current, v, a, b)
  BY <1>1, <1>4, <1>5, BodyState, ConditionRewired DEF WithOp
<1> HIDE DEF h
<1>8. /\ f \in Frames /\ f.body = NULL /\ f.exit = exit /\ f.kind = "rhs" /\ f.head = NULL
      /\ f.atExit = off /\ f.atBody = {}
  <2> HIDE DEF T
  <2>1. points \in 0 .. MaxPoints /\ NULL \in Optional /\ {} \in SUBSET Leaving
    BY <1>1, BodyState DEF Optional
  <2> QED BY <1>2, <1>4, <2>1, FrameTypes
<1> HIDE DEF f
<1>9. Waits(f) = {exit}
  BY <1>2, <1>8, CfgAssumption DEF Waits
<1>10. /\ flow \in SUBSET Flows /\ flow' \in SUBSET Flows /\ flow \subseteq flow'
       /\ loose' = on
       /\ SomeLive(flow, loose) => NextPoint \in LiveIn(flow')
  BY <1>1, <1>4, EvaluateLive
<1>11. Closed(With(S, current, T), h)
  <2>1. g.branch[next] = NULL /\ g.branch[exit] = NULL
    BY <1>1, <1>2, FreshOpen
  <2>2. g.branch[a] = NULL /\ g.branch[b] = NULL
    BY <1>5, <2>1
  <2> QED BY <1>1, <1>5, <1>7, <2>2, BranchSpread, FollowedState
<1>12. T \in SUBSET (created + 1 .. created + 2) /\ NULL \notin T
  BY <1>2, <1>5, CfgAssumption DEF Taken
<1> HIDE DEF T
<1>13. current \in S => /\ next \in T => SomeLive(flow', loose')
                        /\ FrameReached(T, flow', f)
                        /\ f.kind \in LoopKinds => f.head \in T
  <2> SUFFICES ASSUME current \in S
               PROVE  /\ next \in T => SomeLive(flow', loose')
                      /\ FrameReached(T, flow', f)
                      /\ f.kind \in LoopKinds => f.head \in T
    OBVIOUS
  <2>1. NextPoint \in LiveIn(flow')
    BY <1>1, <1>10, FollowedState, ReachedTypes
  <2> QED BY <1>6, <1>8, <1>10, <1>12, <2>1 DEF FrameReached, LoopKinds
<1>14. order'[1] = order[1] /\ Tidy(h, order', next, Append(frames, f))
  <2>1. Ends(g, h, order, current)
    BY <1>1, <1>5, <1>7, CfgAssumption, RewiredEnds, FollowedState
  <2>2. \A c \in ToSet(news) : h.branch[c] = NULL => c = next \/ c \in Waits(f)
    BY <1>3, <1>9
  <2>3. f.kind \in LastPart => f.body = NULL
    BY <1>8
  <2> QED BY <1>1, <1>3, <1>8, <2>1, <2>2, <2>3, EnterTidy, FollowedState
<1>15. Reached(With(S, current, T), h, order', created + 2, next, Append(frames, f), flow', loose')
  <2>1. Waits(f) \subseteq created + 1 .. created + 2 /\ next \in created + 1 .. created + 2
    BY <1>2, <1>9
  <2> QED BY <1>1, <1>2, <1>8, <1>10, <1>11, <1>12, <1>13, <1>14, <2>1, EnterReached, FollowedState
<1> QED BY <1>1, <1>2, <1>14, <1>15, FollowedStep

\* for (;;): two jumps, both followed from the current block.
LEMMA EndlessForFollowed ==
  ASSUME Inv, OrderedNow, NEW S, FollowedNow(S), EndlessFor
  PROVE  FollowedNext
<1> DEFINE cond == Fresh(1)
           loop == Fresh(2)
           exit == Fresh(3)
           f == Frame("for", cond, NULL, exit, {}, {})
           news == <<cond, loop, exit>>
           k == ResetTo(g, current, cond)
           h == ResetTo(k, cond, loop)
           T == {cond, loop}
<1>1. /\ phase = "body" /\ New(3) /\ PutAfter(current, news) /\ current' = loop
      /\ frames' = Append(frames, f) /\ g' = h
      /\ flow' = flow /\ loose' = loose
  BY DEF EndlessFor, InStatements, In, Push
<1>2. /\ cond \in Blocks /\ loop \in Blocks /\ exit \in Blocks
      /\ cond # loop /\ cond # exit /\ loop # exit /\ exit # NULL /\ cond # current /\ loop # current
      /\ {cond, loop, exit} \subseteq created + 1 .. created + 3
      /\ created' = created + 3 /\ created + 3 \in Blocks /\ 3 \in Nat
  BY <1>1, NewBlocks
<1>3. /\ news \in Seq(Blocks) /\ ToSet(news) = {cond, loop, exit}
      /\ news # <<>> /\ LastOf(news) = exit
  BY <1>2, Elements3 DEF LastOf
<1> HIDE DEF cond, loop, exit
<1> HIDE DEF news
<1>4. Rewired(g, k, current, NULL, cond, NULL) /\ Good(k, Blocks)
  BY <1>1, <1>2, BodyState, JumpRewired, JumpStep
<1> HIDE DEF k
<1>5. Rewired(k, h, cond, NULL, loop, NULL)
  BY <1>2, <1>4, JumpRewired
<1> HIDE DEF h
<1>6. /\ f \in Frames /\ f.body = NULL /\ f.exit = exit /\ f.kind = "for" /\ f.head = cond
      /\ f.atExit = {} /\ f.atBody = {}
  <2> HIDE DEF T
  <2>1. points \in 0 .. MaxPoints /\ NULL \in Optional /\ {} \in SUBSET Leaving /\ Blocks \subseteq Optional
    BY <1>1, BodyState DEF Optional
  <2> QED BY <1>2, <2>1, FrameTypes
<1> HIDE DEF f
<1>7. Waits(f) = {exit}
  BY <1>2, <1>6, CfgAssumption DEF Waits
<1>8. flow \in SUBSET Flows /\ flow' \in SUBSET Flows /\ flow \subseteq flow' /\ loose' = loose
  BY <1>1, BodyState DEF Source
<1>9. Closed(With(S, current, T), h)
  <2> DEFINE U == With(S, current, {cond})
             V == {loop}
  <2>1. g.branch[cond] = NULL /\ g.branch[loop] = NULL
    BY <1>1, <1>2, FreshOpen
  <2>2. Closed(U, k)
    BY <1>1, <1>2, <1>4, <2>1, JumpSpread, FollowedState
  <2>3. S \in SUBSET Blocks /\ S \subseteq 1 .. created /\ created \in Nat
    BY <1>1, FollowedState, ReachedTypes
  <2>4. cond \notin S
    BY <1>2, <2>3
  <2>5. U \in SUBSET Blocks /\ V \in SUBSET Blocks
    BY <1>2, <2>3 DEF With
  <2>6. With(U, cond, V) = With(S, current, T)
    BY <2>4 DEF With
  <2>7. WellShaped(k) /\ k.branch[loop] = NULL
    BY <1>2, <1>4, <2>1 DEF Good, Edges, Rewired, OnlyAt
  <2>8. Leads(h, cond) \subseteq V /\ \A b \in Blocks \ {cond} : Leads(h, b) = Leads(k, b)
    <3> HIDE DEF T, U, V
    <3>1. cond \in Blocks /\ loop \in Blocks
      BY <1>2
    <3>2. Leads(h, cond) = {loop} /\ \A b \in Blocks \ {cond} : Leads(h, b) = Leads(k, b)
      <4>1. {loop} \cap Blocks = {loop}
        BY <3>1
      <4> QED BY <1>5, <3>1, <4>1, RewiredLeads
    <3> QED BY <3>2 DEF V
  <2>9. (cond \in U => Leads(h, cond) \subseteq U \cup V)
        /\ (cond \in U => \A t \in V : t \in U \/ k.branch[t] = NULL)
    BY <2>7, <2>8
  <2> HIDE DEF U, V
  <2>10. Closed(With(U, cond, V), h)
    BY <1>2, <2>2, <2>5, <2>7, <2>8, <2>9, Spread
  <2> QED BY <2>6, <2>10
<1>10. current \in S => /\ loop \in T => SomeLive(flow', loose')
                        /\ FrameReached(T, flow', f)
                        /\ f.kind \in LoopKinds => f.head \in T
  <2> SUFFICES ASSUME current \in S
               PROVE  /\ loop \in T => SomeLive(flow', loose')
                      /\ FrameReached(T, flow', f)
                      /\ f.kind \in LoopKinds => f.head \in T
    OBVIOUS
  <2>1. SomeLive(flow', loose')
    BY <1>1, FollowedState, ReachedTypes
  <2>2. NULL \notin T
    BY <1>2, CfgAssumption
  <2> QED BY <1>2, <1>6, <2>1, <2>2 DEF FrameReached
<1>11. T \in SUBSET (created + 1 .. created + 3)
  BY <1>2
<1> HIDE DEF T
<1>12. order'[1] = order[1] /\ Tidy(h, order', loop, Append(frames, f))
  <2>1. Ends(g, h, order, current)
    <3>1. ToSet(order) \subseteq 1 .. created /\ ToSet(order) \subseteq Blocks /\ created \in Nat
      BY <1>1, BodyState, TranslatorAssumption DEF Building, Listed
    <3>2. cond \notin ToSet(order)
      BY <1>2, <3>1
    <3> QED BY <1>2, <1>4, <1>5, <3>1, <3>2, CfgAssumption DEF Ends, Rewired, OnlyAt
  <2>2. \A b \in ToSet(news) : h.branch[b] = NULL => b = loop \/ b \in Waits(f)
    BY <1>2, <1>3, <1>5, <1>7, CfgAssumption DEF Rewired
  <2>3. f.kind \in LastPart => f.body = NULL
    BY <1>6
  <2> QED BY <1>1, <1>3, <1>6, <2>1, <2>2, <2>3, EnterTidy, FollowedState
<1>13. Reached(With(S, current, T), h, order', created + 3, loop, Append(frames, f), flow', loose')
  <2>1. Waits(f) \subseteq created + 1 .. created + 3 /\ loop \in created + 1 .. created + 3
    BY <1>2, <1>7
  <2> QED BY <1>1, <1>2, <1>6, <1>8, <1>9, <1>10, <1>11, <1>12, <2>1, EnterReached, FollowedState
<1> QED BY <1>1, <1>2, <1>12, <1>13, FollowedStep

\* A handler comes back to blocks that are still open.
LEMMA WaitsOpen ==
  ASSUME Inv, phase = "body", NEW i \in 1 .. Len(frames)
  PROVE  \A w \in Waits(frames[i]) : w \in Blocks /\ g.branch[w] = NULL
BY BodyState DEF Building, Waiting, Ready, Untouched, Waits

\* What is known of the innermost handler.
LEMMA TopFollowed ==
  ASSUME Inv, phase = "body", OrderedNow, NEW S, FollowedNow(S), frames # <<>>
  PROVE  /\ FrameReached(S, flow, Top)
         /\ Top.kind \in LoopKinds /\ current \in S => Top.head \in S
         /\ Top.kind \in LastPart => Top.body = NULL
         /\ \A w \in Waits(Top) : w \in Blocks /\ g.branch[w] = NULL
<1> DEFINE m == Len(frames)
<1>1. frames \in Seq(Frames) /\ m \in 1 .. m /\ Top = frames[m]
  BY BodyState, FrontFrames DEF Building, Waiting, Top
<1> HIDE DEF m
<1>2. m \in 1 .. Len(frames)
  BY <1>1 DEF m
<1>3. FramesReached(S, current, frames, flow) /\ Tidy(g, order, current, frames)
  BY FollowedState, ReachedTypes
<1>4. current \in S => Inside(S, current, frames, m)
  BY DEF Inside
<1> QED BY <1>1, <1>2, <1>3, <1>4, WaitsOpen DEF FramesReached, Tidy

\* The innermost handler ends, in its exit.
LEMMA PopFollowed ==
  ASSUME Inv, phase = "body", OrderedNow, NEW S, FollowedNow(S), frames # <<>>,
         Top.kind \in LastPart,
         NEW h, NEW T \in SUBSET Blocks, Closed(With(S, current, T), h), Ends(g, h, order, current),
         flow \in SUBSET Flows, flow' \in SUBSET Flows, flow \subseteq flow',
         current \in S => T \subseteq {Top.exit} \cup S,
         Top.kind \in {"if", "rhs", "while", "for"} /\ SomeLive(flow', Top.atExit)
            => SomeLive(flow', loose'),
         current \in S /\ Top.exit \in T => SomeLive(flow', loose'),
         g' = h, order' = order, created' = created, current' = Top.exit, frames' = Front(frames)
  PROVE  FollowedNext
<1> DEFINE exit == Top.exit
           S2 == With(S, current, T)
<1>1. exit \in Blocks /\ exit \in Waits(Top)
  BY TopFrame
<1>2. Top.body = NULL /\ Waits(Top) = {exit}
  BY <1>1, TopFollowed, CfgAssumption DEF Waits
<1>3. exit \in S2 => SomeLive(flow', loose')
  <2>1. exit \in S => Top.kind \in {"if", "rhs", "while", "for"} /\ SomeLive(flow, Top.atExit)
    BY TopFollowed DEF FrameReached
  <2>2. SomeLive(flow, Top.atExit) => SomeLive(flow', Top.atExit)
    BY LiveGrows
  <2> QED BY <2>1, <2>2 DEF With
<1>4. current \in S => T \subseteq Waits(Top) \cup S
  BY <1>2
<1> HIDE DEF exit
<1>5. Reached(S2, h, order, created, exit, Front(frames), flow', loose')
  BY <1>1, <1>3, <1>4, FollowedState, ReturnReached
<1>6. Tidy(h, order, exit, Front(frames))
  BY <1>2, FollowedState, ReturnTidy DEF exit
<1> HIDE DEF S2
<1> QED BY <1>5, <1>6, FollowedStep DEF exit

\* The innermost handler goes on with its body.
LEMMA ReplaceFollowed ==
  ASSUME Inv, phase = "body", OrderedNow, NEW S, FollowedNow(S), frames # <<>>,
         Top.kind \in {"else", "do", "whileCond", "forCond"}, NEW f \in Frames,
         f.exit = Top.exit, f.body = NULL, f.head = Top.head,
         f.kind \in LoopKinds => Top.kind \in LoopKinds,
         NEW h, NEW T \in SUBSET Blocks, Closed(With(S, current, T), h), Ends(g, h, order, current),
         flow \in SUBSET Flows, flow' \in SUBSET Flows, flow \subseteq flow',
         current \in S => T \subseteq {Top.exit, Top.body} \cup S,
         Top.kind = "else" /\ SomeLive(flow', Top.atBody) => SomeLive(flow', loose'),
         current \in S /\ Top.body \in T => SomeLive(flow', loose'),
         current \in S /\ Top.exit \in T
            => f.kind \in {"if", "rhs", "while", "for"} /\ SomeLive(flow', f.atExit),
         g' = h, order' = order, created' = created, current' = Top.body,
         frames' = Append(Front(frames), f)
  PROVE  FollowedNext
<1> DEFINE exit == Top.exit
           body == Top.body
           S2 == With(S, current, T)
<1>1. exit \in Blocks /\ exit \in Waits(Top) /\ body \in Blocks /\ body \in Waits(Top)
  BY TopFrame DEF Shaped
<1>2. Waits(Top) = {exit, body} /\ Waits(f) = {exit}
  BY <1>1, CfgAssumption DEF Waits
<1>3. body \in S2 => SomeLive(flow', loose')
  <2>1. body \in S => Top.kind = "else" /\ SomeLive(flow, Top.atBody)
    BY TopFollowed DEF FrameReached
  <2>2. SomeLive(flow, Top.atBody) => SomeLive(flow', Top.atBody)
    BY LiveGrows
  <2> QED BY <2>1, <2>2 DEF With
<1>4. current \in S => T \subseteq Waits(Top) \cup S
  BY <1>2
<1>5. FrameReached(S2, flow', f)
  <2>1. exit \notin S
    BY TopFollowed DEF FrameReached
  <2>2. NULL \notin S2
    BY FollowedState, ReachedTypes, CfgAssumption DEF With
  <2> QED BY <2>1, <2>2 DEF FrameReached, With
<1> HIDE DEF exit, body
<1>6. Reached(S2, h, order, created, body, Append(Front(frames), f), flow', loose')
  <2>1. Waits(f) \subseteq Waits(Top)
    BY <1>2
  <2> QED BY <1>1, <1>3, <1>4, <1>5, <2>1, FollowedState, ReturnReached
<1>7. Tidy(h, order, body, Append(Front(frames), f))
  <2>1. Waits(Top) \subseteq {body} \cup Waits(f)
    BY <1>2
  <2> QED BY <2>1, FollowedState, ReturnTidy
<1> HIDE DEF S2
<1> QED BY <1>6, <1>7, FollowedStep DEF body

\* What is joined at the exit of the innermost handler is live there.
LEMMA JoinLive ==
  ASSUME NEW fl, NEW from, NEW more
  PROVE  SomeLive(fl, from) \/ SomeLive(fl, more) => SomeLive(fl, from \cup more)
BY DEF SomeLive

\* The right operand of && and ||.
LEMMA LogicRightFollowed ==
  ASSUME Inv, OrderedNow, NEW S, FollowedNow(S), LogicRight
  PROVE  FollowedNext
<1> DEFINE exit == Top.exit
           h == ResetTo(WithOp(g, NextPoint), current, exit)
           T == {exit}
           leaving == {<<NextPoint, "any">>} \cup Top.atExit
<1>1. /\ phase = "body" /\ frames # <<>> /\ Top.kind = "rhs" /\ points < MaxPoints
      /\ g' = h /\ current' = exit /\ frames' = Front(frames)
      /\ order' = order /\ created' = created /\ Evaluate({}, leaving)
  BY DEF LogicRight, In, Pop, SweepState, Evaluate
<1>2. exit \in Blocks /\ exit \in Waits(Top) /\ g.branch[exit] = NULL /\ exit # NULL
  BY <1>1, TopFrame, TopFollowed, CfgAssumption
<1>3. NextPoint \in Values /\ leaving \in SUBSET Leaving
  BY <1>1, BodyState, NextPointType, OutcomeTypes, TopFrame
<1>4. Rewired(g, h, current, NULL, exit, NULL)
  <2> HIDE DEF exit
  <2> QED BY <1>1, <1>2, <1>3, BodyState, OpJumpRewired DEF WithOp
<1> HIDE DEF h
<1>5. Closed(With(S, current, T), h)
  <2> HIDE DEF exit
  <2> QED BY <1>1, <1>2, <1>4, JumpSpread, FollowedState
<1>6. Ends(g, h, order, current)
  <2> HIDE DEF exit
  <2> QED BY <1>1, <1>2, <1>4, RewiredEnds, FollowedState
<1>7. /\ flow \in SUBSET Flows /\ flow' \in SUBSET Flows /\ flow \subseteq flow'
      /\ loose' = leaving
      /\ SomeLive(flow, loose) => NextPoint \in LiveIn(flow')
  BY <1>1, <1>3, EvaluateLive
<1>8. SomeLive(flow', Top.atExit) => SomeLive(flow', loose')
  BY <1>7, JoinLive
<1>9. current \in S => SomeLive(flow', loose')
  <2>1. <<NextPoint, "any">> \in leaving /\ <<NextPoint, "any">>[1] = NextPoint
    OBVIOUS
  <2> HIDE DEF leaving
  <2>2. SomeLive(flow, loose) => SomeLive(flow', leaving)
    BY <1>7, <2>1 DEF SomeLive
  <2> QED BY <1>1, <1>7, <2>2, FollowedState, ReachedTypes
<1>10. T \in SUBSET Blocks /\ T = {Top.exit} /\ Top.kind \in LastPart
  BY <1>1, <1>2 DEF LastPart
<1> HIDE DEF exit, T, leaving
<1> QED BY <1>1, <1>5, <1>6, <1>7, <1>8, <1>9, <1>10, PopFollowed DEF exit

\* The end of an if.
LEMMA EndIfFollowed ==
  ASSUME Inv, OrderedNow, NEW S, FollowedNow(S), EndIf
  PROVE  FollowedNext
<1> DEFINE exit == Top.exit
           h == ResetTo(g, current, exit)
           T == {exit}
           leaving == loose \cup Top.atExit
<1>1. /\ phase = "body" /\ frames # <<>> /\ Top.kind = "if"
      /\ g' = h /\ current' = exit /\ frames' = Front(frames)
      /\ order' = order /\ created' = created /\ flow' = flow /\ loose' = leaving
  BY DEF EndIf, In, Pop, SweepState, NoPoint
<1>2. exit \in Blocks /\ exit \in Waits(Top) /\ g.branch[exit] = NULL /\ exit # NULL
  BY <1>1, TopFrame, TopFollowed, CfgAssumption
<1>3. Rewired(g, h, current, NULL, exit, NULL)
  <2> HIDE DEF exit
  <2> QED BY <1>1, <1>2, BodyState, JumpRewired
<1> HIDE DEF h
<1>4. Closed(With(S, current, T), h) /\ Ends(g, h, order, current)
  <2> HIDE DEF exit
  <2>1. Closed(With(S, current, T), h)
    BY <1>1, <1>2, <1>3, JumpSpread, FollowedState
  <2>2. Ends(g, h, order, current)
    BY <1>1, <1>2, <1>3, RewiredEnds, FollowedState
  <2> QED BY <2>1, <2>2
<1>5. flow \in SUBSET Flows /\ flow' \in SUBSET Flows /\ flow \subseteq flow'
  BY <1>1, BodyState DEF Source
<1>6. SomeLive(flow', Top.atExit) => SomeLive(flow', loose')
  BY <1>1, JoinLive
<1>7. current \in S => SomeLive(flow', loose')
  BY <1>1, JoinLive, FollowedState, ReachedTypes
<1>8. T \in SUBSET Blocks /\ T = {Top.exit} /\ Top.kind \in LastPart
  BY <1>1, <1>2 DEF LastPart
<1> HIDE DEF exit, T, leaving
<1> QED BY <1>1, <1>4, <1>5, <1>6, <1>7, <1>8, PopFollowed DEF exit

\* The condition of a do statement.
LEMMA DoTestFollowed ==
  ASSUME NEW v \in Conditions(NextPoint), Inv, OrderedNow, NEW S, FollowedNow(S), DoTest(v)
  PROVE  FollowedNext
<1> DEFINE exit == Top.exit
           head == Top.head
           h == ResetBranch(WithOp(g, NextPoint), current, v, head, exit)
           T == Taken(v, head, exit)
           back == Join(Holds(NextPoint, v), Top.first)
<1>1. /\ phase = "body" /\ frames # <<>> /\ Top.kind = "doCond" /\ points < MaxPoints
      /\ g' = h /\ current' = exit /\ frames' = Front(frames)
      /\ order' = order /\ created' = created /\ Evaluate(back, Fails(NextPoint, v))
  BY DEF DoTest, In, Pop, SweepState, Evaluate
<1>2. /\ exit \in Blocks /\ exit \in Waits(Top) /\ g.branch[exit] = NULL /\ exit # NULL
      /\ head \in Blocks /\ head # exit /\ head # NULL /\ (current \in S => head \in S)
  BY <1>1, TopFrame, TopFollowed, CfgAssumption DEF Shaped, LoopKinds
<1>3. /\ NextPoint \in Values /\ v \in Values /\ Fails(NextPoint, v) \in SUBSET Leaving
      /\ back \in SUBSET Flows
  BY <1>1, BodyState, NextPointType, OutcomeTypes, TopFrame, JoinType
<1>4. Rewired(g, h, current, v, head, exit)
  <2> HIDE DEF exit, head
  <2> QED BY <1>1, <1>2, <1>3, BodyState, ConditionRewired DEF WithOp
<1> HIDE DEF h
<1>5. Closed(With(S, current, T), h) /\ Ends(g, h, order, current)
  <2> HIDE DEF exit, head
  <2>1. Closed(With(S, current, T), h)
    BY <1>1, <1>2, <1>4, BranchSpread, FollowedState
  <2>2. Ends(g, h, order, current)
    BY <1>1, <1>2, <1>4, RewiredEnds, FollowedState
  <2> QED BY <2>1, <2>2
<1> HIDE DEF back
<1>6. /\ flow \in SUBSET Flows /\ flow' \in SUBSET Flows /\ flow \subseteq flow'
      /\ loose' = Fails(NextPoint, v)
      /\ SomeLive(flow, loose) => NextPoint \in LiveIn(flow')
  BY <1>1, <1>3, EvaluateLive
<1>7. current \in S /\ exit \in T => SomeLive(flow', loose')
  <2> HIDE DEF exit, head
  <2>1. current \in S => NextPoint \in LiveIn(flow')
    BY <1>1, <1>6, FollowedState, ReachedTypes
  <2> QED BY <1>2, <1>6, <2>1, TakenLive
<1>8. T \in SUBSET Blocks /\ (current \in S => T \subseteq {Top.exit} \cup S) /\ Top.kind \in LastPart
  BY <1>1, <1>2 DEF LastPart, Taken
<1> HIDE DEF exit, T
<1> QED BY <1>1, <1>5, <1>6, <1>7, <1>8, PopFollowed DEF exit

\* The end of a loop.
LEMMA EndLoopFollowed ==
  ASSUME Inv, OrderedNow, NEW S, FollowedNow(S), EndLoop
  PROVE  FollowedNext
<1> DEFINE exit == Top.exit
           head == Top.head
           h == ResetTo(g, current, head)
           T == {head}
           back == LoopBack(Top, loose)
<1>1. /\ phase = "body" /\ frames # <<>> /\ Top.kind \in {"while", "for"}
      /\ g' = h /\ current' = exit /\ frames' = Front(frames)
      /\ order' = order /\ created' = created /\ NoPoint(back, Top.atExit)
  BY DEF EndLoop, In, Pop, SweepState
<1>2. /\ exit \in Blocks /\ head \in Blocks /\ head # exit /\ head # NULL
      /\ (current \in S => head \in S)
  BY <1>1, TopFrame, TopFollowed, CfgAssumption DEF Shaped, LoopKinds
<1>3. back \in SUBSET Flows
  BY <1>1, BodyState, TopFrame, LoopBackType
<1>4. Rewired(g, h, current, NULL, head, NULL)
  <2> HIDE DEF head
  <2> QED BY <1>1, <1>2, BodyState, JumpRewired
<1> HIDE DEF h
<1>5. Closed(With(S, current, T), h) /\ Ends(g, h, order, current)
  <2> HIDE DEF head
  <2>1. Closed(With(S, current, T), h)
    BY <1>1, <1>2, <1>4, JumpSpread, FollowedState
  <2>2. Ends(g, h, order, current)
    BY <1>1, <1>2, <1>4, RewiredEnds, FollowedState
  <2> QED BY <2>1, <2>2
<1> HIDE DEF back
<1>6. flow \in SUBSET Flows /\ flow' \in SUBSET Flows /\ flow \subseteq flow' /\ loose' = Top.atExit
  BY <1>1, <1>3, NoPointLive
<1>7. /\ T \in SUBSET Blocks /\ (current \in S => T \subseteq {Top.exit} \cup S)
      /\ Top.exit \notin T /\ Top.kind \in LastPart
  BY <1>1, <1>2 DEF LastPart
<1> HIDE DEF exit, T
<1> QED BY <1>1, <1>5, <1>6, <1>7, PopFollowed DEF exit

\* The end of an else.
LEMMA EndElseFollowed ==
  ASSUME Inv, OrderedNow, NEW S, FollowedNow(S), EndElse
  PROVE  FollowedNext
<1> DEFINE exit == Top.exit
           body == Top.body
           f == [Top EXCEPT !.kind = "if", !.atExit = loose, !.body = NULL]
           h == ResetTo(g, current, exit)
           T == {exit}
<1>1. /\ phase = "body" /\ frames # <<>> /\ Top.kind = "else"
      /\ g' = h /\ current' = body /\ frames' = Append(Front(frames), f)
      /\ order' = order /\ created' = created /\ flow' = flow /\ loose' = Top.atBody
  BY DEF EndElse, In, Replace, SweepState, NoPoint
<1>2. /\ exit \in Blocks /\ exit \in Waits(Top) /\ g.branch[exit] = NULL /\ exit # NULL
      /\ body # exit
  BY <1>1, TopFrame, TopFollowed, CfgAssumption DEF Shaped
<1>3. /\ f \in Frames /\ f.kind = "if" /\ f.exit = Top.exit /\ f.body = NULL
      /\ f.head = Top.head /\ f.atExit = loose
  BY <1>1, TopFrame, BodyState DEF Frames, Optional
<1> HIDE DEF f
<1>4. Rewired(g, h, current, NULL, exit, NULL)
  <2> HIDE DEF exit
  <2> QED BY <1>1, <1>2, BodyState, JumpRewired
<1> HIDE DEF h
<1>5. Closed(With(S, current, T), h) /\ Ends(g, h, order, current)
  <2> HIDE DEF exit
  <2>1. Closed(With(S, current, T), h)
    BY <1>1, <1>2, <1>4, JumpSpread, FollowedState
  <2>2. Ends(g, h, order, current)
    BY <1>1, <1>2, <1>4, RewiredEnds, FollowedState
  <2> QED BY <2>1, <2>2
<1>6. flow \in SUBSET Flows /\ flow' \in SUBSET Flows /\ flow \subseteq flow'
  BY <1>1, BodyState DEF Source
<1>7. current \in S => SomeLive(flow', f.atExit)
  BY <1>1, <1>3, FollowedState, ReachedTypes
<1>8. /\ T \in SUBSET Blocks /\ T \subseteq {Top.exit, Top.body} \cup S /\ Top.body \notin T
      /\ f.kind \notin LoopKinds
  BY <1>2, <1>3 DEF LoopKinds
<1> HIDE DEF exit, T
<1> QED BY <1>1, <1>3, <1>5, <1>6, <1>7, <1>8, ReplaceFollowed DEF body

\* The end of a do body.
LEMMA EndDoBodyFollowed ==
  ASSUME Inv, OrderedNow, NEW S, FollowedNow(S), EndDoBody
  PROVE  FollowedNext
<1> DEFINE body == Top.body
           f == [Top EXCEPT !.kind = "doCond", !.body = NULL]
           h == ResetTo(g, current, body)
           T == {body}
<1>1. /\ phase = "body" /\ frames # <<>> /\ Top.kind = "do"
      /\ g' = h /\ current' = body /\ frames' = Append(Front(frames), f)
      /\ order' = order /\ created' = created /\ flow' = flow /\ loose' = loose
  BY DEF EndDoBody, In, Replace, SweepState
<1>2. /\ body \in Blocks /\ body \in Waits(Top) /\ g.branch[body] = NULL /\ body # NULL
      /\ body # Top.exit
  BY <1>1, TopFrame, TopFollowed, CfgAssumption DEF Shaped
<1>3. /\ f \in Frames /\ f.kind = "doCond" /\ f.exit = Top.exit /\ f.body = NULL
      /\ f.head = Top.head
  BY <1>1, TopFrame, BodyState DEF Frames, Optional
<1> HIDE DEF f
<1>4. Rewired(g, h, current, NULL, body, NULL)
  <2> HIDE DEF body
  <2> QED BY <1>1, <1>2, BodyState, JumpRewired
<1> HIDE DEF h
<1>5. Closed(With(S, current, T), h) /\ Ends(g, h, order, current)
  <2> HIDE DEF body
  <2>1. Closed(With(S, current, T), h)
    BY <1>1, <1>2, <1>4, JumpSpread, FollowedState
  <2>2. Ends(g, h, order, current)
    BY <1>1, <1>2, <1>4, RewiredEnds, FollowedState
  <2> QED BY <2>1, <2>2
<1>6. flow \in SUBSET Flows /\ flow' \in SUBSET Flows /\ flow \subseteq flow'
  BY <1>1, BodyState DEF Source
<1>7. current \in S => SomeLive(flow', loose')
  BY <1>1, FollowedState, ReachedTypes
<1>8. /\ T \in SUBSET Blocks /\ T \subseteq {Top.exit, Top.body} \cup S /\ Top.exit \notin T
      /\ Top.kind \in LoopKinds
  BY <1>1, <1>2 DEF LoopKinds
<1> HIDE DEF T
<1> QED BY <1>1, <1>3, <1>5, <1>6, <1>7, <1>8, ReplaceFollowed

\* The condition of a while or for statement.
LEMMA LoopTestFollowed ==
  ASSUME NEW v \in Conditions(NextPoint), NEW kind \in {"while", "for"},
         NEW cond \in {"whileCond", "forCond"}, Inv, OrderedNow, NEW S, FollowedNow(S),
         LoopTest(v, kind, cond)
  PROVE  FollowedNext
<1> DEFINE exit == Top.exit
           body == Top.body
           off == Fails(NextPoint, v)
           f == [Top EXCEPT !.kind = kind, !.atExit = off, !.body = NULL]
           h == ResetBranch(WithOp(g, NextPoint), current, v, body, exit)
           T == Taken(v, body, exit)
<1>1. /\ phase = "body" /\ frames # <<>> /\ Top.kind = cond /\ points < MaxPoints
      /\ g' = h /\ current' = body /\ frames' = Append(Front(frames), f)
      /\ order' = order /\ created' = created /\ Evaluate({}, Holds(NextPoint, v))
  BY DEF LoopTest, In, Replace, SweepState, Evaluate
<1>2. /\ exit \in Blocks /\ exit \in Waits(Top) /\ g.branch[exit] = NULL /\ exit # NULL
      /\ body \in Blocks /\ body \in Waits(Top) /\ g.branch[body] = NULL /\ body # NULL
      /\ body # exit
  BY <1>1, TopFrame, TopFollowed, CfgAssumption DEF Shaped
<1>3. /\ NextPoint \in Values /\ v \in Values
      /\ off \in SUBSET Leaving /\ Holds(NextPoint, v) \in SUBSET Leaving
  BY <1>1, BodyState, NextPointType, OutcomeTypes
<1>4. /\ f \in Frames /\ f.kind = kind /\ f.exit = Top.exit /\ f.body = NULL
      /\ f.head = Top.head /\ f.atExit = off
  <2> HIDE DEF off
  <2> QED BY <1>1, <1>3, TopFrame, BodyState DEF Frames, Optional
<1> HIDE DEF f
<1>5. Rewired(g, h, current, v, body, exit)
  <2> HIDE DEF exit, body
  <2> QED BY <1>1, <1>2, <1>3, BodyState, ConditionRewired DEF WithOp
<1> HIDE DEF h
<1>6. Closed(With(S, current, T), h) /\ Ends(g, h, order, current)
  <2> HIDE DEF exit, body
  <2>1. Closed(With(S, current, T), h)
    BY <1>1, <1>2, <1>5, BranchSpread, FollowedState
  <2>2. Ends(g, h, order, current)
    BY <1>1, <1>2, <1>5, RewiredEnds, FollowedState
  <2> QED BY <2>1, <2>2
<1>7. /\ flow \in SUBSET Flows /\ flow' \in SUBSET Flows /\ flow \subseteq flow'
      /\ loose' = Holds(NextPoint, v)
      /\ SomeLive(flow, loose) => NextPoint \in LiveIn(flow')
  BY <1>1, <1>3, EvaluateLive
<1>8. current \in S => /\ body \in T => SomeLive(flow', loose')
                       /\ exit \in T => SomeLive(flow', f.atExit)
  <2> HIDE DEF exit, body
  <2>1. current \in S => NextPoint \in LiveIn(flow')
    BY <1>1, <1>7, FollowedState, ReachedTypes
  <2> QED BY <1>2, <1>4, <1>7, <2>1, TakenLive
<1>9. T \in SUBSET Blocks /\ T \subseteq {Top.exit, Top.body} \cup S
  BY <1>2 DEF Taken
<1>10. Top.kind \in {"else", "do", "whileCond", "forCond"} /\ Top.kind \in LoopKinds
       /\ Top.kind # "else" /\ f.kind \in {"if", "rhs", "while", "for"}
  BY <1>1, <1>4 DEF LoopKinds
<1> HIDE DEF T, off, exit
<1> QED BY <1>1, <1>4, <1>6, <1>7, <1>8, <1>9, <1>10, ReplaceFollowed DEF exit

\* The handlers stay, and control is nowhere it was not before.
LEMMA FramesStay ==
  ASSUME Inv, phase = "body", NEW S, ReachedNow(S), NEW fl2 \in SUBSET Flows,
         flow \in SUBSET Flows, flow \subseteq fl2, NEW cur2, current \notin S => cur2 \notin S
  PROVE  FramesReached(S, cur2, frames, fl2)
<1> DEFINE n == Len(frames)
<1>1. S \in SUBSET Blocks /\ FramesReached(S, current, frames, flow) /\ Len(frames) \in Nat
  BY BodyState, ReachedTypes
<1>2. n + 1 .. n = {} /\ n \in Nat /\ n <= n /\ n = Len(frames)
  BY <1>1
<1>3. TopWaits(frames, n) = {}
  BY <1>2 DEF TopWaits
<1> HIDE DEF n
<1>4. current \notin S => ({cur2} \cup TopWaits(frames, n)) \cap S \subseteq TopWaits(frames, n)
  BY <1>3
<1>5. \A i \in 1 .. n : Waits(frames[i]) \cap S \subseteq S
  OBVIOUS
<1>6. Carried(n, frames, frames, flow, fl2, S, S, current, cur2)
  BY <1>1, <1>2, <1>4, <1>5 DEF Carried
<1>7. n + 1 .. Len(frames) = {}
  BY <1>2
<1> QED BY <1>1, <1>6, <1>7, FramesStep

\* An expression.
LEMMA ExpressionFollowed ==
  ASSUME Inv, OrderedNow, NEW S, FollowedNow(S), Expression
  PROVE  FollowedNext
<1> DEFINE h == WithOp(g, NextPoint)
           leaving == {<<NextPoint, "any">>}
<1>1. /\ phase = "body" /\ points < MaxPoints /\ g' = h /\ Evaluate({}, leaving)
      /\ order' = order /\ created' = created /\ current' = current /\ frames' = frames
  BY DEF Expression, InStatements, In, SweepState, Evaluate
<1>2. leaving \in SUBSET Leaving
  BY <1>1, BodyState, NextPointType, OutcomeTypes
<1>3. h.branch = g.branch /\ h.branchElse = g.branchElse /\ h.control = g.control
  BY <1>1, BodyState, OpOnlyAt DEF WithOp, Good, Edges
<1> HIDE DEF h
<1>4. /\ flow \in SUBSET Flows /\ flow' \in SUBSET Flows /\ flow \subseteq flow'
      /\ loose' = leaving
      /\ SomeLive(flow, loose) => NextPoint \in LiveIn(flow')
  BY <1>1, <1>2, EvaluateLive
<1>5. /\ S \in SUBSET Blocks /\ S \subseteq 1 .. created /\ Closed(S, g) /\ order[1] \in S
      /\ FramesReached(S, current, frames, flow) /\ Len(frames) \in Nat
  BY <1>1, FollowedState, ReachedTypes
<1>6. Closed(S, h)
  BY <1>3, <1>5 DEF Closed, Leads, Succ
<1>7. current \in S => SomeLive(flow', loose')
  <2>1. <<NextPoint, "any">> \in leaving /\ <<NextPoint, "any">>[1] = NextPoint
    OBVIOUS
  <2> HIDE DEF leaving
  <2>2. SomeLive(flow, loose) => SomeLive(flow', leaving)
    BY <1>4, <2>1 DEF SomeLive
  <2> QED BY <1>1, <1>4, <2>2, FollowedState, ReachedTypes
<1>8. FramesReached(S, current, frames, flow')
  BY <1>1, <1>4, FollowedState, FramesStay
<1>9. Tidy(h, order, current, frames)
  BY <1>1, <1>3, FollowedState DEF Tidy
<1>10. Reached(S, h, order, created, current, frames, flow', loose')
  BY <1>5, <1>6, <1>7, <1>8 DEF Reached, Entered
<1> QED BY <1>1, <1>9, <1>10, FollowedStep

\* Control leaves: nothing leads to the new block.
LEMMA LeaveFollowed ==
  ASSUME Inv, phase = "body", OrderedNow, NEW S, FollowedNow(S), NEW h, Leave(h),
         NEW S2, S \subseteq S2, S2 \subseteq 1 .. created, Closed(S2, h), Ends(g, h, order, current),
         FramesReached(S2, current', frames', flow'),
         Tidy(h, order', current', frames) => Tidy(h, order', current', frames')
  PROVE  FollowedNext
<1> DEFINE new == Fresh(1)
<1>1. /\ New(1) /\ PutAfter(current, <<new>>) /\ g' = h /\ current' = new
  BY DEF Leave
<1>2. /\ new \in Blocks /\ new \in created + 1 .. created + 1
      /\ created' = created + 1 /\ created + 1 \in Blocks
  BY <1>1, NewBlocks
<1> HIDE DEF new
<1>3. order'[1] = order[1] /\ Tidy(h, order', new, frames)
  BY <1>1, <1>2, FollowedState, LeaveTidy
<1>4. created \in Nat /\ order[1] \in S
  BY FollowedState, ReachedTypes
<1>5. S2 \subseteq 1 .. created + 1 /\ new \notin S2
  <2>1. 1 .. created \subseteq 1 .. created + 1 /\ new \notin 1 .. created
    BY <1>2, <1>4
  <2> QED BY <2>1
<1>6. Reached(S2, h, order', created', new, frames', flow', loose')
  BY <1>1, <1>2, <1>3, <1>4, <1>5 DEF Reached, Entered
<1> QED BY <1>1, <1>3, <1>6, FollowedStep

\* ... also when it was jumped from to a block that was reached, or to none.
LEMMA LeaveSame ==
  ASSUME Inv, phase = "body", OrderedNow, NEW S, FollowedNow(S), NEW h, Leave(h), frames' = frames,
         NEW to, to # NULL, Rewired(g, h, current, NULL, to, NULL),
         current \in S => to \in S \/ to \notin Blocks,
         flow \in SUBSET Flows, flow' \in SUBSET Flows, flow \subseteq flow'
  PROVE  FollowedNext
<1>1. /\ S \in SUBSET Blocks /\ S \subseteq 1 .. created /\ Closed(S, g) /\ created \in Nat
  BY FollowedState, ReachedTypes
<1>2. WellShaped(g) /\ current \in Blocks
  BY BodyState DEF Good, Edges
<1>3. Closed(S, h)
  <2> DEFINE T == {}
  <2>1. Leads(h, current) = {to} \cap Blocks /\ \A b \in Blocks \ {current} : Leads(h, b) = Leads(g, b)
    BY <1>2, RewiredLeads
  <2>2. T \in SUBSET Blocks /\ (current \in S => Leads(h, current) \subseteq S \cup T)
        /\ (current \in S => \A t \in T : t \in S \/ g.branch[t] = NULL)
        /\ With(S, current, T) = S
    BY <2>1 DEF With
  <2> HIDE DEF T
  <2>3. Closed(With(S, current, T), h)
    BY <1>1, <1>2, <2>1, <2>2, Spread
  <2> QED BY <2>2, <2>3
<1>4. Ends(g, h, order, current)
  BY <1>2, RewiredEnds, FollowedState
<1>5. current' \notin S
  <2>1. current' = Fresh(1) /\ New(1)
    BY DEF Leave
  <2>2. current' \in created + 1 .. created + 1
    BY <2>1, NewBlocks
  <2>3. current' \notin 1 .. created
    BY <1>1, <2>2
  <2> QED BY <1>1, <2>3
<1>6. FramesReached(S, current', frames, flow')
  BY <1>5, FollowedState, FramesStay
<1> QED BY <1>1, <1>3, <1>4, <1>6, LeaveFollowed

\* return with a value.
LEMMA ReturnValueFollowed ==
  ASSUME Inv, OrderedNow, NEW S, FollowedNow(S), ReturnValue
  PROVE  FollowedNext
<1> DEFINE gr == WithOp(g, NextPoint)
           h == AssertThat(TryMarkAsTerminal(gr, current, TRUE), MarkReturns(gr, current, TRUE))
           more == {<<NextPoint, "any", EXIT>>}
<1>1. /\ phase = "body" /\ Leave(h) /\ points < MaxPoints /\ Evaluate(more, {}) /\ frames' = frames
  BY DEF ReturnValue, InStatements, In, SweepState, Evaluate
<1>2. NextPoint \in Values /\ NextPoint \in 0 .. MaxPoints
  BY <1>1, BodyState, NextPointType
<1>3. more \in SUBSET Flows /\ {} \in SUBSET Leaving
  BY <1>2, TranslatorAssumption DEF EXIT, Flows
<1> HIDE DEF more
<1>4. Good(gr, Blocks) /\ OnlyAt(g, gr, current) /\ gr.branch[current] = NULL
  BY <1>1, <1>2, BodyState, OpStep, OpOnlyAt DEF WithOp, Good, Edges
<1>5. MarkReturns(gr, current, TRUE)
  BY <1>4 DEF MarkReturns, IsIncomplete
<1> HIDE DEF gr
<1>6. Rewired(gr, h, current, NULL, TERMINAL, NULL)
  BY <1>1, <1>4, <1>5, BodyState, AssertedMarkRewired
<1> HIDE DEF h
<1>7. Rewired(g, h, current, NULL, TERMINAL, NULL)
  BY <1>4, <1>6, RewiredTwice
<1>8. flow \in SUBSET Flows /\ flow' \in SUBSET Flows /\ flow \subseteq flow'
  BY <1>1, <1>3, EvaluateLive
<1> QED BY <1>1, <1>7, <1>8, CfgAssumption, LeaveSame

\* return without a value.
LEMMA ReturnVoidFollowed ==
  ASSUME Inv, OrderedNow, NEW S, FollowedNow(S), ReturnVoid
  PROVE  FollowedNext
<1> DEFINE h == AssertThat(TryMarkAsTerminal(g, current, FALSE), MarkReturns(g, current, FALSE))
           more == Join(loose, EXIT)
<1>1. /\ phase = "body" /\ Leave(h) /\ NoPoint(more, {}) /\ frames' = frames /\ g.void
  BY DEF ReturnVoid, InStatements, In, SweepState
<1>2. more \in SUBSET Flows
  BY <1>1, BodyState, JoinType, TranslatorAssumption DEF EXIT
<1> HIDE DEF more
<1>3. MarkReturns(g, current, FALSE)
  BY <1>1, BodyState DEF MarkReturns, IsIncomplete
<1>4. Rewired(g, h, current, NULL, TERMINAL, NULL)
  BY <1>1, <1>3, BodyState, AssertedMarkRewired
<1> HIDE DEF h
<1>5. flow \in SUBSET Flows /\ flow' \in SUBSET Flows /\ flow \subseteq flow'
  BY <1>1, <1>2, NoPointLive
<1> QED BY <1>1, <1>4, <1>5, CfgAssumption, LeaveSame

\* What is known of the handler of the innermost loop.
LEMMA InnerFollowed ==
  ASSUME Inv, phase = "body", OrderedNow, NEW S, FollowedNow(S), LoopFrames # {}, current \in S
  PROVE  frames[InnerLoop].head \in S
<1>1. InnerLoop \in 1 .. Len(frames) /\ frames[InnerLoop].kind \in LoopKinds
  BY InnerLoopIs DEF Loops, LoopKinds
<1>2. FramesReached(S, current, frames, flow)
  BY FollowedState, ReachedTypes
<1> QED BY <1>1, <1>2 DEF FramesReached, Inside

\* continue.
LEMMA ContinueFollowed ==
  ASSUME Inv, OrderedNow, NEW S, FollowedNow(S), Continue
  PROVE  FollowedNext
<1> DEFINE head == frames[InnerLoop].head
           h == ResetTo(g, current, head)
           back == LoopBack(frames[InnerLoop], loose)
<1>1. /\ phase = "body" /\ LoopFrames # {} /\ Leave(h) /\ NoPoint(back, {}) /\ frames' = frames
  BY DEF Continue, InWhile, InStatements, In, SweepState
<1>2. head \in Blocks /\ head # NULL /\ back \in SUBSET Flows
  BY <1>1, InnerLoopIs, BodyState, LoopBackType, CfgAssumption DEF Shaped, Loops
<1>3. current \in S => head \in S
  BY <1>1, InnerFollowed
<1> HIDE DEF head, back
<1>4. Rewired(g, h, current, NULL, head, NULL)
  BY <1>1, <1>2, BodyState, JumpRewired
<1> HIDE DEF h
<1>5. flow \in SUBSET Flows /\ flow' \in SUBSET Flows /\ flow \subseteq flow'
  BY <1>1, <1>2, NoPointLive
<1> QED BY <1>1, <1>2, <1>3, <1>4, <1>5, LeaveSame

\* What a handler notes about the source moves no block of it.
Noted(fs, gs) ==
  /\ Len(gs) = Len(fs)
  /\ \A j \in 1 .. Len(fs) : /\ gs[j].kind = fs[j].kind /\ gs[j].head = fs[j].head
                             /\ gs[j].body = fs[j].body /\ gs[j].exit = fs[j].exit

\* Handlers that have noted where control leaves stand where they stood.
LEMMA NotedTidy ==
  ASSUME NEW fs, NEW gs, Noted(fs, gs), Len(fs) \in Nat,
         NEW gr, NEW ord, NEW cur, Tidy(gr, ord, cur, fs)
  PROVE  Tidy(gr, ord, cur, gs)
<1>1. Pending(gs) = Pending(fs)
  BY DEF Noted, Pending, Waits
<1>2. Len(fs) # 0 => gs[1].exit = fs[1].exit
  BY DEF Noted
<1> QED BY <1>1, <1>2 DEF Noted, Tidy

\* The exit of a loop that is broken out of is reached from there.
LEMMA BreakReached ==
  ASSUME Inv, phase = "body", OrderedNow, NEW S, FollowedNow(S),
         NEW i \in 1 .. Len(frames), frames[i].kind = "while", NEW gs, Noted(frames, gs),
         \A j \in 1 .. Len(frames) :
            gs[j].atExit = (IF j = i THEN frames[i].atExit \cup loose ELSE frames[j].atExit)
            /\ gs[j].atBody = frames[j].atBody,
         NEW new, new \notin With(S, current, {frames[i].exit})
  PROVE  FramesReached(With(S, current, {frames[i].exit}), new, gs, flow)
<1> DEFINE exit == frames[i].exit
           S2 == With(S, current, {exit})
<1>1. /\ S \in SUBSET Blocks /\ FramesReached(S, current, frames, flow)
      /\ (current \in S => SomeLive(flow, loose)) /\ Len(frames) \in Nat
  BY FollowedState, ReachedTypes
<1>2. /\ exit \in Waits(frames[i]) /\ frames[i].body # exit /\ exit \in Blocks
      /\ \A j \in 1 .. Len(frames) : i # j => exit \notin Waits(frames[j])
  <2>1. Waiting(g, order, current, frames)
    BY BodyState DEF Building
  <2>2. frames[i].exit \in Blocks /\ frames[i].body # frames[i].exit
    BY <2>1 DEF Waiting, Shaped, Frames
  <2> QED BY <2>1, <2>2 DEF Waiting, Waits
<1>3. \A j \in 1 .. Len(frames) : /\ frames[j].exit \in Blocks
                                  /\ frames[j].body \in Blocks \/ frames[j].body \notin Blocks
  BY BodyState DEF Building, Waiting, Shaped, Frames
<1>4. S2 \subseteq Blocks /\ S \subseteq S2 /\ (\A b \in S2 : b \in S \/ (b = exit /\ current \in S))
  BY <1>1, <1>2 DEF With
<1> HIDE DEF S2, exit
<1>5. ASSUME NEW j \in 1 .. Len(frames) PROVE FrameReached(S2, flow, gs[j])
  <2>1. FrameReached(S, flow, frames[j])
    BY <1>1 DEF FramesReached
  <2>2. /\ gs[j].kind = frames[j].kind /\ gs[j].body = frames[j].body /\ gs[j].exit = frames[j].exit
        /\ gs[j].atBody = frames[j].atBody
    BY DEF Noted
  <2>3. gs[j].body \in S2 => gs[j].body \in S
    <3>1. CASE j = i
      BY <1>2, <1>4, <2>2, <3>1
    <3>2. CASE j # i
      BY <1>2, <1>4, <2>2, <3>2 DEF Waits
    <3> QED BY <3>1, <3>2
  <2>4. CASE j = i
    <3>1. gs[j].atExit = frames[i].atExit \cup loose
      BY <2>4
    <3>2. gs[j].exit \in S2 => SomeLive(flow, gs[j].atExit)
      BY <1>1, <1>4, <2>1, <2>2, <2>4, <3>1, JoinLive DEF FrameReached
    <3> QED BY <2>1, <2>2, <2>3, <2>4, <3>2 DEF FrameReached
  <2>5. CASE j # i
    <3>1. gs[j].exit \in S2 => gs[j].exit \in S
      BY <1>2, <1>3, <1>4, <2>2, <2>5 DEF Waits
    <3>2. gs[j].atExit = frames[j].atExit
      BY <2>5
    <3> QED BY <2>1, <2>2, <2>3, <3>1, <3>2 DEF FrameReached
  <2> QED BY <2>4, <2>5
<1>6. ASSUME NEW j \in 1 .. Len(frames), gs[j].kind \in LoopKinds, Inside(S2, new, gs, j)
      PROVE  gs[j].head \in S2
  <2>1. frames[j].kind \in LoopKinds /\ gs[j].head = frames[j].head
    BY <1>6 DEF Noted
  <2>2. Inside(S, current, frames, j)
    <3> SUFFICES ASSUME current \notin S PROVE \E l \in j .. Len(frames) : Waits(frames[l]) \cap S # {}
      BY DEF Inside
    <3>1. S2 = S
      BY <1>4
    <3>2. \E l \in j .. Len(gs) : Waits(gs[l]) \cap S # {}
      BY <1>6, <3>1 DEF Inside, S2, exit
    <3>3. PICK l \in j .. Len(frames) : Waits(gs[l]) \cap S # {}
      BY <3>2 DEF Noted
    <3>4. l \in 1 .. Len(frames)
      BY <1>1
    <3>5. Waits(gs[l]) = Waits(frames[l])
      BY <3>4 DEF Noted, Waits
    <3> QED BY <3>3, <3>5
  <2>3. frames[j].head \in S
    BY <1>1, <2>1, <2>2 DEF FramesReached
  <2> QED BY <1>4, <2>1, <2>3
<1>7. Len(gs) = Len(frames)
  BY DEF Noted
<1>8. FramesReached(S2, new, gs, flow)
  BY <1>5, <1>6, <1>7 DEF FramesReached
<1> QED BY <1>8 DEF S2, exit

\* break.
LEMMA BreakFollowed ==
  ASSUME Inv, OrderedNow, NEW S, FollowedNow(S), Break
  PROVE  FollowedNext
<1> DEFINE i == InnerLoop
           exit == frames[i].exit
           h == ResetTo(g, current, exit)
           T == {exit}
           gs == [frames EXCEPT ![i].atExit = @ \cup loose]
<1>1. /\ phase = "body" /\ LoopFrames # {} /\ Leave(h) /\ flow' = flow /\ frames' = gs
      /\ frames[i].kind = "while"
  BY DEF Break, InWhile, InStatements, In, SweepState, NoPoint
<1>2. i \in 1 .. Len(frames) /\ exit \in Blocks /\ exit # NULL /\ exit \in Waits(frames[i])
  BY <1>1, InnerLoopIs, CfgAssumption DEF Frames, Waits
<1> HIDE DEF i
<1>3. /\ S \in SUBSET Blocks /\ S \subseteq 1 .. created /\ created \in Nat
      /\ frames \in Seq(Frames) /\ Len(frames) \in Nat
      /\ \A j \in 1 .. Len(frames) : frames[j] \in Frames /\ Waits(frames[j]) \subseteq 1 .. created
  BY <1>1, FollowedState, ReachedTypes
<1>4. g.branch[exit] = NULL /\ exit \in 1 .. created
  BY <1>1, <1>2, <1>3, WaitsOpen
<1>5. /\ Noted(frames, gs)
      /\ \A j \in 1 .. Len(frames) :
            gs[j].atExit = (IF j = i THEN frames[i].atExit \cup loose ELSE frames[j].atExit)
            /\ gs[j].atBody = frames[j].atBody
  <2> DEFINE f == [frames[i] EXCEPT !.atExit = frames[i].atExit \cup loose]
             hs == [frames EXCEPT ![i] = f]
  <2>1. f \in Frames /\ f.kind = frames[i].kind /\ f.head = frames[i].head /\ f.body = frames[i].body
        /\ f.exit = frames[i].exit /\ f.atExit = frames[i].atExit \cup loose /\ f.atBody = frames[i].atBody
    BY <1>1, <1>2, <1>3, BodyState DEF Frames
  <2>2. gs = hs
    OBVIOUS
  <2> HIDE DEF f
  <2>3. Len(hs) = Len(frames) /\ \A j \in 1 .. Len(frames) : hs[j] = IF j = i THEN f ELSE frames[j]
    BY <1>2, <1>3, <2>1, ExceptSeq
  <2> HIDE DEF gs, hs
  <2> QED BY <2>1, <2>2, <2>3 DEF Noted
<1> HIDE DEF gs
<1>6. Rewired(g, h, current, NULL, exit, NULL)
  <2> HIDE DEF exit
  <2> QED BY <1>1, <1>2, BodyState, JumpRewired
<1> HIDE DEF h
<1>7. Closed(With(S, current, T), h) /\ Ends(g, h, order, current)
  <2> HIDE DEF exit
  <2>1. Closed(With(S, current, T), h)
    BY <1>1, <1>2, <1>4, <1>6, JumpSpread, FollowedState
  <2>2. Ends(g, h, order, current)
    BY <1>1, <1>2, <1>6, RewiredEnds, FollowedState
  <2> QED BY <2>1, <2>2
<1>8. With(S, current, T) \subseteq 1 .. created /\ S \subseteq With(S, current, T)
  BY <1>3, <1>4 DEF With
<1>9. current' \notin With(S, current, T)
  <2>1. current' = Fresh(1) /\ New(1)
    BY <1>1 DEF Leave
  <2>2. current' \in created + 1 .. created + 1
    BY <1>1, <2>1, NewBlocks
  <2>3. current' \notin 1 .. created
    BY <1>3, <2>2
  <2> QED BY <1>8, <2>3
<1>10. FramesReached(With(S, current, T), current', frames', flow')
  BY <1>1, <1>2, <1>5, <1>9, BreakReached
<1>11. Tidy(h, order', current', frames) => Tidy(h, order', current', frames')
  <2> DEFINE ord == order'
             cur == current'
  <2>1. Tidy(h, ord, cur, frames) => Tidy(h, ord, cur, gs)
    <3> HIDE DEF ord, cur
    <3> QED BY <1>3, <1>5, NotedTidy
  <2> QED BY <1>1, <2>1
<1> HIDE DEF T
<1> QED BY <1>1, <1>7, <1>8, <1>10, <1>11, LeaveFollowed

\* The statements keep what they are to keep.
LEMMA StatementFollowed ==
  ASSUME Inv, InOrder, phase = "body", phase' = "body", Next, NEW S, FollowedNow(S)
  PROVE  FollowedNext
<1>1. OrderedNow
  BY DEF InOrder, OrderedNow, Ordered
<1>2. CASE \E v \in Conditions(NextPoint) :
             \/ If(v) \/ IfElse(v) \/ DoTest(v) \/ WhileTest(v) \/ ForTest(v)
             \/ \E isAnd \in BOOLEAN : LogicLeft(isAnd, v)
  <2>1. PICK v \in Conditions(NextPoint) :
               \/ If(v) \/ IfElse(v) \/ DoTest(v) \/ WhileTest(v) \/ ForTest(v)
               \/ \E isAnd \in BOOLEAN : LogicLeft(isAnd, v)
    BY <1>2
  <2>2. CASE If(v)
    BY <1>1, <2>2, IfFollowed
  <2>3. CASE IfElse(v)
    BY <1>1, <2>3, IfElseFollowed
  <2>4. CASE DoTest(v)
    BY <1>1, <2>4, DoTestFollowed
  <2>5. CASE WhileTest(v)
    BY <1>1, <2>5, LoopTestFollowed DEF WhileTest
  <2>6. CASE ForTest(v)
    BY <1>1, <2>6, LoopTestFollowed DEF ForTest
  <2>7. CASE \E isAnd \in BOOLEAN : LogicLeft(isAnd, v)
    BY <1>1, <2>7, LogicLeftFollowed
  <2> QED BY <2>1, <2>2, <2>3, <2>4, <2>5, <2>6, <2>7
<1>3. CASE While \/ For
  BY <1>1, <1>3, LoopFollowed DEF While, For
<1>4. CASE Expression \/ LogicRight \/ EndElse \/ EndIf \/ Do \/ EndDoBody
  BY <1>1, <1>4, ExpressionFollowed, LogicRightFollowed, EndElseFollowed, EndIfFollowed,
     DoFollowed, EndDoBodyFollowed
<1>5. CASE EndlessFor \/ EndLoop \/ Break \/ Continue
  BY <1>1, <1>5, EndlessForFollowed, EndLoopFollowed, BreakFollowed, ContinueFollowed
<1>6. CASE ReturnValue \/ ReturnVoid
  BY <1>1, <1>6, ReturnValueFollowed, ReturnVoidFollowed
<1>7. ~ EndFunction /\ ~ Sweep
  BY DEF EndFunction, Sweep, SweepRemove, SweepFold, SweepTerminate, SweepSkip
<1> QED BY <1>2, <1>3, <1>4, <1>5, <1>6, <1>7 DEF Next, Statement

(***************************************************************************)
(* The pass, up to where it aborts.                                        *)
(***************************************************************************)
\* What is left of the function while the pass runs: control is still only where the
\* source can get, and the block the body ended in is the last one to visit, and the only
\* one that may be open.
Settling(S, gr, ord, rs, cur, fl, lo) ==
  /\ S \subseteq Blocks /\ ord[1] \in S /\ Closed(S, gr)
  /\ cur \in S => SomeLive(fl, lo)
  /\ rs # <<>> /\ LastOf(rs) = cur
  /\ \A b \in ToSet(rs) : gr.branch[b] = NULL => b = cur

\* The pass cannot end the block b.
Stuck(gr, ord, b) == ~ gr.void /\ gr.branch[b] = NULL /\ (gr.in[b] # {} \/ b = ord[1])

Explicable ==
  /\ phase = "body" => \E S : Followed(S, g, order, created, current, frames, flow, loose)
  /\ phase \in {"sweep", "aborted"} => \E S : Settling(S, g, order, rest, current, flow, loose)
  /\ phase = "aborted" => Swept(g, order, rest, loops) /\ Stuck(g, order, Head(rest))

\* The end of the body.
LEMMA EndFunctionExplicable ==
  ASSUME Inv, InOrder, Explicable, EndFunction
  PROVE  Explicable'
<1>1. /\ phase = "body" /\ frames = <<>> /\ phase' = "sweep" /\ rest' = order
      /\ flow' = flow \cup Join(loose, EXIT) /\ loose' = loose
      /\ g' = g /\ order' = order /\ current' = current
  BY DEF EndFunction
<1>2. PICK S : FollowedNow(S)
  BY <1>1 DEF Explicable, FollowedNow
<1>3. OrderedNow
  BY <1>1 DEF InOrder, OrderedNow, Ordered
<1>4. /\ S \subseteq Blocks /\ order[1] \in S /\ Closed(S, g)
      /\ (current \in S => SomeLive(flow, loose)) /\ Tidy(g, order, current, frames)
  BY <1>1, <1>2, <1>3, FollowedState, ReachedTypes
<1>5. SomeLive(flow, loose) => SomeLive(flow', loose)
  <2>1. flow \subseteq Flows /\ loose \in SUBSET Leaving
    BY <1>1, BodyState DEF Source
  <2>2. Join(loose, EXIT) \subseteq Flows
    BY <2>1, JoinType, TranslatorAssumption DEF EXIT
  <2> DEFINE fl2 == flow \cup Join(loose, EXIT)
  <2>3. fl2 \subseteq Flows /\ flow \subseteq fl2
    BY <2>1, <2>2
  <2> HIDE DEF fl2
  <2>4. SomeLive(flow, loose) => SomeLive(fl2, loose)
    BY <2>1, <2>3, LiveGrows
  <2> QED BY <1>1, <2>4 DEF fl2
<1>6. /\ LastOf(order) = current /\ order # <<>>
      /\ \A b \in ToSet(order) : g.branch[b] = NULL => b = current
  <2>1. Len(frames) = 0 /\ Pending(frames) = {}
    BY <1>1 DEF Pending
  <2> QED BY <1>4, <2>1 DEF Tidy, InOrder
<1>7. Settling(S, g', order', rest', current', flow', loose')
  BY <1>1, <1>4, <1>5, <1>6 DEF Settling
<1> QED BY <1>1, <1>7 DEF Explicable

\* The rest of a list whose blocks are distinct.
LEMMA RestOf ==
  ASSUME NEW p \in Seq(Blocks), NEW r \in Seq(Blocks), r # <<>>, Distinct(p \o r)
  PROVE  /\ Head(r) \in ToSet(r) /\ Head(r) \notin ToSet(Tail(r)) /\ ToSet(Tail(r)) \subseteq ToSet(r)
         /\ Tail(r) # <<>> => LastOf(Tail(r)) = LastOf(r) /\ LastOf(r) # Head(r)
<1> DEFINE s == p \o r
           b == Head(r)
           t == Tail(r)
           m == Len(p)
           n == Len(r)
<1>1. /\ s \in Seq(Blocks) /\ Len(s) = m + n
      /\ \A i \in 1 .. m + n : s[i] = IF i <= m THEN p[i] ELSE r[i - m]
  BY ConcatProperties
<1>2. /\ t \in Seq(Blocks) /\ Len(t) = n - 1 /\ \A i \in 1 .. n - 1 : t[i] = r[i + 1]
  BY HeadTailProperties
<1>3. m \in Nat /\ n \in Nat \ {0} /\ b = r[1]
  BY LenProperties, EmptySeq
<1>4. Distinct(s)
  OBVIOUS
<1> HIDE DEF s, t, m
<1>5. ASSUME NEW i \in 1 .. n, NEW j \in 1 .. n, r[i] = r[j] PROVE i = j
  <2> HIDE DEF n
  <2>1. m + i \in 1 .. Len(s) /\ m + j \in 1 .. Len(s)
    BY <1>1, <1>3
  <2>2. s[m + i] = r[i] /\ s[m + j] = r[j]
    <3>1. ~ (m + i <= m) /\ ~ (m + j <= m) /\ (m + i) - m = i /\ (m + j) - m = j
          /\ m + i \in 1 .. m + n /\ m + j \in 1 .. m + n
      BY <1>3
    <3> QED BY <1>1, <3>1
  <2>3. m + i = m + j
    BY <1>4, <1>5, <2>1, <2>2 DEF Distinct
  <2> QED BY <1>3, <2>3
<1>6. \A x : x \in ToSet(r) <=> \E i \in 1 .. n : r[i] = x
  BY ElementsOf
<1>7. \A x : x \in ToSet(t) <=> \E i \in 1 .. n - 1 : t[i] = x
  BY <1>2, ElementsOf
<1> HIDE DEF b
<1>8. b \in ToSet(r)
  <2>1. 1 \in 1 .. n
    BY <1>3
  <2> QED BY <1>3, <1>6, <2>1
<1>9. b \notin ToSet(t)
  <2> SUFFICES ASSUME NEW i \in 1 .. n - 1, t[i] = b PROVE FALSE
    BY <1>7
  <2>1. i + 1 \in 1 .. n /\ 1 \in 1 .. n /\ i + 1 # 1
    BY <1>3
  <2> HIDE DEF n
  <2> QED BY <1>2, <1>3, <1>5, <2>1
<1>10. ToSet(t) \subseteq ToSet(r)
  <2> SUFFICES ASSUME NEW i \in 1 .. n - 1 PROVE t[i] \in ToSet(r)
    BY <1>7
  <2>1. i + 1 \in 1 .. n
    BY <1>3
  <2> QED BY <1>2, <1>6, <2>1
<1>11. ASSUME t # <<>> PROVE LastOf(t) = LastOf(r) /\ LastOf(r) # b
  <2>1. n - 1 # 0
    BY <1>2, <1>11, EmptySeq
  <2>2. n - 1 \in 1 .. n - 1 /\ (n - 1) + 1 = n /\ n \in 1 .. n /\ 1 \in 1 .. n /\ n # 1
    <3> HIDE DEF n
    <3> QED BY <1>3, <2>1
  <2>3. LastOf(t) = t[n - 1] /\ LastOf(r) = r[n]
    BY <1>2 DEF LastOf, n
  <2> HIDE DEF n
  <2> QED BY <1>2, <1>3, <1>5, <2>2, <2>3
<1> QED BY <1>8, <1>9, <1>10, <1>11 DEF b, t

\* A visit that adds no way on from its block.
LEMMA VisitSettles ==
  ASSUME Inv, InOrder, Explicable, phase = "sweep", NEW gr, NEW ord, Visit(gr, ord, "sweep"),
         OnlyAt(g, gr, Head(rest)), Leads(gr, Head(rest)) \subseteq Leads(g, Head(rest)),
         ord[1] = order[1]
  PROVE  Explicable'
<1> DEFINE b == Head(rest)
           t == Tail(rest)
<1>1. /\ g' = gr /\ order' = ord /\ rest' = t /\ current' = current /\ flow' = flow /\ loose' = loose
      /\ phase' \in {"sweep", "done"} /\ (phase' = "sweep" => t # <<>>)
  BY DEF Visit
<1>2. PICK S : Settling(S, g, order, rest, current, flow, loose)
  BY DEF Explicable
<1>3. PICK p \in Seq(Blocks) : order = p \o rest
  BY VisitedState DEF Swept
<1>4. /\ b \notin ToSet(t) /\ ToSet(t) \subseteq ToSet(rest)
      /\ (t # <<>> => LastOf(t) = LastOf(rest)) /\ ToSet(rest) \subseteq Blocks
  BY <1>3, VisitedState, RestOf, ElementsOf
<1>5. OnlyAt(g, gr, b) /\ Leads(gr, b) \subseteq Leads(g, b)
  OBVIOUS
<1> HIDE DEF b, t
<1>6. \A c \in Blocks \ {b} : Leads(gr, c) = Leads(g, c)
  BY <1>5 DEF OnlyAt, Leads, Succ
<1>7. Closed(S, gr)
  BY <1>2, <1>5, <1>6 DEF Settling, Closed
<1>8. \A c \in ToSet(t) : gr.branch[c] = NULL => c = current
  <2> SUFFICES ASSUME NEW c \in ToSet(t), gr.branch[c] = NULL PROVE c = current
    OBVIOUS
  <2>1. c \in Blocks \ {b} /\ c \in ToSet(rest)
    BY <1>4
  <2>2. g.branch[c] = NULL
    BY <1>5, <2>1 DEF OnlyAt
  <2> QED BY <1>2, <2>1, <2>2 DEF Settling
<1>9. t # <<>> => Settling(S, gr, ord, t, current, flow, loose)
  BY <1>2, <1>4, <1>7, <1>8 DEF Settling
<1>10. phase' = "sweep" => Settling(S, g', order', rest', current', flow', loose')
  BY <1>1, <1>9
<1> QED BY <1>1, <1>10 DEF Explicable

\* The pass removes a block,
LEMMA SweepRemoveExplicable ==
  ASSUME Inv, InOrder, Explicable, SweepRemove
  PROVE  Explicable'
<1> DEFINE b == Head(rest)
           h == Reset(g, b)
           ord == RemoveFirst(order, b)
<1>1. phase = "sweep" /\ b # order[1] /\ Visit(h, ord, "sweep")
  BY DEF SweepRemove, Unused, RemoveBlock
<1>2. b \in Blocks /\ g \in Graphs /\ Edges(g)
  BY <1>1, VisitedState
<1>3. /\ h.branch = [g.branch EXCEPT ![b] = NULL] /\ h.control = [g.control EXCEPT ![b] = NULL]
      /\ h.branchElse = [g.branchElse EXCEPT ![b] = NULL]
  BY <1>2, ResetIs DEF Has
<1>4. OnlyAt(g, h, b) /\ Leads(h, b) = {}
  <2> HIDE DEF h, b
  <2> QED BY <1>2, <1>3, FieldTypes, CfgAssumption DEF OnlyAt, Leads, Succ
<1>5. ord[1] = order[1]
  <2>1. PICK p \in Seq(Blocks) : order = p \o rest
    BY <1>1, VisitedState DEF Swept
  <2>2. p # <<>> /\ p[1] = order[1]
    BY <1>1, <2>1, VisitedState, HeadIsNext
  <2>3. ord = p \o Tail(rest) /\ (p \o Tail(rest))[1] = p[1]
    BY <1>1, <2>1, <2>2, VisitedState, WithoutHead
  <2> QED BY <2>2, <2>3
<1> HIDE DEF h, ord
<1> QED BY <1>1, <1>4, <1>5, VisitSettles

\* ... folds a constant branch,
LEMMA SweepFoldExplicable ==
  ASSUME Inv, InOrder, Explicable, SweepFold
  PROVE  Explicable'
<1> DEFINE b == Head(rest)
           to == IF g.control[b] = IMMTRUE THEN g.branch[b] ELSE g.branchElse[b]
           h == ResetTo(g, b, to)
<1>1. /\ phase = "sweep" /\ g.branchElse[b] # NULL /\ g.control[b] \in {IMMTRUE, IMMFALSE}
      /\ Visit(h, order, "sweep")
  BY DEF SweepFold, Constant, IsBranched
<1>2. b \in Blocks /\ g \in Graphs /\ Edges(g)
  BY <1>1, VisitedState
<1>3. to \in Blocks /\ Leads(g, b) = {to}
  <2>1. g.branch[b] \in Blocks /\ g.branchElse[b] \in Blocks
    BY <1>1, <1>2, FieldTypes DEF Edges, WellShaped
  <2> QED BY <1>1, <2>1 DEF Leads
<1>4. /\ OnlyAt(g, h, b)
      /\ h.branch[b] = to /\ h.branchElse[b] = NULL
  <2> HIDE DEF b, to
  <2> QED BY <1>2, <1>3, ResetToIs, RelinkedOnlyAt
<1> HIDE DEF h, to
<1>5. Leads(h, b) \subseteq Leads(g, b)
  BY <1>3, <1>4, CfgAssumption DEF Leads, Succ
<1> QED BY <1>1, <1>4, <1>5, VisitSettles

\* ... ends an open block, or aborts,
LEMMA SweepTerminateExplicable ==
  ASSUME Inv, InOrder, Explicable, SweepTerminate
  PROVE  Explicable'
<1> DEFINE b == Head(rest)
           h == TryMarkAsTerminal(g, b, FALSE)
<1>1. phase = "sweep" /\ ~ Unused(b) /\ g.branch[b] = NULL
  BY DEF SweepTerminate, IsIncomplete
<1>2. CASE MarkReturns(g, b, FALSE)
  <2>1. Visit(h, order, "sweep")
    BY <1>2 DEF SweepTerminate
  <2>2. b \in Blocks /\ g \in Graphs /\ Edges(g)
    BY <1>1, VisitedState
  <2>3. /\ OnlyAt(g, h, b)
        /\ h.branch[b] = TERMINAL /\ h.branchElse[b] = NULL
    <3> HIDE DEF b
    <3>1. Relinked(h, g, b, NULL, TERMINAL, NULL, Ret)
      BY <1>2, <2>2, MarkIs
    <3> HIDE DEF h
    <3> QED BY <2>2, <3>1, RelinkedOnlyAt
  <2> HIDE DEF h
  <2>4. Leads(h, b) \subseteq Leads(g, b)
    BY <2>3, CfgAssumption DEF Leads, Succ
  <2> QED BY <1>1, <2>1, <2>3, <2>4, VisitSettles
<1>3. CASE ~ MarkReturns(g, b, FALSE)
  <2>1. /\ g' = g /\ order' = order /\ loops' = loops /\ phase' = "aborted" /\ rest' = rest
        /\ current' = current /\ flow' = flow /\ loose' = loose
    BY <1>3 DEF SweepTerminate, Visit, TryMarkAsTerminal
  <2>2. Swept(g, order, rest, loops)
    BY <1>1, VisitedState
  <2>3. Stuck(g, order, b)
    BY <1>1, <1>3 DEF Stuck, MarkReturns, IsIncomplete, Unused
  <2> HIDE DEF b
  <2>4. Stuck(g', order', b)
    BY <2>1, <2>3
  <2>5. Swept(g', order', rest', loops') /\ Stuck(g', order', Head(rest'))
    BY <2>1, <2>2, <2>4 DEF b
  <2>6. \E S : Settling(S, g', order', rest', current', flow', loose')
    BY <1>1, <2>1 DEF Explicable
  <2> QED BY <2>1, <2>5, <2>6 DEF Explicable
<1> QED BY <1>2, <1>3

\* ... or passes over a block.
LEMMA SweepSkipExplicable ==
  ASSUME Inv, InOrder, Explicable, SweepSkip
  PROVE  Explicable'
<1>1. phase = "sweep" /\ Visit(g, order, "sweep")
  BY DEF SweepSkip
<1>2. OnlyAt(g, g, Head(rest))
  BY DEF OnlyAt
<1> QED BY <1>1, <1>2, VisitSettles

\* Every step keeps it.
LEMMA NextExplicable ==
  ASSUME Inv, InOrder, Explicable, [Next]_vars
  PROVE  Explicable'
<1>1. CASE UNCHANGED vars
  BY <1>1 DEF Explicable, vars
<1>2. CASE Sweep
  BY <1>2, SweepRemoveExplicable, SweepFoldExplicable, SweepTerminateExplicable,
     SweepSkipExplicable DEF Sweep
<1>3. CASE EndFunction
  BY <1>3, EndFunctionExplicable
<1>4. CASE Next /\ ~ Sweep /\ ~ EndFunction
  <2>1. phase = "body" /\ phase' = "body"
    <3>1. CASE \E v \in Conditions(NextPoint) :
                 \/ If(v) \/ IfElse(v) \/ DoTest(v) \/ WhileTest(v) \/ ForTest(v)
                 \/ \E isAnd \in BOOLEAN : LogicLeft(isAnd, v)
      BY <3>1 DEF If, IfElse, DoTest, WhileTest, ForTest, LoopTest, LogicLeft, InExpression,
                  InStatements, In, SweepState
    <3>2. CASE While \/ For \/ EndlessFor
      BY <3>2 DEF While, For, Loop, EndlessFor, InStatements, In
    <3>3. CASE Expression \/ LogicRight \/ EndElse \/ EndIf \/ Do \/ EndDoBody
      BY <3>3 DEF Expression, LogicRight, EndElse, EndIf, Do, EndDoBody, InStatements, In, SweepState
    <3>4. CASE EndLoop \/ Break \/ Continue \/ ReturnValue \/ ReturnVoid
      BY <3>4 DEF EndLoop, Break, Continue, ReturnValue, ReturnVoid, InWhile, InStatements, In, SweepState
    <3> QED BY <1>4, <3>1, <3>2, <3>3, <3>4 DEF Next, Statement
  <2>2. PICK S : FollowedNow(S)
    BY <2>1 DEF Explicable, FollowedNow
  <2>3. FollowedNext
    BY <1>4, <2>1, <2>2, StatementFollowed
  <2> QED BY <2>1, <2>3 DEF Explicable, FollowedNext
<1> QED BY <1>1, <1>2, <1>3, <1>4

\* A new function.
LEMMA InitExplicable ==
  ASSUME Init
  PROVE  Explicable
<1>1. /\ order = <<1>> /\ created = 1 /\ current = 1 /\ frames = <<>> /\ phase = "body"
      /\ flow = {} /\ loose = {<<START, "any">>}
      /\ \A b \in Blocks : Leads(g, b) = {}
  BY CfgAssumption DEF Init, EmptyGraph, Leads, Succ
<1>2. /\ LastOf(order) = 1 /\ ToSet(order) = {1} /\ order[1] = 1 /\ Len(frames) = 0
  BY <1>1, Elements1 DEF LastOf
<1>3. Tidy(g, order, current, frames)
  BY <1>1, <1>2 DEF Tidy
<1>4. SomeLive(flow, loose)
  <2>1. START \in LiveIn({})
    BY LiveIsClosed
  <2> QED BY <1>1, <2>1 DEF SomeLive
<1>5. Reached({1}, g, order, created, current, frames, flow, loose)
  <2>1. 1 \in Blocks /\ 1 \in 1 .. 1
    BY TranslatorAssumption
  <2>2. Closed({1}, g)
    BY <1>1, <2>1 DEF Closed
  <2>3. FramesReached({1}, current, frames, flow)
    BY <1>2 DEF FramesReached
  <2> QED BY <1>1, <1>2, <1>4, <2>1, <2>2, <2>3 DEF Reached, Entered
<1> QED BY <1>1, <1>3, <1>5 DEF Explicable, Followed

\* Where the pass aborts, the block it cannot end is the last one of the function: it was
\* reached from a loop that is not, or along the edges from the entry, and then the source
\* runs off its end.
LEMMA ExplicableIsExplained ==
  ASSUME Inv, InOrder, Explicable
  PROVE  AbortExplained
<1> SUFFICES ASSUME phase = "aborted" PROVE AbortExplained
  BY DEF AbortExplained
<1> DEFINE b == Head(rest)
<1>1. /\ Good(g, Blocks) /\ order \in Seq(Blocks) /\ rest \in Seq(Blocks)
      /\ Distinct(order) /\ order # <<>> /\ Flowing(g, order, loops)
      /\ WellShaped(g) /\ InBlocksAreExact(g) /\ g \in Graphs
  BY DEF Inv, InOrder, Good, Edges
<1>2. /\ Stuck(g, order, b)
      /\ \E S : Settling(S, g, order, rest, current, flow, loose)
      /\ Swept(g, order, rest, loops)
  BY DEF Explicable
<1>3. PICK S : Settling(S, g, order, rest, current, flow, loose)
  BY <1>2
<1>4. PICK p \in Seq(Blocks) :
         /\ order = p \o rest
         /\ \A c \in ToSet(p) : Finished(g, c) /\ Kept(g, order, p, loops, c)
  BY <1>2 DEF Swept
<1>5. rest # <<>> /\ b = current /\ Tail(rest) = <<>>
  <2>1. rest # <<>> /\ LastOf(rest) = current /\ (\A c \in ToSet(rest) : g.branch[c] = NULL => c = current)
    BY <1>3 DEF Settling
  <2>2. b \in ToSet(rest) /\ (Tail(rest) # <<>> => LastOf(rest) # b)
    BY <1>1, <1>4, <2>1, RestOf
  <2> QED BY <1>2, <2>1, <2>2 DEF Stuck
<1>6. /\ b \in ToSet(order) /\ b \notin ToSet(p)
      /\ \A a : Precedes(order, a, b) => a \in ToSet(p)
      /\ ToSet(order) = ToSet(p) \cup {b} /\ b \in Blocks
  <2>1. /\ b \in ToSet(order) /\ b \notin ToSet(p)
        /\ \A a : Precedes(order, a, b) => a \in ToSet(p)
        /\ Append(p, b) \o Tail(rest) = order /\ ToSet(Append(p, b)) = ToSet(p) \cup {b}
    BY <1>1, <1>4, <1>5, HeadIsNext
  <2>2. b \in Blocks
    BY <1>1, <1>5, HeadTailProperties
  <2>3. Append(p, b) = order
    <3> HIDE DEF b
    <3>1. Append(p, b) \in Seq(Blocks)
      BY <2>2, AppendProperties
    <3>2. Append(p, b) \o <<>> = Append(p, b)
      BY <3>1, ConcatEmptySeq
    <3> QED BY <1>5, <2>1, <3>2
  <2> QED BY <2>1, <2>2, <2>3
<1> HIDE DEF b
<1>7. \A c \in ToSet(order) : Kept(g, order, order, loops, c)
  <2>1. ASSUME NEW c \in ToSet(p) PROVE Kept(g, order, order, loops, c)
    BY <1>4, <1>6 DEF Kept
  <2>2. Kept(g, order, order, loops, b)
    <3>1. CASE b = order[1]
      BY <3>1 DEF Kept
    <3>2. CASE g.in[b] # {}
      <4>1. PICK a \in Blocks : b \in Succ(g, a)
        BY <1>1, <1>6, <3>2, FieldTypes DEF InBlocksAreExact
      <4>2. a \in ToSet(order) /\ (b \in loops \/ Precedes(order, a, b))
        BY <1>1, <1>6, <4>1 DEF Flowing
      <4> QED BY <4>1, <4>2 DEF Kept
    <3> QED BY <1>2, <3>1, <3>2 DEF Stuck
  <2> QED BY <1>6, <2>1, <2>2
<1>8. b \in From(order[1]) \/ \E c \in DeadLoops : b \in From(c)
  BY <1>1, <1>6, <1>7, KeptExplained
<1>9. ASSUME NEW a \in S PROVE Succ(g, a) \subseteq S
  <2>1. Leads(g, a) \subseteq S /\ a \in Blocks
    BY <1>3 DEF Settling, Closed
  <2>2. CASE a \in ToSet(p)
    <3>1. Leads(g, a) = Succ(g, a)
      BY <1>4, <2>2 DEF Finished, Leads
    <3> QED BY <2>1, <3>1
  <2>3. CASE a = b
    BY <1>1, <1>2, <2>1, <2>3, CfgAssumption DEF Stuck, WellShaped, Succ
  <2>4. CASE a \notin ToSet(order)
    BY <1>1, <2>1, <2>4 DEF Flowing, Succ
  <2> QED BY <1>6, <2>2, <2>3, <2>4
<1>10. From(order[1]) \subseteq S
  <2>1. S \in SUBSET Blocks /\ order[1] \in S
    BY <1>3 DEF Settling
  <2> QED BY <1>9, <2>1, FromIsClosed
<1>11. current \in S => RunsOffTheEnd
  <2>1. Live = LiveIn(flow)
    BY DEF Live, LiveIn, After
  <2> QED BY <1>3, <2>1 DEF Settling, RunsOffTheEnd, SomeLive
<1>12. ~ g.void
  BY <1>2 DEF Stuck
<1> QED BY <1>5, <1>8, <1>10, <1>11, <1>12 DEF AbortExplained, b

\* For any bounds: the pass stops on its assertion only in a function that has to return a
\* value, and only where the source can run off the end of the body, or where the end is
\* reached from a loop that nothing leads to.
THEOREM AbortsHaveAReason == Spec => []AbortExplained
<1>1. Init => Inv /\ InOrder /\ Explicable
  BY InitInv, InitOrder, InitExplicable
<1>2. Inv /\ InOrder /\ Explicable /\ [Next]_vars => (Inv /\ InOrder /\ Explicable)'
  BY NextInv, NextOrder, NextExplicable
<1>3. Inv /\ InOrder /\ Explicable => AbortExplained
  BY ExplicableIsExplained
<1> QED BY <1>1, <1>2, <1>3, PTL DEF Spec
=============================================================================
