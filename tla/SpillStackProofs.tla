-------------------------- MODULE SpillStackProofs --------------------------
(***************************************************************************)
(* Proofs about Stack and SpillStack for any variables, sizes and bounds.  *)
(*                                                                         *)
(* A list of pieces matters only by its layout: which variable has how     *)
(* many units after how many.  At states the layout; melting fragments     *)
(* does not change it, spillVar adds one variable to it and                *)
(* releaseOnStackVar takes one away.  The lemmas are about lists of any    *)
(* length, by induction on the list; an induction is one over the set of   *)
(* lists that have the property.                                           *)
(***************************************************************************)
EXTENDS SpillStack, SequenceTheorems, WellFoundedInduction, TLAPS

Sizes  == Nat \ {0}
Pieces == [var : Owners \cup {FRAGMENT}, size : Sizes]
Lists  == Seq(Pieces)

(***************************************************************************)
(* Induction.                                                              *)
(***************************************************************************)
\* A nonempty set of numbers has a least one.
LEMMA LeastElement ==
  ASSUME NEW S \in SUBSET Nat, S # {}
  PROVE  \E x \in S : \A y \in S : x <= y
<1> DEFINE R == OpToRel(<, Nat)
<1>1. PICK x \in S : \A y \in S : ~ (<<y, x>> \in R)
  <2>1. IsWellFoundedOn(R, Nat)
    BY NatLessThanWellFounded
  <2> HIDE DEF R
  <2> QED BY <2>1, WFMin
<1>2. ASSUME NEW y \in S PROVE ~ (y < x)
  BY <1>1, Zenon DEF OpToRel
<1>3. \A y \in S : x <= y
  BY <1>2
<1> QED BY <1>3

\* A set that has 0 and with each number the next has all numbers.
LEMMA NumberSets ==
  ASSUME NEW S, 0 \in S, \A n \in Nat : n \in S => n + 1 \in S
  PROVE  Nat \subseteq S
<1> SUFFICES ASSUME Nat \ S # {} PROVE FALSE
  OBVIOUS
<1>1. PICK x \in Nat \ S : \A y \in Nat \ S : x <= y
  BY LeastElement
<1>2. x # 0 /\ x - 1 \in Nat /\ ~ (x <= x - 1)
  OBVIOUS
<1>3. x - 1 \in S
  BY <1>1, <1>2
<1>4. (x - 1) + 1 = x
  BY <1>1
<1> QED BY <1>1, <1>2, <1>3, <1>4

\* A set that has the empty list and with each list the longer ones has all lists.
LEMMA ListSets ==
  ASSUME NEW S, NEW T, << >> \in T,
         \A s \in Seq(S), e \in S : s \in T => Append(s, e) \in T
  PROVE  Seq(S) \subseteq T
<1> DEFINE N == {n \in Nat : \A s \in Seq(S) : Len(s) = n => s \in T}
<1>1. 0 \in N
  BY EmptySeq
<1>2. ASSUME NEW n \in Nat, n \in N PROVE n + 1 \in N
  <2> SUFFICES ASSUME NEW s \in Seq(S), Len(s) = n + 1 PROVE s \in T
    BY <1>2
  <2>1. s # << >>
    BY EmptySeq
  <2>2. PICK r \in Seq(S), e \in S : s = Append(r, e)
    BY <2>1, SequenceEmptyOrAppend
  <2>3. Len(r) \in Nat /\ Len(s) = Len(r) + 1
    BY <2>2, LenProperties, AppendProperties
  <2>4. Len(r) = n
    BY <2>3
  <2>5. r \in T
    BY <1>2, <2>4
  <2> QED BY <2>2, <2>5
<1>3. Nat \subseteq N
  <2> HIDE DEF N
  <2> QED BY <1>1, <1>2, NumberSets
<1> QED BY <1>3, LenProperties

\* The first elements of a list are those of the list without its last.
LEMMA PrefixOfAppend ==
  ASSUME NEW S, NEW s \in Seq(S), NEW e \in S, NEW k \in 0 .. Len(s)
  PROVE  SubSeq(Append(s, e), 1, k) = SubSeq(s, 1, k)
<1>1. CASE k = 0
  <2>1. 1 \in Int /\ 0 \in Int /\ 0 < 1
    OBVIOUS
  <2> QED BY <1>1, <2>1, SubSeqEmpty
<1>2. CASE k # 0
  <2>1. 1 \in 1 .. Len(s) /\ k \in 1 .. Len(s)
    BY <1>2, LenProperties
  <2>2. <<e>> \in Seq(S) /\ Append(s, e) = s \o <<e>>
    BY AppendIsConcat
  <2> QED BY <2>1, <2>2, SubSeqOfConcat1
<1> QED BY <1>1, <1>2

\* Front and Last take an Append apart.
LEMMA LastOfAppend ==
  ASSUME NEW S, NEW s \in Seq(S), NEW e \in S
  PROVE  Front(Append(s, e)) = s /\ Last(Append(s, e)) = e
<1>1. Len(s) \in Nat /\ Len(Append(s, e)) = Len(s) + 1 /\ Append(s, e)[Len(s) + 1] = e
  BY LenProperties, AppendProperties
<1>2. SubSeq(Append(s, e), 1, Len(s)) = s
  BY <1>1, PrefixOfAppend, SubSeqFull
<1>3. Len(s) + 1 - 1 = Len(s)
  BY <1>1
<1> QED BY <1>1, <1>2, <1>3 DEF Front, Last

\* A nonempty list is its front and its last element.
LEMMA SplitLast ==
  ASSUME NEW S, NEW s \in Seq(S), s # << >>
  PROVE  Front(s) \in Seq(S) /\ Last(s) \in S /\ s = Append(Front(s), Last(s))
<1>1. PICK r \in Seq(S), e \in S : s = Append(r, e)
  BY SequenceEmptyOrAppend
<1> QED BY <1>1, LastOfAppend

(***************************************************************************)
(* Walks along a list: the recursive functions Total and Melted use.       *)
(***************************************************************************)
IsWalk(f, base, step, S, s) ==
  /\ f \in [0 .. Len(s) -> S]
  /\ f[0] = base
  /\ \A i \in 1 .. Len(s) : f[i] = step[<<f[i - 1], s[i]>>]

\* What one step does to the result so far.
IsStep(step, S, P) == step \in [S \X P -> S]

\* A walk along a list can be taken one element further.
LEMMA WalkOn ==
  ASSUME NEW S, NEW P, NEW base \in S, NEW step, IsStep(step, S, P),
         NEW s \in Seq(P), NEW e \in P, NEW f, IsWalk(f, base, step, S, s)
  PROVE  \E g : IsWalk(g, base, step, S, Append(s, e))
<1> DEFINE n == Len(s)
           t == Append(s, e)
           g == [i \in 0 .. n + 1 |-> IF i = n + 1 THEN step[<<f[n], e>>] ELSE f[i]]
<1>1. /\ n \in Nat /\ Len(t) = n + 1 /\ t[n + 1] = e
      /\ \A i \in 1 .. n : t[i] = s[i] /\ s[i] \in P
  BY LenProperties, AppendProperties, ElementOfSeq
<1> HIDE DEF n, t
<1>2. f \in [0 .. n -> S] /\ f[0] = base /\ \A i \in 1 .. n : f[i] = step[<<f[i - 1], s[i]>>]
  BY DEF IsWalk, n
<1>3. f[n] \in S /\ step[<<f[n], e>>] \in S
  BY <1>1, <1>2 DEF IsStep
<1>4. IsWalk(g, base, step, S, t)
  <2>1. g \in [0 .. n + 1 -> S]
    BY <1>1, <1>2, <1>3
  <2>2. g[0] = base
    BY <1>1, <1>2
  <2>3. ASSUME NEW i \in 1 .. n + 1 PROVE g[i] = step[<<g[i - 1], t[i]>>]
    <3>1. CASE i = n + 1
      <4>1. g[i] = step[<<f[n], e>>] /\ g[n] = f[n] /\ i - 1 = n /\ t[i] = e
        BY <1>1, <3>1
      <4> HIDE DEF g
      <4> QED BY <4>1
    <3>2. CASE i # n + 1
      <4>1. i \in 1 .. n /\ i - 1 \in 0 .. n
        BY <1>1, <3>2
      <4>2. g[i] = f[i] /\ g[i - 1] = f[i - 1]
        BY <1>1, <4>1
      <4> QED BY <1>1, <1>2, <4>1, <4>2
    <3> QED BY <3>1, <3>2
  <2> QED BY <1>1, <2>1, <2>2, <2>3 DEF IsWalk
<1> QED BY <1>4 DEF t

\* The last step of a walk, from the walk along the list without its last element.
LEMMA WalkEnds ==
  ASSUME NEW S, NEW P, NEW base \in S, NEW step, IsStep(step, S, P),
         NEW s \in Seq(P), NEW e \in P, NEW f, IsWalk(f, base, step, S, s),
         NEW h, IsWalk(h, base, step, S, Append(s, e))
  PROVE  h[Len(s) + 1] = step[<<f[Len(s)], e>>]
<1> DEFINE n == Len(s)
           t == Append(s, e)
<1>1. /\ n \in Nat /\ Len(t) = n + 1 /\ t[n + 1] = e
      /\ \A i \in 1 .. n : t[i] = s[i] /\ s[i] \in P
  BY LenProperties, AppendProperties, ElementOfSeq
<1>2. f[0] = base /\ \A i \in 1 .. n : f[i] = step[<<f[i - 1], s[i]>>]
  BY DEF IsWalk
<1>3. h[0] = base /\ \A i \in 1 .. Len(t) : h[i] = step[<<h[i - 1], t[i]>>]
  BY DEF IsWalk
<1> HIDE DEF n, t
<1>4. \A i \in 1 .. n + 1 : h[i] = step[<<h[i - 1], t[i]>>]
  BY <1>1, <1>3
<1> DEFINE N == {i \in Nat : i <= n => h[i] = f[i]}
<1>5. 0 \in N
  BY <1>2, <1>3
<1>6. ASSUME NEW i \in Nat, i \in N PROVE i + 1 \in N
  <2> SUFFICES ASSUME i + 1 <= n PROVE h[i + 1] = f[i + 1]
    OBVIOUS
  <2>1. i + 1 \in 1 .. n /\ i + 1 \in 1 .. n + 1 /\ (i + 1) - 1 = i /\ i <= n
    BY <1>1
  <2>2. h[i] = f[i]
    BY <1>6, <2>1
  <2>3. h[i + 1] = step[<<h[i], t[i + 1]>>] /\ f[i + 1] = step[<<f[i], s[i + 1]>>]
    BY <1>2, <1>4, <2>1
  <2> QED BY <1>1, <2>1, <2>2, <2>3
<1>7. Nat \subseteq N
  <2> HIDE DEF N
  <2> QED BY <1>5, <1>6, NumberSets
<1>8. h[n] = f[n]
  BY <1>1, <1>7
<1>9. n + 1 \in 1 .. n + 1 /\ (n + 1) - 1 = n
  BY <1>1
<1>10. h[n + 1] = step[<<f[n], e>>]
  BY <1>1, <1>4, <1>8, <1>9
<1> QED BY <1>10 DEF n

\* There is a walk along every list.
LEMMA WalkExists ==
  ASSUME NEW S, NEW P, NEW base \in S, NEW step, IsStep(step, S, P), NEW s \in Seq(P)
  PROVE  \E f : IsWalk(f, base, step, S, s)
<1> DEFINE T == {t \in Seq(P) : \E f : IsWalk(f, base, step, S, t)}
<1>1. << >> \in T
  <2>1. Len(<< >>) = 0 /\ << >> \in Seq(P)
    BY EmptySeq
  <2>2. IsWalk([i \in 0 .. 0 |-> base], base, step, S, << >>)
    BY <2>1 DEF IsWalk
  <2> QED BY <2>1, <2>2
<1>2. ASSUME NEW t \in Seq(P), NEW e \in P, t \in T PROVE Append(t, e) \in T
  BY <1>2, WalkOn, AppendProperties
<1> HIDE DEF T
<1>3. Seq(P) \subseteq T
  BY <1>1, <1>2, ListSets
<1> QED BY <1>3 DEF T

(***************************************************************************)
(* Total and Melted, one piece at a time.                                  *)
(***************************************************************************)
AddSize  == [x \in Nat \X Pieces |-> x[1] + x[2].size]
MeltStep == [x \in Lists \X Pieces |-> Melt(x[1], x[2])]

\* A list and a piece melt to a list.
LEMMA MeltType ==
  ASSUME NEW d \in Lists, NEW p \in Pieces
  PROVE  Melt(d, p) \in Lists
<1>1. CASE TrailingFragment(d) /\ IsFragment(p)
  <2>1. Front(d) \in Lists /\ Last(d) \in Pieces
    BY <1>1, SplitLast DEF TrailingFragment, Lists
  <2>2. Piece(FRAGMENT, Last(d).size + p.size) \in Pieces
    BY <2>1 DEF Pieces, Sizes, Piece
  <2> QED BY <1>1, <2>1, <2>2, AppendProperties DEF Melt, Lists
<1>2. CASE ~ (TrailingFragment(d) /\ IsFragment(p))
  BY <1>2, AppendProperties DEF Melt, Lists
<1> QED BY <1>1, <1>2

\* Both walks take one step per piece.
LEMMA StepTypes == IsStep(AddSize, Nat, Pieces) /\ IsStep(MeltStep, Lists, Pieces)
<1>1. AddSize \in [Nat \X Pieces -> Nat]
  BY DEF AddSize, Pieces, Sizes
<1>2. \A x \in Lists \X Pieces : Melt(x[1], x[2]) \in Lists
  BY MeltType
<1> QED BY <1>1, <1>2 DEF MeltStep, IsStep

\* Total is where the walk with AddSize ends.
LEMMA TotalIsWalk ==
  ASSUME NEW ps \in Lists
  PROVE  \E f : IsWalk(f, 0, AddSize, Nat, ps) /\ Total(ps) = f[Len(ps)]
<1>1. PICK f : IsWalk(f, 0, AddSize, Nat, ps)
  BY StepTypes, WalkExists DEF Lists
<1>2. Len(ps) \in Nat /\ \A i \in 1 .. Len(ps) : ps[i] \in Pieces
  BY LenProperties, ElementOfSeq DEF Lists
<1>3. ASSUME NEW h, h = [i \in 0 .. Len(ps) |-> IF i = 0 THEN 0 ELSE h[i - 1] + ps[i].size]
      PROVE  IsWalk(h, 0, AddSize, Nat, ps)
  <2> DEFINE N == {i \in Nat : i <= Len(ps) => h[i] \in Nat}
  <2>1. h[0] = 0 /\ \A i \in 1 .. Len(ps) : h[i] = h[i - 1] + ps[i].size
    <3>1. 0 \in 0 .. Len(ps) /\ \A i \in 1 .. Len(ps) : i \in 0 .. Len(ps) /\ i # 0
      BY <1>2
    <3> QED BY <1>3, <3>1, Zenon
  <2>2. 0 \in N
    BY <2>1
  <2>3. ASSUME NEW i \in Nat, i \in N PROVE i + 1 \in N
    <3> SUFFICES ASSUME i + 1 <= Len(ps) PROVE h[i + 1] \in Nat
      OBVIOUS
    <3>1. i + 1 \in 1 .. Len(ps) /\ (i + 1) - 1 = i /\ h[i] \in Nat
      BY <1>2, <2>3
    <3>2. ps[i + 1].size \in Nat
      BY <1>2, <3>1 DEF Pieces, Sizes
    <3> QED BY <2>1, <3>1, <3>2
  <2>4. Nat \subseteq N
    <3> HIDE DEF N
    <3> QED BY <2>2, <2>3, NumberSets
  <2>5. \A i \in 0 .. Len(ps) : h[i] \in Nat
    BY <1>2, <2>4
  <2>6. h \in [0 .. Len(ps) -> Nat]
    BY <1>3, <2>5
  <2>7. ASSUME NEW i \in 1 .. Len(ps) PROVE h[i] = AddSize[<<h[i - 1], ps[i]>>]
    <3>1. i - 1 \in 0 .. Len(ps) /\ ps[i] \in Pieces
      BY <1>2
    <3> QED BY <2>1, <2>5, <3>1 DEF AddSize
  <2> QED BY <2>1, <2>6, <2>7 DEF IsWalk
<1>4. f = [i \in 0 .. Len(ps) |-> IF i = 0 THEN 0 ELSE f[i - 1] + ps[i].size]
  <2>1. f \in [0 .. Len(ps) -> Nat] /\ f[0] = 0
        /\ \A i \in 1 .. Len(ps) : f[i] = AddSize[<<f[i - 1], ps[i]>>]
    BY <1>1 DEF IsWalk
  <2>2. ASSUME NEW i \in 0 .. Len(ps)
        PROVE  f[i] = IF i = 0 THEN 0 ELSE f[i - 1] + ps[i].size
    <3>1. CASE i # 0
      <4>1. i \in 1 .. Len(ps) /\ i - 1 \in 0 .. Len(ps) /\ ps[i] \in Pieces
        BY <1>2, <3>1
      <4>2. AddSize[<<f[i - 1], ps[i]>>] = f[i - 1] + ps[i].size
        BY <2>1, <4>1 DEF AddSize
      <4> QED BY <2>1, <3>1, <4>1, <4>2
    <3> QED BY <2>1, <3>1
  <2> QED BY <2>1, <2>2
<1> DEFINE g == CHOOSE h : h = [i \in 0 .. Len(ps) |-> IF i = 0 THEN 0 ELSE h[i - 1] + ps[i].size]
<1>5. /\ g = [i \in 0 .. Len(ps) |-> IF i = 0 THEN 0 ELSE g[i - 1] + ps[i].size]
      /\ Total(ps) = g[Len(ps)]
  BY <1>4, Zenon DEF Total
<1> HIDE DEF g
<1> QED BY <1>3, <1>5

\* Melted is where the walk with MeltStep ends.
LEMMA MeltedIsWalk ==
  ASSUME NEW ps \in Lists
  PROVE  \E f : IsWalk(f, << >>, MeltStep, Lists, ps) /\ Melted(ps) = f[Len(ps)]
<1>0. << >> \in Lists
  BY EmptySeq DEF Lists
<1>1. PICK f : IsWalk(f, << >>, MeltStep, Lists, ps)
  BY <1>0, StepTypes, WalkExists DEF Lists
<1>2. Len(ps) \in Nat /\ \A i \in 1 .. Len(ps) : ps[i] \in Pieces
  BY LenProperties, ElementOfSeq DEF Lists
<1>3. ASSUME NEW h, h = [i \in 0 .. Len(ps) |-> IF i = 0 THEN << >> ELSE Melt(h[i - 1], ps[i])]
      PROVE  IsWalk(h, << >>, MeltStep, Lists, ps)
  <2> DEFINE N == {i \in Nat : i <= Len(ps) => h[i] \in Lists}
  <2>1. h[0] = << >> /\ \A i \in 1 .. Len(ps) : h[i] = Melt(h[i - 1], ps[i])
    BY <1>2, <1>3
  <2>2. 0 \in N
    BY <1>0, <2>1
  <2>3. ASSUME NEW i \in Nat, i \in N PROVE i + 1 \in N
    <3> SUFFICES ASSUME i + 1 <= Len(ps) PROVE h[i + 1] \in Lists
      OBVIOUS
    <3>1. i + 1 \in 1 .. Len(ps) /\ (i + 1) - 1 = i /\ h[i] \in Lists
      BY <1>2, <2>3
    <3> QED BY <1>2, <2>1, <3>1, MeltType
  <2>4. Nat \subseteq N
    <3> HIDE DEF N
    <3> QED BY <2>2, <2>3, NumberSets
  <2>5. \A i \in 0 .. Len(ps) : h[i] \in Lists
    BY <1>2, <2>4
  <2>6. h \in [0 .. Len(ps) -> Lists]
    BY <1>3, <2>5
  <2>7. ASSUME NEW i \in 1 .. Len(ps) PROVE h[i] = MeltStep[<<h[i - 1], ps[i]>>]
    <3>1. i - 1 \in 0 .. Len(ps) /\ ps[i] \in Pieces
      BY <1>2
    <3> QED BY <2>1, <2>5, <3>1 DEF MeltStep
  <2> QED BY <2>1, <2>6, <2>7 DEF IsWalk
<1>4. f = [i \in 0 .. Len(ps) |-> IF i = 0 THEN << >> ELSE Melt(f[i - 1], ps[i])]
  <2>1. f \in [0 .. Len(ps) -> Lists] /\ f[0] = << >>
        /\ \A i \in 1 .. Len(ps) : f[i] = MeltStep[<<f[i - 1], ps[i]>>]
    BY <1>1 DEF IsWalk
  <2>2. ASSUME NEW i \in 0 .. Len(ps)
        PROVE  f[i] = IF i = 0 THEN << >> ELSE Melt(f[i - 1], ps[i])
    <3>1. CASE i # 0
      <4>1. i \in 1 .. Len(ps) /\ i - 1 \in 0 .. Len(ps) /\ ps[i] \in Pieces
        BY <1>2, <3>1
      <4>2. MeltStep[<<f[i - 1], ps[i]>>] = Melt(f[i - 1], ps[i])
        BY <2>1, <4>1 DEF MeltStep
      <4> QED BY <2>1, <3>1, <4>1, <4>2
    <3> QED BY <2>1, <3>1
  <2> QED BY <2>1, <2>2
<1> DEFINE g == CHOOSE h : h = [i \in 0 .. Len(ps) |-> IF i = 0 THEN << >> ELSE Melt(h[i - 1], ps[i])]
<1>5. /\ g = [i \in 0 .. Len(ps) |-> IF i = 0 THEN << >> ELSE Melt(g[i - 1], ps[i])]
      /\ Melted(ps) = g[Len(ps)]
  BY <1>4, Zenon DEF Melted
<1> HIDE DEF g
<1> QED BY <1>3, <1>5

\* The size of a list, with one piece more.
LEMMA TotalOn ==
  /\ Total(<< >>) = 0
  /\ \A ps \in Lists : Total(ps) \in Nat
  /\ \A ps \in Lists, p \in Pieces : Total(Append(ps, p)) = Total(ps) + p.size
<1>1. Total(<< >>) = 0
  <2>1. << >> \in Lists /\ Len(<< >>) = 0
    BY EmptySeq DEF Lists
  <2> QED BY <2>1, TotalIsWalk DEF IsWalk
<1>2. ASSUME NEW ps \in Lists, NEW p \in Pieces
      PROVE  Total(ps) \in Nat /\ Total(Append(ps, p)) = Total(ps) + p.size
  <2>1. PICK f : IsWalk(f, 0, AddSize, Nat, ps) /\ Total(ps) = f[Len(ps)]
    BY TotalIsWalk
  <2>2. Append(ps, p) \in Lists /\ Len(ps) \in Nat /\ Len(Append(ps, p)) = Len(ps) + 1
    BY AppendProperties, LenProperties DEF Lists
  <2>3. PICK h : IsWalk(h, 0, AddSize, Nat, Append(ps, p))
                 /\ Total(Append(ps, p)) = h[Len(Append(ps, p))]
    BY <2>2, TotalIsWalk
  <2>4. h[Len(ps) + 1] = AddSize[<<f[Len(ps)], p>>]
    <3> DEFINE zero == 0
               N == Nat
    <3>1. ps \in Seq(Pieces) /\ zero \in N /\ IsStep(AddSize, N, Pieces)
      BY StepTypes DEF Lists
    <3>2. IsWalk(f, zero, AddSize, N, ps) /\ IsWalk(h, zero, AddSize, N, Append(ps, p))
      BY <2>1, <2>3
    <3> HIDE DEF zero, N
    <3> QED BY <3>1, <3>2, WalkEnds
  <2>5. f[Len(ps)] \in Nat
    BY <2>1, <2>2 DEF IsWalk
  <2>6. AddSize[<<f[Len(ps)], p>>] = f[Len(ps)] + p.size
    BY <2>5 DEF AddSize
  <2> QED BY <2>1, <2>2, <2>3, <2>4, <2>5, <2>6
<1>3. ASSUME NEW ps \in Lists PROVE Total(ps) \in Nat
  <2>1. PICK f : IsWalk(f, 0, AddSize, Nat, ps) /\ Total(ps) = f[Len(ps)]
    BY TotalIsWalk
  <2>2. Len(ps) \in Nat
    BY LenProperties DEF Lists
  <2> QED BY <2>1, <2>2 DEF IsWalk
<1> QED BY <1>1, <1>2, <1>3

\* A list melted, with one piece more.
LEMMA MeltedOn ==
  /\ Melted(<< >>) = << >>
  /\ \A ps \in Lists : Melted(ps) \in Lists
  /\ \A ps \in Lists, p \in Pieces : Melted(Append(ps, p)) = Melt(Melted(ps), p)
<1>0. << >> \in Lists /\ Len(<< >>) = 0
  BY EmptySeq DEF Lists
<1>1. Melted(<< >>) = << >>
  BY <1>0, MeltedIsWalk DEF IsWalk
<1>2. ASSUME NEW ps \in Lists PROVE Melted(ps) \in Lists
  <2>1. PICK f : IsWalk(f, << >>, MeltStep, Lists, ps) /\ Melted(ps) = f[Len(ps)]
    BY MeltedIsWalk
  <2>2. Len(ps) \in Nat
    BY LenProperties DEF Lists
  <2> QED BY <2>1, <2>2 DEF IsWalk
<1>3. ASSUME NEW ps \in Lists, NEW p \in Pieces
      PROVE  Melted(Append(ps, p)) = Melt(Melted(ps), p)
  <2>1. PICK f : IsWalk(f, << >>, MeltStep, Lists, ps) /\ Melted(ps) = f[Len(ps)]
    BY MeltedIsWalk
  <2>2. Append(ps, p) \in Lists /\ Len(ps) \in Nat /\ Len(Append(ps, p)) = Len(ps) + 1
    BY AppendProperties, LenProperties DEF Lists
  <2>3. PICK h : IsWalk(h, << >>, MeltStep, Lists, Append(ps, p))
                 /\ Melted(Append(ps, p)) = h[Len(Append(ps, p))]
    BY <2>2, MeltedIsWalk
  <2>4. h[Len(ps) + 1] = MeltStep[<<f[Len(ps)], p>>]
    <3>1. ps \in Seq(Pieces)
      BY DEF Lists
    <3> QED BY <1>0, <2>1, <2>3, <3>1, StepTypes, WalkEnds
  <2>5. f[Len(ps)] \in Lists
    BY <2>1, <2>2 DEF IsWalk
  <2>6. MeltStep[<<f[Len(ps)], p>>] = Melt(f[Len(ps)], p)
    BY <2>5 DEF MeltStep
  <2> QED BY <2>1, <2>2, <2>3, <2>4, <2>6
<1> QED BY <1>1, <1>2, <1>3

(***************************************************************************)
(* The layout of a list.                                                   *)
(***************************************************************************)
\* v has a piece of n units that starts after a units.
At(ps, v, a, n) == \E i \in 1 .. Len(ps) :
                      ps[i].var = v /\ ps[i].size = n /\ Total(SubSeq(ps, 1, i - 1)) = a

\* The layout of the empty list.
LEMMA AtEmpty == \A v, a, n : ~ At(<< >>, v, a, n)
<1>1. Len(<< >>) = 0
  BY EmptySeq
<1> QED BY <1>1 DEF At

\* The layout of a list with one piece more.
LEMMA AtOn ==
  ASSUME NEW ps \in Lists, NEW p \in Pieces, NEW v, NEW a, NEW n
  PROVE  At(Append(ps, p), v, a, n) <=>
           At(ps, v, a, n) \/ (p.var = v /\ p.size = n /\ a = Total(ps))
<1> DEFINE m == Len(ps)
           qs == Append(ps, p)
<1>1. /\ m \in Nat /\ Len(qs) = m + 1 /\ qs[m + 1] = p
      /\ \A i \in 1 .. m : qs[i] = ps[i]
  BY LenProperties, AppendProperties DEF Lists
<1>2. \A k \in 0 .. m : SubSeq(qs, 1, k) = SubSeq(ps, 1, k)
  BY PrefixOfAppend DEF Lists
<1>3. SubSeq(ps, 1, m) = ps
  BY SubSeqFull DEF Lists
<1>4. At(ps, v, a, n) <=> \E i \in 1 .. m : /\ ps[i].var = v /\ ps[i].size = n
                                            /\ Total(SubSeq(ps, 1, i - 1)) = a
  BY DEF At
<1>5. At(qs, v, a, n) <=> \E i \in 1 .. m + 1 : /\ qs[i].var = v /\ qs[i].size = n
                                                /\ Total(SubSeq(qs, 1, i - 1)) = a
  BY <1>1 DEF At
<1> HIDE DEF m, qs
<1>6. \A i \in 1 .. m : SubSeq(qs, 1, i - 1) = SubSeq(ps, 1, i - 1)
  BY <1>1, <1>2
<1>7. m + 1 \in 1 .. m + 1 /\ (m + 1) - 1 = m
  BY <1>1
<1>8. Total(SubSeq(qs, 1, (m + 1) - 1)) = Total(ps)
  <2>1. m \in 0 .. m
    BY <1>1
  <2> QED BY <1>2, <1>3, <1>7, <2>1
<1>9. ASSUME NEW i \in 1 .. m + 1, i # m + 1 PROVE i \in 1 .. m
  BY <1>1, <1>9
<1>10. \A i \in 1 .. m : i \in 1 .. m + 1
  BY <1>1
<1>11. ASSUME At(qs, v, a, n)
       PROVE  At(ps, v, a, n) \/ (p.var = v /\ p.size = n /\ a = Total(ps))
  <2>1. PICK i \in 1 .. m + 1 : /\ qs[i].var = v /\ qs[i].size = n
                                /\ Total(SubSeq(qs, 1, i - 1)) = a
    BY <1>5, <1>11
  <2>2. CASE i = m + 1
    BY <1>1, <1>8, <2>1, <2>2
  <2>3. CASE i # m + 1
    <3>1. i \in 1 .. m
      BY <1>9, <2>3
    <3>2. ps[i].var = v /\ ps[i].size = n /\ Total(SubSeq(ps, 1, i - 1)) = a
      BY <1>1, <1>6, <2>1, <3>1
    <3> QED BY <1>4, <3>1, <3>2
  <2> QED BY <2>2, <2>3
<1>12. ASSUME At(ps, v, a, n) PROVE At(qs, v, a, n)
  <2>1. PICK i \in 1 .. m : /\ ps[i].var = v /\ ps[i].size = n
                            /\ Total(SubSeq(ps, 1, i - 1)) = a
    BY <1>4, <1>12
  <2>2. i \in 1 .. m + 1
    BY <1>10
  <2>3. qs[i].var = v /\ qs[i].size = n /\ Total(SubSeq(qs, 1, i - 1)) = a
    BY <1>1, <1>6, <2>1
  <2> QED BY <1>5, <2>2, <2>3
<1>13. ASSUME p.var = v, p.size = n, a = Total(ps) PROVE At(qs, v, a, n)
  BY <1>1, <1>5, <1>7, <1>8, <1>13
<1> QED BY <1>11, <1>12, <1>13 DEF qs

\* Pieces lie inside the list, and have a size.
LEMMA AtInside ==
  ASSUME NEW ps \in Lists, NEW v, NEW a, NEW n, At(ps, v, a, n)
  PROVE  a \in Nat /\ n \in Sizes /\ a + n <= Total(ps)
<1> DEFINE T == {s \in Lists : \A w, b, m : At(s, w, b, m) =>
                                 b \in Nat /\ m \in Sizes /\ b + m <= Total(s)}
<1>1. << >> \in T
  BY AtEmpty, EmptySeq DEF Lists
<1>2. ASSUME NEW s \in Seq(Pieces), NEW e \in Pieces, s \in T PROVE Append(s, e) \in T
  <2>1. s \in Lists /\ Append(s, e) \in Lists
    BY AppendProperties DEF Lists
  <2>2. e.size \in Sizes /\ Total(s) \in Nat /\ Total(Append(s, e)) = Total(s) + e.size
    BY <2>1, TotalOn DEF Pieces
  <2> SUFFICES ASSUME NEW w, NEW b, NEW m, At(Append(s, e), w, b, m)
               PROVE  b \in Nat /\ m \in Sizes /\ b + m <= Total(Append(s, e))
    BY <2>1
  <2>3. CASE At(s, w, b, m)
    BY <1>2, <2>2, <2>3 DEF Sizes
  <2>4. CASE e.size = m /\ b = Total(s)
    BY <2>2, <2>4 DEF Sizes
  <2> QED BY <2>1, <2>3, <2>4, AtOn
<1> HIDE DEF T
<1>3. Lists \subseteq T
  BY <1>1, <1>2, ListSets DEF Lists
<1> QED BY <1>3 DEF T

\* Two pieces are one, or do not overlap.
LEMMA AtApart ==
  ASSUME NEW ps \in Lists, NEW v, NEW a, NEW n, NEW w, NEW b, NEW m,
         At(ps, v, a, n), At(ps, w, b, m)
  PROVE  (v = w /\ a = b /\ n = m) \/ a + n <= b \/ b + m <= a
<1> DEFINE Apart(v1, a1, n1, v2, a2, n2) ==
             (v1 = v2 /\ a1 = a2 /\ n1 = n2) \/ a1 + n1 <= a2 \/ a2 + n2 <= a1
           T == {s \in Lists : \A v1, a1, n1, v2, a2, n2 :
                                 At(s, v1, a1, n1) /\ At(s, v2, a2, n2)
                                   => Apart(v1, a1, n1, v2, a2, n2)}
<1>1. << >> \in T
  BY AtEmpty, EmptySeq DEF Lists
<1>2. ASSUME NEW s \in Seq(Pieces), NEW e \in Pieces, s \in T PROVE Append(s, e) \in T
  <2>1. s \in Lists /\ Append(s, e) \in Lists
    BY AppendProperties DEF Lists
  <2> SUFFICES ASSUME NEW v1, NEW a1, NEW n1, NEW v2, NEW a2, NEW n2,
                      At(Append(s, e), v1, a1, n1), At(Append(s, e), v2, a2, n2)
               PROVE  Apart(v1, a1, n1, v2, a2, n2)
    BY <2>1
  <2>2. /\ At(s, v1, a1, n1) \/ (e.var = v1 /\ e.size = n1 /\ a1 = Total(s))
        /\ At(s, v2, a2, n2) \/ (e.var = v2 /\ e.size = n2 /\ a2 = Total(s))
    BY <2>1, AtOn
  <2>3. CASE At(s, v1, a1, n1) /\ At(s, v2, a2, n2)
    BY <1>2, <2>3
  <2>4. CASE At(s, v1, a1, n1) /\ a2 = Total(s)
    BY <2>1, <2>4, AtInside
  <2>5. CASE At(s, v2, a2, n2) /\ a1 = Total(s)
    BY <2>1, <2>5, AtInside
  <2> QED BY <2>2, <2>3, <2>4, <2>5
<1> HIDE DEF T
<1>3. Lists \subseteq T
  BY <1>1, <1>2, ListSets DEF Lists
<1> QED BY <1>3 DEF T

\* The size and the layout of two lists one after the other.
LEMMA AtConcat ==
  ASSUME NEW s \in Lists, NEW t \in Lists
  PROVE  /\ s \o t \in Lists /\ Total(s \o t) = Total(s) + Total(t)
         /\ \A v, n : \A a \in Int : At(s \o t, v, a, n) <=>
                                        At(s, v, a, n) \/ At(t, v, a - Total(s), n)
<1> DEFINE T == {u \in Lists : /\ Total(s \o u) = Total(s) + Total(u)
                               /\ \A v, n : \A a \in Int :
                                    At(s \o u, v, a, n) <=>
                                      At(s, v, a, n) \/ At(u, v, a - Total(s), n)}
<1>1. << >> \in T
  <2>1. s \o << >> = s /\ << >> \in Lists /\ Total(s) \in Nat /\ Total(<< >>) = 0
    BY ConcatEmptySeq, EmptySeq, TotalOn DEF Lists
  <2> QED BY <2>1, AtEmpty
<1>2. ASSUME NEW u \in Seq(Pieces), NEW e \in Pieces, u \in T PROVE Append(u, e) \in T
  <2>1. u \in Lists /\ Append(u, e) \in Lists /\ s \o u \in Lists
    BY AppendProperties, ConcatProperties DEF Lists
  <2>2. s \o Append(u, e) = Append(s \o u, e)
    <3>1. <<e>> \in Lists
      BY DEF Lists
    <3>2. Append(u, e) = u \o <<e>> /\ Append(s \o u, e) = (s \o u) \o <<e>>
      BY <2>1, AppendIsConcat DEF Lists
    <3> QED BY <2>1, <3>1, <3>2, ConcatAssociative DEF Lists
  <2>3. /\ Total(s) \in Nat /\ Total(u) \in Nat /\ e.size \in Nat
        /\ Total(Append(s \o u, e)) = Total(s \o u) + e.size
        /\ Total(Append(u, e)) = Total(u) + e.size
        /\ Total(s \o u) = Total(s) + Total(u)
    BY <1>2, <2>1, TotalOn DEF Pieces, Sizes
  <2>4. ASSUME NEW v, NEW n, NEW a \in Int
        PROVE  At(s \o Append(u, e), v, a, n) <=>
                 At(s, v, a, n) \/ At(Append(u, e), v, a - Total(s), n)
    <3>1. At(s \o Append(u, e), v, a, n) <=>
            At(s \o u, v, a, n) \/ (e.var = v /\ e.size = n /\ a = Total(s \o u))
      BY <2>1, <2>2, AtOn
    <3>2. At(Append(u, e), v, a - Total(s), n) <=>
            At(u, v, a - Total(s), n) \/ (e.var = v /\ e.size = n /\ a - Total(s) = Total(u))
      BY <2>1, AtOn
    <3>3. At(s \o u, v, a, n) <=> At(s, v, a, n) \/ At(u, v, a - Total(s), n)
      BY <1>2
    <3>4. a = Total(s \o u) <=> a - Total(s) = Total(u)
      BY <2>3
    <3> QED BY <3>1, <3>2, <3>3, <3>4
  <2>5. Total(s \o Append(u, e)) = Total(s) + Total(Append(u, e))
    BY <2>2, <2>3
  <2> QED BY <2>1, <2>4, <2>5
<1> HIDE DEF T
<1>3. Lists \subseteq T
  BY <1>1, <1>2, ListSets DEF Lists
<1> QED BY <1>3, ConcatProperties DEF T, Lists

(***************************************************************************)
(* Melting.                                                                *)
(***************************************************************************)
\* x units are covered by the first pieces of the list.
Cut(ps, x) == \E k \in 0 .. Len(ps) : Total(SubSeq(ps, 1, k)) = x

\* Cutting the empty list, and a list with one piece more.
LEMMA CutOn ==
  /\ \A x : Cut(<< >>, x) <=> x = 0
  /\ \A ps \in Lists, p \in Pieces : \A x :
       Cut(Append(ps, p), x) <=> Cut(ps, x) \/ x = Total(Append(ps, p))
<1>1. ASSUME NEW x PROVE Cut(<< >>, x) <=> x = 0
  <2>1. Len(<< >>) = 0 /\ SubSeq(<< >>, 1, 0) = << >>
    BY EmptySeq, SubSeqFull
  <2>2. 0 \in 0 .. 0 /\ \A k \in 0 .. 0 : k = 0
    OBVIOUS
  <2>3. Cut(<< >>, x) <=> Total(<< >>) = x
    <3>1. Cut(<< >>, x) <=> \E k \in 0 .. 0 : Total(SubSeq(<< >>, 1, k)) = x
      BY <2>1 DEF Cut
    <3>2. \A k \in 0 .. 0 : SubSeq(<< >>, 1, k) = << >>
      BY <2>1, <2>2
    <3> QED BY <2>2, <3>1, <3>2, Zenon
  <2>4. Total(<< >>) = 0
    BY TotalOn
  <2> QED BY <2>3, <2>4, Zenon
<1>2. ASSUME NEW ps \in Lists, NEW p \in Pieces, NEW x
      PROVE  Cut(Append(ps, p), x) <=> Cut(ps, x) \/ x = Total(Append(ps, p))
  <2> DEFINE m == Len(ps)
             qs == Append(ps, p)
  <2>1. m \in Nat /\ Len(qs) = m + 1 /\ qs \in Lists
    BY LenProperties, AppendProperties DEF Lists
  <2>2. \A k \in 0 .. m : SubSeq(qs, 1, k) = SubSeq(ps, 1, k)
    BY PrefixOfAppend DEF Lists
  <2>3. SubSeq(qs, 1, m + 1) = qs
    BY <2>1, SubSeqFull DEF Lists
  <2>4. Cut(qs, x) <=> \E k \in 0 .. m + 1 : Total(SubSeq(qs, 1, k)) = x
    BY <2>1 DEF Cut
  <2>5. Cut(ps, x) <=> \E k \in 0 .. m : Total(SubSeq(ps, 1, k)) = x
    BY DEF Cut
  <2> HIDE DEF m, qs
  <2>6. /\ m + 1 \in 0 .. m + 1 /\ \A k \in 0 .. m : k \in 0 .. m + 1
        /\ \A k \in 0 .. m + 1 : k # m + 1 => k \in 0 .. m
    BY <2>1
  <2>7. ASSUME Cut(qs, x), x # Total(qs) PROVE Cut(ps, x)
    <3>1. PICK k \in 0 .. m + 1 : Total(SubSeq(qs, 1, k)) = x
      BY <2>4, <2>7
    <3>2. k # m + 1
      BY <2>3, <2>7, <3>1
    <3>3. k \in 0 .. m
      BY <2>6, <3>2
    <3> QED BY <2>2, <2>5, <3>1, <3>3
  <2>8. ASSUME Cut(ps, x) PROVE Cut(qs, x)
    <3>1. PICK k \in 0 .. m : Total(SubSeq(ps, 1, k)) = x
      BY <2>5, <2>8
    <3> QED BY <2>2, <2>4, <2>6, <3>1
  <2>9. ASSUME x = Total(qs) PROVE Cut(qs, x)
    BY <2>3, <2>4, <2>6, <2>9
  <2> QED BY <2>7, <2>8, <2>9 DEF qs
<1> QED BY <1>1, <1>2

\* The last piece of a longer list, and what is left without it.
LEMMA TrailingOn ==
  ASSUME NEW ps \in Lists, NEW p \in Pieces
  PROVE  /\ Append(ps, p) \in Lists /\ Append(ps, p) # << >>
         /\ Front(Append(ps, p)) = ps /\ Last(Append(ps, p)) = p
         /\ TrailingFragment(Append(ps, p)) <=> IsFragment(p)
BY AppendProperties, LastOfAppend DEF Lists, TrailingFragment

\* Melting one piece in changes nothing but fragments.
LEMMA MeltIs ==
  ASSUME NEW d \in Lists, NEW p \in Pieces
  PROVE  /\ Melt(d, p) \in Lists /\ Melt(d, p) # << >>
         /\ Total(Melt(d, p)) = Total(d) + p.size
         /\ TrailingFragment(Melt(d, p)) <=> IsFragment(p)
         /\ (TrailingFragment(d) => ~ TrailingFragment(Front(d)))
              => (TrailingFragment(Melt(d, p)) => ~ TrailingFragment(Front(Melt(d, p))))
         /\ \A v \in Owners : \A a, n : At(Melt(d, p), v, a, n) <=> At(Append(d, p), v, a, n)
         /\ \A x : Cut(Melt(d, p), x) => Cut(Append(d, p), x)
<1>1. CASE TrailingFragment(d) /\ IsFragment(p)
  <2> DEFINE e == Front(d)
             q == Last(d)
             r == Piece(FRAGMENT, q.size + p.size)
  <2>1. e \in Lists /\ q \in Pieces /\ d = Append(e, q) /\ q.var = FRAGMENT
    BY <1>1, SplitLast DEF TrailingFragment, IsFragment, Lists
  <2>2. Melt(d, p) = Append(e, r)
    BY <1>1 DEF Melt
  <2>3. q.size \in Sizes /\ p.size \in Sizes /\ p.var = FRAGMENT
    BY <1>1, <2>1 DEF Pieces, IsFragment
  <2>4. r \in Pieces /\ r.var = FRAGMENT /\ r.size = q.size + p.size
    BY <2>3 DEF Pieces, Sizes, Piece
  <2> HIDE DEF e, q, r
  <2>5. /\ Total(d) = Total(e) + q.size /\ Total(e) \in Nat /\ q.size \in Nat /\ p.size \in Nat
        /\ Total(Append(e, r)) = Total(e) + (q.size + p.size)
        /\ Total(Append(d, p)) = Total(d) + p.size
    BY <2>1, <2>3, <2>4, TotalOn DEF Sizes
  <2>6. Total(Append(e, r)) = Total(d) + p.size
    BY <2>5
  <2>7. /\ Append(e, r) \in Lists /\ Append(e, r) # << >> /\ Front(Append(e, r)) = e
        /\ TrailingFragment(Append(e, r)) /\ IsFragment(p) /\ TrailingFragment(d)
        /\ Front(d) = e
    BY <1>1, <2>1, <2>4, TrailingOn DEF IsFragment
  <2>8. ASSUME NEW v \in Owners, NEW a, NEW n
        PROVE  At(Append(e, r), v, a, n) <=> At(Append(d, p), v, a, n)
    <3>1. v # FRAGMENT
      BY SpillStackAssumption
    <3>2. At(Append(e, r), v, a, n) <=> At(e, v, a, n)
      BY <2>1, <2>4, <3>1, AtOn
    <3>3. At(Append(d, p), v, a, n) <=> At(d, v, a, n)
      BY <2>3, <3>1, AtOn
    <3>4. At(d, v, a, n) <=> At(e, v, a, n)
      BY <2>1, <3>1, AtOn
    <3> QED BY <3>2, <3>3, <3>4
  <2>9. ASSUME NEW x, Cut(Append(e, r), x) PROVE Cut(Append(d, p), x)
    <3>1. Cut(e, x) \/ x = Total(Append(d, p))
      BY <2>1, <2>4, <2>5, <2>6, <2>9, CutOn
    <3>2. Cut(e, x) => Cut(d, x)
      BY <2>1, CutOn
    <3> QED BY <3>1, <3>2, CutOn
  <2> QED BY <2>2, <2>6, <2>7, <2>8, <2>9
<1>2. CASE ~ (TrailingFragment(d) /\ IsFragment(p))
  <2>1. Melt(d, p) = Append(d, p)
    BY <1>2 DEF Melt
  <2> QED BY <1>2, <2>1, TrailingOn, TotalOn
<1> QED BY <1>1, <1>2

\* Melting a list changes neither its size nor its layout, and leaves no two
\* fragments side by side at its end.
LEMMA MeltedIs ==
  ASSUME NEW ps \in Lists
  PROVE  /\ Melted(ps) \in Lists
         /\ Total(Melted(ps)) = Total(ps)
         /\ TrailingFragment(Melted(ps)) <=> TrailingFragment(ps)
         /\ TrailingFragment(Melted(ps)) => ~ TrailingFragment(Front(Melted(ps)))
         /\ \A v \in Owners : \A a, n : At(Melted(ps), v, a, n) <=> At(ps, v, a, n)
         /\ \A x : Cut(Melted(ps), x) => Cut(ps, x)
<1> DEFINE Good(s) == /\ Total(Melted(s)) = Total(s)
                      /\ TrailingFragment(Melted(s)) <=> TrailingFragment(s)
                      /\ TrailingFragment(Melted(s)) => ~ TrailingFragment(Front(Melted(s)))
                      /\ \A v \in Owners : \A a, n : At(Melted(s), v, a, n) <=> At(s, v, a, n)
                      /\ \A x : Cut(Melted(s), x) => Cut(s, x)
           T == {s \in Lists : Good(s)}
<1>1. << >> \in T
  <2>1. Melted(<< >>) = << >> /\ << >> \in Lists
    BY MeltedOn, EmptySeq DEF Lists
  <2>2. ~ TrailingFragment(<< >>)
    BY DEF TrailingFragment
  <2> QED BY <2>1, <2>2
<1>2. ASSUME NEW s \in Seq(Pieces), NEW e \in Pieces, s \in T PROVE Append(s, e) \in T
  <2> DEFINE d == Melted(s)
  <2>1. s \in Lists /\ Append(s, e) \in Lists /\ d \in Lists /\ Melted(Append(s, e)) = Melt(d, e)
    BY MeltedOn, AppendProperties DEF Lists
  <2>2. Good(s)
    BY <1>2
  <2> HIDE DEF d
  <2>3. /\ Total(d) = Total(s) /\ Total(Append(s, e)) = Total(s) + e.size
        /\ Total(Melt(d, e)) = Total(d) + e.size
    BY <2>1, <2>2, MeltIs, TotalOn DEF d
  <2>4. /\ TrailingFragment(Melt(d, e)) <=> TrailingFragment(Append(s, e))
        /\ TrailingFragment(Melt(d, e)) => ~ TrailingFragment(Front(Melt(d, e)))
    BY <2>1, <2>2, MeltIs, TrailingOn DEF d
  <2>5. ASSUME NEW v \in Owners, NEW a, NEW n
        PROVE  At(Melt(d, e), v, a, n) <=> At(Append(s, e), v, a, n)
    <3>1. At(Melt(d, e), v, a, n) <=> At(Append(d, e), v, a, n)
      BY <2>1, MeltIs
    <3>2. At(d, v, a, n) <=> At(s, v, a, n)
      BY <2>2 DEF d
    <3> QED BY <2>1, <2>3, <3>1, <3>2, AtOn
  <2>6. ASSUME NEW x, Cut(Melt(d, e), x) PROVE Cut(Append(s, e), x)
    <3>1. Cut(Append(d, e), x)
      BY <2>1, <2>6, MeltIs
    <3>2. Cut(d, x) \/ x = Total(Append(d, e))
      BY <2>1, <3>1, CutOn
    <3>3. Total(Append(d, e)) = Total(Append(s, e))
      BY <2>1, <2>3, TotalOn
    <3>4. Cut(d, x) => Cut(s, x)
      BY <2>2 DEF d
    <3> QED BY <2>1, <3>2, <3>3, <3>4, CutOn
  <2>7. Good(Append(s, e))
    BY <2>1, <2>3, <2>4, <2>5, <2>6
  <2> QED BY <2>1, <2>7
<1> HIDE DEF T
<1>3. Lists \subseteq T
  BY <1>1, <1>2, ListSets DEF Lists
<1> QED BY <1>3, MeltedOn DEF T

(***************************************************************************)
(* Finding a variable.                                                     *)
(***************************************************************************)
\* No variable has two pieces.
Unique(ps) == \A v \in Owners : \A a, n, b, m : At(ps, v, a, n) /\ At(ps, v, b, m) => a = b /\ n = m

\* A list around one of its pieces.
LEMMA SplitAt ==
  ASSUME NEW ps \in Lists, NEW i \in 1 .. Len(ps)
  PROVE  LET h == SubSeq(ps, 1, i - 1)
             t == SubSeq(ps, i + 1, Len(ps))
         IN  /\ h \in Lists /\ ps[i] \in Pieces /\ t \in Lists
             /\ SubSeq(ps, 1, i) = Append(h, ps[i])
             /\ ps = Append(h, ps[i]) \o t
<1> DEFINE h == SubSeq(ps, 1, i - 1)
           t == SubSeq(ps, i + 1, Len(ps))
<1>1. Len(ps) \in Nat /\ \A j \in 1 .. Len(ps) : ps[j] \in Pieces
  BY LenProperties, ElementOfSeq DEF Lists
<1>2. 1 \in Int /\ i - 1 \in Int /\ i + 1 \in Int /\ Len(ps) \in Int
      /\ (\A j \in 1 .. i - 1 : j \in 1 .. Len(ps))
      /\ (\A j \in i + 1 .. Len(ps) : j \in 1 .. Len(ps))
  BY <1>1
<1>3. h \in Lists
  <2>1. \A j \in 1 .. i - 1 : ps[j] \in Pieces
    BY <1>1, <1>2
  <2> QED BY <1>2, <2>1, SubSeqProperties DEF Lists
<1>4. t \in Lists
  <2>1. \A j \in i + 1 .. Len(ps) : ps[j] \in Pieces
    BY <1>1, <1>2
  <2> QED BY <1>2, <2>1, SubSeqProperties DEF Lists
<1>5. SubSeq(ps, 1, i) = h \o <<ps[i]>>
  <2>1. 1 \in 1 .. Len(ps) /\ i \in 1 .. Len(ps)
    BY <1>1
  <2> QED BY <2>1, SubSeqRecursiveSecond DEF Lists
<1>6. SubSeq(ps, 1, i) \o t = SubSeq(ps, 1, Len(ps))
  <2>1. 1 \in 1 .. Len(ps) + 1 /\ i \in 1 - 1 .. Len(ps) /\ Len(ps) \in i .. Len(ps)
    BY <1>1
  <2> QED BY <2>1, ConcatAdjacentSubSeq DEF Lists
<1>7. SubSeq(ps, 1, Len(ps)) = ps
  BY SubSeqFull DEF Lists
<1> HIDE DEF h, t
<1>8. h \o <<ps[i]>> = Append(h, ps[i])
  BY <1>1, <1>3, AppendIsConcat DEF Lists
<1> QED BY <1>1, <1>3, <1>4, <1>5, <1>6, <1>7, <1>8 DEF h, t

\* A variable is on the stack when it is in the layout.
LEMMA HeldAt ==
  ASSUME NEW ps \in Lists, NEW v
  PROVE  Holds(ps, v) <=> \E a, n : At(ps, v, a, n)
<1>1. DOMAIN ps = 1 .. Len(ps)
  BY LenProperties DEF Lists
<1> QED BY <1>1 DEF Holds, At

\* Where the walks of lookupOnStackVar and releaseOnStackVar stop.
LEMMA Located ==
  ASSUME NEW ps \in Lists, NEW v \in Owners, Holds(ps, v)
  PROVE  \E h \in Lists, n \in Sizes :
           /\ Following(ps, v) \in Lists
           /\ Piece(v, n) \in Pieces
           /\ ps = Append(h, Piece(v, n)) \o Following(ps, v)
           /\ Before(ps, v) = Melted(h)
           /\ SizeOf(ps, v) = n /\ Offset(ps, v) = Total(h) + n
           /\ At(ps, v, Total(h), n)
<1> DEFINE I == {j \in DOMAIN ps : ps[j].var = v}
           i == PositionOf(ps, v)
           h == SubSeq(ps, 1, i - 1)
           n == ps[i].size
<1>1. Len(ps) \in Nat /\ DOMAIN ps = 1 .. Len(ps)
  BY LenProperties DEF Lists
<1>2. i \in 1 .. Len(ps) /\ ps[i].var = v
  <2>1. I \in SUBSET Nat /\ I # {}
    BY <1>1 DEF Holds
  <2>2. PICK k \in I : \A j \in I : k <= j
    <3> HIDE DEF I
    <3> QED BY <2>1, LeastElement
  <2>3. k \in DOMAIN ps /\ ps[k].var = v
    OBVIOUS
  <2>4. ASSUME NEW j \in 1 .. k - 1 PROVE ps[j].var # v
    <3>1. j \in DOMAIN ps /\ ~ (k <= j)
      BY <1>1, <2>3
    <3> QED BY <2>2, <3>1
  <2>5. \E j \in DOMAIN ps : ps[j].var = v /\ \A m \in 1 .. j - 1 : ps[m].var # v
    BY <2>3, <2>4
  <2> QED BY <1>1, <2>5 DEF PositionOf
<1>3. /\ h \in Lists /\ ps[i] \in Pieces /\ Following(ps, v) \in Lists
      /\ SubSeq(ps, 1, i) = Append(h, ps[i])
      /\ ps = Append(h, ps[i]) \o Following(ps, v)
  BY <1>2, SplitAt DEF Following
<1>4. /\ Before(ps, v) = Melted(h) /\ SizeOf(ps, v) = n
      /\ Offset(ps, v) = Total(SubSeq(ps, 1, i))
  BY DEF Before, SizeOf, Offset
<1>5. At(ps, v, Total(h), n)
  BY <1>2 DEF At
<1> HIDE DEF h
<1>6. ps[i] = Piece(v, n) /\ n \in Sizes
  BY <1>2, <1>3 DEF Pieces, Piece
<1>7. Total(Append(h, ps[i])) = Total(h) + n
  BY <1>3, TotalOn
<1> QED BY <1>3, <1>4, <1>5, <1>6, <1>7

\* A variable that is in the layout is found there.
LEMMA FoundAt ==
  ASSUME NEW ps \in Lists, Unique(ps), NEW v \in Owners, NEW a, NEW n, At(ps, v, a, n)
  PROVE  Holds(ps, v) /\ Offset(ps, v) = a + n /\ SizeOf(ps, v) = n
<1>1. Holds(ps, v)
  BY HeldAt
<1>2. PICK h \in Lists, m \in Sizes : /\ SizeOf(ps, v) = m /\ Offset(ps, v) = Total(h) + m
                                      /\ At(ps, v, Total(h), m)
  BY <1>1, Located
<1>3. Total(h) = a /\ m = n
  BY <1>2 DEF Unique
<1> QED BY <1>1, <1>2, <1>3

\* A list that is not empty has a size, and its end is that of its last part.
LEMMA EndOfConcat ==
  ASSUME NEW s \in Lists, NEW t \in Lists, t # << >>
  PROVE  Total(t) > 0 /\ (TrailingFragment(s \o t) <=> TrailingFragment(t))
<1>1. PICK r \in Lists, e \in Pieces : t = Append(r, e)
  BY SequenceEmptyOrAppend DEF Lists
<1>2. Total(t) = Total(r) + e.size /\ Total(r) \in Nat /\ e.size \in Sizes
  BY <1>1, TotalOn DEF Pieces
<1>3. s \o t = Append(s \o r, e) /\ s \o r \in Lists
  <2>1. <<e>> \in Lists /\ s \o r \in Lists
    BY ConcatProperties DEF Lists
  <2>2. t = r \o <<e>> /\ Append(s \o r, e) = (s \o r) \o <<e>>
    BY <1>1, <2>1, AppendIsConcat DEF Lists
  <2> QED BY <2>1, <2>2, ConcatAssociative DEF Lists
<1>4. Total(t) > 0
  BY <1>2 DEF Sizes
<1> QED BY <1>1, <1>3, <1>4, TrailingOn

(***************************************************************************)
(* releaseOnStackVar.                                                      *)
(***************************************************************************)
\* The other variables are laid out in qs as in ps.
SameBut(ps, qs, v) == \A w \in Owners \ {v} : \A a \in Nat : \A n : At(qs, w, a, n) <=> At(ps, w, a, n)

\* A list in which one variable has no piece and the others are as they were.
LEMMA UniqueWithout ==
  ASSUME NEW ps \in Lists, NEW qs \in Lists, Unique(ps), NEW v, SameBut(ps, qs, v),
         \A a, n : ~ At(qs, v, a, n)
  PROVE  Unique(qs) /\ ~ Holds(qs, v)
<1>1. ~ Holds(qs, v)
  BY HeldAt
<1>2. ASSUME NEW w \in Owners, NEW a, NEW n, NEW b, NEW m, At(qs, w, a, n), At(qs, w, b, m)
      PROVE  a = b /\ n = m
  <2>1. w # v
    BY <1>2
  <2>2. a \in Nat /\ b \in Nat
    BY <1>2, AtInside
  <2>3. At(ps, w, a, n) /\ At(ps, w, b, m)
    BY <1>2, <2>1, <2>2 DEF SameBut
  <2> QED BY <2>3 DEF Unique
<1> QED BY <1>1, <1>2 DEF Unique

\* A release takes the variable out of the layout and leaves the others where they
\* are; the list shrinks by what is returned, and ends in no fragment.
LEMMA WithoutIs ==
  ASSUME NEW ps \in Lists, Unique(ps), NEW v \in Owners, Holds(ps, v), ~ TrailingFragment(ps)
  PROVE  /\ Without(ps, v) \in Lists /\ Unique(Without(ps, v))
         /\ ~ TrailingFragment(Without(ps, v)) /\ ~ Holds(Without(ps, v), v)
         /\ Freed(ps, v) \in Nat /\ Total(Without(ps, v)) = Total(ps) - Freed(ps, v)
         /\ SameBut(ps, Without(ps, v), v)
<1>1. PICK h \in Lists, n \in Sizes :
             /\ Following(ps, v) \in Lists
             /\ Piece(v, n) \in Pieces
             /\ ps = Append(h, Piece(v, n)) \o Following(ps, v)
             /\ Before(ps, v) = Melted(h)
             /\ SizeOf(ps, v) = n
             /\ At(ps, v, Total(h), n)
  BY Located
<1> DEFINE f == Following(ps, v)
           M == Melted(h)
           P == Piece(v, n)
           c == Append(h, P)
           q == Without(ps, v)
<1>2. /\ M \in Lists /\ Total(M) = Total(h)
      /\ TrailingFragment(M) => ~ TrailingFragment(Front(M))
      /\ \A w \in Owners : \A a, k : At(M, w, a, k) <=> At(h, w, a, k)
  BY MeltedIs
<1>3. /\ P.var = v /\ P.size = n /\ n \in Nat /\ Total(h) \in Nat
      /\ c \in Lists /\ Total(c) = Total(h) + n
  BY <1>1, TotalOn, TrailingOn DEF Piece, Sizes
<1>4. v # FRAGMENT
  BY SpillStackAssumption
<1>5. \A w \in Owners \ {v} : \A a, k : At(c, w, a, k) <=> At(h, w, a, k)
  BY <1>1, <1>3, AtOn
<1>6. /\ Total(ps) = Total(c) + Total(f) /\ Total(f) \in Nat
      /\ \A w, k : \A a \in Int : At(ps, w, a, k) <=>
                                    At(c, w, a, k) \/ At(f, w, a - Total(c), k)
  <2>1. ps = c \o f /\ f \in Lists
    BY <1>1
  <2> HIDE DEF c, f
  <2>2. /\ Total(c \o f) = Total(c) + Total(f)
        /\ \A w, k : \A a \in Int : At(c \o f, w, a, k) <=>
                                      At(c, w, a, k) \/ At(f, w, a - Total(c), k)
    BY <1>3, <2>1, AtConcat
  <2> QED BY <2>1, <2>2, TotalOn
<1>7. \A a, k : ~ At(h, v, a, k)
  <2> SUFFICES ASSUME NEW a, NEW k, At(h, v, a, k) PROVE FALSE
    OBVIOUS
  <2>1. a \in Nat /\ k \in Sizes /\ a + k <= Total(h)
    BY AtInside
  <2>2. At(c, v, a, k)
    BY <1>1, AtOn
  <2>3. At(ps, v, a, k)
    BY <1>6, <2>1, <2>2
  <2>4. a = Total(h)
    BY <1>1, <2>3 DEF Unique
  <2> QED BY <1>3, <2>1, <2>4 DEF Sizes
<1>8. CASE f # << >>
  <2> DEFINE F == Piece(FRAGMENT, n)
             d == Append(M, F)
  <2>1. F \in Pieces /\ F.var = FRAGMENT /\ F.size = n
    BY <1>1 DEF Piece, Pieces
  <2>2. q = d \o f /\ Freed(ps, v) = 0
    <3>1. q = M \o <<F>> \o f /\ Freed(ps, v) = 0
      BY <1>1, <1>8 DEF Without, Freed
    <3>2. d = M \o <<F>>
      BY <1>2, <2>1, AppendIsConcat DEF Lists
    <3> QED BY <3>1, <3>2
  <2>3. d \in Lists /\ Total(d) = Total(c)
    BY <1>2, <1>3, <2>1, TotalOn, TrailingOn
  <2>4. \A w \in Owners : \A a, k : At(d, w, a, k) <=> At(h, w, a, k)
    <3> SUFFICES ASSUME NEW w \in Owners, NEW a, NEW k PROVE At(d, w, a, k) <=> At(h, w, a, k)
      OBVIOUS
    <3>1. w # FRAGMENT
      BY SpillStackAssumption
    <3>2. At(d, w, a, k) <=> At(M, w, a, k)
      BY <1>2, <2>1, <3>1, AtOn
    <3> QED BY <1>2, <3>2
  <2> HIDE DEF F, d, q, f, c, M, P
  <2>5. /\ q \in Lists /\ Total(q) = Total(d) + Total(f)
        /\ \A w, k : \A a \in Int : At(q, w, a, k) <=>
                                      At(d, w, a, k) \/ At(f, w, a - Total(d), k)
    BY <1>1, <2>2, <2>3, AtConcat DEF f
  <2>6. SameBut(ps, q, v)
    BY <1>5, <1>6, <2>3, <2>4, <2>5 DEF SameBut
  <2>7. ASSUME NEW a, NEW k, At(q, v, a, k) PROVE FALSE
    <3>1. a \in Nat
      BY <2>5, <2>7, AtInside
    <3>2. At(f, v, a - Total(c), k)
      BY <1>7, <2>3, <2>4, <2>5, <2>7, <3>1
    <3>3. a - Total(c) \in Nat
      BY <1>1, <3>2, AtInside DEF f
    <3>4. At(ps, v, a, k)
      BY <1>6, <3>1, <3>2
    <3>5. a = Total(h)
      BY <1>1, <3>4 DEF Unique
    <3> QED BY <1>1, <1>3, <3>1, <3>3, <3>5 DEF Sizes
  <2>8. Unique(q) /\ ~ Holds(q, v)
    BY <2>5, <2>6, <2>7, UniqueWithout
  <2>9. ~ TrailingFragment(q)
    <3>1. TrailingFragment(q) <=> TrailingFragment(f)
      BY <1>1, <1>8, <2>2, <2>3, EndOfConcat DEF f
    <3>2. TrailingFragment(ps) <=> TrailingFragment(f)
      BY <1>1, <1>3, <1>8, EndOfConcat DEF f, c, P
    <3> QED BY <3>1, <3>2
  <2>10. Total(q) = Total(ps) - 0
    BY <1>3, <1>6, <2>3, <2>5
  <2> QED BY <2>2, <2>5, <2>6, <2>8, <2>9, <2>10 DEF q
<1>9. CASE f = << >>
  <2>1. Total(ps) = Total(h) + n
    BY <1>3, <1>6, <1>9, TotalOn
  <2>2. \A w \in Owners \ {v} : \A a \in Nat : \A k : At(ps, w, a, k) <=> At(h, w, a, k)
    <3>1. \A w, a, k : ~ At(f, w, a, k)
      BY <1>9, AtEmpty
    <3> QED BY <1>5, <1>6, <3>1
  <2>3. CASE ~ TrailingFragment(M)
    <3>1. q = M /\ Freed(ps, v) = n
      BY <1>1, <1>9, <2>3 DEF Without, Freed
    <3>2. SameBut(ps, M, v) /\ \A a, k : ~ At(M, v, a, k)
      BY <1>2, <1>7, <2>2 DEF SameBut
    <3>3. Unique(M) /\ ~ Holds(M, v)
      BY <1>2, <3>2, UniqueWithout
    <3>4. Total(M) = Total(ps) - n
      BY <1>2, <1>3, <2>1
    <3> QED BY <1>2, <1>3, <2>3, <3>1, <3>2, <3>3, <3>4
  <2>4. CASE TrailingFragment(M)
    <3> DEFINE e == Front(M)
               l == Last(M)
    <3>1. /\ q = e /\ Freed(ps, v) = n + l.size
      BY <1>1, <1>9, <2>4 DEF Without, Freed
    <3>2. e \in Lists /\ l \in Pieces /\ M = Append(e, l) /\ l.var = FRAGMENT
      BY <1>2, <2>4, SplitLast DEF TrailingFragment, IsFragment, Lists
    <3>3. ~ TrailingFragment(e)
      BY <1>2, <2>4
    <3> HIDE DEF e, l
    <3>4. Total(M) = Total(e) + l.size /\ Total(e) \in Nat /\ l.size \in Nat
      BY <3>2, TotalOn DEF Pieces, Sizes
    <3>5. \A w \in Owners : \A a, k : At(e, w, a, k) <=> At(h, w, a, k)
      <4> SUFFICES ASSUME NEW w \in Owners, NEW a, NEW k PROVE At(e, w, a, k) <=> At(h, w, a, k)
        OBVIOUS
      <4>1. w # FRAGMENT
        BY SpillStackAssumption
      <4>2. At(M, w, a, k) <=> At(e, w, a, k)
        BY <3>2, <4>1, AtOn
      <4> QED BY <1>2, <4>2
    <3>6. SameBut(ps, e, v) /\ \A a, k : ~ At(e, v, a, k)
      BY <1>7, <2>2, <3>5 DEF SameBut
    <3>7. Unique(e) /\ ~ Holds(e, v)
      BY <3>2, <3>6, UniqueWithout
    <3>8. Total(e) = Total(ps) - (n + l.size) /\ n + l.size \in Nat
      BY <1>2, <1>3, <2>1, <3>4
    <3> QED BY <3>1, <3>2, <3>3, <3>6, <3>7, <3>8
  <2> QED BY <2>3, <2>4
<1> QED BY <1>8, <1>9

(***************************************************************************)
(* spillVar.                                                               *)
(***************************************************************************)
\* A list in which one variable has exactly one piece and the others are as they were.
LEMMA UniqueWith ==
  ASSUME NEW ps \in Lists, NEW qs \in Lists, Unique(ps), NEW v \in Owners, SameBut(ps, qs, v),
         NEW b, NEW m, \A a, n : At(qs, v, a, n) <=> a = b /\ n = m
  PROVE  Unique(qs) /\ Holds(qs, v) /\ At(qs, v, b, m)
<1>1. At(qs, v, b, m) /\ Holds(qs, v)
  BY HeldAt
<1>2. ASSUME NEW w \in Owners, NEW a, NEW n, NEW c, NEW k, At(qs, w, a, n), At(qs, w, c, k)
      PROVE  a = c /\ n = k
  <2>1. CASE w = v
    BY <1>2, <2>1
  <2>2. CASE w # v
    <3>1. a \in Nat /\ c \in Nat
      BY <1>2, AtInside
    <3>2. At(ps, w, a, n) /\ At(ps, w, c, k)
      BY <1>2, <2>2, <3>1 DEF SameBut
    <3> QED BY <3>2 DEF Unique
  <2> QED BY <2>1, <2>2
<1> QED BY <1>1, <1>2 DEF Unique

\* The units some first pieces cover, and the rest of the list.
LEMMA CutAt ==
  ASSUME NEW ps \in Lists, NEW k \in 0 .. Len(ps)
  PROVE  LET h == SubSeq(ps, 1, k)
             t == SubSeq(ps, k + 1, Len(ps))
         IN  h \in Lists /\ t \in Lists /\ ps = h \o t
<1> DEFINE h == SubSeq(ps, 1, k)
           t == SubSeq(ps, k + 1, Len(ps))
<1>1. Len(ps) \in Nat /\ \A j \in 1 .. Len(ps) : ps[j] \in Pieces
  BY LenProperties, ElementOfSeq DEF Lists
<1>2. 1 \in Int /\ k \in Int /\ k + 1 \in Int /\ Len(ps) \in Int
      /\ (\A j \in 1 .. k : j \in 1 .. Len(ps))
      /\ (\A j \in k + 1 .. Len(ps) : j \in 1 .. Len(ps))
  BY <1>1
<1>3. (\A j \in 1 .. k : ps[j] \in Pieces) /\ (\A j \in k + 1 .. Len(ps) : ps[j] \in Pieces)
  BY <1>1, <1>2
<1>4. h \in Lists /\ t \in Lists
  BY <1>2, <1>3, SubSeqProperties DEF Lists
<1>5. h \o t = SubSeq(ps, 1, Len(ps))
  <2>1. 1 \in 1 .. Len(ps) + 1 /\ k \in 1 - 1 .. Len(ps) /\ Len(ps) \in k .. Len(ps)
    BY <1>1
  <2> QED BY <2>1, ConcatAdjacentSubSeq DEF Lists
<1>6. SubSeq(ps, 1, Len(ps)) = ps
  BY SubSeqFull DEF Lists
<1> QED BY <1>4, <1>5, <1>6

\* What is left of a fragment that is split.
LEMMA RestIs ==
  ASSUME NEW size \in Nat, NEW n \in Sizes, size >= n
  PROVE  /\ Rest(size, n) \in Lists /\ Total(Rest(size, n)) = size - n
         /\ \A v \in Owners : \A a, k : ~ At(Rest(size, n), v, a, k)
<1>1. CASE size > n
  <2> DEFINE p == Piece(FRAGMENT, size - n)
  <2>1. size - n \in Sizes
    BY <1>1 DEF Sizes
  <2>2. p \in Pieces /\ p.var = FRAGMENT /\ p.size = size - n
    BY <2>1 DEF Piece, Pieces
  <2>3. << >> \in Lists /\ Rest(size, n) = <<p>>
    BY <1>1, EmptySeq DEF Rest, Lists
  <2> HIDE DEF p
  <2>4. <<p>> = Append(<< >>, p)
    OBVIOUS
  <2>5. Append(<< >>, p) \in Lists /\ Total(Append(<< >>, p)) = Total(<< >>) + p.size
    BY <2>2, <2>3, TotalOn, TrailingOn
  <2>6. Total(<< >>) = 0
    BY TotalOn
  <2>7. \A v \in Owners : \A a, k : ~ At(Append(<< >>, p), v, a, k)
    <3> SUFFICES ASSUME NEW v \in Owners, NEW a, NEW k PROVE ~ At(Append(<< >>, p), v, a, k)
      OBVIOUS
    <3> DEFINE e == << >>
    <3>1. v # FRAGMENT
      BY SpillStackAssumption
    <3>2. e \in Lists /\ ~ At(e, v, a, k)
      BY <2>3, AtEmpty
    <3> HIDE DEF e
    <3>3. ~ At(Append(e, p), v, a, k)
      BY <2>2, <3>1, <3>2, AtOn
    <3> QED BY <3>3 DEF e
  <2> QED BY <2>1, <2>2, <2>3, <2>4, <2>5, <2>6, <2>7 DEF Sizes
<1>2. CASE ~ (size > n)
  <2>1. Rest(size, n) = << >> /\ size - n = 0 /\ << >> \in Lists
    BY <1>2, EmptySeq DEF Rest, Sizes, Lists
  <2> QED BY <2>1, TotalOn, AtEmpty
<1> QED BY <1>1, <1>2

\* A spill gives the variable a piece inside the frame or at its end, and leaves the
\* others where they are; the list grows by what the caller is told.
LEMMA PlacedIs ==
  ASSUME NEW ps \in Lists, Unique(ps), NEW v \in Owners, ~ Holds(ps, v), NEW n \in Sizes,
         ~ TrailingFragment(ps)
  PROVE  /\ Placed(ps, v, n) \in Lists /\ Unique(Placed(ps, v, n))
         /\ ~ TrailingFragment(Placed(ps, v, n)) /\ Holds(Placed(ps, v, n), v)
         /\ Total(Placed(ps, v, n)) = Total(ps) + Grown(ps, n)
         /\ SameBut(ps, Placed(ps, v, n), v)
         /\ \E a \in Nat : /\ At(Placed(ps, v, n), v, a, n)
                           /\ IF IsNew(ps, n) THEN a = Total(ps) ELSE a + n <= Total(ps)
<1> DEFINE M == Melted(ps)
           P == Piece(v, n)
           q == Placed(ps, v, n)
<1>1. /\ M \in Lists /\ Total(M) = Total(ps) /\ Total(ps) \in Nat
      /\ ~ TrailingFragment(M)
      /\ \A w \in Owners : \A a, k : At(M, w, a, k) <=> At(ps, w, a, k)
      /\ \A x : Cut(M, x) => Cut(ps, x)
  BY MeltedIs, TotalOn
<1>2. P \in Pieces /\ P.var = v /\ P.size = n /\ n \in Nat /\ ~ IsFragment(P)
  BY SpillStackAssumption DEF Piece, Pieces, Sizes, IsFragment
<1>3. \A a, k : ~ At(ps, v, a, k)
  BY HeldAt
<1>4. CASE IsNew(ps, n)
  <2>1. q = Append(M, P) /\ Grown(ps, n) = n
    BY <1>4 DEF Placed, Grown
  <2> HIDE DEF M, P, q
  <2>2. q \in Lists /\ Total(q) = Total(ps) + n /\ ~ TrailingFragment(q)
    BY <1>1, <1>2, <2>1, TotalOn, TrailingOn
  <2>3. \A w, a, k : At(q, w, a, k) <=> At(M, w, a, k) \/ (v = w /\ n = k /\ a = Total(M))
    BY <1>1, <1>2, <2>1, AtOn
  <2>4. SameBut(ps, q, v)
    BY <1>1, <2>3 DEF SameBut
  <2>5. \A a, k : At(q, v, a, k) <=> a = Total(ps) /\ k = n
    BY <1>1, <1>3, <2>3
  <2>6. Unique(q) /\ Holds(q, v) /\ At(q, v, Total(ps), n)
    <3> DEFINE b == Total(ps)
    <3>1. \A a, k : At(q, v, a, k) <=> a = b /\ k = n
      BY <2>5
    <3> HIDE DEF b
    <3>2. Unique(q) /\ Holds(q, v) /\ At(q, v, b, n)
      BY <2>2, <2>4, <3>1, UniqueWith
    <3> QED BY <3>2 DEF b
  <2> QED BY <1>1, <1>4, <2>1, <2>2, <2>4, <2>6 DEF q
<1>5. CASE ~ IsNew(ps, n)
  <2> DEFINE i == CHOOSE i \in LargeEnough(ps, n) : \A j \in LargeEnough(ps, n) : i <= j
             F == M[i]
             h == SubSeq(M, 1, i - 1)
             g == SubSeq(M, i + 1, Len(M))
             X == Total(SubSeq(M, 1, i))
             u == Unvisited(ps, i)
             R == Rest(F.size, n)
             B == Append(h, P) \o R
  <2>1. /\ i \in 1 .. Len(M) /\ F.var = FRAGMENT /\ F.size >= n
    <3>1. DOMAIN M = 1 .. Len(M) /\ Len(M) \in Nat
      BY <1>1, LenProperties DEF Lists
    <3>2. LargeEnough(ps, n) \in SUBSET Nat /\ LargeEnough(ps, n) # {}
      BY <1>5, <3>1 DEF LargeEnough, IsNew
    <3>3. \E k \in LargeEnough(ps, n) : \A j \in LargeEnough(ps, n) : k <= j
      BY <3>2, LeastElement
    <3>4. i \in LargeEnough(ps, n)
      BY <3>3
    <3> QED BY <3>1, <3>4 DEF LargeEnough, IsFragment
  <2>2. q = h \o <<P>> \o R \o u /\ Grown(ps, n) = 0
    BY <1>5 DEF Placed, Grown
  <2> HIDE DEF i
  <2>3. /\ h \in Lists /\ F \in Pieces /\ g \in Lists
        /\ SubSeq(M, 1, i) = Append(h, F) /\ M = Append(h, F) \o g
    <3> HIDE DEF M
    <3> QED BY <1>1, <2>1, SplitAt
  <2>4. X \in Nat /\ X = Total(h) + F.size /\ Total(h) \in Nat /\ F.size \in Nat
    <3>1. X = Total(Append(h, F))
      BY <2>3
    <3> HIDE DEF M, F, h, X
    <3>2. Total(Append(h, F)) = Total(h) + F.size /\ Total(h) \in Nat
      BY <2>3, TotalOn
    <3>3. F.size \in Nat
      BY <2>3 DEF Pieces, Sizes
    <3> QED BY <3>1, <3>2, <3>3
  <2>5. PICK A \in Lists : u \in Lists /\ ps = A \o u /\ Total(A) = X
    <3> DEFINE k == CHOOSE k \in 0 .. Len(ps) : Total(SubSeq(ps, 1, k)) = X
    <3>1. Cut(M, X)
      <4>1. i \in 0 .. Len(M)
        BY <2>1
      <4> QED BY <4>1 DEF Cut
    <3>2. Cut(ps, X)
      BY <1>1, <3>1
    <3>3. k \in 0 .. Len(ps) /\ Total(SubSeq(ps, 1, k)) = X
      BY <3>2 DEF Cut
    <3>4. u = SubSeq(ps, k + 1, Len(ps))
      BY DEF Unvisited
    <3> HIDE DEF k, u, X
    <3>5. SubSeq(ps, 1, k) \in Lists /\ u \in Lists /\ ps = SubSeq(ps, 1, k) \o u
      BY <3>3, <3>4, CutAt
    <3> QED BY <3>3, <3>5
  <2> HIDE DEF M, P, q, F, h, g, X, u
  <2>6. /\ R \in Lists /\ Total(R) = F.size - n
        /\ \A w \in Owners : \A a, k : ~ At(R, w, a, k)
    BY <2>1, <2>4, RestIs
  <2> HIDE DEF R
  <2>7. /\ Append(h, P) \in Lists /\ Total(Append(h, P)) = Total(h) + n
        /\ \A w, a, k : At(Append(h, P), w, a, k) <=>
                          At(h, w, a, k) \/ (v = w /\ n = k /\ a = Total(h))
    BY <1>2, <2>3, AtOn, TotalOn, TrailingOn
  <2>8. /\ B \in Lists /\ Total(B) = Total(Append(h, P)) + Total(R)
        /\ \A w, k : \A a \in Int :
             At(B, w, a, k) <=> At(Append(h, P), w, a, k) \/ At(R, w, a - Total(Append(h, P)), k)
    BY <2>6, <2>7, AtConcat
  <2>9. q = B \o u
    <3>1. Append(h, P) = h \o <<P>>
      BY <1>2, <2>3, AppendIsConcat DEF Lists
    <3> QED BY <2>2, <3>1
  <2> HIDE DEF B
  <2>10. Total(B) = X
    BY <1>2, <2>4, <2>6, <2>7, <2>8
  <2>11. \A w \in Owners : \A k : \A a \in Nat :
            At(B, w, a, k) <=> At(h, w, a, k) \/ (v = w /\ n = k /\ a = Total(h))
    BY <2>6, <2>7, <2>8
  <2>12. /\ q \in Lists /\ Total(q) = X + Total(u)
         /\ \A w, k : \A a \in Int : At(q, w, a, k) <=> At(B, w, a, k) \/ At(u, w, a - X, k)
    BY <2>5, <2>8, <2>9, <2>10, AtConcat
  <2>13. /\ Total(ps) = X + Total(u) /\ Total(u) \in Nat
         /\ \A w, k : \A a \in Int : At(ps, w, a, k) <=> At(A, w, a, k) \/ At(u, w, a - X, k)
    BY <2>5, AtConcat, TotalOn
  <2>14. /\ Total(M) = X + Total(g) /\ Total(g) \in Nat
         /\ \A w, k : \A a \in Int :
              At(M, w, a, k) <=> At(Append(h, F), w, a, k) \/ At(g, w, a - X, k)
    <3>1. Append(h, F) \in Lists /\ Total(Append(h, F)) = X
      BY <2>3, <2>4, TotalOn, TrailingOn
    <3> QED BY <2>3, <3>1, AtConcat, TotalOn
  <2>15. ASSUME NEW w \in Owners, NEW a \in Nat, NEW k
         PROVE  At(ps, w, a, k) <=> At(h, w, a, k) \/ At(u, w, a - X, k)
    <3>1. w # FRAGMENT
      BY SpillStackAssumption
    <3>2. At(Append(h, F), w, a, k) <=> At(h, w, a, k)
      BY <2>1, <2>3, <3>1, AtOn
    <3>3. At(ps, w, a, k) <=> At(h, w, a, k) \/ At(g, w, a - X, k)
      BY <1>1, <2>14, <3>2
    <3>4. At(ps, w, a, k) <=> At(A, w, a, k) \/ At(u, w, a - X, k)
      BY <2>13
    <3>5. At(A, w, a, k) => a < X
      <4> SUFFICES ASSUME At(A, w, a, k) PROVE a < X
        OBVIOUS
      <4>1. k \in Sizes /\ a + k <= X
        BY <2>5, AtInside
      <4> QED BY <2>4, <4>1 DEF Sizes
    <3>6. At(g, w, a - X, k) => ~ (a < X)
      <4> SUFFICES ASSUME At(g, w, a - X, k) PROVE ~ (a < X)
        OBVIOUS
      <4>1. a - X \in Nat
        BY <2>3, AtInside
      <4> QED BY <2>4, <4>1
    <3> QED BY <3>3, <3>4, <3>5, <3>6
  <2>16. SameBut(ps, q, v)
    <3> SUFFICES ASSUME NEW w \in Owners \ {v}, NEW a \in Nat, NEW k
                 PROVE  At(q, w, a, k) <=> At(ps, w, a, k)
      BY DEF SameBut
    <3> QED BY <2>11, <2>12, <2>15
  <2>17. ASSUME NEW a, NEW k PROVE At(q, v, a, k) <=> a = Total(h) /\ k = n
    <3>1. At(q, v, a, k) => a \in Nat
      BY <2>12, AtInside
    <3>2. CASE a \in Nat
      <4>1. ~ At(h, v, a, k) /\ ~ At(u, v, a - X, k)
        BY <1>3, <2>15, <3>2
      <4> QED BY <2>11, <2>12, <3>2, <4>1
    <3> QED BY <2>4, <3>1, <3>2
  <2>18. Unique(q) /\ Holds(q, v) /\ At(q, v, Total(h), n)
    <3> DEFINE b == Total(h)
    <3>1. \A a, k : At(q, v, a, k) <=> a = b /\ k = n
      BY <2>17
    <3> HIDE DEF b
    <3>2. Unique(q) /\ Holds(q, v) /\ At(q, v, b, n)
      BY <2>12, <2>16, <3>1, UniqueWith
    <3> QED BY <3>2 DEF b
  <2>19. ~ TrailingFragment(q)
    <3>1. u # << >>
      <4> SUFFICES ASSUME u = << >> PROVE FALSE
        OBVIOUS
      <4>1. Total(g) = 0
        BY <1>1, <2>4, <2>13, <2>14, TotalOn
      <4>2. g = << >>
        BY <2>3, <4>1, EndOfConcat
      <4>3. M = Append(h, F)
        <5>1. Append(h, F) \in Lists
          BY <2>3, TrailingOn
        <5> QED BY <2>3, <4>2, <5>1, ConcatEmptySeq DEF Lists
      <4>4. TrailingFragment(M)
        BY <2>1, <2>3, <4>3, TrailingOn DEF IsFragment
      <4> QED BY <1>1, <4>4
    <3> QED BY <2>5, <2>8, <2>9, <3>1, EndOfConcat
  <2>20. Total(q) = Total(ps) + 0 /\ Total(h) + n <= Total(ps)
    BY <1>1, <1>2, <2>1, <2>4, <2>12, <2>13
  <2> QED BY <1>5, <2>2, <2>4, <2>12, <2>16, <2>18, <2>19, <2>20 DEF q
<1> QED BY <1>4, <1>5

(***************************************************************************)
(* What a change of one variable means for the others.                     *)
(***************************************************************************)
\* The others are on the stack as before, at the same offsets.
LEMMA OthersStay ==
  ASSUME NEW ps \in Lists, NEW qs \in Lists, Unique(ps), Unique(qs), NEW v, SameBut(ps, qs, v),
         NEW w \in Owners \ {v}
  PROVE  /\ Holds(qs, w) <=> Holds(ps, w)
         /\ Holds(ps, w) => Offset(qs, w) = Offset(ps, w) /\ SizeOf(qs, w) = SizeOf(ps, w)
<1>1. \A a, n : At(qs, w, a, n) <=> At(ps, w, a, n)
  <2> SUFFICES ASSUME NEW a, NEW n PROVE At(qs, w, a, n) <=> At(ps, w, a, n)
    OBVIOUS
  <2>1. At(qs, w, a, n) \/ At(ps, w, a, n) => a \in Nat
    BY AtInside
  <2> QED BY <2>1 DEF SameBut
<1>2. Holds(qs, w) <=> Holds(ps, w)
  BY <1>1, HeldAt
<1>3. ASSUME Holds(ps, w) PROVE Offset(qs, w) = Offset(ps, w) /\ SizeOf(qs, w) = SizeOf(ps, w)
  <2>1. PICK a, n : At(ps, w, a, n)
    BY <1>3, HeldAt
  <2>2. At(qs, w, a, n)
    BY <1>1, <2>1
  <2>3. Offset(ps, w) = a + n /\ SizeOf(ps, w) = n
    BY <2>1, FoundAt
  <2>4. Offset(qs, w) = a + n /\ SizeOf(qs, w) = n
    BY <2>2, FoundAt
  <2> QED BY <2>3, <2>4
<1> QED BY <1>2, <1>3

\* genCallInst puts the arguments at the end.
LEMMA PushedIs ==
  ASSUME NEW ps \in Lists, Unique(ps), ~ Holds(ps, ARGS), NEW n \in Sizes
  PROVE  LET p  == Piece(ARGS, n)
             qs == Append(ps, p)
         IN  /\ p \in Pieces /\ p.var = ARGS /\ p.size = n
             /\ qs \in Lists /\ Unique(qs) /\ ~ TrailingFragment(qs) /\ Holds(qs, ARGS)
             /\ Total(qs) = Total(ps) + n /\ SameBut(ps, qs, ARGS)
             /\ At(qs, ARGS, Total(ps), n)
<1> DEFINE p  == Piece(ARGS, n)
           qs == Append(ps, p)
           b  == Total(ps)
<1>1. ARGS \in Owners /\ ARGS # FRAGMENT
  BY SpillStackAssumption DEF Owners
<1>2. p \in Pieces /\ p.var = ARGS /\ p.size = n /\ ~ IsFragment(p)
  BY <1>1 DEF Pieces, Piece, IsFragment
<1> HIDE DEF p, b
<1>3. qs \in Lists /\ Total(qs) = Total(ps) + n /\ ~ TrailingFragment(qs)
  BY <1>2, TotalOn, TrailingOn
<1>4. \A w, a, k : At(qs, w, a, k) <=> At(ps, w, a, k) \/ (ARGS = w /\ n = k /\ a = b)
  BY <1>2, AtOn DEF b
<1> HIDE DEF qs
<1>5. SameBut(ps, qs, ARGS)
  BY <1>4 DEF SameBut
<1>6. \A a, k : At(qs, ARGS, a, k) <=> a = b /\ k = n
  <2>1. \A a, k : ~ At(ps, ARGS, a, k)
    BY HeldAt
  <2> QED BY <1>4, <2>1
<1>7. Unique(qs) /\ Holds(qs, ARGS) /\ At(qs, ARGS, b, n)
  BY <1>1, <1>3, <1>5, <1>6, UniqueWith
<1> QED BY <1>2, <1>3, <1>5, <1>7 DEF qs, p, b

\* popVar takes the arguments off.
LEMMA PoppedIs ==
  ASSUME NEW ps \in Lists, Unique(ps), ps # << >>, Last(ps).var = ARGS
  PROVE  LET qs == Front(ps)
             n  == Last(ps).size
         IN  /\ qs \in Lists /\ n \in Sizes /\ Unique(qs) /\ ~ Holds(qs, ARGS)
             /\ Holds(ps, ARGS)
             /\ Total(ps) = Total(qs) + n /\ Total(qs) \in Nat /\ SameBut(ps, qs, ARGS)
<1> DEFINE qs == Front(ps)
           e  == Last(ps)
           n  == e.size
<1>1. qs \in Lists /\ e \in Pieces /\ ps = Append(qs, e)
  BY SplitLast DEF Lists
<1>2. ARGS \in Owners
  BY DEF Owners
<1> HIDE DEF qs, e
<1>3. n \in Sizes /\ e.var = ARGS
  BY <1>1 DEF Pieces, e
<1>4. Total(ps) = Total(qs) + n /\ Total(qs) \in Nat
  BY <1>1, TotalOn
<1>5. \A w, a, k : At(ps, w, a, k) <=>
                     At(qs, w, a, k) \/ (ARGS = w /\ n = k /\ a = Total(qs))
  BY <1>1, <1>3, AtOn
<1>6. SameBut(ps, qs, ARGS)
  BY <1>5 DEF SameBut
<1>7. \A a, k : ~ At(qs, ARGS, a, k)
  <2> SUFFICES ASSUME NEW a, NEW k, At(qs, ARGS, a, k) PROVE FALSE
    OBVIOUS
  <2>1. a \in Nat /\ k \in Sizes /\ a + k <= Total(qs)
    BY <1>1, AtInside
  <2>2. At(ps, ARGS, a, k) /\ At(ps, ARGS, Total(qs), n)
    BY <1>5
  <2>3. a = Total(qs)
    BY <1>2, <2>2 DEF Unique
  <2> QED BY <1>4, <2>1, <2>3 DEF Sizes
<1>8. Unique(qs) /\ ~ Holds(qs, ARGS)
  BY <1>1, <1>6, <1>7, UniqueWithout
<1>9. Holds(ps, ARGS)
  BY <1>5, HeldAt
<1> QED BY <1>1, <1>3, <1>4, <1>6, <1>8, <1>9 DEF qs, e

(***************************************************************************)
(* The inductive invariant.  AddressesStable needs to know that the plan   *)
(* is right (stackSize is what the pieces cover, stackpos where the        *)
(* variable is now, so no operation may move another variable) and that    *)
(* SP follows it; NoTrailingFragment, that the arguments of a call were    *)
(* put where no fragment is before them, since popVar does not melt.       *)
(***************************************************************************)
FrameKept == /\ Unique(pieces)
             /\ ~ TrailingFragment(pieces)
             /\ stackSize = Total(pieces)

ArgsLast == OnStack(ARGS) =>
              entered /\ Last(pieces).var = ARGS /\ ~ TrailingFragment(Front(pieces))

Placement == \A v \in Locals \cup Temps : OnStack(v) =>
               /\ stackpos[v] = Offset(pieces, v)
               /\ reused = 0 => home[v] = Offset(pieces, v)

Lowered == /\ entered => depth >= stackSize /\ (reused = 0 => depth = stackSize)
           /\ ~ entered => depth = 0 /\ reused = 0

IInv == TypeOK /\ FrameKept /\ ArgsLast /\ Placement /\ Lowered

\* An invariant and the properties.
LEMMA InvImplies == IInv => NoTrailingFragment /\ AddressesStable
<1> SUFFICES ASSUME IInv, entered, reused = 0, NEW v \in Locals \cup Temps, OnStack(v)
             PROVE  Address(v) = home[v] /\ home[v] = Offset(pieces, v)
  BY DEF IInv, FrameKept, Lowered, NoTrailingFragment, AddressesStable
<1>1. depth = stackSize /\ stackSize \in Nat /\ depth \in Nat /\ stackpos[v] \in Nat
  BY DEF IInv, Lowered, TypeOK
<1>2. stackpos[v] = Offset(pieces, v) /\ home[v] = Offset(pieces, v)
  BY DEF IInv, Placement
<1> QED BY <1>1, <1>2 DEF Address

\* The types the steps below rely on.
LEMMA Facts ==
  ASSUME IInv
  PROVE  /\ pieces \in Lists /\ Unique(pieces) /\ ~ TrailingFragment(pieces)
         /\ stackSize = Total(pieces) /\ stackSize \in Nat /\ depth \in Nat
         /\ reused \in Nat /\ reused <= MaxReused
BY SpillStackAssumption DEF IInv, TypeOK, FrameKept, Lists, Pieces, Sizes

\* A step that spills v: what it does to the plan.
LEMMA SpillKeeps ==
  ASSUME IInv, NEW v \in Locals \cup Temps, NEW n \in Sizes, ~ OnStack(v), ~ OnStack(ARGS),
         SpillVar(v, n)
  PROVE  /\ pieces' \in Lists /\ FrameKept' /\ ~ OnStack(ARGS)'
         /\ stackSize' \in Nat
         /\ stackSize' = IF IsNew(pieces, n) THEN stackSize + n ELSE stackSize
         /\ stackpos' \in [Locals \cup Temps -> Nat] /\ stackpos'[v] = Offset(pieces', v)
         /\ SameBut(pieces, pieces', v)
         /\ \A w \in (Locals \cup Temps) \ {v} :
              /\ OnStack(w)' <=> OnStack(w)
              /\ OnStack(w) => Offset(pieces', w) = Offset(pieces, w)
              /\ stackpos'[w] = stackpos[w]
         /\ \E a \in Nat : /\ At(pieces', v, a, n)
                           /\ IF IsNew(pieces, n) THEN a = stackSize ELSE a + n <= stackSize
<1> DEFINE q == Placed(pieces, v, n)
<1>1. v \in Owners /\ v # ARGS /\ ARGS \in Owners /\ ~ Holds(pieces, v) /\ ~ Holds(pieces, ARGS)
  BY SpillStackAssumption DEF Owners, OnStack
<1>2. /\ pieces' = q /\ stackSize' = stackSize + Grown(pieces, n)
      /\ stackpos' = [stackpos EXCEPT ![v] = Offset(pieces', v)]
  BY DEF SpillVar
<1>3. /\ q \in Lists /\ Unique(q) /\ ~ TrailingFragment(q) /\ Holds(q, v)
      /\ Total(q) = Total(pieces) + Grown(pieces, n)
      /\ SameBut(pieces, q, v)
  BY <1>1, Facts, PlacedIs
<1>4. PICK a \in Nat : /\ At(q, v, a, n)
                       /\ IF IsNew(pieces, n) THEN a = Total(pieces) ELSE a + n <= Total(pieces)
  BY <1>1, Facts, PlacedIs
<1> HIDE DEF q
<1>5. Offset(q, v) = a + n
  BY <1>1, <1>3, <1>4, FoundAt
<1>6. stackpos' \in [Locals \cup Temps -> Nat] /\ stackpos'[v] = Offset(pieces', v)
      /\ \A w \in (Locals \cup Temps) \ {v} : stackpos'[w] = stackpos[w]
  BY <1>2, <1>5 DEF IInv, TypeOK, Sizes
<1>7. /\ stackSize' = IF IsNew(pieces, n) THEN stackSize + n ELSE stackSize
      /\ stackSize' = Total(pieces')
      /\ stackSize' \in Nat
  BY <1>2, <1>3, Facts DEF Grown, Sizes
<1>8. FrameKept'
  BY <1>2, <1>3, <1>7 DEF FrameKept
<1>9. ASSUME NEW w \in Owners \ {v}
      PROVE  /\ OnStack(w)' <=> OnStack(w)
             /\ OnStack(w) => Offset(pieces', w) = Offset(pieces, w)
  BY <1>2, <1>3, <1>9, Facts, OthersStay DEF OnStack
<1>10. ~ OnStack(ARGS)'
  BY <1>1, <1>9 DEF OnStack
<1>11. \A w \in (Locals \cup Temps) \ {v} : w \in Owners \ {v}
  BY DEF Owners
<1> QED BY <1>2, <1>3, <1>4, <1>6, <1>7, <1>8, <1>9, <1>10, <1>11, Facts

\* Init.
LEMMA InitInv == Init => IInv
<1> SUFFICES ASSUME Init PROVE IInv
  OBVIOUS
<1>1. pieces \in Lists /\ pieces = << >>
  BY EmptySeq DEF Init, Lists
<1>2. ~ TrailingFragment(pieces) /\ Total(pieces) = 0 /\ Unique(pieces)
  BY <1>1, TotalOn, AtEmpty DEF TrailingFragment, Unique
<1>3. \A v : ~ OnStack(v)
  BY <1>1, HeldAt, AtEmpty DEF OnStack
<1>4. TypeOK
  <2>1. pieces \in Seq([var : Owners \cup {FRAGMENT}, size : Nat \ {0}])
    BY <1>1 DEF Lists, Pieces, Sizes
  <2>2. reused \in 0 .. MaxReused
    BY SpillStackAssumption DEF Init
  <2>3. stackpos \in [Locals \cup Temps -> Nat] /\ home \in [Locals \cup Temps -> Int]
    BY DEF Init
  <2>4. stackSize \in Nat /\ depth \in Nat /\ entered \in BOOLEAN
    BY DEF Init
  <2> HIDE DEF Init
  <2> QED BY <2>1, <2>2, <2>3, <2>4 DEF TypeOK
<1>5. FrameKept
  BY <1>2 DEF Init, FrameKept
<1>6. ArgsLast /\ Placement
  BY <1>3 DEF ArgsLast, Placement
<1>7. Lowered
  BY DEF Init, Lowered
<1> QED BY <1>4, <1>5, <1>6, <1>7 DEF IInv

\* Every kind of spill keeps the invariant, once what it does to SP and to the home
\* of the variable is known.
LEMMA SpillInv ==
  ASSUME IInv, NEW v \in Locals \cup Temps, NEW n \in Sizes, ~ OnStack(v), ~ OnStack(ARGS),
         SpillVar(v, n),
         depth' \in Nat, reused' \in 0 .. MaxReused, entered' = entered, Lowered',
         reused' = 0 => reused = 0,
         NEW x \in Int, home' = [home EXCEPT ![v] = x], reused' = 0 => x = Offset(pieces', v)
  PROVE  IInv'
<1>1. /\ pieces' \in Lists /\ FrameKept' /\ ~ OnStack(ARGS)'
      /\ stackSize' \in Nat
      /\ stackpos' \in [Locals \cup Temps -> Nat] /\ stackpos'[v] = Offset(pieces', v)
      /\ \A w \in (Locals \cup Temps) \ {v} :
           /\ OnStack(w)' <=> OnStack(w)
           /\ OnStack(w) => Offset(pieces', w) = Offset(pieces, w)
           /\ stackpos'[w] = stackpos[w]
  BY SpillKeeps
<1>2. TypeOK'
  <2>1. home' \in [Locals \cup Temps -> Int] /\ entered' \in BOOLEAN
    BY DEF IInv, TypeOK
  <2>2. pieces' \in Seq([var : Owners \cup {FRAGMENT}, size : Nat \ {0}])
    BY <1>1 DEF Lists, Pieces, Sizes
  <2> QED BY <1>1, <2>1, <2>2 DEF TypeOK
<1>3. ArgsLast'
  BY <1>1 DEF ArgsLast
<1>4. Placement'
  <2> SUFFICES ASSUME NEW w \in Locals \cup Temps, OnStack(w)'
               PROVE  /\ stackpos'[w] = Offset(pieces', w)
                      /\ reused' = 0 => home'[w] = Offset(pieces', w)
    BY DEF Placement
  <2>1. home \in [Locals \cup Temps -> Int]
    BY DEF IInv, TypeOK
  <2>2. CASE w = v
    BY <1>1, <2>1, <2>2
  <2>3. CASE w # v
    <3>1. OnStack(w) /\ Offset(pieces', w) = Offset(pieces, w) /\ stackpos'[w] = stackpos[w]
      BY <1>1, <2>3
    <3>2. stackpos[w] = Offset(pieces, w) /\ (reused = 0 => home[w] = Offset(pieces, w))
      BY <3>1 DEF IInv, Placement
    <3>3. home'[w] = home[w]
      BY <2>1, <2>3
    <3> QED BY <3>1, <3>2, <3>3
  <2> QED BY <2>2, <2>3
<1> QED BY <1>1, <1>2, <1>3, <1>4 DEF IInv

\* Where a spilled variable is put, it is looked for, once SP has followed the plan.
LEMMA HomeOfSpilled ==
  ASSUME stackSize' \in Nat, depth' \in Nat, NEW v \in Locals \cup Temps, stackpos'[v] \in Nat
  PROVE  /\ Address(v)' \in Int
         /\ depth' = stackSize' => Address(v)' = stackpos'[v]
BY DEF Address

\* genAllocaInst.
LEMMA AllocaInv ==
  ASSUME IInv, NEW v \in Locals, NEW n \in 1 .. MaxAlloca, Alloca(v, n)
  PROVE  IInv'
<1>1. n \in Sizes /\ v \in Locals \cup Temps
  BY SpillStackAssumption DEF Sizes
<1>2. ~ entered /\ ~ OnStack(v) /\ SpillVar(v, n) /\ UNCHANGED <<depth, entered, reused>>
      /\ home' = [home EXCEPT ![v] = stackpos'[v]]
  BY DEF Alloca
<1>3. ~ OnStack(ARGS)
  BY <1>2 DEF IInv, ArgsLast
<1>4. stackpos' \in [Locals \cup Temps -> Nat] /\ stackpos'[v] = Offset(pieces', v)
  BY <1>1, <1>2, <1>3, SpillKeeps
<1>5. stackpos'[v] \in Int
  BY <1>1, <1>4
<1>6. Lowered'
  BY <1>2 DEF IInv, Lowered
<1>7. depth' \in Nat /\ reused' \in 0 .. MaxReused
  BY <1>2 DEF IInv, TypeOK
<1> QED BY <1>1, <1>2, <1>3, <1>4, <1>5, <1>6, <1>7, SpillInv

\* SP is lowered for the allocas.
LEMMA EnterInv ==
  ASSUME IInv, Enter
  PROVE  IInv'
<1>1. /\ ~ entered /\ entered' = TRUE /\ depth' = depth + Total(pieces)
      /\ pieces' = pieces /\ stackSize' = stackSize /\ stackpos' = stackpos
      /\ home' = home /\ reused' = reused
  BY DEF Enter
<1>2. depth = 0 /\ depth' = stackSize
  <2>1. depth = 0
    BY <1>1 DEF IInv, Lowered
  <2> QED BY <1>1, <2>1, Facts
<1>3. TypeOK'
  BY <1>1, <1>2, Facts DEF IInv, TypeOK
<1>4. FrameKept'
  BY <1>1 DEF IInv, FrameKept
<1>5. ArgsLast' /\ Placement'
  BY <1>1 DEF IInv, ArgsLast, Placement, OnStack
<1>6. Lowered'
  BY <1>1, <1>2, Facts DEF Lowered
<1> QED BY <1>3, <1>4, <1>5, <1>6 DEF IInv

\* What both spills of a register have in common.
LEMMA RegisterSpilled ==
  ASSUME IInv, NEW v \in Temps, CanSpill(v), SpillVar(v, 1)
  PROVE  /\ 1 \in Sizes /\ v \in Locals \cup Temps /\ entered /\ ~ OnStack(v) /\ ~ OnStack(ARGS)
         /\ stackSize' = IF IsNew(pieces, 1) THEN stackSize + 1 ELSE stackSize
         /\ stackSize' \in Nat
         /\ stackpos'[v] = Offset(pieces', v) /\ stackpos'[v] \in Nat
<1>1. 1 \in Sizes /\ v \in Locals \cup Temps /\ entered /\ ~ OnStack(v) /\ ~ OnStack(ARGS)
  BY DEF Sizes, CanSpill
<1> DEFINE one == 1
<1>2. one \in Sizes /\ SpillVar(v, one)
  BY <1>1
<1> HIDE DEF one
<1>3. /\ stackSize' = IF IsNew(pieces, one) THEN stackSize + one ELSE stackSize
      /\ stackSize' \in Nat
      /\ stackpos' \in [Locals \cup Temps -> Nat] /\ stackpos'[v] = Offset(pieces', v)
  BY <1>1, <1>2, SpillKeeps
<1> QED BY <1>1, <1>3 DEF one

\* A forced allocation.
LEMMA ForcedSpillInv ==
  ASSUME IInv, NEW v \in Temps, Spill(v)
  PROVE  IInv'
<1> DEFINE one == 1
           x == Address(v)'
<1>1. /\ CanSpill(v) /\ SpillVar(v, 1)
      /\ depth' = IF IsNew(pieces, 1) THEN depth + 1 ELSE depth
      /\ home' = [home EXCEPT ![v] = x] /\ entered' = entered /\ reused' = reused
  BY DEF Spill
<1>2. /\ v \in Locals \cup Temps /\ entered /\ ~ OnStack(v) /\ ~ OnStack(ARGS)
      /\ one \in Sizes /\ SpillVar(v, one)
      /\ stackSize' = IF IsNew(pieces, 1) THEN stackSize + 1 ELSE stackSize
      /\ stackSize' \in Nat
      /\ stackpos'[v] = Offset(pieces', v) /\ stackpos'[v] \in Nat
  BY <1>1, RegisterSpilled
<1>3. depth >= stackSize /\ (reused = 0 => depth = stackSize)
  BY <1>2 DEF IInv, Lowered
<1>4. depth' \in Nat /\ depth' >= stackSize' /\ (reused' = 0 => depth' = stackSize')
  BY <1>1, <1>2, <1>3, Facts
<1>5. Lowered' /\ reused' \in 0 .. MaxReused
  BY <1>1, <1>2, <1>4 DEF Lowered, IInv, TypeOK
<1>6. x \in Int /\ (reused' = 0 => x = Offset(pieces', v))
  BY <1>2, <1>4, HomeOfSpilled
<1> HIDE DEF one, x
<1> QED BY <1>1, <1>2, <1>4, <1>5, <1>6, SpillInv

\* A definition that finds no free register.
LEMMA SpillAtDefinitionInv ==
  ASSUME IInv, NEW v \in Temps, SpillAtDefinition(v)
  PROVE  IInv'
<1> DEFINE one == 1
           x == Address(v)'
<1>1. /\ CanSpill(v) /\ SpillVar(v, 1)
      /\ IsNew(pieces, 1) \/ reused < MaxReused
      /\ depth' = depth + 1
      /\ home' = [home EXCEPT ![v] = x] /\ entered' = entered
      /\ reused' = IF IsNew(pieces, 1) THEN reused ELSE reused + 1
  BY DEF SpillAtDefinition
<1>2. /\ v \in Locals \cup Temps /\ entered /\ ~ OnStack(v) /\ ~ OnStack(ARGS)
      /\ one \in Sizes /\ SpillVar(v, one)
      /\ stackSize' = IF IsNew(pieces, 1) THEN stackSize + 1 ELSE stackSize
      /\ stackSize' \in Nat
      /\ stackpos'[v] = Offset(pieces', v) /\ stackpos'[v] \in Nat
  BY <1>1, RegisterSpilled
<1>3. depth >= stackSize /\ (reused = 0 => depth = stackSize)
  BY <1>2 DEF IInv, Lowered
<1>4. reused' = 0 => IsNew(pieces, 1) /\ reused = 0
  BY <1>1, Facts
<1>5. depth' \in Nat /\ depth' >= stackSize' /\ (reused' = 0 => depth' = stackSize')
  BY <1>1, <1>2, <1>3, <1>4, Facts
<1>6. reused' \in 0 .. MaxReused
  BY <1>1, Facts, SpillStackAssumption
<1>7. Lowered'
  BY <1>1, <1>2, <1>5 DEF Lowered
<1>8. x \in Int /\ (reused' = 0 => x = Offset(pieces', v))
  BY <1>2, <1>5, HomeOfSpilled
<1> HIDE DEF one, x
<1> QED BY <1>1, <1>2, <1>4, <1>5, <1>6, <1>7, <1>8, SpillInv

\* An operand is reloaded, or its interval has ended.
LEMMA ReleaseInv ==
  ASSUME IInv, NEW v \in Temps, Release(v)
  PROVE  IInv'
<1> DEFINE q == Without(pieces, v)
           g == Freed(pieces, v)
<1>1. /\ entered /\ Holds(pieces, v) /\ ~ Holds(pieces, ARGS)
      /\ pieces' = q /\ stackSize' = stackSize - g /\ depth' = depth - g
      /\ home' = [home EXCEPT ![v] = 0]
      /\ stackpos' = stackpos /\ entered' = entered /\ reused' = reused
  BY DEF Release, ReleaseOnStackVar, OnStack
<1>2. v \in Owners /\ v \in Locals \cup Temps /\ v # ARGS /\ ARGS \in Owners
  BY SpillStackAssumption DEF Owners
<1>3. /\ q \in Lists /\ Unique(q) /\ ~ TrailingFragment(q) /\ ~ Holds(q, v)
      /\ g \in Nat /\ Total(q) = Total(pieces) - g /\ SameBut(pieces, q, v)
  BY <1>1, <1>2, Facts, WithoutIs
<1> HIDE DEF q, g
<1>4. stackSize' = Total(pieces') /\ stackSize' \in Nat
  BY <1>1, <1>3, Facts, TotalOn
<1>5. depth >= stackSize /\ (reused = 0 => depth = stackSize)
  BY <1>1 DEF IInv, Lowered
<1>6. depth' \in Nat /\ depth' >= stackSize' /\ (reused' = 0 => depth' = stackSize')
  BY <1>1, <1>3, <1>4, <1>5, Facts
<1>7. ASSUME NEW w \in Owners \ {v}
      PROVE  /\ OnStack(w)' <=> OnStack(w)
             /\ OnStack(w) => Offset(pieces', w) = Offset(pieces, w)
  BY <1>1, <1>3, <1>7, Facts, OthersStay DEF OnStack
<1>8. TypeOK'
  <2>1. pieces' \in Seq([var : Owners \cup {FRAGMENT}, size : Nat \ {0}])
    BY <1>1, <1>3 DEF Lists, Pieces, Sizes
  <2>2. home' \in [Locals \cup Temps -> Int]
    BY <1>1 DEF IInv, TypeOK
  <2> QED BY <1>1, <1>4, <1>6, <2>1, <2>2 DEF IInv, TypeOK
<1>9. FrameKept'
  BY <1>1, <1>3, <1>4 DEF FrameKept
<1>10. ArgsLast'
  BY <1>1, <1>2, <1>7 DEF ArgsLast, OnStack
<1>11. Placement'
  <2> SUFFICES ASSUME NEW w \in Locals \cup Temps, OnStack(w)'
               PROVE  /\ stackpos'[w] = Offset(pieces', w)
                      /\ reused' = 0 => home'[w] = Offset(pieces', w)
    BY DEF Placement
  <2>1. w # v
    BY <1>1, <1>3 DEF OnStack
  <2>2. OnStack(w) /\ Offset(pieces', w) = Offset(pieces, w)
    BY <1>7, <2>1 DEF Owners
  <2>3. stackpos[w] = Offset(pieces, w) /\ (reused = 0 => home[w] = Offset(pieces, w))
    BY <2>2 DEF IInv, Placement
  <2>4. home'[w] = home[w]
    BY <1>1, <2>1 DEF IInv, TypeOK
  <2> QED BY <1>1, <2>2, <2>3, <2>4
<1>12. Lowered'
  BY <1>1, <1>6 DEF Lowered
<1> QED BY <1>8, <1>9, <1>10, <1>11, <1>12 DEF IInv

\* genCallInst, before the call.
LEMMA PushArgsInv ==
  ASSUME IInv, NEW n \in 1 .. MaxArgs, PushArgs(n)
  PROVE  IInv'
<1> DEFINE p == Piece(ARGS, n)
           q == Append(pieces, p)
<1>1. /\ entered /\ ~ Holds(pieces, ARGS)
      /\ pieces' = q /\ stackSize' = stackSize + n /\ depth' = depth + n
      /\ stackpos' = stackpos /\ home' = home /\ entered' = entered /\ reused' = reused
  BY DEF PushArgs, OnStack
<1>2. n \in Sizes /\ n \in Nat
  BY SpillStackAssumption DEF Sizes
<1>3. /\ p \in Pieces /\ p.var = ARGS
      /\ q \in Lists /\ Unique(q) /\ ~ TrailingFragment(q) /\ Holds(q, ARGS)
      /\ Total(q) = Total(pieces) + n /\ SameBut(pieces, q, ARGS)
  BY <1>1, <1>2, Facts, PushedIs
<1>4. Front(q) = pieces /\ Last(q) = p
  BY <1>3, Facts, TrailingOn
<1> HIDE DEF p, q
<1>5. stackSize' = Total(pieces') /\ stackSize' \in Nat /\ depth' \in Nat
  BY <1>1, <1>2, <1>3, Facts
<1>6. depth >= stackSize /\ (reused = 0 => depth = stackSize)
  BY <1>1 DEF IInv, Lowered
<1>7. depth' >= stackSize' /\ (reused' = 0 => depth' = stackSize')
  BY <1>1, <1>2, <1>6, Facts
<1>8. TypeOK'
  <2>1. pieces' \in Seq([var : Owners \cup {FRAGMENT}, size : Nat \ {0}])
    BY <1>1, <1>3 DEF Lists, Pieces, Sizes
  <2> QED BY <1>1, <1>5, <2>1 DEF IInv, TypeOK
<1>9. FrameKept' /\ ArgsLast'
  BY <1>1, <1>3, <1>4, <1>5, Facts DEF FrameKept, ArgsLast
<1>10. Placement'
  <2> SUFFICES ASSUME NEW w \in Locals \cup Temps, OnStack(w)'
               PROVE  /\ stackpos'[w] = Offset(pieces', w)
                      /\ reused' = 0 => home'[w] = Offset(pieces', w)
    BY DEF Placement
  <2>1. w \in Owners \ {ARGS}
    BY SpillStackAssumption DEF Owners
  <2>2. OnStack(w) /\ Offset(pieces', w) = Offset(pieces, w)
    BY <1>1, <1>3, <2>1, Facts, OthersStay DEF OnStack
  <2> QED BY <1>1, <2>2 DEF IInv, Placement
<1>11. Lowered'
  BY <1>1, <1>7 DEF Lowered
<1> QED BY <1>8, <1>9, <1>10, <1>11 DEF IInv

\* genCallInst, after the call.
LEMMA PopArgsInv ==
  ASSUME IInv, PopArgs
  PROVE  IInv'
<1> DEFINE n == Last(pieces).size
           q == Front(pieces)
<1>1. /\ OnStack(ARGS) /\ Holds(pieces, ARGS)
      /\ pieces' = q /\ stackSize' = stackSize - n /\ depth' = depth - n
      /\ stackpos' = stackpos /\ home' = home /\ entered' = entered /\ reused' = reused
  BY DEF PopArgs, OnStack
<1>2. entered /\ Last(pieces).var = ARGS /\ ~ TrailingFragment(q)
  BY <1>1 DEF IInv, ArgsLast
<1>3. pieces # << >>
  BY <1>1, HeldAt, AtEmpty, Facts
<1>4. /\ q \in Lists /\ n \in Sizes /\ Unique(q) /\ ~ Holds(q, ARGS)
      /\ Total(pieces) = Total(q) + n /\ Total(q) \in Nat /\ SameBut(pieces, q, ARGS)
  BY <1>2, <1>3, Facts, PoppedIs
<1> HIDE DEF n, q
<1>5. stackSize' = Total(pieces') /\ stackSize' \in Nat
  BY <1>1, <1>4, Facts DEF Sizes
<1>6. depth >= stackSize /\ (reused = 0 => depth = stackSize)
  BY <1>2 DEF IInv, Lowered
<1>7. depth' \in Nat /\ depth' >= stackSize' /\ (reused' = 0 => depth' = stackSize')
  BY <1>1, <1>4, <1>5, <1>6, Facts DEF Sizes
<1>8. TypeOK'
  <2>1. pieces' \in Seq([var : Owners \cup {FRAGMENT}, size : Nat \ {0}])
    BY <1>1, <1>4 DEF Lists, Pieces, Sizes
  <2> QED BY <1>1, <1>5, <1>7, <2>1 DEF IInv, TypeOK
<1>9. FrameKept' /\ ArgsLast'
  BY <1>1, <1>2, <1>4, <1>5 DEF FrameKept, ArgsLast, OnStack
<1>10. Placement'
  <2> SUFFICES ASSUME NEW w \in Locals \cup Temps, OnStack(w)'
               PROVE  /\ stackpos'[w] = Offset(pieces', w)
                      /\ reused' = 0 => home'[w] = Offset(pieces', w)
    BY DEF Placement
  <2>1. w \in Owners \ {ARGS}
    BY SpillStackAssumption DEF Owners
  <2>2. OnStack(w) /\ Offset(pieces', w) = Offset(pieces, w)
    BY <1>1, <1>4, <2>1, Facts, OthersStay DEF OnStack
  <2> QED BY <1>1, <2>2 DEF IInv, Placement
<1>11. Lowered'
  BY <1>1, <1>2, <1>7 DEF Lowered
<1> QED BY <1>8, <1>9, <1>10, <1>11 DEF IInv

(***************************************************************************)
(* The theorems.                                                           *)
(***************************************************************************)
\* Every step keeps the invariant.
LEMMA StepInv == IInv /\ [Next]_vars => IInv'
<1> SUFFICES ASSUME IInv, [Next]_vars PROVE IInv'
  OBVIOUS
<1>1. ASSUME NEW v \in Locals, NEW n \in 1 .. MaxAlloca, Alloca(v, n) PROVE IInv'
  BY <1>1, AllocaInv
<1>2. CASE Enter
  BY <1>2, EnterInv
<1>3. ASSUME NEW v \in Temps, Spill(v) PROVE IInv'
  BY <1>3, ForcedSpillInv
<1>4. ASSUME NEW v \in Temps, SpillAtDefinition(v) PROVE IInv'
  BY <1>4, SpillAtDefinitionInv
<1>5. ASSUME NEW v \in Temps, Release(v) PROVE IInv'
  BY <1>5, ReleaseInv
<1>6. ASSUME NEW n \in 1 .. MaxArgs, PushArgs(n) PROVE IInv'
  BY <1>6, PushArgsInv
<1>7. CASE PopArgs
  BY <1>7, PopArgsInv
<1>8. CASE UNCHANGED vars
  BY <1>8 DEF vars, IInv, TypeOK, FrameKept, ArgsLast, Placement, Lowered, OnStack
<1> QED BY <1>1, <1>2, <1>3, <1>4, <1>5, <1>6, <1>7, <1>8 DEF Next

\* The inductive invariant holds.
LEMMA Invariance == Spec => []IInv
<1> QED BY InitInv, StepInv, PTL DEF Spec

\* The frame never ends in a fragment: what spillVar and releaseOnStackVar of
\* backend/regalloc.cpp leave behind at its end is given back, whatever was melted,
\* split or refilled before, and the arguments of a call are popped down to a
\* variable that lives.
THEOREM FrameEndsInAVariable == Spec => []NoTrailingFragment
<1> QED BY Invariance, InvImplies, PTL

\* The address the generator computes for a variable (genAllocaInst, genLoadInst and
\* the reloads of updateAllocation) is where its value was stored and the end of its
\* piece, for as long as it lives on the stack, and the return sequence restores SP:
\* unless updateAllocation lowered SP for a fragment it reused.
THEOREM VariablesStayWhereTheyAre == Spec => []AddressesStable
<1> QED BY Invariance, InvImplies, PTL

(***************************************************************************)
(* The pieces implement FrameSpec.                                         *)
(***************************************************************************)
CellsOf(ps, v) == IF Holds(ps, v) THEN Offset(ps, v) - SizeOf(ps, v) + 1 .. Offset(ps, v) ELSE {}
RangeOf(ps) == [v \in Owners |-> CellsOf(ps, v)]
LargestSize == IF MaxAlloca > MaxArgs THEN MaxAlloca ELSE MaxArgs

\* The cells of a variable that is in the layout, inside the frame.
LEMMA CellsAt ==
  ASSUME NEW ps \in Lists, Unique(ps), NEW v \in Owners, NEW a, NEW n, At(ps, v, a, n)
  PROVE  /\ CellsOf(ps, v) = a + 1 .. a + n
         /\ a \in Nat /\ n \in Sizes /\ a + n <= Total(ps) /\ CellsOf(ps, v) # {}
<1>1. a \in Nat /\ n \in Sizes /\ n \in Nat /\ a + n <= Total(ps)
  BY AtInside DEF Sizes
<1>2. Holds(ps, v) /\ Offset(ps, v) = a + n /\ SizeOf(ps, v) = n
  BY FoundAt
<1>3. CellsOf(ps, v) = (a + n) - n + 1 .. a + n
  BY <1>2 DEF CellsOf
<1>4. (a + n) - n + 1 = a + 1 /\ a + 1 \in a + 1 .. a + n
  BY <1>1 DEF Sizes
<1> QED BY <1>1, <1>3, <1>4

\* The cells of a variable that is on the stack.
LEMMA CellsInside ==
  ASSUME NEW ps \in Lists, Unique(ps), NEW v \in Owners
  PROVE  /\ Holds(ps, v) <=> CellsOf(ps, v) # {}
         /\ \A c \in CellsOf(ps, v) : c <= Total(ps)
<1>1. CASE ~ Holds(ps, v)
  BY <1>1 DEF CellsOf
<1>2. CASE Holds(ps, v)
  <2>1. PICK a, n : At(ps, v, a, n)
    BY <1>2, HeldAt
  <2>2. /\ CellsOf(ps, v) = a + 1 .. a + n /\ CellsOf(ps, v) # {}
        /\ a \in Nat /\ n \in Nat /\ a + n <= Total(ps)
    BY <2>1, CellsAt DEF Sizes
  <2>3. Total(ps) \in Nat
    BY TotalOn
  <2> QED BY <1>2, <2>2, <2>3
<1> QED BY <1>1, <1>2

\* Two variables share no cell.
LEMMA CellsApart ==
  ASSUME NEW ps \in Lists, Unique(ps), NEW v \in Owners, NEW w \in Owners, v # w
  PROVE  CellsOf(ps, v) \cap CellsOf(ps, w) = {}
<1> SUFFICES ASSUME Holds(ps, v), Holds(ps, w) PROVE CellsOf(ps, v) \cap CellsOf(ps, w) = {}
  BY DEF CellsOf
<1>1. PICK a, n : At(ps, v, a, n)
  BY HeldAt
<1>2. PICK b, m : At(ps, w, b, m)
  BY HeldAt
<1>3. CellsOf(ps, v) = a + 1 .. a + n /\ a \in Nat /\ n \in Nat
  BY <1>1, CellsAt DEF Sizes
<1>4. CellsOf(ps, w) = b + 1 .. b + m /\ b \in Nat /\ m \in Nat
  BY <1>2, CellsAt DEF Sizes
<1>5. a + n <= b \/ b + m <= a
  BY <1>1, <1>2, AtApart
<1> QED BY <1>3, <1>4, <1>5

\* The others keep their cells.
LEMMA OthersKeepCells ==
  ASSUME NEW ps \in Lists, NEW qs \in Lists, Unique(ps), Unique(qs), NEW v, SameBut(ps, qs, v)
  PROVE  \A w \in Owners \ {v} : CellsOf(qs, w) = CellsOf(ps, w)
BY OthersStay DEF CellsOf

\* A variable that gets a piece in a hole or at the end is placed.
LEMMA PlaceStep ==
  ASSUME NEW ps \in Lists, NEW qs \in Lists, Unique(ps), Unique(qs),
         NEW v \in Owners, SameBut(ps, qs, v), ~ Holds(ps, v),
         NEW a \in Nat, NEW n \in 1 .. LargestSize, At(qs, v, a, n),
         \/ a = Total(ps) /\ Total(qs) = Total(ps) + n
         \/ a + n <= Total(ps) /\ Total(qs) = Total(ps)
  PROVE  /\ RangeOf(ps)[v] = {}
         /\ \E first \in 1 .. Total(ps) + 1 :
              LET cells == first .. first + n - 1
              IN  /\ \A p \in Owners : RangeOf(ps)[p] \cap cells = {}
                  /\ RangeOf(qs) = [RangeOf(ps) EXCEPT ![v] = cells]
                  /\ Total(qs) = IF first + n - 1 > Total(ps) THEN first + n - 1 ELSE Total(ps)
<1> DEFINE first == a + 1
           cells == first .. first + n - 1
<1>1. n \in Nat /\ n >= 1 /\ Total(ps) \in Nat
  BY TotalOn, SpillStackAssumption DEF LargestSize
<1>2. first \in 1 .. Total(ps) + 1
  BY <1>1
<1>3. cells = a + 1 .. a + n /\ first + n - 1 = a + n
  BY <1>1
<1>4. Total(qs) = IF first + n - 1 > Total(ps) THEN first + n - 1 ELSE Total(ps)
  BY <1>1
<1>5. CellsOf(qs, v) = cells
  <2>1. CellsOf(qs, v) = a + 1 .. a + n
    BY CellsAt
  <2> QED BY <1>3, <2>1
<1> HIDE DEF first, cells
<1>6. CellsOf(ps, v) = {}
  BY DEF CellsOf
<1>7. \A w \in Owners \ {v} : CellsOf(qs, w) = CellsOf(ps, w)
  BY OthersKeepCells
<1>8. ASSUME NEW p \in Owners PROVE CellsOf(ps, p) \cap cells = {}
  <2>1. CASE p = v
    BY <1>6, <2>1
  <2>2. CASE p # v
    BY <1>5, <1>7, <2>2, CellsApart
  <2> QED BY <2>1, <2>2
<1>9. RangeOf(qs) = [RangeOf(ps) EXCEPT ![v] = cells]
  BY <1>5, <1>7 DEF RangeOf
<1>10. /\ \A p \in Owners : RangeOf(ps)[p] \cap cells = {}
       /\ RangeOf(ps)[v] = {}
  BY <1>6, <1>8 DEF RangeOf
<1> QED BY <1>2, <1>4, <1>9, <1>10 DEF cells

\* A variable that loses its piece is dropped.
LEMMA DropStep ==
  ASSUME NEW ps \in Lists, NEW qs \in Lists, Unique(ps), Unique(qs),
         NEW v \in Owners, SameBut(ps, qs, v), Holds(ps, v), ~ Holds(qs, v),
         NEW g \in Nat, Total(qs) = Total(ps) - g
  PROVE  /\ RangeOf(ps)[v] # {}
         /\ RangeOf(qs) = [RangeOf(ps) EXCEPT ![v] = {}]
         /\ Total(qs) \in 0 .. Total(ps)
         /\ \A p \in Owners \ {v} : \A c \in RangeOf(ps)[p] : c <= Total(qs)
<1>1. Total(qs) \in 0 .. Total(ps)
  <2>1. Total(ps) \in Nat /\ Total(qs) \in Nat
    BY TotalOn
  <2> QED BY <2>1
<1>2. CellsOf(ps, v) # {} /\ CellsOf(qs, v) = {}
  BY CellsInside DEF CellsOf
<1>3. \A w \in Owners \ {v} : CellsOf(qs, w) = CellsOf(ps, w)
  BY OthersKeepCells
<1>4. \A p \in Owners \ {v} : \A c \in CellsOf(ps, p) : c <= Total(qs)
  BY <1>3, CellsInside
<1> QED BY <1>1, <1>2, <1>3, <1>4 DEF RangeOf

\* The state functions of the refinement, as those of a list of pieces.
LEMMA Mapping ==
  /\ [v \in Owners |-> Cells(v)] = RangeOf(pieces)
  /\ [v \in Owners |-> Cells(v)]' = RangeOf(pieces')
BY DEF Cells, RangeOf, CellsOf, OnStack

\* Init.
LEMMA FrameInit == Init => Frame!Init
<1> SUFFICES ASSUME Init PROVE Frame!Init
  OBVIOUS
<1>1. \A v : ~ OnStack(v)
  <2>1. pieces \in Lists /\ pieces = << >>
    BY EmptySeq DEF Init, Lists
  <2> QED BY <2>1, HeldAt, AtEmpty DEF OnStack
<1>2. [v \in Owners |-> Cells(v)] = [v \in Owners |-> {}]
  BY <1>1 DEF Cells
<1>3. stackSize = 0
  BY DEF Init
<1> QED BY <1>2, <1>3 DEF Frame!Init

\* A placed variable, as a step of the frame.
LEMMA FramePlaces ==
  ASSUME NEW v \in Owners, NEW n \in 1 .. LargestSize, RangeOf(pieces)[v] = {},
         \E first \in 1 .. stackSize + 1 :
           LET cells == first .. first + n - 1
           IN  /\ \A p \in Owners : RangeOf(pieces)[p] \cap cells = {}
               /\ RangeOf(pieces') = [RangeOf(pieces) EXCEPT ![v] = cells]
               /\ stackSize' = IF first + n - 1 > stackSize THEN first + n - 1 ELSE stackSize
  PROVE  Frame!Next
<1>1. Frame!Place(v, n)
  BY Mapping DEF Frame!Place
<1> QED BY <1>1 DEF Frame!Next, LargestSize

\* A dropped variable, as a step of the frame.
LEMMA FrameDrops ==
  ASSUME NEW v \in Owners, RangeOf(pieces)[v] # {},
         RangeOf(pieces') = [RangeOf(pieces) EXCEPT ![v] = {}],
         stackSize' \in 0 .. stackSize,
         \A p \in Owners \ {v} : \A c \in RangeOf(pieces)[p] : c <= stackSize'
  PROVE  Frame!Next
<1>1. Frame!Drop(v)
  BY Mapping DEF Frame!Drop
<1> QED BY <1>1 DEF Frame!Next

\* A spill of any kind places its variable.
LEMMA SpillPlaces ==
  ASSUME IInv, NEW v \in Locals \cup Temps, NEW n \in 1 .. LargestSize,
         ~ OnStack(v), ~ OnStack(ARGS), SpillVar(v, n)
  PROVE  Frame!Next
<1>1. n \in Sizes /\ v \in Owners
  BY SpillStackAssumption DEF Sizes, LargestSize, Owners
<1>2. /\ pieces' \in Lists /\ Unique(pieces') /\ stackSize' = Total(pieces')
      /\ stackSize' = (IF IsNew(pieces, n) THEN stackSize + n ELSE stackSize)
      /\ SameBut(pieces, pieces', v)
  BY <1>1, SpillKeeps DEF FrameKept
<1>3. PICK a \in Nat : /\ At(pieces', v, a, n)
                       /\ IF IsNew(pieces, n) THEN a = stackSize ELSE a + n <= stackSize
  BY <1>1, SpillKeeps
<1>4. pieces \in Lists /\ Unique(pieces) /\ stackSize = Total(pieces) /\ ~ Holds(pieces, v)
  BY Facts DEF OnStack
<1>5. \/ a = Total(pieces) /\ Total(pieces') = Total(pieces) + n
      \/ a + n <= Total(pieces) /\ Total(pieces') = Total(pieces)
  BY <1>2, <1>3, <1>4
<1> DEFINE ps == pieces
           qs == pieces'
<1>6. /\ ps \in Lists /\ qs \in Lists /\ Unique(ps) /\ Unique(qs) /\ SameBut(ps, qs, v)
      /\ ~ Holds(ps, v) /\ At(qs, v, a, n)
      /\ stackSize = Total(ps) /\ stackSize' = Total(qs)
      /\ \/ a = Total(ps) /\ Total(qs) = Total(ps) + n
         \/ a + n <= Total(ps) /\ Total(qs) = Total(ps)
  BY <1>2, <1>3, <1>4, <1>5
<1> HIDE DEF ps, qs
<1>7. /\ RangeOf(ps)[v] = {}
      /\ \E first \in 1 .. Total(ps) + 1 :
           LET cells == first .. first + n - 1
           IN  /\ \A p \in Owners : RangeOf(ps)[p] \cap cells = {}
               /\ RangeOf(qs) = [RangeOf(ps) EXCEPT ![v] = cells]
               /\ Total(qs) = IF first + n - 1 > Total(ps) THEN first + n - 1 ELSE Total(ps)
  BY <1>1, <1>6, PlaceStep
<1> QED BY <1>1, <1>6, <1>7, FramePlaces DEF ps, qs

\* The arguments of a call are placed.
LEMMA PushPlaces ==
  ASSUME IInv, NEW n \in 1 .. MaxArgs, PushArgs(n)
  PROVE  Frame!Next
<1> DEFINE ps == pieces
           qs == Append(pieces, Piece(ARGS, n))
           a  == Total(pieces)
<1>1. n \in Sizes /\ n \in 1 .. LargestSize /\ ARGS \in Owners
  BY SpillStackAssumption DEF Sizes, LargestSize, Owners
<1>2. /\ ~ Holds(ps, ARGS) /\ pieces' = qs /\ stackSize' = stackSize + n
      /\ ps \in Lists /\ Unique(ps) /\ stackSize = Total(ps) /\ a \in Nat
  BY Facts DEF PushArgs, OnStack
<1>3. /\ qs \in Lists /\ Unique(qs) /\ Total(qs) = Total(ps) + n
      /\ SameBut(ps, qs, ARGS) /\ At(qs, ARGS, a, n)
  BY <1>1, <1>2, PushedIs
<1>4. a = Total(ps)
  OBVIOUS
<1> HIDE DEF ps, qs, a
<1>9. /\ ps \in Lists /\ qs \in Lists /\ Unique(ps) /\ Unique(qs) /\ SameBut(ps, qs, ARGS)
      /\ ~ Holds(ps, ARGS) /\ At(qs, ARGS, a, n) /\ a \in Nat
      /\ a = Total(ps) /\ Total(qs) = Total(ps) + n
  BY <1>2, <1>3, <1>4
<1>5. /\ RangeOf(ps)[ARGS] = {}
      /\ \E first \in 1 .. Total(ps) + 1 :
           LET cells == first .. first + n - 1
           IN  /\ \A p \in Owners : RangeOf(ps)[p] \cap cells = {}
               /\ RangeOf(qs) = [RangeOf(ps) EXCEPT ![ARGS] = cells]
               /\ Total(qs) = IF first + n - 1 > Total(ps) THEN first + n - 1 ELSE Total(ps)
  BY <1>1, <1>9, PlaceStep
<1>6. pieces = ps /\ pieces' = qs /\ stackSize = Total(ps) /\ stackSize' = Total(qs)
  BY <1>2, <1>3 DEF ps
<1> QED BY <1>1, <1>5, <1>6, FramePlaces

\* A release drops its variable.
LEMMA ReleaseDrops ==
  ASSUME IInv, NEW v \in Temps, Release(v)
  PROVE  Frame!Next
<1> DEFINE ps == pieces
           qs == Without(pieces, v)
           g  == Freed(pieces, v)
<1>1. v \in Owners
  BY DEF Owners
<1>2. /\ Holds(ps, v) /\ pieces' = qs /\ stackSize' = stackSize - g
      /\ ps \in Lists /\ Unique(ps) /\ ~ TrailingFragment(ps) /\ stackSize = Total(ps)
  BY Facts DEF Release, ReleaseOnStackVar, OnStack
<1>3. /\ qs \in Lists /\ Unique(qs) /\ ~ Holds(qs, v)
      /\ g \in Nat /\ Total(qs) = Total(ps) - g /\ SameBut(ps, qs, v)
  BY <1>1, <1>2, WithoutIs
<1>4. pieces = ps
  OBVIOUS
<1> HIDE DEF ps, qs, g
<1>5. /\ RangeOf(ps)[v] # {}
      /\ RangeOf(qs) = [RangeOf(ps) EXCEPT ![v] = {}]
      /\ Total(qs) \in 0 .. Total(ps)
      /\ \A p \in Owners \ {v} : \A c \in RangeOf(ps)[p] : c <= Total(qs)
  BY <1>1, <1>2, <1>3, DropStep
<1>6. stackSize = Total(ps) /\ stackSize' = Total(qs)
  BY <1>2, <1>3
<1>7. /\ RangeOf(pieces)[v] # {}
      /\ RangeOf(pieces') = [RangeOf(pieces) EXCEPT ![v] = {}]
      /\ stackSize' \in 0 .. stackSize
      /\ \A p \in Owners \ {v} : \A c \in RangeOf(pieces)[p] : c <= stackSize'
  BY <1>2, <1>4, <1>5, <1>6
<1> QED BY <1>1, <1>7, FrameDrops

\* popVar drops the arguments.
LEMMA PopDrops ==
  ASSUME IInv, PopArgs
  PROVE  Frame!Next
<1> DEFINE ps == pieces
           qs == Front(pieces)
           g  == Last(pieces).size
<1>1. ARGS \in Owners
  BY DEF Owners
<1>2. /\ Holds(ps, ARGS) /\ pieces' = qs /\ stackSize' = stackSize - g
      /\ ps \in Lists /\ Unique(ps) /\ stackSize = Total(ps)
  BY Facts DEF PopArgs, OnStack
<1>3. ps # << >> /\ Last(ps).var = ARGS
  BY <1>2, HeldAt, AtEmpty DEF IInv, ArgsLast, OnStack
<1>4. /\ qs \in Lists /\ Unique(qs) /\ ~ Holds(qs, ARGS)
      /\ g \in Nat /\ Total(ps) = Total(qs) + g /\ Total(qs) \in Nat /\ SameBut(ps, qs, ARGS)
  BY <1>2, <1>3, PoppedIs DEF Sizes
<1>5. pieces = ps
  OBVIOUS
<1> HIDE DEF ps, qs, g
<1>6. Total(qs) = Total(ps) - g
  BY <1>4
<1>7. /\ RangeOf(ps)[ARGS] # {}
      /\ RangeOf(qs) = [RangeOf(ps) EXCEPT ![ARGS] = {}]
      /\ Total(qs) \in 0 .. Total(ps)
      /\ \A p \in Owners \ {ARGS} : \A c \in RangeOf(ps)[p] : c <= Total(qs)
  BY <1>1, <1>2, <1>4, <1>6, DropStep
<1>8. stackSize = Total(ps) /\ stackSize' = Total(qs)
  BY <1>2, <1>6
<1>9. /\ RangeOf(pieces)[ARGS] # {}
      /\ RangeOf(pieces') = [RangeOf(pieces) EXCEPT ![ARGS] = {}]
      /\ stackSize' \in 0 .. stackSize
      /\ \A p \in Owners \ {ARGS} : \A c \in RangeOf(pieces)[p] : c <= stackSize'
  BY <1>2, <1>5, <1>7, <1>8
<1> QED BY <1>1, <1>9, FrameDrops

\* Every step is one of the frame, or leaves it as it is.
LEMMA FrameStep ==
  IInv /\ [Next]_vars => [Frame!Next]_<<[v \in Owners |-> Cells(v)], stackSize>>
<1> SUFFICES ASSUME IInv, [Next]_vars
             PROVE  [Frame!Next]_<<[v \in Owners |-> Cells(v)], stackSize>>
  OBVIOUS
<1>1. ASSUME NEW v \in Locals, NEW n \in 1 .. MaxAlloca, Alloca(v, n) PROVE Frame!Next
  <2>1. ~ entered /\ ~ OnStack(v) /\ SpillVar(v, n)
    BY <1>1 DEF Alloca
  <2>2. ~ OnStack(ARGS)
    BY <2>1 DEF IInv, ArgsLast
  <2>3. n \in 1 .. LargestSize /\ v \in Locals \cup Temps
    BY SpillStackAssumption DEF LargestSize
  <2> QED BY <2>1, <2>2, <2>3, SpillPlaces
<1>2. ASSUME NEW v \in Temps, Spill(v) \/ SpillAtDefinition(v) PROVE Frame!Next
  <2> DEFINE one == 1
  <2>1. ~ OnStack(ARGS) /\ ~ OnStack(v) /\ SpillVar(v, one)
    BY <1>2 DEF Spill, SpillAtDefinition, CanSpill
  <2>2. one \in 1 .. LargestSize /\ v \in Locals \cup Temps
    BY SpillStackAssumption DEF LargestSize
  <2> HIDE DEF one
  <2> QED BY <2>1, <2>2, SpillPlaces
<1>3. ASSUME NEW v \in Temps, Release(v) PROVE Frame!Next
  BY <1>3, ReleaseDrops
<1>4. ASSUME NEW n \in 1 .. MaxArgs, PushArgs(n) PROVE Frame!Next
  BY <1>4, PushPlaces
<1>5. CASE PopArgs
  BY <1>5, PopDrops
<1>6. ASSUME pieces' = pieces, stackSize' = stackSize
      PROVE  UNCHANGED <<[v \in Owners |-> Cells(v)], stackSize>>
  BY <1>6, Mapping
<1>7. CASE Enter
  BY <1>6, <1>7 DEF Enter
<1>8. CASE UNCHANGED vars
  BY <1>6, <1>8 DEF vars
<1> QED BY <1>1, <1>2, <1>3, <1>4, <1>5, <1>7, <1>8 DEF Next

\* The pieces behave as FrameSpec says, for any variables and any sizes: ranges are
\* disjoint, none moves while its owner lives, and the frame never shrinks below one.
THEOREM StackIsAFrame == Spec => ImplementsFrame
<1> QED BY FrameInit, Invariance, FrameStep, PTL DEF Spec, ImplementsFrame, Frame!Spec

=============================================================================
