------------------------- MODULE DeclarationsProofs -------------------------
(***************************************************************************)
(* The parser's bookkeeping of blocks and loops, and its look-ups, for any *)
(* names, functions and library functions and texts of any length and      *)
(* nesting.                                                                *)
(*                                                                         *)
(* cur_depth, the symbol tables and C's scopes are counts of the calls in  *)
(* `open'; cur_loop and the loops the calls have saved form a chain, each  *)
(* the innermost loop below the call that saved it.  What EndLoop and      *)
(* EndFor restore is then the right one, whatever happened in the body.    *)
(*                                                                         *)
(* The tables and the scopes are laid out side by side along the calls     *)
(* (Layout); each scope and its table say the same of every name (Matched) *)
(* but for what parameters of bodyless functions leak, so a look-up and C  *)
(* meet the same declaration first.                                        *)
(*                                                                         *)
(* The unit, with the function being parsed at its tail, lists no name     *)
(* twice, and every mention has what it means before it (Placed) or behind *)
(* it because a definition took a prototype's place (Overtaken).  The      *)
(* translator has the declarations up to `next' (Accounted), so it finds   *)
(* what it looks for, or its assertion fails for one of those reasons.     *)
(***************************************************************************)
EXTENDS Declarations, SequenceTheorems, FiniteSetTheorems, WellFoundedInduction, TLAPS

Calls == {"block", "if", "else", "do", "while", "for", "for body"}
LoopsOf == [call : {"none", "do", "while", "for"}, at : Nat]
Frames == [call : Calls, upper : LoopsOf, leave : BOOLEAN, wellFormed : BOOLEAN]

\* Some sequence, of whatever.
IsSeq(s) == \E S : s \in Seq(S)

Opens(f) == f.call \in {"block", "for"} \/ (f.call = "for body" /\ f.leave)
Shares(f) == f.call = "for body" /\ ~f.leave
Opening(o) == {k \in DOMAIN o : Opens(o[k])}
Sharing(o) == {k \in DOMAIN o : Shares(o[k])}

IsBody(f) == f.call \in {"do", "while", "for body"}
LoopAt(o, k) == [call |-> IF o[k].call = "for body" THEN "for" ELSE o[k].call, at |-> k]

\* l is the innermost loop among the first n calls of o.
Innermost(o, n, l) ==
    \/ l = NoLoop /\ \A k \in 1..n : ~IsBody(o[k])
    \/ \E k \in 1..n : /\ IsBody(o[k]) /\ l = LoopAt(o, k)
                       /\ \A j \in (k + 1)..n : ~IsBody(o[j])
LoopsNested(o, l) ==
    /\ Innermost(o, Len(o), l)
    /\ \A k \in 1..Len(o) : IsBody(o[k]) => Innermost(o, k - 1, o[k].upper)

N(b) == IF b THEN 1 ELSE 0

\* o calls, l the current loop, d the depth, t tables, s scopes, f the function.
Good(o, l, d, t, s, f) ==
    /\ o \in Seq(Frames) /\ l \in LoopsOf
    /\ IF o = <<>> THEN f = None ELSE o[1].call = "block"
    /\ d = Cardinality(Opening(o))
    /\ t = d + 1
    /\ s = t + Cardinality(Sharing(o))
    /\ LoopsNested(o, l)

\* Nothing is claimed once the text is parsed or rejected.
Inv == phase = "parse" => /\ IsSeq(tables) /\ IsSeq(scopes)
                          /\ Good(open, loop, depth, Len(tables), Len(scopes), func)

(***************************************************************************)
(* Sequences.                                                              *)
(***************************************************************************)

\* Append lengthens any sequence by one.
LEMMA AppendIsSeq ==
  ASSUME NEW s, NEW e, IsSeq(s)
  PROVE  IsSeq(Append(s, e)) /\ Len(Append(s, e)) = Len(s) + 1 /\ Len(s) \in Nat
<1>1. PICK S : s \in Seq(S)
  BY DEF IsSeq
<1>2. s \in Seq(S \cup {e})
  BY <1>1, SeqMonotonic
<1>3. Append(s, e) \in Seq(S \cup {e}) /\ Len(Append(s, e)) = Len(s) + 1
  BY <1>2, AppendProperties
<1> QED
  BY <1>1, <1>3, LenProperties DEF IsSeq

\* Front, for a sequence over any set.
LEMMA FrontProperties ==
  ASSUME NEW S, NEW s \in Seq(S), Len(s) > 0
  PROVE  /\ Front(s) \in Seq(S)
         /\ Len(Front(s)) = Len(s) - 1
         /\ \A i \in 1..(Len(s) - 1) : Front(s)[i] = s[i]
<1>1. PICK n \in Nat : n = Len(s) - 1
  BY LenProperties
<1>2. 1 \in Int /\ n \in Int /\ \A i \in 1..n : s[i] \in S
  BY <1>1, ElementOfSeq
<1> DEFINE t == SubSeq(s, 1, n)
<1>3. /\ t \in Seq(S)
      /\ Len(t) = IF 1 <= n THEN n - 1 + 1 ELSE 0
      /\ \A i \in 1 .. n - 1 + 1 : t[i] = s[1 + i - 1]
  BY <1>2, SubSeqProperties
<1>4. Front(s) = t
  BY <1>1 DEF Front
<1> HIDE DEF t
<1>5. Len(t) = n
  BY <1>1, <1>3
<1>6. \A i \in 1..n : t[i] = s[i]
  BY <1>1, <1>3
<1> QED
  BY <1>1, <1>3, <1>4, <1>5, <1>6

\* Front shortens any sequence that is not empty by one.
LEMMA FrontIsSeq ==
  ASSUME NEW s, IsSeq(s), Len(s) > 0
  PROVE  IsSeq(Front(s)) /\ Len(Front(s)) = Len(s) - 1
<1>1. PICK S : s \in Seq(S)
  BY DEF IsSeq
<1> QED
  BY <1>1, FrontProperties DEF IsSeq

\* Replacing an entry keeps a sequence and its length.
LEMMA ExceptIsSeq ==
  ASSUME NEW s, NEW i, NEW e, IsSeq(s)
  PROVE  IsSeq([s EXCEPT ![i] = e]) /\ Len([s EXCEPT ![i] = e]) = Len(s)
<1>1. PICK S : s \in Seq(S)
  BY DEF IsSeq
<1>2. s \in Seq(S \cup {e}) /\ DOMAIN s = 1..Len(s)
  BY <1>1, SeqMonotonic, LenProperties
<1>3. CASE i \in 1..Len(s)
  BY <1>2, <1>3, ExceptSeq DEF IsSeq
<1>4. CASE i \notin 1..Len(s)
  <2>1. [s EXCEPT ![i] = e] = s
    BY <1>1, <1>2, <1>4
  <2> QED BY <2>1
<1> QED
  BY <1>3, <1>4

\* AddSymbol and enterFunction's loop over the parameters change tables, not
\* their number.
LEMMA AddSymbolKeepsTables ==
  ASSUME NEW ts, NEW name, NEW d, IsSeq(ts)
  PROVE  IsSeq(AddSymbol(ts, name, d)) /\ Len(AddSymbol(ts, name, d)) = Len(ts)
  BY ExceptIsSeq DEF AddSymbol

\* Entering parameters pushes and pops no table.
LEMMA AddParamsKeepsTables ==
  ASSUME NEW ts, NEW names, IsSeq(ts)
  PROVE  IsSeq(AddParams(ts, names)) /\ Len(AddParams(ts, names)) = Len(ts)
  BY ExceptIsSeq DEF AddParams

\* A call on the stack and the stack below it.
LEMMA Pushed ==
  ASSUME NEW o \in Seq(Frames), NEW f \in Frames
  PROVE  /\ Append(o, f) \in Seq(Frames)
         /\ Append(o, f) # <<>>
         /\ Len(o) \in Nat
         /\ Len(Append(o, f)) = Len(o) + 1
         /\ \A k \in 1..Len(o) : Append(o, f)[k] = o[k]
         /\ Append(o, f)[Len(o) + 1] = f
  BY AppendProperties, LenProperties

\* The call stack without its last call, and what is left at the bottom.
LEMMA Popped ==
  ASSUME NEW o \in Seq(Frames), o # <<>>
  PROVE  /\ Front(o) \in Seq(Frames) /\ Last(o) \in Frames
         /\ o = Append(Front(o), Last(o))
         /\ Len(o) \in Nat /\ Len(o) > 0
         /\ Last(o) = o[Len(o)]
         /\ Len(Front(o)) = Len(o) - 1
         /\ Len(o) > 1 => Front(o) # <<>> /\ Front(o)[1] = o[1]
         /\ Len(o) = 1 => Front(o) = <<>>
<1>1. Len(o) \in Nat /\ Len(o) > 0 /\ \A i \in 1..Len(o) : o[i] \in Frames
  BY LenProperties, ElementOfSeq, EmptySeq
<1>2. /\ Front(o) \in Seq(Frames)
      /\ Len(Front(o)) = Len(o) - 1
      /\ \A i \in 1..(Len(o) - 1) : Front(o)[i] = o[i]
  BY <1>1, FrontProperties
<1>3. Last(o) \in Frames /\ Last(o) = o[Len(o)]
  BY <1>1 DEF Last
<1>4. o = Append(Front(o), Last(o))
  <2>1. /\ Append(Front(o), Last(o)) \in Seq(Frames)
        /\ Len(Append(Front(o), Last(o))) = Len(o)
        /\ \A i \in 1..Len(o) : o[i] = Append(Front(o), Last(o))[i]
    BY <1>1, <1>2, <1>3, AppendProperties
  <2> QED BY <2>1, SeqEqual
<1> QED
  BY <1>1, <1>2, <1>3, <1>4, EmptySeq

(***************************************************************************)
(* Counting the calls that opened something.                               *)
(***************************************************************************)

\* The number n + 1 adds one to the count of a set of smaller numbers.
LEMMA OneMore ==
  ASSUME NEW n \in Nat, NEW S \in SUBSET (1..n), NEW p \in BOOLEAN
  PROVE  /\ Cardinality(S) \in Nat
         /\ Cardinality(S \cup (IF p THEN {n + 1} ELSE {})) =
              Cardinality(S) + (IF p THEN 1 ELSE 0)
<1>1. IsFiniteSet(S)
  <2>1. IsFiniteSet(1..n)
    BY FS_Interval
  <2> QED BY <2>1, FS_Subset
<1>2. Cardinality(S) \in Nat
  BY <1>1, FS_CardinalityType
<1>3. CASE p
  <2>1. n + 1 \notin S
    OBVIOUS
  <2> QED BY <1>1, <1>2, <1>3, <2>1, FS_AddElement
<1>4. CASE ~p
  <2>1. S \cup (IF p THEN {n + 1} ELSE {}) = S
    BY <1>4
  <2> QED BY <1>2, <1>4, <2>1
<1> QED
  BY <1>2, <1>3, <1>4

\* What a call that begins adds to the counts of calls that open and that
\* share a scope.
LEMMA CountsAfterPush ==
  ASSUME NEW o \in Seq(Frames), NEW f \in Frames
  PROVE  /\ Cardinality(Opening(o)) \in Nat
         /\ Cardinality(Sharing(o)) \in Nat
         /\ Cardinality(Opening(Append(o, f))) =
              Cardinality(Opening(o)) + (IF Opens(f) THEN 1 ELSE 0)
         /\ Cardinality(Sharing(Append(o, f))) =
              Cardinality(Sharing(o)) + (IF Shares(f) THEN 1 ELSE 0)
<1> DEFINE n == Len(o)
           q == Append(o, f)
<1>1. /\ n \in Nat /\ DOMAIN o = 1..n /\ DOMAIN q = 1..(n + 1)
      /\ q[n + 1] = f /\ \A k \in 1..n : q[k] = o[k]
  BY Pushed, LenProperties
<1> HIDE DEF q, n
<1>2. \A k : k \in 1..(n + 1) <=> k \in 1..n \/ k = n + 1
  BY <1>1
<1>3. Opening(q) = Opening(o) \cup (IF Opens(f) THEN {n + 1} ELSE {})
  <2>1. \A k \in 1..n : Opens(q[k]) <=> Opens(o[k])
    BY <1>1
  <2>2. Opens(q[n + 1]) <=> Opens(f)
    BY <1>1
  <2> QED
    BY <1>1, <1>2, <2>1, <2>2 DEF Opening
<1>4. Sharing(q) = Sharing(o) \cup (IF Shares(f) THEN {n + 1} ELSE {})
  <2>1. \A k \in 1..n : Shares(q[k]) <=> Shares(o[k])
    BY <1>1
  <2>2. Shares(q[n + 1]) <=> Shares(f)
    BY <1>1
  <2> QED
    BY <1>1, <1>2, <2>1, <2>2 DEF Sharing
<1>5. Opening(o) \in SUBSET (1..n) /\ Sharing(o) \in SUBSET (1..n)
  BY <1>1 DEF Opening, Sharing
<1>6. Opens(f) \in BOOLEAN /\ Shares(f) \in BOOLEAN
  BY DEF Opens, Shares
<1>7. /\ Cardinality(Opening(o)) \in Nat
      /\ Cardinality(Opening(q)) = Cardinality(Opening(o)) + (IF Opens(f) THEN 1 ELSE 0)
  BY <1>1, <1>3, <1>5, <1>6, OneMore
<1>8. /\ Cardinality(Sharing(o)) \in Nat
      /\ Cardinality(Sharing(q)) = Cardinality(Sharing(o)) + (IF Shares(f) THEN 1 ELSE 0)
  BY <1>1, <1>4, <1>5, <1>6, OneMore
<1> QED
  BY <1>7, <1>8 DEF q

\* With no call open there is nothing to count.
LEMMA NothingCounted ==
  Cardinality(Opening(<<>>)) = 0 /\ Cardinality(Sharing(<<>>)) = 0
<1>1. Opening(<<>>) = {} /\ Sharing(<<>>) = {}
  BY DEF Opening, Sharing
<1> QED
  BY <1>1, FS_EmptySet

(***************************************************************************)
(* The chain of loops.                                                     *)
(***************************************************************************)

\* What the first calls say about loops depends on those calls alone.
LEMMA InnermostIsLocal ==
  ASSUME NEW o, NEW q, NEW n \in Nat, NEW l,
         \A k \in 1..n : q[k] = o[k]
  PROVE  Innermost(q, n, l) <=> Innermost(o, n, l)
<1>1. \A k \in 1..n : (IsBody(q[k]) <=> IsBody(o[k])) /\ LoopAt(q, k) = LoopAt(o, k)
  BY DEF IsBody, LoopAt
<1>2. \A k \in 1..n : (k + 1)..n \subseteq 1..n
  OBVIOUS
<1> QED
  BY <1>1, <1>2 DEF Innermost

\* A call on top changes nothing about the loop that a call below it saved.
LEMMA ChainBelow ==
  ASSUME NEW o \in Seq(Frames), NEW f \in Frames, NEW k \in 1..Len(o)
  PROVE  LET q == Append(o, f)
         IN  (IsBody(q[k]) => Innermost(q, k - 1, q[k].upper))
               <=> (IsBody(o[k]) => Innermost(o, k - 1, o[k].upper))
<1> DEFINE q == Append(o, f)
<1>1. Len(o) \in Nat /\ q[k] = o[k] /\ \A j \in 1..Len(o) : q[j] = o[j]
  BY Pushed
<1> HIDE DEF q
<1>2. k - 1 \in Nat /\ \A j \in 1..(k - 1) : q[j] = o[j]
  BY <1>1
<1>3. Innermost(q, k - 1, o[k].upper) <=> Innermost(o, k - 1, o[k].upper)
  BY <1>2, InnermostIsLocal
<1>4. (IsBody(q[k]) => Innermost(q, k - 1, q[k].upper))
               <=> (IsBody(o[k]) => Innermost(o, k - 1, o[k].upper))
  BY <1>1, <1>3
<1> QED
  BY <1>4 DEF q

\* A call that is no loop leaves the chain of loops; a loop that saved it
\* extends it.
LEMMA ChainPushed ==
  ASSUME NEW o \in Seq(Frames), NEW f \in Frames, NEW l, LoopsNested(o, l)
  PROVE  /\ ~IsBody(f) => LoopsNested(Append(o, f), l)
         /\ IsBody(f) /\ f.upper = l
              => LoopsNested(Append(o, f), LoopAt(Append(o, f), Len(o) + 1))
<1> DEFINE q == Append(o, f)
           n == Len(o)
<1>1. n \in Nat /\ Len(q) = n + 1 /\ q[n + 1] = f /\ \A k \in 1..n : q[k] = o[k]
  BY Pushed
<1>2. \A k \in 1..n : IsBody(q[k]) => Innermost(q, k - 1, q[k].upper)
  <2>1. \A k \in 1..n : IsBody(o[k]) => Innermost(o, k - 1, o[k].upper)
    BY DEF LoopsNested
  <2> QED
    BY <2>1, ChainBelow
<1> HIDE DEF q
<1>3. Innermost(q, n, l)
  BY <1>1, InnermostIsLocal DEF LoopsNested
<1>4. ASSUME ~IsBody(f) PROVE LoopsNested(q, l)
  <2>1. Innermost(q, n + 1, l)
    <3>1. ~IsBody(q[n + 1])
      BY <1>1, <1>4
    <3>2. \A k \in Nat : k \in 1..(n + 1) <=> k \in 1..n \/ k = n + 1
      BY <1>1
    <3> QED
      BY <1>1, <1>3, <3>1, <3>2 DEF Innermost
  <2>2. \A k \in 1..(n + 1) : IsBody(q[k]) => Innermost(q, k - 1, q[k].upper)
    BY <1>1, <1>2, <1>4
  <2> QED
    BY <1>1, <2>1, <2>2 DEF LoopsNested
<1>5. ASSUME IsBody(f), f.upper = l PROVE LoopsNested(q, LoopAt(q, n + 1))
  <2>1. Innermost(q, n + 1, LoopAt(q, n + 1))
    <3>1. n + 1 \in 1..(n + 1) /\ (n + 1 + 1)..(n + 1) = {}
      BY <1>1
    <3> QED
      BY <1>1, <1>5, <3>1 DEF Innermost
  <2>2. Innermost(q, n + 1 - 1, q[n + 1].upper)
    BY <1>1, <1>3, <1>5
  <2>3. \A k \in 1..(n + 1) : IsBody(q[k]) => Innermost(q, k - 1, q[k].upper)
    BY <1>1, <1>2, <2>2
  <2> QED
    BY <1>1, <2>1, <2>3 DEF LoopsNested
<1> QED
  BY <1>4, <1>5 DEF q

\* When a loop ends, the one it saved is the innermost again.
LEMMA ChainPopped ==
  ASSUME NEW o \in Seq(Frames), NEW f \in Frames, NEW l, LoopsNested(Append(o, f), l)
  PROVE  /\ ~IsBody(f) => LoopsNested(o, l)
         /\ IsBody(f) => LoopsNested(o, f.upper)
<1> DEFINE q == Append(o, f)
           n == Len(o)
<1>1. n \in Nat /\ Len(q) = n + 1 /\ q[n + 1] = f /\ \A k \in 1..n : q[k] = o[k]
  BY Pushed
<1>2. \A k \in 1..n : IsBody(o[k]) => Innermost(o, k - 1, o[k].upper)
  <2>1. \A k \in 1..n : IsBody(q[k]) => Innermost(q, k - 1, q[k].upper)
    BY <1>1 DEF LoopsNested
  <2> QED
    BY <2>1, ChainBelow
<1>3. Innermost(q, n + 1, l)
  BY <1>1 DEF LoopsNested
<1>4. IsBody(q[n + 1]) => Innermost(q, n, q[n + 1].upper)
  <2>1. IsBody(q[n + 1]) => Innermost(q, n + 1 - 1, q[n + 1].upper)
    BY <1>1 DEF LoopsNested
  <2> QED BY <1>1, <2>1
<1> HIDE DEF q
<1>5. ASSUME ~IsBody(f) PROVE Innermost(q, n, l)
  <2>1. ~IsBody(q[n + 1])
    BY <1>1, <1>5
  <2>2. \A k \in 1..(n + 1) : k \in 1..n \/ k = n + 1
    BY <1>1
  <2>3. \A k \in 1..n : k \in 1..(n + 1) /\ (k + 1)..n \subseteq (k + 1)..(n + 1)
    BY <1>1
  <2> QED
    BY <1>1, <1>3, <2>1, <2>2, <2>3 DEF Innermost
<1>6. \A m : Innermost(q, n, m) => Innermost(o, n, m)
  BY <1>1, InnermostIsLocal
<1> QED
  BY <1>1, <1>2, <1>4, <1>5, <1>6 DEF LoopsNested

\* Outside of any function there is no loop.
LEMMA NoChain == LoopsNested(<<>>, NoLoop)
  BY EmptySeq DEF LoopsNested, Innermost

(***************************************************************************)
(* A call begins, a call ends.                                             *)
(***************************************************************************)

\* A call that begins keeps the accounts.
LEMMA GoodPushed ==
  ASSUME NEW o, NEW l, NEW d, NEW t, NEW s, NEW f, Good(o, l, d, t, s, f),
         NEW c \in Frames, NEW g,
         o = <<>> => c.call = "block",
         IsBody(c) => c.upper = l
  PROVE  Good(Append(o, c),
              IF IsBody(c) THEN LoopAt(Append(o, c), Len(o) + 1) ELSE l,
              d + N(Opens(c)), t + N(Opens(c)), s + N(Opens(c)) + N(Shares(c)), g)
<1> DEFINE q == Append(o, c)
           m == IF IsBody(c) THEN LoopAt(q, Len(o) + 1) ELSE l
<1>1. o \in Seq(Frames) /\ l \in LoopsOf /\ LoopsNested(o, l)
  BY DEF Good
<1>2. /\ q \in Seq(Frames) /\ q # <<>> /\ Len(o) \in Nat
      /\ q[Len(o) + 1] = c /\ \A k \in 1..Len(o) : q[k] = o[k]
  BY <1>1, Pushed
<1>3. LoopsNested(q, m)
  BY <1>1, ChainPushed
<1>4. /\ Cardinality(Opening(o)) \in Nat /\ Cardinality(Sharing(o)) \in Nat
      /\ Cardinality(Opening(q)) = Cardinality(Opening(o)) + N(Opens(c))
      /\ Cardinality(Sharing(q)) = Cardinality(Sharing(o)) + N(Shares(c))
  BY <1>1, CountsAfterPush DEF N
<1> HIDE DEF q
<1>5. m \in LoopsOf
  <2>1. CASE IsBody(c)
    <3>1. c.call \in {"do", "while", "for body"}
      BY <2>1 DEF IsBody
    <3>2. Len(o) + 1 \in Nat
      BY <1>2
    <3>3. \A x : x \in {"do", "while", "for body"} =>
             (IF x = "for body" THEN "for" ELSE x) \in {"none", "do", "while", "for"}
      OBVIOUS
    <3>4. LoopAt(q, Len(o) + 1) \in LoopsOf
      BY <1>2, <3>1, <3>2, <3>3 DEF LoopAt, LoopsOf
    <3> QED BY <2>1, <3>4
  <2>2. CASE ~IsBody(c)
    BY <1>1, <2>2
  <2> QED BY <2>1, <2>2
<1>6. q[1].call = "block"
  <2>1. CASE o = <<>>
    BY <1>2, <2>1, EmptySeq
  <2>2. CASE o # <<>>
    <3>1. Len(o) > 0
      BY <1>1, <2>2, EmptySeq, LenProperties
    <3> QED BY <1>2, <2>2, <3>1 DEF Good
  <2> QED BY <2>1, <2>2
<1>7. N(Opens(c)) \in Nat /\ N(Shares(c)) \in Nat
  BY DEF N
<1> HIDE DEF m
<1>8. /\ d + N(Opens(c)) = Cardinality(Opening(q))
      /\ t + N(Opens(c)) = d + N(Opens(c)) + 1
      /\ s + N(Opens(c)) + N(Shares(c)) = t + N(Opens(c)) + Cardinality(Sharing(q))
  <2>1. /\ d = Cardinality(Opening(o)) /\ t = d + 1
        /\ s = t + Cardinality(Sharing(o))
    BY DEF Good
  <2> QED
    BY <1>4, <1>7, <2>1
<1>9. Good(q, m, d + N(Opens(c)), t + N(Opens(c)), s + N(Opens(c)) + N(Shares(c)), g)
  BY <1>2, <1>3, <1>5, <1>6, <1>8 DEF Good
<1> QED
  BY <1>9 DEF q, m

\* A call that ends keeps the accounts.
LEMMA GoodPopped ==
  ASSUME NEW o, NEW l, NEW d, NEW t, NEW s, NEW f, Good(o, l, d, t, s, f),
         o # <<>>, NEW g, Len(o) = 1 => g = None
  PROVE  LET c == Last(o)
         IN  Good(Front(o), IF IsBody(c) THEN c.upper ELSE l,
                  d - N(Opens(c)), t - N(Opens(c)), s - N(Opens(c)) - N(Shares(c)), g)
<1> DEFINE p == Front(o)
           c == Last(o)
           m == IF IsBody(c) THEN c.upper ELSE l
<1>1. o \in Seq(Frames) /\ l \in LoopsOf /\ LoopsNested(o, l)
  BY DEF Good
<1>2. /\ p \in Seq(Frames) /\ c \in Frames /\ o = Append(p, c)
      /\ Len(o) \in Nat /\ Len(o) > 0
      /\ Len(o) > 1 => p # <<>> /\ p[1] = o[1]
      /\ Len(o) = 1 => p = <<>>
  BY <1>1, Popped
<1> HIDE DEF p, c
<1>3. LoopsNested(p, m)
  BY <1>1, <1>2, ChainPopped
<1>4. /\ Cardinality(Opening(p)) \in Nat /\ Cardinality(Sharing(p)) \in Nat
      /\ Cardinality(Opening(o)) = Cardinality(Opening(p)) + N(Opens(c))
      /\ Cardinality(Sharing(o)) = Cardinality(Sharing(p)) + N(Shares(c))
  BY <1>2, CountsAfterPush DEF N
<1>5. m \in LoopsOf
  BY <1>1, <1>2 DEF Frames
<1>6. IF p = <<>> THEN g = None ELSE p[1].call = "block"
  BY <1>2 DEF Good
<1>7. N(Opens(c)) \in Nat /\ N(Shares(c)) \in Nat
  BY DEF N
<1> HIDE DEF m
<1>8. /\ d - N(Opens(c)) = Cardinality(Opening(p))
      /\ t - N(Opens(c)) = d - N(Opens(c)) + 1
      /\ s - N(Opens(c)) - N(Shares(c)) = t - N(Opens(c)) + Cardinality(Sharing(p))
  <2>1. /\ d = Cardinality(Opening(o)) /\ t = d + 1
        /\ s = t + Cardinality(Sharing(o))
    BY DEF Good
  <2> QED
    BY <1>4, <1>7, <2>1
<1>9. Good(p, m, d - N(Opens(c)), t - N(Opens(c)), s - N(Opens(c)) - N(Shares(c)), g)
  BY <1>2, <1>3, <1>5, <1>6, <1>8 DEF Good
<1> QED
  BY <1>9 DEF p, c, m

\* The counts are numbers.
LEMMA CountsAreFinite ==
  ASSUME NEW o \in Seq(Frames)
  PROVE  Cardinality(Opening(o)) \in Nat /\ Cardinality(Sharing(o)) \in Nat
<1>1. PICK n \in Nat : DOMAIN o = 1..n
  BY LenProperties
<1>2. IsFiniteSet(1..n) /\ Opening(o) \in SUBSET (1..n) /\ Sharing(o) \in SUBSET (1..n)
  BY <1>1, FS_Interval DEF Opening, Sharing
<1> QED
  BY <1>2, FS_Subset, FS_CardinalityType

\* What Good says of the numbers.
LEMMA GoodNumbers ==
  ASSUME NEW o, NEW l, NEW d, NEW t, NEW s, NEW f, Good(o, l, d, t, s, f)
  PROVE  d \in Nat /\ t \in Nat /\ s \in Nat /\ t = d + 1 /\ s >= t
<1>1. o \in Seq(Frames)
  BY DEF Good
<1>2. Cardinality(Opening(o)) \in Nat /\ Cardinality(Sharing(o)) \in Nat
  BY <1>1, CountsAreFinite
<1> QED
  BY <1>2 DEF Good

(***************************************************************************)
(* The steps.                                                              *)
(***************************************************************************)

\* What the statements that call nobody leave as it was.
Kept ==
    /\ open' = open /\ loop' = loop /\ depth' = depth /\ func' = func
    /\ IsSeq(tables') /\ Len(tables') = Len(tables)
    /\ IsSeq(scopes') /\ Len(scopes') = Len(scopes)

\* What keeps the accounts' variables keeps the accounts.
LEMMA InvKept ==
  ASSUME Inv, phase = "parse", Kept
  PROVE  Inv'
  BY DEF Inv, Kept

\* A parser that stopped owes no account.
LEMMA StoppedInv ==
  ASSUME NEW how, NEW why, how # "parse", Stop(how, why)
  PROVE  Inv'
  BY DEF Inv, Stop

\* A rejected text owes no account.
LEMMA RejectedInv ==
  ASSUME NEW why, Reject(why)
  PROVE  Inv'
  BY StoppedInv DEF Reject

\* Nor does one with an undeclared identifier.
LEMMA UndeclaredInv ==
  ASSUME NEW name, NEW kind, Undeclared(name, kind)
  PROVE  Inv'
  BY StoppedInv DEF Undeclared

\* Statements and declarations without a statement of their own inside.
LEMMA SimpleSteps ==
  ASSUME Inv
  PROVE  /\ EmptyStmt \/ LoopExit => Inv'
         /\ \A v \in BOOLEAN : ReturnStmt(v) => Inv'
         /\ \A n \in VarNames : UseVariable(n) => Inv'
         /\ \A n \in FunctionNames, argc \in 0..1 : CallFunction(n, argc) => Inv'
<1>1. phase = "parse" => IsSeq(tables) /\ IsSeq(scopes)
  BY DEF Inv
<1>2. ASSUME EmptyStmt PROVE Inv'
  <2>1. phase = "parse" /\ Kept
    BY <1>1, <1>2 DEF EmptyStmt, AtStatement, Finish, Kept
  <2> QED BY <2>1, InvKept
<1>3. ASSUME LoopExit PROVE Inv'
  <2>1. CASE loop.call # "while"
    BY <1>3, <2>1, RejectedInv DEF LoopExit
  <2>2. CASE loop.call = "while"
    <3>1. phase = "parse" /\ Kept
      BY <1>1, <1>3, <2>2 DEF LoopExit, AtStatement, Finish, Kept
    <3> QED BY <3>1, InvKept
  <2> QED BY <2>1, <2>2
<1>4. ASSUME NEW v \in BOOLEAN, ReturnStmt(v) PROVE Inv'
  <2>1. CASE v = decls[func].void
    BY <1>4, <2>1, RejectedInv DEF ReturnStmt
  <2>2. CASE v # decls[func].void
    <3>1. phase = "parse" /\ Kept
      BY <1>1, <1>4, <2>2 DEF ReturnStmt, AtStatement, Finish, Kept
    <3> QED BY <3>1, InvKept
  <2> QED BY <2>1, <2>2
<1>5. ASSUME NEW n \in VarNames, UseVariable(n) PROVE Inv'
  <2>1. CASE FindVar(tables, decls, n) = None
    BY <1>5, <2>1, UndeclaredInv DEF UseVariable
  <2>2. CASE FindVar(tables, decls, n) # None
    <3>1. phase = "parse" /\ Kept
      BY <1>1, <1>5, <2>2 DEF UseVariable, AtStatement, Finish, Kept
    <3> QED BY <3>1, InvKept
  <2> QED BY <2>1, <2>2
<1>6. ASSUME NEW n \in FunctionNames, NEW argc \in 0..1, CallFunction(n, argc) PROVE Inv'
  <2> DEFINE d == FindFunction(tables, decls, n)
  <2>1. CASE d = None
    BY <1>6, <2>1, UndeclaredInv DEF CallFunction
  <2>2. CASE d # None /\ Len(decls[d].params) # argc
    BY <1>6, <2>2, RejectedInv DEF CallFunction
  <2>3. CASE d # None /\ Len(decls[d].params) = argc
    <3>1. phase = "parse" /\ Kept
      BY <1>1, <1>6, <2>3 DEF CallFunction, AtStatement, Finish, Kept
    <3> QED BY <3>1, InvKept
  <2> QED BY <2>1, <2>2, <2>3
<1> QED
  BY <1>2, <1>3, <1>4, <1>5, <1>6

\* Declaring a variable, local or global, keeps the accounts.
LEMMA VariableSteps ==
  ASSUME Inv
  PROVE  /\ \A n \in VarNames, i \in VarNames \cup {NoName} : LocalVariable(n, i) => Inv'
         /\ \A n \in VarNames, extern, more \in BOOLEAN : GlobalVariable(n, extern, more) => Inv'
<1>1. phase = "parse" => IsSeq(tables) /\ IsSeq(scopes)
  BY DEF Inv
<1>2. ASSUME NEW n \in VarNames, NEW init \in VarNames \cup {NoName}, LocalVariable(n, init)
      PROVE  Inv'
  <2> DEFINE d == Len(decls) + 1
             i == IF init = NoName THEN None ELSE FindVar(tables, decls, init)
  <2>1. CASE init # NoName /\ i = None
    BY <1>2, <2>1, UndeclaredInv DEF LocalVariable
  <2>2. CASE (init = NoName \/ i # None) /\ ~Standalone /\ Last(tables)[n] # None
    BY <1>2, <2>2, RejectedInv DEF LocalVariable
  <2>3. CASE (init = NoName \/ i # None) /\ (Standalone \/ Last(tables)[n] = None)
    <3>1. /\ phase = "parse" /\ open' = open
          /\ loop' = loop /\ depth' = depth /\ func' = func
          /\ tables' = IF Standalone THEN tables ELSE AddSymbol(tables, n, d)
          /\ scopes' = IF Standalone THEN scopes ELSE AddSymbol(scopes, n, d)
      BY <1>2, <2>3 DEF LocalVariable, AtStatement, Finish
    <3>2. Kept
      BY <1>1, <3>1, AddSymbolKeepsTables DEF Kept
    <3> QED BY <3>1, <3>2, InvKept
  <2> QED BY <2>1, <2>2, <2>3
<1>3. ASSUME NEW n \in VarNames, NEW extern \in BOOLEAN, NEW more \in BOOLEAN,
             GlobalVariable(n, extern, more)
      PROVE  Inv'
  <2>1. CASE tables[1][n] # None
    BY <1>3, <2>1, RejectedInv DEF GlobalVariable
  <2>2. CASE tables[1][n] = None
    <3>1. /\ phase = "parse" /\ open' = open
          /\ loop' = loop /\ depth' = depth /\ func' = func
          /\ tables' = AddSymbol(tables, n, Len(decls) + 1)
          /\ scopes' = AddSymbol(scopes, n, Len(decls) + 1)
      BY <1>3, <2>2 DEF GlobalVariable, AtGlobal
    <3>2. Kept
      BY <1>1, <3>1, AddSymbolKeepsTables DEF Kept
    <3> QED BY <3>1, <3>2, InvKept
  <2> QED BY <2>1, <2>2
<1> QED
  BY <1>2, <1>3

\* enterBlock and leaveBlock.
LEMMA Entered ==
  ASSUME IsSeq(tables), IsSeq(scopes), Enter
  PROVE  /\ IsSeq(tables') /\ Len(tables') = Len(tables) + 1
         /\ IsSeq(scopes') /\ Len(scopes') = Len(scopes) + 1
         /\ depth' = depth + 1
  BY AppendIsSeq DEF Enter, Deeper

\* leave pops one table and one level of depth.
LEMMA Left ==
  ASSUME IsSeq(tables), Len(tables) > 0, Leave
  PROVE  IsSeq(tables') /\ Len(tables') = Len(tables) - 1 /\ depth' = depth - 1
  BY FrontIsSeq DEF Leave

\* A call as it begins.
LEMMA NewFrame ==
  ASSUME loop \in LoopsOf, NEW call \in Calls
  PROVE  /\ Frame(call) \in Frames
         /\ Frame(call).call = call /\ Frame(call).upper = loop /\ Frame(call).leave = FALSE
  BY DEF Frame, Frames

\* What the invariant says while the text is parsed.
LEMMA WhileParsing ==
  ASSUME Inv, phase = "parse"
  PROVE  /\ IsSeq(tables) /\ IsSeq(scopes) /\ loop \in LoopsOf
         /\ Good(open, loop, depth, Len(tables), Len(scopes), func)
         /\ depth \in Nat /\ Len(tables) \in Nat /\ Len(scopes) \in Nat
         /\ Len(tables) > 0 /\ Len(scopes) > 0
         /\ open \in Seq(Frames)
         /\ IF open = <<>> THEN func = None ELSE open[1].call = "block"
<1>1. /\ IsSeq(tables) /\ IsSeq(scopes)
      /\ Good(open, loop, depth, Len(tables), Len(scopes), func)
  BY DEF Inv
<1>2. /\ depth \in Nat /\ Len(tables) \in Nat /\ Len(scopes) \in Nat
      /\ Len(tables) = depth + 1 /\ Len(scopes) >= Len(tables)
  BY <1>1, GoodNumbers
<1>3. Len(tables) > 0 /\ Len(scopes) > 0
  BY <1>2
<1> QED
  BY <1>1, <1>2, <1>3 DEF Good

\* While parsing, the depth and the heights of the stacks are numbers, and a
\* table is always there.
LEMMA Numbers ==
  ASSUME Inv, phase = "parse"
  PROVE  /\ depth \in Nat /\ Len(tables) \in Nat /\ Len(scopes) \in Nat
         /\ Len(tables) > 0 /\ Len(scopes) > 0 /\ Len(open) \in Nat
         /\ open = <<>> => Len(open) = 0
  BY WhileParsing, LenProperties, EmptySeq

\* Statements with statements inside: their beginnings.
LEMMA BeginSteps ==
  ASSUME Inv
  PROVE  /\ OpenBlock \/ BeginIf \/ BeginFor => Inv'
         /\ \A call \in {"do", "while"} : BeginLoop(call) => Inv'
<1>1. ASSUME phase = "parse"
      PROVE  /\ IsSeq(tables) /\ IsSeq(scopes) /\ loop \in LoopsOf
             /\ Good(open, loop, depth, Len(tables), Len(scopes), func)
             /\ depth \in Nat /\ Len(tables) \in Nat /\ Len(scopes) \in Nat
  BY <1>1, WhileParsing
<1>2. ASSUME NEW call \in {"block", "if", "for"}, AtStatement, Call(Frame(call)),
             loop' = loop, func' = func,
             IF call = "if" THEN UNCHANGED <<tables, scopes, depth>> ELSE Enter
      PROVE  Inv'
  <2>1. phase = "parse" /\ open # <<>> /\ open' = Append(open, Frame(call))
    BY <1>2 DEF AtStatement, Call
  <2> DEFINE c == Frame(call)
  <2>2. /\ c \in Frames /\ ~IsBody(c) /\ ~Shares(c)
        /\ Opens(c) <=> call # "if"
    <3>1. c \in Frames /\ c.call = call
      BY <1>1, <2>1, NewFrame DEF Calls
    <3> HIDE DEF c
    <3>2. ~IsBody(c) /\ ~Shares(c)
      BY <3>1 DEF IsBody, Shares
    <3>3. Opens(c) <=> call # "if"
      BY <3>1 DEF Opens
    <3> QED BY <3>1, <3>2, <3>3
  <2>3. IsSeq(tables') /\ IsSeq(scopes')
    BY <1>1, <1>2, <2>1, Entered
  <2>4. /\ depth' = depth + N(Opens(c))
        /\ Len(tables') = Len(tables) + N(Opens(c))
        /\ Len(scopes') = Len(scopes) + N(Opens(c)) + N(Shares(c))
    <3>1. CASE call = "if"
      <4>1. N(Opens(c)) = 0 /\ N(Shares(c)) = 0
        BY <2>2, <3>1 DEF N
      <4> HIDE DEF c
      <4> QED BY <1>1, <1>2, <2>1, <3>1, <4>1
    <3>2. CASE call # "if"
      <4>1. N(Opens(c)) = 1 /\ N(Shares(c)) = 0
        BY <2>2, <3>2 DEF N
      <4>2. /\ depth' = depth + 1
            /\ Len(tables') = Len(tables) + 1 /\ Len(scopes') = Len(scopes) + 1
        BY <1>1, <1>2, <2>1, <3>2, Entered
      <4> HIDE DEF c
      <4> QED BY <1>1, <2>1, <4>1, <4>2
    <3> QED BY <3>1, <3>2
  <2> HIDE DEF c
  <2>5. Good(Append(open, c), IF IsBody(c) THEN LoopAt(Append(open, c), Len(open) + 1) ELSE loop,
             depth + N(Opens(c)), Len(tables) + N(Opens(c)),
             Len(scopes) + N(Opens(c)) + N(Shares(c)), func)
    BY <1>1, <2>1, <2>2, GoodPushed
  <2>6. Good(open', loop', depth', Len(tables'), Len(scopes'), func')
    <3>1. open' = Append(open, c)
      BY <2>1 DEF c
    <3>2. loop' = IF IsBody(c) THEN LoopAt(Append(open, c), Len(open) + 1) ELSE loop
      BY <1>2, <2>2
    <3> QED BY <1>2, <2>4, <2>5, <3>1, <3>2
  <2> QED BY <2>3, <2>6 DEF Inv
<1>3. OpenBlock => Inv'
  BY <1>2 DEF OpenBlock
<1>4. BeginIf => Inv'
  BY <1>2 DEF BeginIf
<1>5. BeginFor => Inv'
  BY <1>2 DEF BeginFor
<1>6. ASSUME NEW call \in {"do", "while"}, BeginLoop(call) PROVE Inv'
  <2>1. /\ phase = "parse" /\ open # <<>> /\ open' = Append(open, Frame(call))
        /\ loop' = [call |-> call, at |-> Len(open) + 1]
        /\ tables' = tables /\ scopes' = scopes /\ depth' = depth /\ func' = func
    BY <1>6 DEF BeginLoop, AtStatement, Call
  <2> DEFINE c == Frame(call)
  <2>2. /\ c \in Frames /\ IsBody(c) /\ ~Shares(c) /\ ~Opens(c) /\ c.upper = loop
        /\ c.call = call
    BY <1>1, <2>1, NewFrame DEF Calls, IsBody, Shares, Opens
  <2>3. N(Opens(c)) = 0 /\ N(Shares(c)) = 0
    BY <2>2 DEF N
  <2>4. LoopAt(Append(open, c), Len(open) + 1) = loop'
    <3>1. Append(open, c)[Len(open) + 1] = c
      BY <1>1, <2>1, <2>2, Pushed DEF Good
    <3> HIDE DEF c
    <3> QED BY <1>6, <2>1, <2>2, <3>1 DEF LoopAt
  <2> HIDE DEF c
  <2>5. Good(Append(open, c), IF IsBody(c) THEN LoopAt(Append(open, c), Len(open) + 1) ELSE loop,
             depth + N(Opens(c)), Len(tables) + N(Opens(c)),
             Len(scopes) + N(Opens(c)) + N(Shares(c)), func)
    BY <1>1, <2>1, <2>2, GoodPushed
  <2>6. Good(Append(open, c), loop', depth, Len(tables), Len(scopes), func)
    <3>1. /\ depth + N(Opens(c)) = depth /\ Len(tables) + N(Opens(c)) = Len(tables)
          /\ Len(scopes) + N(Opens(c)) + N(Shares(c)) = Len(scopes)
      BY <1>1, <2>1, <2>3
    <3> QED BY <2>2, <2>4, <2>5, <3>1
  <2>7. open' = Append(open, c)
    BY <2>1 DEF c
  <2> QED BY <1>1, <2>1, <2>6, <2>7 DEF Inv
<1> QED
  BY <1>3, <1>4, <1>5, <1>6

\* A call below the last one.
LEMMA LongStack ==
  ASSUME NEW o \in Seq(Frames), Len(o) > 1
  PROVE  o # <<>> /\ Len(o) # 1
<1>1. PICK n \in Nat : n = Len(o)
  BY LenProperties
<1>2. n > 1
  BY <1>1
<1>3. n # 1 /\ n # 0
  BY <1>2
<1> QED
  BY <1>1, <1>3, EmptySeq

\* The state after the topmost call has returned.
LEMMA PoppedInv ==
  ASSUME Inv, phase = "parse", Len(open) > 1,
         open' = Front(open), func' = func,
         loop' = IF IsBody(Top) THEN Top.upper ELSE loop,
         depth' = depth - N(Opens(Top)),
         IsSeq(tables'), Len(tables') = Len(tables) - N(Opens(Top)),
         IsSeq(scopes'), Len(scopes') = Len(scopes) - N(Opens(Top)) - N(Shares(Top))
  PROVE  Inv'
<1>1. /\ Good(open, loop, depth, Len(tables), Len(scopes), func)
      /\ open # <<>> /\ Len(open) # 1
  <2>1. open \in Seq(Frames)
    BY WhileParsing
  <2>2. open # <<>> /\ Len(open) # 1
    BY <2>1, LongStack
  <2> QED BY <2>2, WhileParsing
<1>2. Good(Front(open), IF IsBody(Last(open)) THEN Last(open).upper ELSE loop,
           depth - N(Opens(Last(open))), Len(tables) - N(Opens(Last(open))),
           Len(scopes) - N(Opens(Last(open))) - N(Shares(Last(open))), func)
  BY <1>1, GoodPopped
<1>3. Good(open', loop', depth', Len(tables'), Len(scopes'), func')
  BY <1>2 DEF Top
<1> QED
  BY <1>3 DEF Inv

\* A function's body is a block: no other call is alone on the stack.
LEMMA NotAlone ==
  ASSUME Inv, phase = "parse", open # <<>>, Top.call # "block"
  PROVE  Len(open) > 1
<1>1. open \in Seq(Frames) /\ open[1].call = "block"
  BY WhileParsing
<1>2. Len(open) \in Nat /\ Len(open) > 0 /\ Last(open) = open[Len(open)]
  BY <1>1, Popped
<1>3. Len(open) # 1
  BY <1>1, <1>2 DEF Top
<1> QED
  BY <1>2, <1>3

\* Statements with statements inside: their ends.
LEMMA EndSteps ==
  ASSUME Inv
  PROVE  CloseBlock \/ EndIf \/ EndLoop \/ EndFor => Inv'
<1>1. ASSUME CloseBlock PROVE Inv'
  <2>1. /\ phase = "parse" /\ Len(open) > 1 /\ Top.call = "block" /\ Leave
        /\ scopes' = Front(scopes) /\ open' = Front(open) /\ func' = func /\ loop' = loop
    BY <1>1 DEF CloseBlock, Parsing, Return
  <2>2. ~IsBody(Top) /\ N(Opens(Top)) = 1 /\ N(Shares(Top)) = 0
    BY <2>1 DEF IsBody, Opens, Shares, N
  <2>3. /\ IsSeq(tables') /\ Len(tables') = Len(tables) - 1 /\ depth' = depth - 1
        /\ IsSeq(scopes') /\ Len(scopes') = Len(scopes) - 1
    BY <2>1, WhileParsing, Left, FrontIsSeq
  <2>4. Len(scopes) - 1 = Len(scopes) - 1 - 0
    BY <2>1, WhileParsing
  <2> QED BY <2>1, <2>2, <2>3, <2>4, PoppedInv
<1>2. ASSUME EndIf PROVE Inv'
  <2>1. /\ phase = "parse" /\ open # <<>> /\ Top.call \in {"if", "else"}
        /\ open' = Front(open) /\ func' = func /\ loop' = loop
        /\ depth' = depth /\ tables' = tables /\ scopes' = scopes
    BY <1>2 DEF EndIf, Returned, Return
  <2>2. ~IsBody(Top) /\ N(Opens(Top)) = 0 /\ N(Shares(Top)) = 0 /\ Top.call # "block"
    BY <2>1 DEF IsBody, Opens, Shares, N
  <2>3. /\ depth = depth - 0 /\ Len(tables) = Len(tables) - 0
        /\ Len(scopes) = Len(scopes) - 0 - 0
    BY <2>1, WhileParsing
  <2>4. Len(open) > 1
    BY <2>1, <2>2, NotAlone
  <2> QED BY <2>1, <2>2, <2>3, <2>4, PoppedInv, WhileParsing
<1>3. ASSUME EndLoop PROVE Inv'
  <2>1. /\ phase = "parse" /\ open # <<>> /\ Top.call \in {"do", "while"}
        /\ open' = Front(open) /\ func' = func /\ loop' = Top.upper
        /\ depth' = depth /\ tables' = tables /\ scopes' = scopes
    BY <1>3 DEF EndLoop, Returned, Return, Upper
  <2>2. IsBody(Top) /\ N(Opens(Top)) = 0 /\ N(Shares(Top)) = 0 /\ Top.call # "block"
    BY <2>1 DEF IsBody, Opens, Shares, N
  <2>3. /\ depth = depth - 0 /\ Len(tables) = Len(tables) - 0
        /\ Len(scopes) = Len(scopes) - 0 - 0
    BY <2>1, WhileParsing
  <2>4. Len(open) > 1
    BY <2>1, <2>2, NotAlone
  <2> QED BY <2>1, <2>2, <2>3, <2>4, PoppedInv, WhileParsing
<1>4. ASSUME EndFor PROVE Inv'
  <2>1. /\ phase = "parse" /\ open # <<>> /\ Top.call = "for body"
    BY <1>4 DEF EndFor, Returned
  <2>2. CASE ~Top.wellFormed
    BY <1>4, <2>2, RejectedInv DEF EndFor
  <2>3. CASE Top.wellFormed
    <3>1. /\ IF Top.leave THEN Leave ELSE UNCHANGED <<tables, depth>>
          /\ scopes' = Front(scopes) /\ open' = Front(open)
          /\ func' = func /\ loop' = Top.upper
      BY <1>4, <2>3 DEF EndFor, Return, Upper
    <3>2. /\ IsBody(Top) /\ Len(open) > 1
          /\ N(Opens(Top)) = N(Top.leave) /\ N(Shares(Top)) = 1 - N(Top.leave)
      <4>1. IsBody(Top) /\ Len(open) > 1
        BY <2>1, NotAlone DEF IsBody
      <4>2. N(Opens(Top)) = N(Top.leave) /\ N(Shares(Top)) = 1 - N(Top.leave)
        <5>1. Opens(Top) <=> Top.leave
          BY <2>1 DEF Opens
        <5>2. Shares(Top) <=> ~Top.leave
          BY <2>1 DEF Shares
        <5>3. CASE Top.leave
          BY <5>1, <5>2, <5>3 DEF N
        <5>4. CASE ~Top.leave
          BY <5>1, <5>2, <5>4 DEF N
        <5> QED BY <5>3, <5>4
      <4> QED BY <4>1, <4>2
    <3>3. IsSeq(scopes') /\ Len(scopes') = Len(scopes) - 1
      BY <2>1, <3>1, WhileParsing, FrontIsSeq
    <3>4. /\ IsSeq(tables') /\ Len(tables') = Len(tables) - N(Top.leave)
          /\ depth' = depth - N(Top.leave)
      <4>1. CASE Top.leave
        BY <2>1, <3>1, <4>1, WhileParsing, Left DEF N
      <4>2. CASE ~Top.leave
        <5>1. tables' = tables /\ depth' = depth /\ N(Top.leave) = 0
          BY <3>1, <4>2 DEF N
        <5>2. IsSeq(tables') /\ Len(tables') = Len(tables)
          BY <2>1, <5>1, WhileParsing
        <5>3. Len(tables) = Len(tables) - 0 /\ depth = depth - 0
          <6>1. Len(tables) \in Nat /\ depth \in Nat
            BY <2>1, Numbers
          <6> QED BY <6>1
        <5> QED BY <5>1, <5>2, <5>3
      <4> QED BY <4>1, <4>2
    <3>5. Len(scopes) - 1 = Len(scopes) - N(Top.leave) - (1 - N(Top.leave))
      <4>1. N(Top.leave) \in Int /\ Len(scopes) \in Nat
        <5>1. N(Top.leave) \in Int
          BY DEF N
        <5> QED BY <2>1, <5>1, WhileParsing
      <4> QED BY <4>1
    <3> QED BY <2>1, <3>1, <3>2, <3>3, <3>4, <3>5, PoppedInv
  <2> QED BY <2>2, <2>3
<1> QED
  BY <1>1, <1>2, <1>3, <1>4

\* One call takes the place of another: the else branch that of the if, the
\* body of a for statement that of its header.
LEMMA Replaced ==
  ASSUME Inv, phase = "parse", Len(open) > 1, ~IsBody(Top),
         NEW c \in Frames, c.upper = loop, NEW g
  PROVE  Good(Append(Front(open), c),
              IF IsBody(c) THEN [call |-> IF c.call = "for body" THEN "for" ELSE c.call,
                                 at |-> Len(open)] ELSE loop,
              depth - N(Opens(Top)) + N(Opens(c)), Len(tables) - N(Opens(Top)) + N(Opens(c)),
              Len(scopes) - N(Opens(Top)) - N(Shares(Top)) + N(Opens(c)) + N(Shares(c)), g)
<1> DEFINE p == Front(open)
           d == depth - N(Opens(Top))
           t == Len(tables) - N(Opens(Top))
           s == Len(scopes) - N(Opens(Top)) - N(Shares(Top))
<1>1. /\ open \in Seq(Frames) /\ open # <<>> /\ Len(open) # 1
      /\ Good(open, loop, depth, Len(tables), Len(scopes), func)
  <2>1. open \in Seq(Frames)
    BY WhileParsing
  <2>2. open # <<>> /\ Len(open) # 1
    BY <2>1, LongStack
  <2> QED BY <2>1, <2>2, WhileParsing
<1>2. Good(p, IF IsBody(Last(open)) THEN Last(open).upper ELSE loop,
           depth - N(Opens(Last(open))), Len(tables) - N(Opens(Last(open))),
           Len(scopes) - N(Opens(Last(open))) - N(Shares(Last(open))), func)
  BY <1>1, GoodPopped
<1>3. Good(p, loop, d, t, s, func)
  BY <1>2 DEF Top
<1>4. p \in Seq(Frames) /\ p # <<>> /\ Len(p) + 1 = Len(open)
  <2>1. /\ Len(open) \in Nat /\ Len(p) = Len(open) - 1 /\ p \in Seq(Frames)
        /\ Len(open) > 1 => p # <<>>
    BY <1>1, Popped
  <2> HIDE DEF p
  <2>2. Len(open) - 1 + 1 = Len(open)
    BY <2>1
  <2> QED BY <2>1, <2>2
<1> HIDE DEF p, d, t, s
<1>5. Append(p, c)[Len(p) + 1] = c
  BY <1>4, Pushed
<1>6. Good(Append(p, c), IF IsBody(c) THEN LoopAt(Append(p, c), Len(p) + 1) ELSE loop,
           d + N(Opens(c)), t + N(Opens(c)), s + N(Opens(c)) + N(Shares(c)), g)
  BY <1>3, <1>4, GoodPushed
<1>7. LoopAt(Append(p, c), Len(p) + 1) =
        [call |-> IF c.call = "for body" THEN "for" ELSE c.call, at |-> Len(open)]
  BY <1>4, <1>5 DEF LoopAt
<1> QED
  BY <1>6, <1>7 DEF p, d, t, s

\* else keeps the accounts.
LEMMA ElseStep ==
  ASSUME Inv, Else
  PROVE  Inv'
<1>1. /\ phase = "parse" /\ open # <<>> /\ Top.call = "if"
      /\ open' = Append(Front(open), Frame("else"))
      /\ loop' = loop /\ depth' = depth /\ func' = func
      /\ tables' = tables /\ scopes' = scopes
  BY DEF Else, Returned
<1>2. /\ ~IsBody(Top) /\ ~Opens(Top) /\ ~Shares(Top) /\ Top.call # "block"
  BY <1>1 DEF IsBody, Opens, Shares
<1>3. Len(open) > 1
  BY <1>1, <1>2, NotAlone
<1> DEFINE c == Frame("else")
<1>4. c \in Frames /\ c.call = "else" /\ c.upper = loop
  BY <1>1, WhileParsing, NewFrame DEF Calls
<1> HIDE DEF c
<1>5. ~IsBody(c) /\ ~Opens(c) /\ ~Shares(c)
  BY <1>4 DEF IsBody, Opens, Shares
<1>6. Good(Append(Front(open), c), loop,
           depth - N(Opens(Top)) + N(Opens(c)), Len(tables) - N(Opens(Top)) + N(Opens(c)),
           Len(scopes) - N(Opens(Top)) - N(Shares(Top)) + N(Opens(c)) + N(Shares(c)), func)
  BY <1>1, <1>2, <1>3, <1>4, <1>5, Replaced
<1>7. /\ depth \in Nat /\ Len(tables) \in Nat /\ Len(scopes) \in Nat
      /\ N(Opens(Top)) = 0 /\ N(Shares(Top)) = 0 /\ N(Opens(c)) = 0 /\ N(Shares(c)) = 0
  BY <1>1, <1>2, <1>5, Numbers DEF N
<1>8. Good(Append(Front(open), c), loop, depth, Len(tables), Len(scopes), func)
  <2>1. /\ depth - 0 + 0 = depth /\ Len(tables) - 0 + 0 = Len(tables)
        /\ Len(scopes) - 0 - 0 + 0 + 0 = Len(scopes)
    BY <1>7
  <2> QED BY <1>6, <1>7, <2>1
<1>9. IsSeq(tables) /\ IsSeq(scopes)
  BY <1>1, WhileParsing
<1>10. Good(open', loop', depth', Len(tables'), Len(scopes'), func')
  BY <1>1, <1>8 DEF c
<1> QED
  BY <1>1, <1>9, <1>10 DEF Inv

\* The header of a for loop keeps the accounts, with braces around the body
\* or without.
LEMMA ForHeaderStep ==
  ASSUME Inv,
         NEW name \in VarNames \cup {NoName}, NEW increment \in BOOLEAN, NEW brace \in BOOLEAN,
         ForHeader(name, increment, brace)
  PROVE  Inv'
<1> DEFINE v == IF name = NoName THEN None ELSE FindVar(tables, decls, name)
           c == [call |-> "for body", upper |-> loop, leave |-> ShouldRunLeaveBlock(brace),
                 wellFormed |-> WellFormedFor(returned, increment)]
           b == Frame("block")
           p == Front(open)
           q == Append(p, c)
           l == [call |-> "for", at |-> Len(open)]
<1>1. CASE name # NoName /\ v = None
  BY <1>1, UndeclaredInv DEF ForHeader
<1>2. CASE ~(name # NoName /\ v = None)
  <2>1. /\ phase = "parse" /\ open # <<>> /\ Top.call = "for"
        /\ open' = q \o (IF brace THEN <<b>> ELSE <<>>)
        /\ loop' = l
        /\ scopes' = IF brace THEN Append(scopes, EmptyTable) ELSE scopes
        /\ tables' = tables /\ depth' = depth /\ func' = func
    BY <1>2 DEF ForHeader, Returned
  <2>2. ~IsBody(Top) /\ Opens(Top) /\ ~Shares(Top) /\ Top.call # "block"
    BY <2>1 DEF IsBody, Opens, Shares
  <2>3. Len(open) > 1
    BY <2>1, <2>2, NotAlone
  <2>4. loop \in LoopsOf /\ open \in Seq(Frames) /\ IsSeq(tables) /\ IsSeq(scopes)
    BY <2>1, WhileParsing
  <2>5. /\ c \in Frames /\ c.call = "for body" /\ c.upper = loop /\ c.leave = ~brace
    BY <2>4 DEF Frames, Calls, ShouldRunLeaveBlock, WellFormedFor
  <2>6. b \in Frames /\ b.call = "block"
    BY <2>4, NewFrame DEF Calls
  <2>7. p \in Seq(Frames)
    BY <2>1, <2>4, Popped
  <2> HIDE DEF c, b, p
  <2>8. q \in Seq(Frames) /\ q # <<>>
    BY <2>5, <2>7, Pushed
  <2>9. IsBody(c) /\ (Opens(c) <=> ~brace) /\ (Shares(c) <=> brace)
    <3>1. IsBody(c)
      BY <2>5 DEF IsBody
    <3>2. Opens(c) <=> ~brace
      BY <2>5 DEF Opens
    <3>3. Shares(c) <=> brace
      BY <2>5 DEF Shares
    <3> QED BY <3>1, <3>2, <3>3
  <2>10. ~IsBody(b) /\ Opens(b) /\ ~Shares(b)
    BY <2>6 DEF IsBody, Opens, Shares
  <2>11. Good(q, l,
              depth - N(Opens(Top)) + N(Opens(c)), Len(tables) - N(Opens(Top)) + N(Opens(c)),
              Len(scopes) - N(Opens(Top)) - N(Shares(Top)) + N(Opens(c)) + N(Shares(c)), func)
    <3>1. Good(Append(Front(open), c),
              IF IsBody(c) THEN [call |-> IF c.call = "for body" THEN "for" ELSE c.call,
                                 at |-> Len(open)] ELSE loop,
              depth - N(Opens(Top)) + N(Opens(c)), Len(tables) - N(Opens(Top)) + N(Opens(c)),
              Len(scopes) - N(Opens(Top)) - N(Shares(Top)) + N(Opens(c)) + N(Shares(c)), func)
      BY <2>1, <2>2, <2>3, <2>5, Replaced
    <3>2. (IF IsBody(c) THEN [call |-> IF c.call = "for body" THEN "for" ELSE c.call,
                              at |-> Len(open)] ELSE loop) = l
      BY <2>5, <2>9
    <3> HIDE DEF l
    <3> QED BY <3>1, <3>2 DEF p
  <2> HIDE DEF q, l
  <2>12. /\ depth \in Nat /\ Len(tables) \in Nat /\ Len(scopes) \in Nat
         /\ N(Opens(Top)) = 1 /\ N(Shares(Top)) = 0
         /\ N(Opens(b)) = 1 /\ N(Shares(b)) = 0
    BY <2>1, <2>2, <2>10, Numbers DEF N
  <2>13. CASE ~brace
    <3>1. N(Opens(c)) = 1 /\ N(Shares(c)) = 0
      BY <2>9, <2>13 DEF N
    <3>2. /\ depth - 1 + 1 = depth /\ Len(tables) - 1 + 1 = Len(tables)
          /\ Len(scopes) - 1 - 0 + 1 + 0 = Len(scopes)
      BY <2>12
    <3>3. Good(q, l, depth, Len(tables), Len(scopes), func)
      BY <2>11, <2>12, <3>1, <3>2
    <3>4. open' = q /\ scopes' = scopes
      BY <2>1, <2>8, <2>13, ConcatEmptySeq
    <3>5. Good(open', loop', depth', Len(tables'), Len(scopes'), func')
      BY <2>1, <3>3, <3>4
    <3> QED BY <2>1, <2>4, <3>4, <3>5 DEF Inv
  <2>14. CASE brace
    <3>1. N(Opens(c)) = 0 /\ N(Shares(c)) = 1
      BY <2>9, <2>14 DEF N
    <3>2. /\ depth - 1 + 0 = depth - 1 /\ Len(tables) - 1 + 0 = Len(tables) - 1
          /\ Len(scopes) - 1 - 0 + 0 + 1 = Len(scopes)
          /\ depth - 1 + 1 = depth /\ Len(tables) - 1 + 1 = Len(tables)
          /\ Len(scopes) + 1 + 0 = Len(scopes) + 1
      BY <2>12
    <3>3. Good(q, l, depth - 1, Len(tables) - 1, Len(scopes), func)
      BY <2>11, <2>12, <3>1, <3>2
    <3>4. Good(Append(q, b), IF IsBody(b) THEN LoopAt(Append(q, b), Len(q) + 1) ELSE l,
               depth - 1 + N(Opens(b)), Len(tables) - 1 + N(Opens(b)),
               Len(scopes) + N(Opens(b)) + N(Shares(b)), func)
      BY <2>6, <2>8, <2>10, <3>3, GoodPushed
    <3>5. Good(Append(q, b), l, depth, Len(tables), Len(scopes) + 1, func)
      BY <2>10, <2>12, <3>2, <3>4
    <3>6. open' = Append(q, b)
      BY <2>1, <2>6, <2>8, <2>14, AppendIsConcat
    <3>7. IsSeq(scopes') /\ Len(scopes') = Len(scopes) + 1
      BY <2>1, <2>4, <2>14, AppendIsSeq
    <3>8. Good(open', loop', depth', Len(tables'), Len(scopes'), func')
      BY <2>1, <3>5, <3>6, <3>7
    <3> QED BY <2>1, <2>4, <3>7, <3>8 DEF Inv
  <2> QED BY <2>13, <2>14
<1> QED
  BY <1>1, <1>2

(***************************************************************************)
(* Functions.                                                              *)
(***************************************************************************)

\* A prototype keeps the accounts.
LEMMA DeclareFunctionStep ==
  ASSUME Inv, NEW proto \in Prototypes, NEW extern \in BOOLEAN, DeclareFunction(proto, extern)
  PROVE  Inv'
<1> DEFINE d    == Len(decls) + 1
           prev == tables[1][proto.name]
           f    == FunctionOf(proto, extern, ParamIds(proto.params), FALSE)
<1>1. CASE prev # None /\ ~SameProto(f, decls[prev])
  BY <1>1, RejectedInv DEF DeclareFunction
<1>2. CASE (prev = None \/ SameProto(f, decls[prev])) /\ ~extern
  BY <1>2, RejectedInv DEF DeclareFunction
<1>3. CASE (prev = None \/ SameProto(f, decls[prev])) /\ extern
  <2>1. /\ phase = "parse" /\ open' = open
        /\ loop' = loop /\ depth' = depth /\ func' = func
        /\ tables' = AddParams(IF prev = None THEN AddSymbol(tables, proto.name, d) ELSE tables,
                               proto.params)
        /\ scopes' = IF prev = None THEN AddSymbol(scopes, proto.name, d) ELSE scopes
    BY <1>3 DEF DeclareFunction, AtGlobal
  <2>2. IsSeq(tables) /\ IsSeq(scopes)
    BY <2>1, WhileParsing
  <2> DEFINE ts == IF prev = None THEN AddSymbol(tables, proto.name, d) ELSE tables
  <2>3. IsSeq(ts) /\ Len(ts) = Len(tables)
    BY <2>2, AddSymbolKeepsTables
  <2> HIDE DEF ts
  <2>4. IsSeq(AddParams(ts, proto.params)) /\ Len(AddParams(ts, proto.params)) = Len(tables)
    BY <2>3, AddParamsKeepsTables
  <2>5. IsSeq(scopes') /\ Len(scopes') = Len(scopes)
    BY <2>1, <2>2, AddSymbolKeepsTables
  <2>6. Kept
    BY <2>1, <2>4, <2>5 DEF Kept, ts
  <2> QED BY <2>1, <2>6, InvKept
<1> QED
  BY <1>1, <1>2, <1>3

\* The head of a definition keeps the accounts.
LEMMA BeginFunctionStep ==
  ASSUME Inv, NEW proto \in Prototypes, NEW extern \in BOOLEAN, BeginFunction(proto, extern)
  PROVE  Inv'
<1> DEFINE d    == Len(decls) + 1
           prev == tables[1][proto.name]
           f    == FunctionOf(proto, extern, ParamIds(proto.params), TRUE)
           b    == Frame("block")
<1>1. CASE prev # None /\ (~SameProto(f, decls[prev]) \/ decls[prev].body)
  BY <1>1, RejectedInv DEF BeginFunction
<1>2. CASE ~(prev # None /\ (~SameProto(f, decls[prev]) \/ decls[prev].body))
  <2>1. /\ phase = "parse" /\ open = <<>> /\ open' = <<b>> /\ loop' = loop
        /\ depth' = depth + 1
        /\ tables' = AddParams(Deeper(AddSymbol(tables, proto.name, d)), proto.params)
        /\ scopes' = AddParams(Append(AddSymbol(scopes, proto.name, d), EmptyTable), proto.params)
    BY <1>2 DEF BeginFunction, AtGlobal
  <2>2. /\ IsSeq(tables) /\ IsSeq(scopes) /\ loop \in LoopsOf
        /\ Good(open, loop, depth, Len(tables), Len(scopes), func)
    BY <2>1, WhileParsing
  <2> DEFINE t == AddSymbol(tables, proto.name, d)
             u == AddSymbol(scopes, proto.name, d)
  <2>3. IsSeq(t) /\ Len(t) = Len(tables) /\ IsSeq(u) /\ Len(u) = Len(scopes)
    BY <2>2, AddSymbolKeepsTables
  <2> HIDE DEF t, u
  <2>4. /\ IsSeq(Append(t, EmptyTable)) /\ Len(Append(t, EmptyTable)) = Len(tables) + 1
        /\ IsSeq(Append(u, EmptyTable)) /\ Len(Append(u, EmptyTable)) = Len(scopes) + 1
    BY <2>3, AppendIsSeq
  <2>5. /\ IsSeq(tables') /\ Len(tables') = Len(tables) + 1
        /\ IsSeq(scopes') /\ Len(scopes') = Len(scopes) + 1
    BY <2>1, <2>4, AddParamsKeepsTables DEF Deeper, t, u
  <2>6. b \in Frames /\ b.call = "block"
    BY <2>2, NewFrame DEF Calls
  <2>7. open' = Append(<<>>, b)
    BY <2>1
  <2> HIDE DEF b
  <2>8. ~IsBody(b) /\ N(Opens(b)) = 1 /\ N(Shares(b)) = 0
    <3>1. ~IsBody(b) /\ Opens(b) /\ ~Shares(b)
      BY <2>6 DEF IsBody, Opens, Shares
    <3> QED BY <3>1 DEF N
  <2>9. Good(Append(<<>>, b), IF IsBody(b) THEN LoopAt(Append(<<>>, b), Len(<<>>) + 1) ELSE loop,
             depth + N(Opens(b)), Len(tables) + N(Opens(b)),
             Len(scopes) + N(Opens(b)) + N(Shares(b)), func')
    <3>1. Good(<<>>, loop, depth, Len(tables), Len(scopes), func)
      BY <2>1, <2>2
    <3> QED BY <2>6, <2>8, <3>1, GoodPushed
  <2>10. Len(scopes) + 1 + 0 = Len(scopes) + 1
    BY <2>1, Numbers
  <2>11. Good(open', loop', depth', Len(tables'), Len(scopes'), func')
    BY <2>1, <2>5, <2>7, <2>8, <2>9, <2>10
  <2> QED BY <2>5, <2>11 DEF Inv
<1> QED
  BY <1>1, <1>2

\* The end of a function keeps the accounts.
LEMMA EndFunctionStep ==
  ASSUME Inv, EndFunction
  PROVE  Inv'
<1>1. /\ phase = "parse" /\ Len(open) = 1 /\ Top.call = "block" /\ Leave
      /\ scopes' = Front(scopes) /\ func' = None /\ open' = <<>> /\ loop' = loop
  BY DEF EndFunction
<1>2. /\ IsSeq(tables) /\ IsSeq(scopes) /\ Len(tables) > 0 /\ Len(scopes) > 0
      /\ open \in Seq(Frames)
      /\ Good(open, loop, depth, Len(tables), Len(scopes), func)
  BY <1>1, WhileParsing
<1>3. open # <<>>
  <2>1. open = <<>> => Len(open) = 0
    BY <1>1, Numbers
  <2> QED BY <1>1, <2>1
<1>4. Front(open) = <<>>
  BY <1>1, <1>2, <1>3, Popped
<1>5. Good(Front(open), IF IsBody(Last(open)) THEN Last(open).upper ELSE loop,
           depth - N(Opens(Last(open))), Len(tables) - N(Opens(Last(open))),
           Len(scopes) - N(Opens(Last(open))) - N(Shares(Last(open))), None)
  BY <1>2, <1>3, GoodPopped
<1>6. ~IsBody(Top) /\ N(Opens(Top)) = 1 /\ N(Shares(Top)) = 0
  BY <1>1 DEF IsBody, Opens, Shares, N
<1>7. /\ IsSeq(tables') /\ Len(tables') = Len(tables) - 1 /\ depth' = depth - 1
      /\ IsSeq(scopes') /\ Len(scopes') = Len(scopes) - 1
  BY <1>1, <1>2, Left, FrontIsSeq
<1>8. Len(scopes) - 1 - 0 = Len(scopes) - 1
  <2>1. Len(scopes) \in Nat
    BY <1>1, Numbers
  <2> QED BY <2>1
<1>9. Good(open', loop', depth', Len(tables'), Len(scopes'), func')
  BY <1>1, <1>4, <1>5, <1>6, <1>7, <1>8 DEF Top
<1> QED
  BY <1>7, <1>9 DEF Inv

\* The text has ended.
LEMMA LaterSteps ==
  ASSUME Inv
  PROVE  EndText \/ TranslateVar \/ TranslateFunction => Inv'
<1>1. ASSUME EndText PROVE Inv'
  <2>1. phase' # "parse"
    BY <1>1 DEF EndText
  <2> QED BY <2>1 DEF Inv
<1>2. Translated => phase' # "parse"
  BY DEF Translated
<1>3. \A why : Abort(why) => phase' # "parse"
  BY DEF Abort, Stop
<1>4. TranslateVar \/ TranslateFunction => phase' # "parse"
  BY <1>2, <1>3 DEF TranslateVar, TranslateFunction
<1> QED
  BY <1>1, <1>4 DEF Inv

(***************************************************************************)
(* The theorems.                                                           *)
(***************************************************************************)

\* The accounts are right before the first token,
LEMMA InitInv == Init => Inv
<1> SUFFICES ASSUME Init PROVE Inv
  OBVIOUS
<1>1. /\ tables = PresetTable /\ scopes = PresetTable /\ open = <<>>
      /\ depth = 0 /\ func = None /\ loop = NoLoop
  BY DEF Init
<1>2. IsSeq(PresetTable) /\ Len(PresetTable) = 1
  <2> DEFINE table == [n \in Names |-> LET at == {k \in DOMAIN Presets : Presets[k] = n}
                                       IN  IF at = {} THEN None ELSE Max(at)]
  <2>1. <<table>> \in Seq({table}) /\ Len(<<table>>) = 1
    OBVIOUS
  <2>2. PresetTable = <<table>>
    BY DEF PresetTable
  <2> HIDE DEF table
  <2> QED BY <2>1, <2>2 DEF IsSeq
<1>3. Good(<<>>, NoLoop, 0, 1, 1, None)
  <2>1. <<>> \in Seq(Frames) /\ NoLoop \in LoopsOf
    BY EmptySeq DEF NoLoop, LoopsOf
  <2> QED BY <2>1, NothingCounted, NoChain DEF Good
<1> QED
  BY <1>1, <1>2, <1>3 DEF Inv

\* and every step keeps them.
LEMMA NextInv == Inv /\ [Next]_vars => Inv'
<1> SUFFICES ASSUME Inv, [Next]_vars PROVE Inv'
  OBVIOUS
<1>1. CASE Statement
  BY <1>1, SimpleSteps, VariableSteps, BeginSteps, EndSteps, ElseStep, ForHeaderStep
  DEF Statement
<1>2. CASE Declaration
  BY <1>2, VariableSteps, DeclareFunctionStep, BeginFunctionStep, EndFunctionStep, LaterSteps
  DEF Declaration
<1>3. CASE TranslateVar \/ TranslateFunction
  BY <1>3, LaterSteps
<1>4. CASE UNCHANGED vars
  BY <1>4 DEF vars, parserVars, Inv
<1> QED
  BY <1>1, <1>2, <1>3, <1>4 DEF Next

\* The parser's stack of calls, its symbol tables, C's scopes, cur_depth, cur_loop
\* and cur_func move together.
THEOREM Bookkeeping == Spec => []Inv
<1> QED
  BY InitInv, NextInv, PTL DEF Spec

\* There is one symbol table more than cur_depth says, none but the global one
\* between declarations, and one for every scope but those of the bodies of for
\* statements: enterBlock, leaveBlock, enterFunction and leaveFunction always pair up.
THEOREM TablesAlwaysFollowBlocks == Spec => []TablesFollowBlocks
<1>1. Inv => TablesFollowBlocks
  <2> SUFFICES ASSUME Inv, phase = "parse"
               PROVE  /\ Len(tables) = depth + 1
                      /\ open = <<>> => depth = 0 /\ loop = NoLoop /\ func = None
                      /\ Len(tables) = Len(scopes) - Cardinality(SharedBodies)
    BY DEF TablesFollowBlocks
  <2>1. /\ Good(open, loop, depth, Len(tables), Len(scopes), func)
        /\ IF open = <<>> THEN func = None ELSE open[1].call = "block"
        /\ open \in Seq(Frames)
    BY WhileParsing
  <2>2. Len(tables) = depth + 1
    BY <2>1 DEF Good
  <2>3. ASSUME open = <<>> PROVE depth = 0 /\ loop = NoLoop /\ func = None
    <3>1. depth = Cardinality(Opening(<<>>)) /\ LoopsNested(<<>>, loop)
      BY <2>1, <2>3 DEF Good
    <3>2. loop = NoLoop
      BY <3>1, EmptySeq DEF LoopsNested, Innermost
    <3> QED BY <2>1, <2>3, <3>1, <3>2, NothingCounted
  <2>4. Len(tables) = Len(scopes) - Cardinality(SharedBodies)
    <3>1. SharedBodies = Sharing(open)
      BY DEF SharedBodies, Sharing, Shares
    <3>2. Len(scopes) = Len(tables) + Cardinality(Sharing(open))
      BY <2>1 DEF Good
    <3>3. Len(tables) \in Nat /\ Cardinality(Sharing(open)) \in Nat
      BY <2>1, Numbers, CountsAreFinite
    <3> QED BY <3>1, <3>2, <3>3
  <2> QED BY <2>2, <2>3, <2>4
<1> QED
  BY <1>1, Bookkeeping, PTL

\* cur_loop is the innermost loop whose body is being parsed, after every statement,
\* whatever loops, conditions and blocks its body was made of.
THEOREM LoopIsAlwaysInnermost == Spec => []LoopIsInnermost
<1>1. Inv => LoopIsInnermost
  <2> SUFFICES ASSUME Inv, phase = "parse"
               PROVE  IF Bodies = {} THEN loop = NoLoop
                      ELSE LET k == CHOOSE k \in Bodies : \A j \in Bodies : j <= k
                           IN  loop = [call |-> IF open[k].call = "for body" THEN "for"
                                                ELSE open[k].call, at |-> k]
    BY DEF LoopIsInnermost
  <2>1. open \in Seq(Frames) /\ LoopsNested(open, loop)
    BY WhileParsing DEF Good
  <2>2. PICK n \in Nat : n = Len(open) /\ DOMAIN open = 1..n
    BY <2>1, LenProperties
  <2>3. Bodies = {k \in 1..n : IsBody(open[k])}
    BY <2>2 DEF Bodies, IsBody
  <2>4. Innermost(open, n, loop)
    BY <2>1, <2>2 DEF LoopsNested
  <2>5. CASE loop = NoLoop /\ \A k \in 1..n : ~IsBody(open[k])
    BY <2>3, <2>5
  <2>6. CASE \E k \in 1..n : /\ IsBody(open[k]) /\ loop = LoopAt(open, k)
                             /\ \A j \in (k + 1)..n : ~IsBody(open[j])
    <3>1. PICK k \in 1..n : /\ IsBody(open[k]) /\ loop = LoopAt(open, k)
                            /\ \A j \in (k + 1)..n : ~IsBody(open[j])
      BY <2>6
    <3>2. k \in Bodies /\ \A j \in Bodies : j <= k
      <4>1. \A j \in 1..n : j <= k \/ j \in (k + 1)..n
        BY <3>1
      <4> QED BY <2>3, <3>1, <4>1
    <3>3. \A m \in Bodies : (\A j \in Bodies : j <= m) => m = k
      <4>1. \A m \in Bodies : m \in Int
        BY <2>3
      <4>2. ASSUME NEW m \in Bodies, \A j \in Bodies : j <= m PROVE m = k
        <5>1. k <= m /\ m <= k /\ k \in Int /\ m \in Int
          BY <3>2, <4>1, <4>2
        <5> QED BY <5>1
      <4> QED BY <4>2
    <3>4. k = CHOOSE m \in Bodies : \A j \in Bodies : j <= m
      BY <3>2, <3>3
    <3> QED BY <3>1, <3>2, <3>4 DEF LoopAt
  <2> QED BY <2>4, <2>5, <2>6 DEF Innermost
<1> QED
  BY <1>1, Bookkeeping, PTL

(***************************************************************************)
(* Names: what the parser finds in its tables is what C's scopes say.      *)
(*                                                                         *)
(* The scopes are the calls that open or share a block, and a shared body  *)
(* of a for statement is two scopes over one table.  Layout keeps, for     *)
(* each scope, the call it belongs to and the table it goes with; a table  *)
(* then is what its scopes hold together, but for the names the parameters *)
(* of prototypes have put into the global one.                             *)
(***************************************************************************)
\* A nonempty set of numbers up to n has a largest one.
LEMMA LargestElement ==
  ASSUME NEW n \in Nat, NEW S \in SUBSET (1..n), S # {}
  PROVE  \E x \in S : \A y \in S : y <= x
<1> DEFINE R == OpToRel(<, Nat)
           T == {i \in Nat : i <= n /\ n - i \in S}
<1>1. T \in SUBSET Nat /\ T # {}
  <2>1. PICK k : k \in S
    OBVIOUS
  <2>2. n - k \in Nat /\ n - k <= n /\ n - (n - k) = k
    BY <2>1
  <2> QED BY <2>1, <2>2
<1>2. PICK x \in T : \A y \in T : ~(<<y, x>> \in R)
  <2>1. IsWellFoundedOn(R, Nat)
    BY NatLessThanWellFounded
  <2> HIDE DEF R, T
  <2> QED BY <1>1, <2>1, WFMin
<1>3. x \in Nat
  BY <1>1
<1>4. ASSUME NEW y \in T PROVE ~(y < x)
  <2>1. y \in Nat
    BY <1>1
  <2>2. ~(<<y, x>> \in R)
    BY <1>2
  <2> HIDE DEF T
  <2> QED BY <1>3, <2>1, <2>2, Zenon DEF OpToRel
<1>5. n - x \in S
  BY <1>2
<1>6. ASSUME NEW y \in S PROVE y <= n - x
  <2>1. n - y \in T
    BY DEF T
  <2>2. ~(n - y < x)
    BY <1>4, <2>1
  <2> HIDE DEF T
  <2> QED BY <1>3, <2>2
<1> QED BY <1>5, <1>6

\* What CHOOSE picks as the largest.
LEMMA LargestChosen ==
  ASSUME NEW n \in Nat, NEW S \in SUBSET (1..n), S # {}
  PROVE  LET k == CHOOSE k \in S : \A j \in S : j <= k
         IN  k \in S /\ \A j \in S : j <= k
BY LargestElement

Scoped(f) == Opens(f) \/ Shares(f)
SharesAt(o, k) == k # 0 /\ Shares(o[k])

\* Scope j belongs to the call at[j] (0: the unit), and goes with the table of[j].
Layout(o, nt, ns, at, of) ==
    /\ ns \in Nat \ {0} /\ nt \in Nat
    /\ at \in [1..ns -> Nat] /\ of \in [1..ns -> Nat]
    /\ at[1] = 0 /\ of[1] = 1
    /\ \A j \in 2..ns : /\ at[j] \in 1..Len(o) /\ Scoped(o[at[j]])
                        /\ of[j] > 1
                        /\ of[j] = of[j - 1] + (IF SharesAt(o, at[j - 1]) THEN 0 ELSE 1)
    /\ \A i, j \in 1..ns : i < j => at[i] < at[j] /\ of[i] <= of[j]
    /\ \A k \in 1..Len(o) : Scoped(o[k]) => \E j \in 1..ns : at[j] = k
    /\ nt = of[ns] - (IF SharesAt(o, at[ns]) THEN 1 ELSE 0)

\* One more scope, with the call or the table v; the first n scopes.
OneMoreAt(f, n, v) == [j \in 1..(n + 1) |-> IF j = n + 1 THEN v ELSE f[j]]
FirstOf(f, n) == [j \in 1..n |-> f[j]]

\* A call that opens a table and a scope; one that has neither.
LEMMA LayoutPushed ==
  ASSUME NEW o \in Seq(Frames), NEW nt, NEW ns, NEW at, NEW of, Layout(o, nt, ns, at, of),
         NEW c \in Frames, ~Shares(c)
  PROVE  /\ Opens(c) => Layout(Append(o, c), nt + 1, ns + 1,
                               OneMoreAt(at, ns, Len(o) + 1), OneMoreAt(of, ns, nt + 1))
         /\ ~Opens(c) => Layout(Append(o, c), nt, ns, at, of)
<1> DEFINE q == Append(o, c)
           L == Len(o)
<1>1. /\ q \in Seq(Frames) /\ L \in Nat /\ Len(q) = L + 1
      /\ \A k \in 1..L : q[k] = o[k]
      /\ q[L + 1] = c
  BY Pushed
<1> HIDE DEF q, L
<1>2. /\ ns \in Nat \ {0} /\ nt \in Nat
      /\ at \in [1..ns -> Nat] /\ of \in [1..ns -> Nat]
      /\ at[1] = 0 /\ of[1] = 1
      /\ \A j \in 2..ns : /\ at[j] \in 1..L /\ Scoped(o[at[j]])
                          /\ of[j] > 1
                          /\ of[j] = of[j - 1] + (IF SharesAt(o, at[j - 1]) THEN 0 ELSE 1)
      /\ \A i, j \in 1..ns : i < j => at[i] < at[j] /\ of[i] <= of[j]
      /\ \A k \in 1..L : Scoped(o[k]) => \E j \in 1..ns : at[j] = k
      /\ nt = of[ns] - (IF SharesAt(o, at[ns]) THEN 1 ELSE 0)
  BY DEF Layout, L
<1>3. \A j \in 1..ns : at[j] \in 0..L /\ (SharesAt(q, at[j]) <=> SharesAt(o, at[j]))
  <2> SUFFICES ASSUME NEW j \in 1..ns
               PROVE  at[j] \in 0..L /\ (SharesAt(q, at[j]) <=> SharesAt(o, at[j]))
    OBVIOUS
  <2>1. CASE j = 1
    BY <1>1, <1>2, <2>1 DEF SharesAt
  <2>2. CASE j # 1
    <3>1. at[j] \in 1..L
      BY <1>2, <2>2
    <3> QED BY <1>1, <3>1 DEF SharesAt
  <2> QED BY <2>1, <2>2
<1>4. \A j \in 2..ns : /\ at[j] \in 1..(L + 1) /\ Scoped(q[at[j]])
                       /\ of[j] > 1
                       /\ of[j] = of[j - 1] + (IF SharesAt(q, at[j - 1]) THEN 0 ELSE 1)
  <2> SUFFICES ASSUME NEW j \in 2..ns
               PROVE  /\ at[j] \in 1..(L + 1) /\ Scoped(q[at[j]])
                      /\ of[j] > 1
                      /\ of[j] = of[j - 1] + (IF SharesAt(q, at[j - 1]) THEN 0 ELSE 1)
    OBVIOUS
  <2>1. at[j] \in 1..L /\ j - 1 \in 1..ns
    BY <1>2
  <2>2. q[at[j]] = o[at[j]] /\ (SharesAt(q, at[j - 1]) <=> SharesAt(o, at[j - 1]))
    BY <1>1, <1>3, <2>1
  <2>3. at[j] \in 1..(L + 1)
    BY <1>1, <2>1
  <2> QED BY <1>2, <2>2, <2>3
<1>5. CASE ~Opens(c)
  <2>1. \A k \in 1..(L + 1) : Scoped(q[k]) => \E j \in 1..ns : at[j] = k
    <3> SUFFICES ASSUME NEW k \in 1..(L + 1), Scoped(q[k]) PROVE \E j \in 1..ns : at[j] = k
      OBVIOUS
    <3>1. k # L + 1
      BY <1>1, <1>5 DEF Scoped
    <3>2. k \in 1..L
      BY <1>1, <3>1
    <3> QED BY <1>1, <1>2, <3>2
  <2>2. ns \in 1..ns
    BY <1>2
  <2>3. nt = of[ns] - (IF SharesAt(q, at[ns]) THEN 1 ELSE 0)
    BY <1>2, <1>3, <2>2
  <2>4. Layout(q, nt, ns, at, of)
    BY <1>1, <1>2, <1>4, <2>1, <2>3 DEF Layout
  <2> QED BY <1>5, <2>4 DEF q
<1>6. CASE Opens(c)
  <2> DEFINE at2 == [j \in 1..(ns + 1) |-> IF j = ns + 1 THEN L + 1 ELSE at[j]]
             of2 == [j \in 1..(ns + 1) |-> IF j = ns + 1 THEN nt + 1 ELSE of[j]]
  <2>1. /\ at2 \in [1..(ns + 1) -> Nat] /\ of2 \in [1..(ns + 1) -> Nat]
        /\ \A j \in 1..ns : at2[j] = at[j] /\ of2[j] = of[j]
        /\ at2[ns + 1] = L + 1 /\ of2[ns + 1] = nt + 1
        /\ ns + 1 \in Nat \ {0} /\ nt + 1 \in Nat /\ ns \in 1..ns
        /\ 1 \in 1..ns
    <3>1. /\ ns + 1 \in Nat \ {0} /\ nt + 1 \in Nat /\ L + 1 \in Nat
          /\ ns \in 1..ns /\ 1 \in 1..ns
      BY <1>1, <1>2
    <3>2. \A j \in 1..(ns + 1) : j # ns + 1 => j \in 1..ns
      BY <1>2
    <3>3. \A j \in 1..ns : j \in 1..(ns + 1) /\ j # ns + 1
      BY <1>2
    <3>4. ns + 1 \in 1..(ns + 1)
      BY <3>1
    <3> QED BY <1>2, <3>1, <3>2, <3>3, <3>4
  <2> HIDE DEF at2, of2
  <2>2. of[ns] <= nt + 1 /\ nt + 1 = of[ns] + (IF SharesAt(q, at[ns]) THEN 0 ELSE 1)
    <3>1. of[ns] \in Nat /\ (SharesAt(q, at[ns]) <=> SharesAt(o, at[ns]))
      BY <1>2, <1>3, <2>1
    <3> QED BY <1>2, <3>1
  <2>3. nt + 1 > 1
    <3>1. CASE ns = 1
      <4>1. ~SharesAt(o, at[ns])
        BY <1>2, <3>1 DEF SharesAt
      <4> QED BY <1>2, <3>1, <4>1
    <3>2. CASE ns # 1
      <4>1. of[ns] > 1 /\ of[ns] \in Nat
        BY <1>2, <3>2
      <4> QED BY <1>2, <2>2, <4>1
    <3> QED BY <3>1, <3>2
  <2>4. \A j \in 2..(ns + 1) : /\ at2[j] \in 1..(L + 1) /\ Scoped(q[at2[j]])
                               /\ of2[j] > 1
                               /\ of2[j] = of2[j - 1] + (IF SharesAt(q, at2[j - 1]) THEN 0 ELSE 1)
    <3> SUFFICES ASSUME NEW j \in 2..(ns + 1)
                 PROVE  /\ at2[j] \in 1..(L + 1) /\ Scoped(q[at2[j]])
                        /\ of2[j] > 1
                        /\ of2[j] = of2[j - 1] + (IF SharesAt(q, at2[j - 1]) THEN 0 ELSE 1)
      OBVIOUS
    <3>1. CASE j = ns + 1
      <4>1. j - 1 = ns
        BY <1>2, <3>1
      <4>2. Scoped(q[L + 1]) /\ L + 1 \in 1..(L + 1)
        BY <1>1, <1>6 DEF Scoped
      <4> QED BY <2>1, <2>2, <2>3, <3>1, <4>1, <4>2
    <3>2. CASE j # ns + 1
      <4>1. j \in 2..ns /\ j \in 1..ns /\ j - 1 \in 1..ns
        BY <1>2, <3>2
      <4> QED BY <1>4, <2>1, <4>1
    <3> QED BY <3>1, <3>2
  <2>5. \A i, j \in 1..(ns + 1) : i < j => at2[i] < at2[j] /\ of2[i] <= of2[j]
    <3> SUFFICES ASSUME NEW i \in 1..(ns + 1), NEW j \in 1..(ns + 1), i < j
                 PROVE  at2[i] < at2[j] /\ of2[i] <= of2[j]
      OBVIOUS
    <3>1. i \in 1..ns /\ at2[i] = at[i] /\ of2[i] = of[i] /\ at[i] \in Nat /\ of[i] \in Nat
      BY <1>2, <2>1
    <3>2. CASE j = ns + 1
      <4>1. at[i] < L + 1
        <5>1. at[i] \in 0..L
          BY <1>3, <3>1
        <5> QED BY <1>1, <5>1
      <4>2. of[i] <= of[ns]
        BY <1>2, <2>1, <3>1
      <4>3. of[i] <= nt + 1
        BY <1>2, <2>1, <2>2, <3>1, <4>2
      <4> QED BY <2>1, <3>1, <3>2, <4>1, <4>3
    <3>3. CASE j # ns + 1
      <4>1. j \in 1..ns
        BY <1>2, <3>3
      <4> QED BY <1>2, <2>1, <3>1, <4>1
    <3> QED BY <3>2, <3>3
  <2>6. \A k \in 1..(L + 1) : Scoped(q[k]) => \E j \in 1..(ns + 1) : at2[j] = k
    <3> SUFFICES ASSUME NEW k \in 1..(L + 1), Scoped(q[k])
                 PROVE  \E j \in 1..(ns + 1) : at2[j] = k
      OBVIOUS
    <3>1. CASE k = L + 1
      <4>1. ns + 1 \in 1..(ns + 1)
        BY <1>2
      <4> QED BY <2>1, <3>1, <4>1
    <3>2. CASE k # L + 1
      <4>1. k \in 1..L
        BY <1>1, <3>2
      <4>2. PICK j \in 1..ns : at[j] = k
        BY <1>1, <1>2, <4>1
      <4>3. j \in 1..(ns + 1)
        BY <1>2
      <4> QED BY <2>1, <4>2, <4>3
    <3> QED BY <3>1, <3>2
  <2>7. nt + 1 = of2[ns + 1] - (IF SharesAt(q, at2[ns + 1]) THEN 1 ELSE 0)
    <3>1. ~SharesAt(q, L + 1)
      BY <1>1 DEF SharesAt
    <3> QED BY <1>2, <2>1, <3>1
  <2>8. Layout(q, nt + 1, ns + 1, at2, of2)
    BY <1>1, <1>2, <2>1, <2>4, <2>5, <2>6, <2>7 DEF Layout
  <2> QED BY <1>6, <2>8 DEF q, at2, of2, L, OneMoreAt
<1> QED BY <1>5, <1>6

\* The last scope is that of the topmost call, if that has one.
LEMMA LastScope ==
  ASSUME NEW o, NEW nt, NEW ns, NEW at, NEW of, Layout(o, nt, ns, at, of),
         NEW k \in 1..Len(o), Len(o) \in Nat, Scoped(o[k]), \A j \in 1..Len(o) : j > k => ~Scoped(o[j])
  PROVE  ns > 1 /\ at[ns] = k
<1>1. /\ ns \in Nat \ {0} /\ at \in [1..ns -> Nat] /\ at[1] = 0
      /\ \A j \in 2..ns : at[j] \in 1..Len(o) /\ Scoped(o[at[j]])
      /\ \A i, j \in 1..ns : i < j => at[i] < at[j]
      /\ \E j \in 1..ns : at[j] = k
  BY DEF Layout
<1>2. PICK j \in 1..ns : at[j] = k
  BY <1>1
<1>3. j # 1
  BY <1>1, <1>2
<1>4. ~(j < ns)
  <2> SUFFICES ASSUME j < ns PROVE FALSE
    OBVIOUS
  <2>1. ns \in 2..ns /\ ns \in 1..ns
    BY <1>1
  <2>2. at[ns] \in 1..Len(o) /\ Scoped(o[at[ns]]) /\ at[j] < at[ns]
    BY <1>1, <2>1
  <2>3. at[ns] > k
    BY <1>2, <2>2
  <2> QED BY <2>2, <2>3
<1>5. j = ns
  BY <1>1, <1>4
<1> QED BY <1>1, <1>2, <1>3, <1>5

\* The topmost call ends.
LEMMA LayoutPopped ==
  ASSUME NEW p \in Seq(Frames), NEW c \in Frames, NEW nt, NEW ns, NEW at, NEW of,
         Layout(Append(p, c), nt, ns, at, of)
  PROVE  /\ Scoped(c) => /\ ns > 1 /\ of[ns] = (IF Opens(c) THEN nt ELSE nt + 1)
                         /\ Layout(p, IF Opens(c) THEN nt - 1 ELSE nt, ns - 1,
                                   FirstOf(at, ns - 1), FirstOf(of, ns - 1))
         /\ ~Scoped(c) => Layout(p, nt, ns, at, of)
<1> DEFINE o == Append(p, c)
           L == Len(p)
<1>1. /\ o \in Seq(Frames) /\ L \in Nat /\ Len(o) = L + 1
      /\ \A k \in 1..L : o[k] = p[k]
      /\ o[L + 1] = c
  BY Pushed
<1> HIDE DEF o, L
<1>2. /\ ns \in Nat \ {0} /\ nt \in Nat
      /\ at \in [1..ns -> Nat] /\ of \in [1..ns -> Nat]
      /\ at[1] = 0 /\ of[1] = 1
      /\ \A j \in 2..ns : /\ at[j] \in 1..(L + 1) /\ Scoped(o[at[j]])
                          /\ of[j] > 1
                          /\ of[j] = of[j - 1] + (IF SharesAt(o, at[j - 1]) THEN 0 ELSE 1)
      /\ \A i, j \in 1..ns : i < j => at[i] < at[j] /\ of[i] <= of[j]
      /\ \A k \in 1..(L + 1) : Scoped(o[k]) => \E j \in 1..ns : at[j] = k
      /\ nt = of[ns] - (IF SharesAt(o, at[ns]) THEN 1 ELSE 0)
  BY <1>1 DEF Layout, o
<1>3. \A j \in 1..ns : at[j] # L + 1 => at[j] \in 0..L /\ (SharesAt(o, at[j]) <=> SharesAt(p, at[j]))
  <2> SUFFICES ASSUME NEW j \in 1..ns, at[j] # L + 1
               PROVE  at[j] \in 0..L /\ (SharesAt(o, at[j]) <=> SharesAt(p, at[j]))
    OBVIOUS
  <2>1. CASE j = 1
    BY <1>1, <1>2, <2>1 DEF SharesAt
  <2>2. CASE j # 1
    <3>1. at[j] \in 1..(L + 1)
      BY <1>2, <2>2
    <3>2. at[j] \in 1..L
      BY <1>1, <2>2, <3>1
    <3> QED BY <1>1, <3>2 DEF SharesAt
  <2> QED BY <2>1, <2>2
<1>4. ASSUME NEW n \in 1..ns, \A j \in 1..n : at[j] # L + 1
      PROVE  /\ \A j \in 2..n : /\ at[j] \in 1..L /\ Scoped(p[at[j]])
                                /\ of[j] > 1
                                /\ of[j] = of[j - 1] + (IF SharesAt(p, at[j - 1]) THEN 0 ELSE 1)
             /\ SharesAt(o, at[n]) <=> SharesAt(p, at[n])
  <2>1. ASSUME NEW j \in 2..n
        PROVE  /\ at[j] \in 1..L /\ Scoped(p[at[j]])
               /\ of[j] > 1
               /\ of[j] = of[j - 1] + (IF SharesAt(p, at[j - 1]) THEN 0 ELSE 1)
    <3>1. j \in 2..ns /\ j - 1 \in 1..ns /\ j \in 1..n /\ j - 1 \in 1..n
      BY <1>2
    <3>2. /\ at[j] \in 1..(L + 1) /\ Scoped(o[at[j]]) /\ of[j] > 1
          /\ of[j] = of[j - 1] + (IF SharesAt(o, at[j - 1]) THEN 0 ELSE 1)
          /\ at[j] # L + 1 /\ at[j - 1] # L + 1
      BY <1>2, <1>4, <3>1
    <3>3. at[j] \in 1..L
      BY <1>1, <3>2
    <3>4. SharesAt(o, at[j - 1]) <=> SharesAt(p, at[j - 1])
      BY <1>3, <3>1, <3>2
    <3>5. o[at[j]] = p[at[j]]
      BY <1>1, <3>3
    <3> QED BY <3>2, <3>3, <3>4, <3>5
  <2>2. n \in 1..n
    BY <1>2
  <2> QED BY <1>3, <1>4, <2>1, <2>2
<1>5. CASE ~Scoped(c)
  <2>1. \A j \in 1..ns : at[j] # L + 1
    <3> SUFFICES ASSUME NEW j \in 1..ns, at[j] = L + 1 PROVE FALSE
      OBVIOUS
    <3>1. j # 1
      BY <1>1, <1>2
    <3>2. Scoped(o[at[j]])
      BY <1>2, <3>1
    <3> QED BY <1>1, <1>5, <3>2
  <2>2. ns \in 1..ns
    BY <1>2
  <2>3. \A k \in 1..L : Scoped(p[k]) => \E j \in 1..ns : at[j] = k
    <3> SUFFICES ASSUME NEW k \in 1..L, Scoped(p[k]) PROVE \E j \in 1..ns : at[j] = k
      OBVIOUS
    <3>1. k \in 1..(L + 1) /\ o[k] = p[k]
      BY <1>1
    <3> QED BY <1>2, <3>1
  <2>4. /\ \A j \in 2..ns : /\ at[j] \in 1..L /\ Scoped(p[at[j]])
                            /\ of[j] > 1
                            /\ of[j] = of[j - 1] + (IF SharesAt(p, at[j - 1]) THEN 0 ELSE 1)
        /\ SharesAt(o, at[ns]) <=> SharesAt(p, at[ns])
    BY <1>4, <2>1, <2>2
  <2>5. Layout(p, nt, ns, at, of)
    BY <1>2, <2>3, <2>4 DEF Layout, L
  <2> QED BY <1>5, <2>5
<1>6. CASE Scoped(c)
  <2>1. ns > 1 /\ at[ns] = L + 1
    <3>1. L + 1 \in 1..Len(o) /\ Len(o) \in Nat /\ Scoped(o[L + 1])
          /\ \A j \in 1..Len(o) : j > L + 1 => ~Scoped(o[j])
      BY <1>1, <1>6
    <3>2. Layout(o, nt, ns, at, of)
      BY DEF o
    <3> QED BY <3>1, <3>2, LastScope
  <2> DEFINE n == ns - 1
             at2 == [j \in 1..n |-> at[j]]
             of2 == [j \in 1..n |-> of[j]]
  <2>2. n \in 1..ns /\ n \in Nat \ {0} /\ n + 1 = ns /\ n < ns /\ ns \in 1..ns
    BY <1>2, <2>1
  <2>3. \A j \in 1..n : j \in 1..ns /\ j < ns
    BY <1>2
  <2>4. \A j \in 1..n : at[j] # L + 1
    <3> SUFFICES ASSUME NEW j \in 1..n PROVE at[j] # L + 1
      OBVIOUS
    <3>1. at[j] < at[ns] /\ at[j] \in Nat
      BY <1>2, <2>2, <2>3
    <3> QED BY <1>1, <2>1, <3>1
  <2>5. /\ \A j \in 2..n : /\ at[j] \in 1..L /\ Scoped(p[at[j]])
                           /\ of[j] > 1
                           /\ of[j] = of[j - 1] + (IF SharesAt(p, at[j - 1]) THEN 0 ELSE 1)
        /\ SharesAt(o, at[n]) <=> SharesAt(p, at[n])
    BY <1>4, <2>2, <2>4
  <2>6. of[ns] = of[n] + (IF SharesAt(o, at[n]) THEN 0 ELSE 1)
    <3>1. ns \in 2..ns /\ ns - 1 = n
      BY <1>2, <2>1
    <3> QED BY <1>2, <3>1
  <2>7. SharesAt(o, at[ns]) <=> ~Opens(c)
    <3>1. Shares(c) <=> ~Opens(c)
      BY <1>6 DEF Scoped, Shares, Opens
    <3> QED BY <1>1, <2>1, <3>1 DEF SharesAt
  <2>8. of[ns] \in Nat /\ of[n] \in Nat
    BY <1>2, <2>2
  <2>9. of[ns] = IF Opens(c) THEN nt ELSE nt + 1
    BY <1>2, <2>7, <2>8
  <2> DEFINE nt2 == IF Opens(c) THEN nt - 1 ELSE nt
  <2>10. nt2 = of[n] - (IF SharesAt(p, at[n]) THEN 1 ELSE 0)
    BY <1>2, <2>5, <2>6, <2>8, <2>9
  <2>11. nt2 \in Nat
    <3>1. CASE n = 1
      <4>1. ~SharesAt(p, at[n]) /\ of[n] = 1
        BY <1>2, <3>1 DEF SharesAt
      <4> QED BY <2>10, <4>1
    <3>2. CASE n # 1
      <4>1. of[n] > 1
        BY <1>2, <2>2, <3>2
      <4> QED BY <2>8, <2>10, <4>1
    <3> QED BY <3>1, <3>2
  <2>12. \A k \in 1..L : Scoped(p[k]) => \E j \in 1..n : at[j] = k
    <3> SUFFICES ASSUME NEW k \in 1..L, Scoped(p[k]) PROVE \E j \in 1..n : at[j] = k
      OBVIOUS
    <3>1. k \in 1..(L + 1) /\ o[k] = p[k] /\ k # L + 1
      BY <1>1
    <3>2. PICK j \in 1..ns : at[j] = k
      BY <1>2, <3>1
    <3>3. j # ns
      BY <2>1, <3>1, <3>2
    <3>4. j \in 1..n
      BY <1>2, <3>3
    <3> QED BY <3>2, <3>4
  <2> HIDE DEF n, nt2
  <2>13. /\ at2 \in [1..n -> Nat] /\ of2 \in [1..n -> Nat]
         /\ \A j \in 1..n : at2[j] = at[j] /\ of2[j] = of[j]
    BY <1>2, <2>3
  <2> HIDE DEF at2, of2
  <2>14. 1 \in 1..n /\ n \in 1..n /\ \A j \in 2..n : j \in 1..n /\ j - 1 \in 1..n
    BY <2>2
  <2>15. /\ at2[1] = 0 /\ of2[1] = 1
         /\ \A j \in 2..n : /\ at2[j] \in 1..L /\ Scoped(p[at2[j]])
                            /\ of2[j] > 1
                            /\ of2[j] = of2[j - 1] + (IF SharesAt(p, at2[j - 1]) THEN 0 ELSE 1)
         /\ nt2 = of2[n] - (IF SharesAt(p, at2[n]) THEN 1 ELSE 0)
    BY <1>2, <2>5, <2>10, <2>13, <2>14
  <2>16. \A i, j \in 1..n : i < j => at2[i] < at2[j] /\ of2[i] <= of2[j]
    BY <1>2, <2>3, <2>13
  <2>17. \A k \in 1..L : Scoped(p[k]) => \E j \in 1..n : at2[j] = k
    BY <2>12, <2>13
  <2>18. Layout(p, nt2, n, at2, of2)
    BY <2>2, <2>11, <2>13, <2>15, <2>16, <2>17 DEF Layout, L
  <2> QED BY <1>6, <2>1, <2>9, <2>18 DEF n, nt2, at2, of2, FirstOf
<1> QED BY <1>5, <1>6

(***************************************************************************)
(* Declarations.  A step extends the list of them: new ones at its end,    *)
(* and new items in the body of the function being parsed.                 *)
(***************************************************************************)
DeclKinds == {"Var", "ParamVar", "Function"}
BodyItems == [kind : DeclKinds \cup {"Local"}, decl : Nat, meant : Nat]
NamedDecls == [kind : DeclKinds, name : STRING, extern : BOOLEAN, params : Seq(Nat),
               void : BOOLEAN, body : BOOLEAN, items : Seq(BodyItems)]

\* A list of declarations whose parameters are in it.
DeclList(ds) == /\ ds \in Seq(NamedDecls)
                /\ \A f \in 1..Len(ds) : ToSet(ds[f].params) \subseteq 1..Len(ds)

\* es is ds with new ones at its end and the items new at the end of g's.
SameDecl(d, e) == /\ d.kind = e.kind /\ d.name = e.name /\ d.params = e.params
                  /\ d.void = e.void /\ d.body = e.body
Extended(ds, es, g, new) ==
    /\ Len(ds) <= Len(es)
    /\ \A f \in 1..Len(ds) : SameDecl(ds[f], es[f]) /\ (f # g => es[f].items = ds[f].items)
    /\ g \in 1..Len(ds) => es[g].items = ds[g].items \o new
    /\ \A f \in 1..Len(es) : f > Len(ds) => es[f].items = <<>>

\* Leaked and LeakedNames, of any list.
LeakedIn(ds) == {p \in Nat : \E f \in 1..Len(ds) : /\ ds[f].kind = "Function" /\ ~ds[f].body
                                                   /\ p \in ToSet(ds[f].params)}
LeakedNamesIn(ds) == {ds[p].name : p \in LeakedIn(ds)}

\* What the entries of a list of declarations are.
LEMMA DeclTypes ==
  ASSUME NEW ds, DeclList(ds)
  PROVE  /\ Len(ds) \in Nat /\ DOMAIN ds = 1..Len(ds)
         /\ \A f \in 1..Len(ds) : /\ ds[f] \in NamedDecls
                                  /\ ds[f].kind \in DeclKinds /\ ds[f].name \in STRING
                                  /\ ds[f].params \in Seq(Nat) /\ ds[f].items \in Seq(BodyItems)
                                  /\ ds[f].body \in BOOLEAN /\ ds[f].extern \in BOOLEAN
                                  /\ ds[f].void \in BOOLEAN
         /\ \A f \in 1..Len(ds) : /\ Len(ds[f].items) \in Nat
                                  /\ DOMAIN ds[f].items = 1..Len(ds[f].items)
                                  /\ \A k \in 1..Len(ds[f].items) : ds[f].items[k] \in BodyItems
<1>1. ds \in Seq(NamedDecls)
  BY DEF DeclList
<1>2. Len(ds) \in Nat /\ DOMAIN ds = 1..Len(ds) /\ \A f \in 1..Len(ds) : ds[f] \in NamedDecls
  BY <1>1, LenProperties, ElementOfSeq
<1>3. \A d \in NamedDecls : /\ d.kind \in DeclKinds /\ d.name \in STRING
                            /\ d.params \in Seq(Nat) /\ d.items \in Seq(BodyItems)
                            /\ d.body \in BOOLEAN /\ d.extern \in BOOLEAN
                            /\ d.void \in BOOLEAN
  BY DEF NamedDecls
<1>4. \A s \in Seq(BodyItems) : /\ Len(s) \in Nat /\ DOMAIN s = 1..Len(s)
                                /\ \A k \in 1..Len(s) : s[k] \in BodyItems
  BY LenProperties, ElementOfSeq
<1> QED BY <1>2, <1>3, <1>4

\* The model's definitions are these.
LEMMA LeakedIsLeakedIn ==
  ASSUME DeclList(decls)
  PROVE  Leaked = LeakedIn(decls) /\ LeakedNames = LeakedNamesIn(decls)
<1>1. /\ DOMAIN decls = 1..Len(decls)
      /\ \A f \in 1..Len(decls) : ToSet(decls[f].params) \subseteq Nat
  <2>1. DOMAIN decls = 1..Len(decls) /\ 1..Len(decls) \subseteq Nat
    BY DeclTypes
  <2> QED BY <2>1 DEF DeclList
<1>2. Leaked = LeakedIn(decls)
  BY <1>1 DEF Leaked, LeakedBy, LeakedIn
<1> QED BY <1>2 DEF LeakedNames, LeakedNamesIn

\* A name once leaked by a bodyless function's parameters stays leaked.
LEMMA LeakedExtended ==
  ASSUME NEW ds, NEW es, NEW g, NEW new, DeclList(ds), DeclList(es), Extended(ds, es, g, new)
  PROVE  LeakedIn(ds) \subseteq LeakedIn(es) /\ LeakedNamesIn(ds) \subseteq LeakedNamesIn(es)
<1>1. Len(ds) \in Nat /\ Len(es) \in Nat
  BY DeclTypes
<1>2. \A f \in 1..Len(ds) : f \in 1..Len(es) /\ SameDecl(ds[f], es[f])
  BY <1>1 DEF Extended
<1>3. LeakedIn(ds) \subseteq LeakedIn(es)
  BY <1>2 DEF LeakedIn, SameDecl
<1>4. \A p \in LeakedIn(ds) : p \in 1..Len(ds)
  BY DEF LeakedIn, DeclList
<1>5. \A p \in LeakedIn(ds) : ds[p].name = es[p].name
  BY <1>2, <1>4 DEF SameDecl
<1> QED BY <1>3, <1>5 DEF LeakedNamesIn

\* New items in a body; new declarations; one after the other.
LEMMA ItemsAdded ==
  ASSUME NEW ds, DeclList(ds), NEW g \in 1..Len(ds), NEW new \in Seq(BodyItems)
  PROVE  LET es == [ds EXCEPT ![g].items = @ \o new]
         IN  DeclList(es) /\ Extended(ds, es, g, new) /\ Len(es) = Len(ds)
<1> DEFINE items == ds[g].items \o new
           d  == [ds[g] EXCEPT !.items = items]
           es == [ds EXCEPT ![g] = d]
<1>1. ds \in Seq(NamedDecls) /\ Len(ds) \in Nat /\ ds[g] \in NamedDecls /\ DOMAIN ds = 1..Len(ds)
  BY DeclTypes DEF DeclList
<1>2. items \in Seq(BodyItems)
  <2>1. ds[g].items \in Seq(BodyItems)
    BY DeclTypes
  <2> HIDE DEF items
  <2> QED BY <2>1, ConcatProperties DEF items
<1> HIDE DEF items
<1>3. d \in NamedDecls /\ d.items = items /\ SameDecl(ds[g], d)
  BY <1>1, <1>2 DEF NamedDecls, SameDecl
<1> HIDE DEF d
<1>4. es \in Seq(NamedDecls) /\ Len(es) = Len(ds)
  BY <1>1, <1>3, ExceptSeq
<1>5. es[g] = d /\ \A f \in 1..Len(ds) : f # g => es[f] = ds[f]
  BY <1>1
<1> HIDE DEF es
<1>6. \A f \in 1..Len(ds) : SameDecl(ds[f], es[f]) /\ (f # g => es[f].items = ds[f].items)
  BY <1>3, <1>5 DEF SameDecl
<1>7. es[g].items = ds[g].items \o new
  BY <1>3, <1>5 DEF items
<1>8. Extended(ds, es, g, new)
  BY <1>1, <1>4, <1>6, <1>7 DEF Extended
<1>9. DeclList(es)
  BY <1>4, <1>6 DEF DeclList, SameDecl
<1> QED BY <1>4, <1>8, <1>9 DEF es, d, items

\* Declarations appended to the list leave those before them as they are.
LEMMA DeclsAdded ==
  ASSUME NEW ds, DeclList(ds), NEW more \in Seq(NamedDecls), NEW g, NEW new,
         g \in 1..Len(ds) => new = <<>>,
         \A k \in 1..Len(more) : /\ more[k].items = <<>>
                                 /\ ToSet(more[k].params) \subseteq 1..(Len(ds) + Len(more))
  PROVE  LET es == ds \o more
         IN  /\ DeclList(es) /\ Extended(ds, es, g, new) /\ Len(es) = Len(ds) + Len(more)
             /\ \A f \in 1..Len(ds) : es[f] = ds[f]
             /\ \A k \in 1..Len(more) : es[Len(ds) + k] = more[k]
<1> DEFINE es == ds \o more
           n  == Len(ds)
           m  == Len(more)
<1>1. ds \in Seq(NamedDecls) /\ n \in Nat /\ m \in Nat
  BY DeclTypes, LenProperties DEF DeclList
<1>2. /\ es \in Seq(NamedDecls) /\ Len(es) = n + m
      /\ \A f \in 1..(n + m) : es[f] = IF f <= n THEN ds[f] ELSE more[f - n]
  BY <1>1, ConcatProperties
<1> HIDE DEF es
<1>3. \A f \in 1..n : es[f] = ds[f] /\ f \in 1..(n + m)
  BY <1>1, <1>2
<1>4. \A k \in 1..m : es[n + k] = more[k]
  <2> SUFFICES ASSUME NEW k \in 1..m PROVE es[n + k] = more[k]
    OBVIOUS
  <2>1. n + k \in 1..(n + m) /\ ~(n + k <= n) /\ n + k - n = k
    BY <1>1
  <2> QED BY <1>2, <2>1
<1>5. \A f \in 1..(n + m) : f > n => f - n \in 1..m /\ es[f] = more[f - n]
  <2> SUFFICES ASSUME NEW f \in 1..(n + m), f > n PROVE f - n \in 1..m /\ es[f] = more[f - n]
    OBVIOUS
  <2>1. f - n \in 1..m /\ ~(f <= n)
    BY <1>1
  <2> QED BY <1>2, <2>1
<1>6. \A f \in 1..(n + m) : f > n => es[f].items = <<>>
  BY <1>5
<1>7. \A f \in 1..n : SameDecl(ds[f], es[f]) /\ es[f].items = ds[f].items
  BY <1>3 DEF SameDecl
<1>8. g \in 1..n => es[g].items = ds[g].items \o new
  <2> SUFFICES ASSUME g \in 1..n PROVE es[g].items = ds[g].items \o <<>>
    OBVIOUS
  <2>1. ds[g].items \in Seq(BodyItems)
    BY DeclTypes
  <2> QED BY <1>7, <2>1, ConcatEmptySeq
<1>9. n <= n + m
  BY <1>1
<1>10. Extended(ds, es, g, new)
  BY <1>2, <1>6, <1>7, <1>8, <1>9 DEF Extended
<1>11. \A f \in 1..(n + m) : ToSet(es[f].params) \subseteq 1..(n + m)
  <2> SUFFICES ASSUME NEW f \in 1..(n + m) PROVE ToSet(es[f].params) \subseteq 1..(n + m)
    OBVIOUS
  <2>1. CASE f <= n
    <3>1. f \in 1..n
      BY <1>1, <2>1
    <3>2. ToSet(es[f].params) \subseteq 1..n
      BY <1>3, <3>1 DEF DeclList
    <3> QED BY <1>1, <3>2
  <2>2. CASE ~(f <= n)
    BY <1>1, <1>5, <2>2
  <2> QED BY <2>1, <2>2
<1>12. DeclList(es)
  BY <1>2, <1>11 DEF DeclList
<1> QED BY <1>2, <1>3, <1>4, <1>10, <1>12 DEF es

\* A body that grew and declarations added after it are one extension.
LEMMA ExtendedTwice ==
  ASSUME NEW ds, NEW ms, NEW es, NEW g \in 1..Len(ds), NEW new,
         DeclList(ds), DeclList(ms), DeclList(es),
         Extended(ds, ms, g, new), Extended(ms, es, 0, <<>>)
  PROVE  Extended(ds, es, g, new)
<1>1. Len(ds) \in Nat /\ Len(ms) \in Nat /\ Len(es) \in Nat
  BY DeclTypes
<1>2. Len(ds) <= Len(ms) /\ Len(ms) <= Len(es)
  BY DEF Extended
<1>3. \A f \in 1..Len(ds) : f \in 1..Len(ms) /\ f # 0
  BY <1>1, <1>2
<1>4. \A f \in 1..Len(ds) : SameDecl(ds[f], es[f]) /\ (f # g => es[f].items = ds[f].items)
  BY <1>3 DEF Extended, SameDecl
<1>5. es[g].items = ds[g].items \o new
  BY <1>3 DEF Extended
<1>6. \A f \in 1..Len(es) : f > Len(ds) => es[f].items = <<>>
  <2> SUFFICES ASSUME NEW f \in 1..Len(es), f > Len(ds) PROVE es[f].items = <<>>
    OBVIOUS
  <2>1. CASE f > Len(ms)
    BY <2>1 DEF Extended
  <2>2. CASE ~(f > Len(ms))
    <3>1. f \in 1..Len(ms) /\ f # 0
      BY <1>1, <2>2
    <3> QED BY <3>1 DEF Extended
  <2> QED BY <2>1, <2>2
<1> QED BY <1>1, <1>2, <1>4, <1>5, <1>6 DEF Extended

(***************************************************************************)
(* Looking a name up.                                                      *)
(***************************************************************************)
Tables == Seq([Names -> Nat])
Bounded(ts, n) == \A k \in 1..Len(ts) : \A x \in Names : ts[k][x] <= n

\* An entry is a declaration of that name, and a function only in the global table.
Entries(ds, ts) ==
    \A k \in 1..Len(ts) : \A x \in Names :
        ts[k][x] # None => /\ ds[ts[k][x]].name = x
                           /\ k # 1 => ds[ts[k][x]].kind # "Function"

\* Scope j goes with table of[j], and what the scopes of a table say, it says.
Matched(ts, ss, of, leaked) ==
    /\ \A j \in 1..Len(ss) : \A x \in Names :
          ss[j][x] # None /\ of[j] <= Len(ts)
             => ts[of[j]][x] = ss[j][x] \/ (of[j] = 1 /\ x \in leaked)
    /\ \A k \in 1..Len(ts) : \A x \in Names :
          ts[k][x] # None
             => \/ \E j \in 1..Len(ss) : of[j] = k /\ ss[j][x] = ts[k][x]
                \/ k = 1 /\ x \in leaked

Resolved(o, ds, ts, ss) ==
    /\ ts \in Tables /\ ss \in Tables
    /\ Bounded(ts, Len(ds)) /\ Bounded(ss, Len(ds))
    /\ Entries(ds, ts)
    /\ \E at, of : /\ Layout(o, Len(ts), Len(ss), at, of)
                   /\ Matched(ts, ss, of, LeakedNamesIn(ds))

\* A body that shares its header's block is a block, and a statement is not parsed
\* between the two.
Bodied(o, r) ==
    /\ \A k \in 1..Len(o) : Shares(o[k]) /\ k < Len(o) => o[k + 1].call = "block"
    /\ r = "nothing" /\ o # <<>> => ~Shares(Last(o))

\* Meant, in any scopes.
MeantIn(ss, name) ==
    LET found == {k \in DOMAIN ss : ss[k][name] # None}
    IN  IF found = {} THEN None ELSE ss[CHOOSE k \in found : \A j \in found : j <= k][name]

\* Where a statement begins, every scope has its table.
LEMMA AllTablesThere ==
  ASSUME NEW o \in Seq(Frames), NEW nt, NEW ns, NEW at, NEW of, Layout(o, nt, ns, at, of),
         Bodied(o, "nothing")
  PROVE  /\ nt \in Nat /\ ns \in 1..ns /\ of[ns] = nt
         /\ \A j \in 1..ns : of[j] \in 1..nt /\ (j # 1 => of[j] > 1)
         /\ \A i, j \in 1..ns : of[i] > of[j] => i > j
<1>1. /\ ns \in Nat \ {0} /\ nt \in Nat
      /\ at \in [1..ns -> Nat] /\ of \in [1..ns -> Nat]
      /\ at[1] = 0 /\ of[1] = 1
      /\ \A j \in 2..ns : at[j] \in 1..Len(o) /\ Scoped(o[at[j]]) /\ of[j] > 1
      /\ \A i, j \in 1..ns : i < j => at[i] < at[j] /\ of[i] <= of[j]
      /\ \A k \in 1..Len(o) : Scoped(o[k]) => \E j \in 1..ns : at[j] = k
      /\ nt = of[ns] - (IF SharesAt(o, at[ns]) THEN 1 ELSE 0)
  BY DEF Layout
<1>2. ns \in 1..ns /\ Len(o) \in Nat /\ at[ns] \in Nat /\ of[ns] \in Nat
  BY <1>1, LenProperties
<1>3. ~SharesAt(o, at[ns])
  <2> SUFFICES ASSUME SharesAt(o, at[ns]) PROVE FALSE
    OBVIOUS
  <2>1. at[ns] # 0 /\ Shares(o[at[ns]])
    BY DEF SharesAt
  <2>2. ns # 1
    BY <1>1, <2>1
  <2>3. at[ns] \in 1..Len(o)
    BY <1>1, <2>2
  <2>4. CASE at[ns] = Len(o)
    <3>1. o # <<>>
      BY <2>3, <2>4, EmptySeq
    <3>2. Last(o) = o[Len(o)]
      BY DEF Last
    <3> QED BY <2>1, <2>4, <3>1, <3>2 DEF Bodied
  <2>5. CASE at[ns] # Len(o)
    <3>1. at[ns] < Len(o) /\ at[ns] + 1 \in 1..Len(o)
      BY <1>2, <2>3, <2>5
    <3>2. Scoped(o[at[ns] + 1])
      BY <2>1, <2>3, <3>1 DEF Bodied, Scoped, Opens
    <3>3. PICK j \in 1..ns : at[j] = at[ns] + 1
      BY <1>1, <3>1, <3>2
    <3>4. ~(j < ns)
      <4> SUFFICES ASSUME j < ns PROVE FALSE
        OBVIOUS
      <4>1. at[j] < at[ns]
        BY <1>1, <1>2
      <4> QED BY <1>2, <3>3, <4>1
    <3>5. j = ns
      BY <1>1, <3>4
    <3> QED BY <1>2, <3>3, <3>5
  <2> QED BY <2>4, <2>5
<1>4. of[ns] = nt
  BY <1>1, <1>2, <1>3
<1>5. ASSUME NEW j \in 1..ns PROVE of[j] \in 1..nt /\ (j # 1 => of[j] > 1)
  <2>1. of[j] <= nt
    <3>1. CASE j = ns
      BY <1>4, <1>2, <3>1
    <3>2. CASE j # ns
      <4>1. j < ns
        BY <1>1, <3>2
      <4> QED BY <1>1, <1>2, <1>4, <4>1
    <3> QED BY <3>1, <3>2
  <2>2. of[j] \in Nat /\ (j # 1 => of[j] > 1) /\ (j = 1 => of[j] = 1)
    BY <1>1
  <2> QED BY <1>1, <2>1, <2>2
<1>6. ASSUME NEW i \in 1..ns, NEW j \in 1..ns, of[i] > of[j] PROVE i > j
  <2>1. of[i] \in Nat /\ of[j] \in Nat
    BY <1>1
  <2>2. ~(i < j)
    BY <1>1, <1>6, <2>1
  <2>3. i # j
    BY <1>6, <2>1
  <2> QED BY <1>1, <2>2, <2>3
<1> QED BY <1>1, <1>2, <1>4, <1>5, <1>6

\* What the CHOOSE of a look-up finds.
LEMMA MeantIs ==
  ASSUME NEW ss \in Tables, NEW name \in Names
  PROVE  \/ MeantIn(ss, name) = None /\ \A j \in 1..Len(ss) : ss[j][name] = None
         \/ \E k \in 1..Len(ss) : /\ MeantIn(ss, name) = ss[k][name] /\ ss[k][name] # None
                                  /\ \A j \in 1..Len(ss) : ss[j][name] # None => j <= k
<1> DEFINE n == Len(ss)
           found == {k \in DOMAIN ss : ss[k][name] # None}
           k == CHOOSE k \in found : \A j \in found : j <= k
<1>1. n \in Nat /\ DOMAIN ss = 1..n
  BY LenProperties DEF Tables
<1>2. found \in SUBSET (1..n)
  BY <1>1
<1>3. MeantIn(ss, name) = IF found = {} THEN None ELSE ss[k][name]
  BY DEF MeantIn
<1>4. CASE found = {}
  BY <1>1, <1>3, <1>4
<1>5. CASE found # {}
  <2>1. k \in found /\ \A j \in found : j <= k
    <3> HIDE DEF found
    <3> QED BY <1>1, <1>2, <1>5, LargestChosen
  <2> HIDE DEF k
  <2>2. k \in 1..n /\ ss[k][name] # None /\ \A j \in 1..n : ss[j][name] # None => j <= k
    BY <1>1, <2>1
  <2> QED BY <1>3, <1>5, <2>2
<1> QED BY <1>4, <1>5

IsVarAt(ds, ts, k, name) == ts[k][name] # None /\ ds[ts[k][name]].kind \in {"Var", "ParamVar"}

\* findVar returns the entry of the innermost table that has a variable of
\* the name.
LEMMA FindVarIs ==
  ASSUME NEW ts \in Tables, NEW ds, NEW name \in Names
  PROVE  \/ FindVar(ts, ds, name) = None /\ \A j \in 1..Len(ts) : ~IsVarAt(ds, ts, j, name)
         \/ \E k \in 1..Len(ts) : /\ FindVar(ts, ds, name) = ts[k][name]
                                  /\ IsVarAt(ds, ts, k, name)
                                  /\ \A j \in 1..Len(ts) : IsVarAt(ds, ts, j, name) => j <= k
<1> DEFINE n == Len(ts)
           found == {k \in DOMAIN ts : IsVarAt(ds, ts, k, name)}
           k == CHOOSE k \in found : \A j \in found : j <= k
<1>1. n \in Nat /\ DOMAIN ts = 1..n
  BY LenProperties DEF Tables
<1>2. found \in SUBSET (1..n)
  BY <1>1
<1>3. FindVar(ts, ds, name) = IF found = {} THEN None ELSE ts[k][name]
  BY DEF FindVar, IsVarAt
<1>4. CASE found = {}
  BY <1>1, <1>3, <1>4
<1>5. CASE found # {}
  <2>1. k \in found /\ \A j \in found : j <= k
    <3> HIDE DEF found
    <3> QED BY <1>1, <1>2, <1>5, LargestChosen
  <2> HIDE DEF k
  <2>2. k \in 1..n /\ IsVarAt(ds, ts, k, name) /\ \A j \in 1..n : IsVarAt(ds, ts, j, name) => j <= k
    BY <1>1, <2>1
  <2> QED BY <1>3, <1>5, <2>2
<1> QED BY <1>4, <1>5

\* What is found is a declaration of that name.
LEMMA FoundIsNamed ==
  ASSUME NEW ds, DeclList(ds), NEW ts \in Tables, Bounded(ts, Len(ds)), Entries(ds, ts),
         NEW ss \in Tables, Bounded(ss, Len(ds)), NEW name \in Names, Len(ts) >= 1
  PROVE  LET v == FindVar(ts, ds, name)
             f == FindFunction(ts, ds, name)
             m == MeantIn(ss, name)
         IN  /\ v \in 0..Len(ds) /\ f \in 0..Len(ds) /\ m \in 0..Len(ds)
             /\ v # None => ds[v].name = name /\ ds[v].kind \in {"Var", "ParamVar"}
             /\ f # None => ds[f].name = name /\ ds[f].kind = "Function"
<1>1. Len(ds) \in Nat /\ Len(ts) \in Nat
  BY DeclTypes, LenProperties DEF Tables
<1>2. /\ \A k \in 1..Len(ts) : ts[k] \in [Names -> Nat]
      /\ \A k \in 1..Len(ss) : ss[k] \in [Names -> Nat]
  BY ElementOfSeq DEF Tables
<1>3. \A k \in 1..Len(ts) : ts[k][name] \in 0..Len(ds)
  <2> SUFFICES ASSUME NEW k \in 1..Len(ts) PROVE ts[k][name] \in 0..Len(ds)
    OBVIOUS
  <2>1. ts[k][name] \in Nat /\ ts[k][name] <= Len(ds)
    BY <1>2 DEF Bounded
  <2> QED BY <1>1, <2>1
<1>4. \A k \in 1..Len(ss) : ss[k][name] \in 0..Len(ds)
  <2> SUFFICES ASSUME NEW k \in 1..Len(ss) PROVE ss[k][name] \in 0..Len(ds)
    OBVIOUS
  <2>1. ss[k][name] \in Nat /\ ss[k][name] <= Len(ds)
    BY <1>2 DEF Bounded
  <2> QED BY <1>1, <2>1
<1>5. None \in 0..Len(ds)
  BY <1>1 DEF None
<1> DEFINE v == FindVar(ts, ds, name)
           f == FindFunction(ts, ds, name)
           m == MeantIn(ss, name)
<1>6. v \in 0..Len(ds) /\ (v # None => ds[v].name = name /\ ds[v].kind \in {"Var", "ParamVar"})
  <2>1. CASE v = None
    BY <1>5, <2>1
  <2>2. CASE v # None
    <3>1. PICK k \in 1..Len(ts) : v = ts[k][name] /\ IsVarAt(ds, ts, k, name)
      BY <2>2, FindVarIs
    <3> HIDE DEF v
    <3> QED BY <1>3, <3>1 DEF IsVarAt, Entries
  <2> QED BY <2>1, <2>2
<1>7. f \in 0..Len(ds) /\ (f # None => ds[f].name = name /\ ds[f].kind = "Function")
  <2>1. 1 \in 1..Len(ts)
    BY <1>1
  <2>2. ts[1][name] \in 0..Len(ds) /\ (ts[1][name] # None => ds[ts[1][name]].name = name)
    BY <1>3, <2>1 DEF Entries
  <2> QED BY <1>5, <2>2 DEF FindFunction
<1>8. m \in 0..Len(ds)
  <2>1. m = None \/ \E k \in 1..Len(ss) : m = ss[k][name]
    BY MeantIs
  <2> HIDE DEF m
  <2> QED BY <1>4, <1>5, <2>1
<1> QED BY <1>6, <1>7, <1>8

\* What Resolved gives where a statement begins, for a name no prototype has leaked.
LEMMA ScopesAndTables ==
  ASSUME NEW o \in Seq(Frames), NEW ds, DeclList(ds), NEW ts, NEW ss, Resolved(o, ds, ts, ss),
         Bodied(o, "nothing"), NEW name \in Names, name \notin LeakedNamesIn(ds)
  PROVE  /\ Len(ts) >= 1
         /\ \E of : /\ \A j \in 1..Len(ss) : /\ of[j] \in 1..Len(ts) /\ (j # 1 => of[j] > 1)
                                             /\ ss[j][name] # None
                                                  => ts[of[j]][name] = ss[j][name]
                    /\ \A k \in 1..Len(ts) : ts[k][name] # None =>
                          \E j \in 1..Len(ss) : of[j] = k /\ ss[j][name] = ts[k][name]
                    /\ \A i, j \in 1..Len(ss) : of[i] > of[j] => i > j
                    /\ 1 \in 1..Len(ss) /\ of[1] = 1
<1>1. PICK at, of : /\ Layout(o, Len(ts), Len(ss), at, of)
                    /\ Matched(ts, ss, of, LeakedNamesIn(ds))
  BY DEF Resolved
<1>2. /\ Len(ts) \in Nat /\ Len(ss) \in 1..Len(ss) /\ of[Len(ss)] = Len(ts)
      /\ \A j \in 1..Len(ss) : of[j] \in 1..Len(ts) /\ (j # 1 => of[j] > 1)
      /\ \A i, j \in 1..Len(ss) : of[i] > of[j] => i > j
  BY <1>1, AllTablesThere
<1>3. of[1] = 1 /\ 1 \in 1..Len(ss)
  BY <1>1 DEF Layout
<1>4. \A j \in 1..Len(ss) : ss[j][name] # None => ts[of[j]][name] = ss[j][name]
  <2> SUFFICES ASSUME NEW j \in 1..Len(ss), ss[j][name] # None
               PROVE  ts[of[j]][name] = ss[j][name]
    OBVIOUS
  <2>1. of[j] <= Len(ts)
    BY <1>2
  <2> QED BY <1>1, <2>1 DEF Matched
<1>5. \A k \in 1..Len(ts) : ts[k][name] # None =>
         \E j \in 1..Len(ss) : of[j] = k /\ ss[j][name] = ts[k][name]
  BY <1>1 DEF Matched
<1>6. Len(ts) >= 1
  <2>1. of[1] \in 1..Len(ts)
    BY <1>2, <1>3
  <2> QED BY <1>2, <1>3, <2>1
<1> QED BY <1>2, <1>3, <1>4, <1>5, <1>6

\* findVar and C's scopes meet the same variable, unless the name leaked.
LEMMA VariableFound ==
  ASSUME NEW o \in Seq(Frames), NEW ds, DeclList(ds), NEW ts, NEW ss, Resolved(o, ds, ts, ss),
         Bodied(o, "nothing"), NEW name \in Names, name \notin LeakedNamesIn(ds)
  PROVE  LET v == FindVar(ts, ds, name)
             m == MeantIn(ss, name)
         IN  /\ v # None => m = v
             /\ v = None => m = None \/ ds[m].kind = "Function"
<1> DEFINE v == FindVar(ts, ds, name)
           m == MeantIn(ss, name)
<1>1. PICK of : /\ \A j \in 1..Len(ss) : /\ of[j] \in 1..Len(ts) /\ (j # 1 => of[j] > 1)
                                         /\ ss[j][name] # None
                                              => ts[of[j]][name] = ss[j][name]
                /\ \A k \in 1..Len(ts) : ts[k][name] # None =>
                      \E j \in 1..Len(ss) : of[j] = k /\ ss[j][name] = ts[k][name]
                /\ \A i, j \in 1..Len(ss) : of[i] > of[j] => i > j
  BY ScopesAndTables
<1>2. ts \in Tables /\ ss \in Tables /\ Entries(ds, ts) /\ Bounded(ts, Len(ds))
  BY DEF Resolved
<1>3. \A k \in 1..Len(ts) : ts[k][name] # None => ds[ts[k][name]].kind \in DeclKinds
  <2> SUFFICES ASSUME NEW k \in 1..Len(ts), ts[k][name] # None
               PROVE  ds[ts[k][name]].kind \in DeclKinds
    OBVIOUS
  <2>1. ts[k] \in [Names -> Nat]
    BY <1>2, ElementOfSeq DEF Tables
  <2>2. ts[k][name] \in Nat /\ ts[k][name] <= Len(ds) /\ ts[k][name] # 0
    BY <1>2, <2>1 DEF Bounded, None
  <2>3. ts[k][name] \in 1..Len(ds)
    BY <2>2
  <2> QED BY <2>3, DeclTypes
<1>4. ASSUME v # None PROVE m = v
  <2>1. PICK k \in 1..Len(ts) : /\ v = ts[k][name] /\ IsVarAt(ds, ts, k, name)
                                /\ \A j \in 1..Len(ts) : IsVarAt(ds, ts, j, name) => j <= k
    BY <1>2, <1>4, FindVarIs
  <2>2. PICK i \in 1..Len(ss) : of[i] = k /\ ss[i][name] = ts[k][name]
    BY <1>1, <2>1 DEF IsVarAt
  <2>3. PICK j \in 1..Len(ss) : /\ m = ss[j][name] /\ ss[j][name] # None
                                /\ \A l \in 1..Len(ss) : ss[l][name] # None => l <= j
    BY <1>2, <2>1, <2>2, MeantIs DEF IsVarAt
  <2>4. i <= j
    BY <2>1, <2>2, <2>3 DEF IsVarAt
  <2>5. of[j] \in 1..Len(ts) /\ ts[of[j]][name] = ss[j][name]
    BY <1>1, <2>3
  <2>6. ~(of[i] > of[j])
    BY <1>1, <2>4
  <2>7. of[j] >= k
    BY <1>1, <2>2, <2>5, <2>6
  <2>8. CASE of[j] = k
    BY <2>1, <2>3, <2>5, <2>8
  <2>9. CASE of[j] # k
    <3>1. of[j] > k /\ of[j] # 1
      BY <2>5, <2>7, <2>9
    <3>2. ts[of[j]][name] # None
      BY <2>3, <2>5
    <3>3. ds[ts[of[j]][name]].kind # "Function"
      BY <1>2, <2>5, <3>1, <3>2 DEF Entries
    <3>4. IsVarAt(ds, ts, of[j], name)
      BY <1>3, <2>5, <3>2, <3>3 DEF IsVarAt, DeclKinds
    <3>5. of[j] <= k
      BY <2>1, <2>5, <3>4
    <3> QED BY <2>5, <3>1, <3>5
  <2> QED BY <2>8, <2>9
<1>5. ASSUME v = None, m # None PROVE ds[m].kind = "Function"
  <2>1. PICK j \in 1..Len(ss) : m = ss[j][name] /\ ss[j][name] # None
    BY <1>2, <1>5, MeantIs
  <2>2. of[j] \in 1..Len(ts) /\ ts[of[j]][name] = m /\ m # None
    BY <1>1, <2>1
  <2>3. ~IsVarAt(ds, ts, of[j], name)
    <3>1. \/ \A l \in 1..Len(ts) : ~IsVarAt(ds, ts, l, name)
          \/ \E k \in 1..Len(ts) : v = ts[k][name] /\ IsVarAt(ds, ts, k, name)
      BY <1>2, FindVarIs
    <3> HIDE DEF v
    <3> QED BY <1>5, <2>2, <3>1 DEF IsVarAt
  <2>4. ds[m].kind \in DeclKinds
    BY <1>3, <2>2
  <2> HIDE DEF m
  <2> QED BY <2>2, <2>3, <2>4 DEF IsVarAt, DeclKinds
<1> QED BY <1>4, <1>5

\* findFunction and C's scopes meet the same function, unless the name
\* leaked.
LEMMA FunctionFound ==
  ASSUME NEW o \in Seq(Frames), NEW ds, DeclList(ds), NEW ts, NEW ss, Resolved(o, ds, ts, ss),
         Bodied(o, "nothing"), NEW name \in Names, name \notin LeakedNamesIn(ds)
  PROVE  LET f == FindFunction(ts, ds, name)
             m == MeantIn(ss, name)
         IN  /\ f # None => m = f \/ (m # None /\ ds[m].kind # "Function")
             /\ f = None => m = None \/ ds[m].kind # "Function"
<1> DEFINE f == FindFunction(ts, ds, name)
           m == MeantIn(ss, name)
<1>1. PICK of : /\ \A j \in 1..Len(ss) : /\ of[j] \in 1..Len(ts) /\ (j # 1 => of[j] > 1)
                                         /\ ss[j][name] # None
                                              => ts[of[j]][name] = ss[j][name]
                /\ \A k \in 1..Len(ts) : ts[k][name] # None =>
                      \E j \in 1..Len(ss) : of[j] = k /\ ss[j][name] = ts[k][name]
                /\ 1 \in 1..Len(ss) /\ of[1] = 1
  BY ScopesAndTables
<1>2. ts \in Tables /\ ss \in Tables /\ Entries(ds, ts)
  BY DEF Resolved
<1>3. 1 \in 1..Len(ts)
  BY <1>1
<1>4. f = IF ts[1][name] # None /\ ds[ts[1][name]].kind = "Function" THEN ts[1][name] ELSE None
  BY DEF FindFunction
<1>5. ASSUME NEW j \in 1..Len(ss), m = ss[j][name], ss[j][name] # None, ds[m].kind = "Function"
      PROVE  m = f
  <2>1. of[j] \in 1..Len(ts) /\ ts[of[j]][name] = m /\ m # None
    BY <1>1, <1>5
  <2>2. of[j] = 1
    <3>1. CASE of[j] = 1
      BY <3>1
    <3>2. CASE of[j] # 1
      BY <1>2, <1>5, <2>1, <3>2 DEF Entries
    <3> QED BY <3>1, <3>2
  <2> QED BY <1>4, <1>5, <2>1, <2>2
<1>6. \/ m = None /\ \A j \in 1..Len(ss) : ss[j][name] = None
      \/ \E j \in 1..Len(ss) : m = ss[j][name] /\ ss[j][name] # None
  BY <1>2, MeantIs
<1>7. ASSUME f # None PROVE m # None
  <2>1. ts[1][name] # None
    BY <1>4, <1>7
  <2>2. PICK j \in 1..Len(ss) : ss[j][name] = ts[1][name]
    BY <1>1, <1>3, <2>1
  <2> HIDE DEF m
  <2> QED BY <1>6, <2>1, <2>2
<1> HIDE DEF m, f
<1> QED BY <1>5, <1>6, <1>7 DEF m, f

(***************************************************************************)
(* What the parser's operations on tables and scopes keep.                 *)
(***************************************************************************)
LEMMA TableTypes ==
  ASSUME NEW ts \in Tables
  PROVE  /\ Len(ts) \in Nat /\ DOMAIN ts = 1..Len(ts)
         /\ \A k \in 1..Len(ts) : ts[k] \in [Names -> Nat]
         /\ \A k \in 1..Len(ts) : \A x \in Names : ts[k][x] \in Nat
<1>1. Len(ts) \in Nat /\ DOMAIN ts = 1..Len(ts)
  BY LenProperties DEF Tables
<1>2. \A k \in 1..Len(ts) : ts[k] \in [Names -> Nat]
  BY ElementOfSeq DEF Tables
<1> QED BY <1>1, <1>2

\* addSymbol changes one entry, that of the name in the innermost table.
LEMMA AddSymbolIs ==
  ASSUME NEW ts \in Tables, Len(ts) >= 1, NEW name \in Names, name # NoName, NEW d \in Nat
  PROVE  LET us == AddSymbol(ts, name, d)
         IN  /\ us \in Tables /\ Len(us) = Len(ts)
             /\ us[Len(ts)][name] = d
             /\ \A k \in 1..Len(ts) : \A x \in Names :
                   k # Len(ts) \/ x # name => us[k][x] = ts[k][x]
<1> DEFINE n == Len(ts)
           t == [ts[n] EXCEPT ![name] = d]
           us == [ts EXCEPT ![n] = t]
<1>1. n \in 1..n /\ ts[n] \in [Names -> Nat] /\ DOMAIN ts = 1..n
  BY TableTypes
<1>2. t \in [Names -> Nat] /\ t[name] = d /\ \A x \in Names : x # name => t[x] = ts[n][x]
  BY <1>1
<1> HIDE DEF t
<1>3. us \in Tables /\ Len(us) = n
  BY <1>1, <1>2, ExceptSeq DEF Tables
<1>4. us[n] = t /\ \A k \in 1..n : k # n => us[k] = ts[k]
  BY <1>1
<1> HIDE DEF us
<1>5. \A k \in 1..n : \A x \in Names : k # n \/ x # name => us[k][x] = ts[k][x]
  BY <1>2, <1>4
<1>6. us = AddSymbol(ts, name, d)
  BY DEF AddSymbol, us, t
<1> QED BY <1>2, <1>3, <1>4, <1>5, <1>6

\* A table pushed leaves those below it,
LEMMA AppendTable ==
  ASSUME NEW ts \in Tables, NEW t \in [Names -> Nat]
  PROVE  LET us == Append(ts, t)
         IN  /\ us \in Tables /\ Len(us) = Len(ts) + 1
             /\ us[Len(ts) + 1] = t
             /\ \A k \in 1..Len(ts) : us[k] = ts[k]
BY AppendProperties DEF Tables

\* and so does a table popped.
LEMMA FrontTable ==
  ASSUME NEW ts \in Tables, Len(ts) >= 1
  PROVE  LET us == Front(ts)
         IN  /\ us \in Tables /\ Len(us) = Len(ts) - 1
             /\ \A k \in 1..(Len(ts) - 1) : us[k] = ts[k]
<1>1. Len(ts) > 0
  BY TableTypes
<1> QED BY <1>1, FrontProperties DEF Tables

\* Matched, from the places where it looks.
LEMMA MatchedWith ==
  ASSUME NEW ts, NEW ss, NEW of, NEW leaked, NEW more, leaked \subseteq more,
         Matched(ts, ss, of, leaked)
  PROVE  Matched(ts, ss, of, more)
BY DEF Matched

\* New declarations and items change nothing.
LEMMA ResolvedExtended ==
  ASSUME NEW o, NEW ds, NEW es, NEW ts, NEW ss, NEW g, NEW new,
         DeclList(ds), DeclList(es), Extended(ds, es, g, new), Resolved(o, ds, ts, ss)
  PROVE  Resolved(o, es, ts, ss)
<1>1. /\ ts \in Tables /\ ss \in Tables
      /\ Bounded(ts, Len(ds)) /\ Bounded(ss, Len(ds)) /\ Entries(ds, ts)
  BY DEF Resolved
<1>2. Len(ds) \in Nat /\ Len(es) \in Nat /\ Len(ds) <= Len(es)
  BY DeclTypes DEF Extended
<1>3. \A us \in Tables : Bounded(us, Len(ds)) => Bounded(us, Len(es))
  <2> SUFFICES ASSUME NEW us \in Tables, Bounded(us, Len(ds)), NEW k \in 1..Len(us), NEW x \in Names
               PROVE  us[k][x] <= Len(es)
    BY DEF Bounded
  <2>1. us[k][x] \in Nat /\ us[k][x] <= Len(ds)
    BY TableTypes DEF Bounded
  <2> QED BY <1>2, <2>1
<1>4. Entries(es, ts)
  <2> SUFFICES ASSUME NEW k \in 1..Len(ts), NEW x \in Names, ts[k][x] # None
               PROVE  /\ es[ts[k][x]].name = x
                      /\ k # 1 => es[ts[k][x]].kind # "Function"
    BY DEF Entries
  <2>1. ts[k][x] \in Nat /\ ts[k][x] <= Len(ds) /\ ts[k][x] # 0
    BY <1>1, TableTypes DEF Bounded, None
  <2>2. ts[k][x] \in 1..Len(ds)
    BY <1>2, <2>1
  <2>3. SameDecl(ds[ts[k][x]], es[ts[k][x]])
    BY <2>2 DEF Extended
  <2> QED BY <1>1, <2>3 DEF Entries, SameDecl
<1>5. \E at, of : /\ Layout(o, Len(ts), Len(ss), at, of)
                  /\ Matched(ts, ss, of, LeakedNamesIn(es))
  <2>1. PICK at, of : /\ Layout(o, Len(ts), Len(ss), at, of)
                      /\ Matched(ts, ss, of, LeakedNamesIn(ds))
    BY DEF Resolved
  <2>2. LeakedNamesIn(ds) \subseteq LeakedNamesIn(es)
    BY LeakedExtended
  <2> QED BY <2>1, <2>2, MatchedWith
<1> QED BY <1>1, <1>3, <1>4, <1>5 DEF Resolved

\* A symbol added to the innermost table and scope.
LEMMA ResolvedAdded ==
  ASSUME NEW o \in Seq(Frames), NEW ds, DeclList(ds), NEW ts, NEW ss, Resolved(o, ds, ts, ss),
         Bodied(o, "nothing"), NEW name \in Names, name # NoName,
         NEW d \in 1..Len(ds), ds[d].name = name,
         Len(ts) = 1 \/ (ds[d].kind # "Function" /\ Last(ts)[name] = None)
  PROVE  Resolved(o, ds, AddSymbol(ts, name, d), AddSymbol(ss, name, d))
<1> DEFINE us == AddSymbol(ts, name, d)
           vs == AddSymbol(ss, name, d)
           nt == Len(ts)
           ns == Len(ss)
<1>1. /\ ts \in Tables /\ ss \in Tables
      /\ Bounded(ts, Len(ds)) /\ Bounded(ss, Len(ds)) /\ Entries(ds, ts)
  BY DEF Resolved
<1>2. PICK at, of : /\ Layout(o, nt, ns, at, of)
                    /\ Matched(ts, ss, of, LeakedNamesIn(ds))
  BY DEF Resolved
<1>3. /\ nt \in Nat /\ ns \in 1..ns /\ of[ns] = nt
      /\ \A j \in 1..ns : of[j] \in 1..nt /\ (j # 1 => of[j] > 1)
  BY <1>2, AllTablesThere
<1>4. nt >= 1 /\ ns >= 1 /\ nt \in 1..nt
  <2>1. of[ns] \in 1..nt
    BY <1>3
  <2> QED BY <1>3, <2>1
<1>5. d \in Nat /\ d <= Len(ds) /\ d # None
  BY DeclTypes DEF None
<1>6. /\ us \in Tables /\ Len(us) = nt /\ us[nt][name] = d
      /\ \A k \in 1..nt : \A x \in Names : k # nt \/ x # name => us[k][x] = ts[k][x]
  BY <1>1, <1>4, <1>5, AddSymbolIs
<1>7. /\ vs \in Tables /\ Len(vs) = ns /\ vs[ns][name] = d
      /\ \A k \in 1..ns : \A x \in Names : k # ns \/ x # name => vs[k][x] = ss[k][x]
  BY <1>1, <1>4, <1>5, AddSymbolIs
<1> HIDE DEF us, vs
<1>8. Bounded(us, Len(ds))
  BY <1>1, <1>5, <1>6 DEF Bounded
<1>9. Bounded(vs, Len(ds))
  BY <1>1, <1>5, <1>7 DEF Bounded
<1>10. Entries(ds, us)
  <2> SUFFICES ASSUME NEW k \in 1..nt, NEW x \in Names, us[k][x] # None
               PROVE  /\ ds[us[k][x]].name = x
                      /\ k # 1 => ds[us[k][x]].kind # "Function"
    BY <1>6 DEF Entries
  <2>1. CASE k = nt /\ x = name
    BY <1>6, <2>1
  <2>2. CASE k # nt \/ x # name
    BY <1>1, <1>6, <2>2 DEF Entries
  <2> QED BY <2>1, <2>2
<1>11. Last(ts)[name] = ts[nt][name]
  BY DEF Last
<1>12. ASSUME NEW j \in 1..ns, NEW x \in Names, vs[j][x] # None, of[j] <= nt
       PROVE  us[of[j]][x] = vs[j][x] \/ (of[j] = 1 /\ x \in LeakedNamesIn(ds))
  <2>1. of[j] \in 1..nt
    BY <1>3
  <2>2. CASE x # name
    <3>1. us[of[j]][x] = ts[of[j]][x] /\ vs[j][x] = ss[j][x]
      BY <1>6, <1>7, <2>1, <2>2
    <3> QED BY <1>2, <1>12, <3>1 DEF Matched
  <2>3. CASE j = ns /\ x = name
    BY <1>3, <1>6, <1>7, <2>3
  <2>4. CASE j # ns /\ x = name
    <3>1. vs[j][x] = ss[j][x] /\ ss[j][x] # None
      BY <1>7, <1>12, <2>4
    <3>2. ts[of[j]][x] = ss[j][x] \/ (of[j] = 1 /\ x \in LeakedNamesIn(ds))
      BY <1>2, <1>12, <3>1 DEF Matched
    <3>3. CASE of[j] # nt
      BY <1>6, <2>1, <3>1, <3>2, <3>3
    <3>4. CASE of[j] = nt
      <4>1. nt # 1
        <5> SUFFICES ASSUME nt = 1 PROVE FALSE
          OBVIOUS
        <5>1. ~(of[ns] > 1) /\ ~(of[j] > 1)
          BY <1>3, <2>1
        <5>2. ns = 1 /\ j = 1
          BY <1>3, <5>1
        <5> QED BY <2>4, <5>2
      <4>2. ts[nt][name] = None
        BY <1>11, <4>1
      <4> QED BY <2>4, <3>1, <3>2, <3>4, <4>1, <4>2
    <3> QED BY <3>3, <3>4
  <2> QED BY <2>2, <2>3, <2>4
<1>13. ASSUME NEW k \in 1..nt, NEW x \in Names, us[k][x] # None
       PROVE  \/ \E j \in 1..ns : of[j] = k /\ vs[j][x] = us[k][x]
              \/ k = 1 /\ x \in LeakedNamesIn(ds)
  <2>1. CASE k = nt /\ x = name
    BY <1>3, <1>6, <1>7, <2>1
  <2>2. CASE k # nt \/ x # name
    <3>1. us[k][x] = ts[k][x]
      BY <1>6, <2>2
    <3>2. CASE k = 1 /\ x \in LeakedNamesIn(ds)
      BY <3>2
    <3>3. CASE \E j \in 1..ns : of[j] = k /\ ss[j][x] = ts[k][x]
      <4>1. PICK j \in 1..ns : of[j] = k /\ ss[j][x] = ts[k][x]
        BY <3>3
      <4>2. j # ns \/ x # name
        BY <1>3, <2>2, <4>1
      <4> QED BY <1>7, <3>1, <4>1, <4>2
    <3> QED BY <1>2, <1>13, <3>1, <3>2, <3>3 DEF Matched
  <2> QED BY <2>1, <2>2
<1>14. Matched(us, vs, of, LeakedNamesIn(ds))
  BY <1>6, <1>7, <1>12, <1>13 DEF Matched
<1>15. Layout(o, Len(us), Len(vs), at, of)
  BY <1>2, <1>6, <1>7
<1>16. Resolved(o, ds, us, vs)
  BY <1>6, <1>7, <1>8, <1>9, <1>10, <1>14, <1>15 DEF Resolved
<1> QED BY <1>16 DEF us, vs

\* enterBlock and enterFunction: the same new table on both.
LEMMA ResolvedEntered ==
  ASSUME NEW o \in Seq(Frames), NEW ds, DeclList(ds), NEW ts, NEW ss, Resolved(o, ds, ts, ss),
         Bodied(o, "nothing"), NEW c \in Frames, Opens(c),
         NEW t \in [Names -> Nat],
         \A x \in Names : /\ t[x] <= Len(ds)
                          /\ t[x] # None => ds[t[x]].name = x /\ ds[t[x]].kind # "Function"
  PROVE  Resolved(Append(o, c), ds, Append(ts, t), Append(ss, t))
<1> DEFINE us == Append(ts, t)
           vs == Append(ss, t)
           nt == Len(ts)
           ns == Len(ss)
           L  == Len(o)
<1>1. /\ ts \in Tables /\ ss \in Tables
      /\ Bounded(ts, Len(ds)) /\ Bounded(ss, Len(ds)) /\ Entries(ds, ts)
  BY DEF Resolved
<1>2. PICK at, of : /\ Layout(o, nt, ns, at, of)
                    /\ Matched(ts, ss, of, LeakedNamesIn(ds))
  BY DEF Resolved
<1>3. /\ nt \in Nat /\ ns \in 1..ns /\ of[ns] = nt
      /\ \A j \in 1..ns : of[j] \in 1..nt
  BY <1>2, AllTablesThere
<1>4. ns \in Nat
  BY <1>1, TableTypes
<1>5. /\ us \in Tables /\ Len(us) = nt + 1 /\ us[nt + 1] = t
      /\ \A k \in 1..nt : us[k] = ts[k]
  BY <1>1, AppendTable
<1>6. /\ vs \in Tables /\ Len(vs) = ns + 1 /\ vs[ns + 1] = t
      /\ \A k \in 1..ns : vs[k] = ss[k]
  BY <1>1, AppendTable
<1> DEFINE at2 == OneMoreAt(at, ns, L + 1)
           of2 == OneMoreAt(of, ns, nt + 1)
<1>7. Layout(Append(o, c), nt + 1, ns + 1, at2, of2)
  <2>1. ~Shares(c)
    BY DEF Opens, Shares
  <2> HIDE DEF nt, ns
  <2> QED BY <1>2, <2>1, LayoutPushed
<1>8. of2[ns + 1] = nt + 1 /\ \A j \in 1..ns : of2[j] = of[j]
  BY <1>4 DEF OneMoreAt
<1> HIDE DEF us, vs, at2, of2
<1>9. \A k \in 1..(nt + 1) : k \in 1..nt \/ k = nt + 1
  BY <1>3
<1>10. \A k \in 1..(ns + 1) : k \in 1..ns \/ k = ns + 1
  BY <1>4
<1>11. Bounded(us, Len(ds))
  BY <1>1, <1>5, <1>9 DEF Bounded
<1>12. Bounded(vs, Len(ds))
  BY <1>1, <1>6, <1>10 DEF Bounded
<1>13. Entries(ds, us)
  <2> SUFFICES ASSUME NEW k \in 1..(nt + 1), NEW x \in Names, us[k][x] # None
               PROVE  /\ ds[us[k][x]].name = x
                      /\ k # 1 => ds[us[k][x]].kind # "Function"
    BY <1>5 DEF Entries
  <2>1. CASE k \in 1..nt
    BY <1>1, <1>5, <2>1 DEF Entries
  <2>2. CASE k = nt + 1
    BY <1>5, <2>2
  <2> QED BY <1>9, <2>1, <2>2
<1>14. ASSUME NEW j \in 1..(ns + 1), NEW x \in Names, vs[j][x] # None, of2[j] <= nt + 1
       PROVE  us[of2[j]][x] = vs[j][x] \/ (of2[j] = 1 /\ x \in LeakedNamesIn(ds))
  <2>1. CASE j = ns + 1
    BY <1>5, <1>6, <1>8, <2>1
  <2>2. CASE j \in 1..ns
    <3>1. of2[j] = of[j] /\ vs[j] = ss[j] /\ of[j] \in 1..nt /\ of[j] <= nt
      BY <1>3, <1>6, <1>8, <2>2
    <3>2. us[of[j]] = ts[of[j]]
      BY <1>5, <3>1
    <3> QED BY <1>2, <1>14, <2>2, <3>1, <3>2 DEF Matched
  <2> QED BY <1>10, <2>1, <2>2
<1>15. ASSUME NEW k \in 1..(nt + 1), NEW x \in Names, us[k][x] # None
       PROVE  \/ \E j \in 1..(ns + 1) : of2[j] = k /\ vs[j][x] = us[k][x]
              \/ k = 1 /\ x \in LeakedNamesIn(ds)
  <2>1. CASE k = nt + 1
    <3>1. ns + 1 \in 1..(ns + 1)
      BY <1>4
    <3> QED BY <1>5, <1>6, <1>8, <2>1, <3>1
  <2>2. CASE k \in 1..nt
    <3>1. us[k] = ts[k]
      BY <1>5, <2>2
    <3>2. CASE k = 1 /\ x \in LeakedNamesIn(ds)
      BY <3>2
    <3>3. CASE \E j \in 1..ns : of[j] = k /\ ss[j][x] = ts[k][x]
      <4>1. PICK j \in 1..ns : of[j] = k /\ ss[j][x] = ts[k][x]
        BY <3>3
      <4>2. of2[j] = k /\ vs[j][x] = us[k][x] /\ j \in 1..(ns + 1)
        BY <1>4, <1>6, <1>8, <3>1, <4>1
      <4> QED BY <4>2
    <3> QED BY <1>2, <1>15, <2>2, <3>1, <3>2, <3>3 DEF Matched
  <2> QED BY <1>9, <2>1, <2>2
<1>16. Matched(us, vs, of2, LeakedNamesIn(ds))
  BY <1>5, <1>6, <1>14, <1>15 DEF Matched
<1>17. Layout(Append(o, c), Len(us), Len(vs), at2, of2)
  BY <1>5, <1>6, <1>7
<1>18. Resolved(Append(o, c), ds, us, vs)
  BY <1>5, <1>6, <1>11, <1>12, <1>13, <1>16, <1>17 DEF Resolved
<1> QED BY <1>18 DEF us, vs

\* leaveBlock, at the end of a call that opened a table and a scope.
LEMMA ResolvedLeft ==
  ASSUME NEW p \in Seq(Frames), NEW c \in Frames, Scoped(c),
         NEW ds, DeclList(ds), NEW ts, NEW ss, Resolved(Append(p, c), ds, ts, ss), Len(ts) >= 1
  PROVE  Resolved(p, ds, IF Opens(c) THEN Front(ts) ELSE ts, Front(ss))
<1> DEFINE us == IF Opens(c) THEN Front(ts) ELSE ts
           vs == Front(ss)
           nt == Len(ts)
           ns == Len(ss)
<1>1. /\ ts \in Tables /\ ss \in Tables
      /\ Bounded(ts, Len(ds)) /\ Bounded(ss, Len(ds)) /\ Entries(ds, ts)
  BY DEF Resolved
<1>2. PICK at, of : /\ Layout(Append(p, c), nt, ns, at, of)
                    /\ Matched(ts, ss, of, LeakedNamesIn(ds))
  BY DEF Resolved
<1> DEFINE n   == IF Opens(c) THEN nt - 1 ELSE nt
           at2 == FirstOf(at, ns - 1)
           of2 == FirstOf(of, ns - 1)
<1>3. ns > 1 /\ of[ns] = (IF Opens(c) THEN nt ELSE nt + 1) /\ Layout(p, n, ns - 1, at2, of2)
  <2> HIDE DEF nt, ns
  <2> QED BY <1>2, LayoutPopped
<1>4. nt \in Nat /\ ns \in Nat /\ ns \in 1..ns
  <2>1. nt \in Nat /\ ns \in Nat
    BY <1>1, TableTypes
  <2> QED BY <1>3, <2>1
<1>5. /\ us \in Tables /\ Len(us) = n /\ n \in Nat /\ n <= nt
      /\ \A k \in 1..n : us[k] = ts[k] /\ k \in 1..nt
  <2>1. CASE Opens(c)
    BY <1>1, <1>4, <2>1, FrontTable
  <2>2. CASE ~Opens(c)
    BY <1>1, <1>4, <2>2
  <2> QED BY <2>1, <2>2
<1>6. /\ vs \in Tables /\ Len(vs) = ns - 1
      /\ \A k \in 1..(ns - 1) : vs[k] = ss[k] /\ k \in 1..ns
  BY <1>1, <1>3, <1>4, FrontTable
<1>7. of[ns] > n
  BY <1>3, <1>4
<1>8. \A j \in 1..(ns - 1) : of2[j] = of[j]
  BY DEF FirstOf
<1> HIDE DEF us, vs, n, at2, of2
<1>9. Bounded(us, Len(ds)) /\ Bounded(vs, Len(ds)) /\ Entries(ds, us)
  <2>1. Bounded(us, Len(ds))
    BY <1>1, <1>5 DEF Bounded
  <2>2. Bounded(vs, Len(ds))
    BY <1>1, <1>6 DEF Bounded
  <2>3. Entries(ds, us)
    BY <1>1, <1>5 DEF Entries
  <2> QED BY <2>1, <2>2, <2>3
<1>10. ASSUME NEW j \in 1..(ns - 1), NEW x \in Names, vs[j][x] # None, of2[j] <= n
       PROVE  us[of2[j]][x] = vs[j][x] \/ (of2[j] = 1 /\ x \in LeakedNamesIn(ds))
  <2>1. j \in 1..ns /\ of2[j] = of[j] /\ vs[j] = ss[j]
    BY <1>6, <1>8
  <2>2. of[j] \in Nat /\ of[j] >= 1
    <3>1. of \in [1..ns -> Nat] /\ of[1] = 1 /\ \A i \in 2..ns : of[i] > 1
      BY <1>2 DEF Layout
    <3>2. of[j] \in Nat
      BY <2>1, <3>1
    <3>3. j # 1 => j \in 2..ns
      BY <2>1, <1>4
    <3> QED BY <3>1, <3>2, <3>3
  <2>3. of[j] \in 1..n /\ of[j] <= nt
    BY <1>4, <1>5, <1>10, <2>1, <2>2
  <2> QED BY <1>2, <1>5, <1>10, <2>1, <2>3 DEF Matched
<1>11. ASSUME NEW k \in 1..n, NEW x \in Names, us[k][x] # None
       PROVE  \/ \E j \in 1..(ns - 1) : of2[j] = k /\ vs[j][x] = us[k][x]
              \/ k = 1 /\ x \in LeakedNamesIn(ds)
  <2>1. us[k] = ts[k] /\ k \in 1..nt
    BY <1>5
  <2>2. CASE k = 1 /\ x \in LeakedNamesIn(ds)
    BY <2>2
  <2>3. CASE \E j \in 1..ns : of[j] = k /\ ss[j][x] = ts[k][x]
    <3>1. PICK j \in 1..ns : of[j] = k /\ ss[j][x] = ts[k][x]
      BY <2>3
    <3>2. j # ns
      BY <1>3, <1>4, <1>5, <1>7, <3>1
    <3>3. j \in 1..(ns - 1)
      BY <1>4, <3>2
    <3> QED BY <1>6, <1>8, <2>1, <3>1, <3>3
  <2> QED BY <1>2, <1>11, <2>1, <2>2, <2>3 DEF Matched
<1>12. Matched(us, vs, of2, LeakedNamesIn(ds))
  BY <1>5, <1>6, <1>10, <1>11 DEF Matched
<1>13. Layout(p, Len(us), Len(vs), at2, of2)
  BY <1>3, <1>5, <1>6
<1>14. Resolved(p, ds, us, vs)
  BY <1>5, <1>6, <1>9, <1>12, <1>13 DEF Resolved
<1> QED BY <1>14 DEF us, vs

\* A call that has neither a table nor a scope begins, ends, or becomes another.
LEMMA ResolvedPushed ==
  ASSUME NEW o \in Seq(Frames), NEW c \in Frames, ~Scoped(c),
         NEW ds, NEW ts, NEW ss, Resolved(o, ds, ts, ss)
  PROVE  Resolved(Append(o, c), ds, ts, ss)
<1>1. ~Shares(c) /\ ~Opens(c)
  BY DEF Scoped
<1>2. \A at, of : Layout(o, Len(ts), Len(ss), at, of) => Layout(Append(o, c), Len(ts), Len(ss), at, of)
  BY <1>1, LayoutPushed
<1> QED BY <1>2 DEF Resolved

\* A call that neither opens nor shares a scope can end and tables and scopes
\* still match.
LEMMA ResolvedPopped ==
  ASSUME NEW p \in Seq(Frames), NEW c \in Frames, ~Scoped(c),
         NEW ds, NEW ts, NEW ss, Resolved(Append(p, c), ds, ts, ss)
  PROVE  Resolved(p, ds, ts, ss)
<1>1. \A at, of : Layout(Append(p, c), Len(ts), Len(ss), at, of) => Layout(p, Len(ts), Len(ss), at, of)
  BY LayoutPopped
<1> QED BY <1>1 DEF Resolved

\* enterFunction's parameters that end up in the global table.
LEMMA ResolvedLeaked ==
  ASSUME NEW ds, DeclList(ds), NEW ts, NEW ss, Resolved(<<>>, ds, ts, ss),
         NEW us \in Tables, Len(us) = Len(ts), Bounded(us, Len(ds)),
         \A x \in Names : us[1][x] = ts[1][x] \/ (/\ x \in LeakedNamesIn(ds)
                                                  /\ us[1][x] # None => ds[us[1][x]].name = x)
  PROVE  Resolved(<<>>, ds, us, ss)
<1>1. /\ ts \in Tables /\ ss \in Tables /\ Bounded(ss, Len(ds)) /\ Entries(ds, ts)
  BY DEF Resolved
<1>2. PICK at, of : /\ Layout(<<>>, Len(ts), Len(ss), at, of)
                    /\ Matched(ts, ss, of, LeakedNamesIn(ds))
  BY DEF Resolved
<1>3. Len(ss) = 1 /\ of[1] = 1 /\ Len(ts) = 1
  <2>1. /\ Len(ss) \in Nat \ {0} /\ of[1] = 1 /\ at[1] = 0
        /\ \A j \in 2..Len(ss) : at[j] \in 1..Len(<<>>)
        /\ Len(ts) = of[Len(ss)] - (IF SharesAt(<<>>, at[Len(ss)]) THEN 1 ELSE 0)
    BY <1>2 DEF Layout
  <2>2. 1..Len(<<>>) = {}
    OBVIOUS
  <2>3. Len(ss) = 1
    <3> SUFFICES ASSUME Len(ss) # 1 PROVE FALSE
      OBVIOUS
    <3>1. \A n \in Nat \ {0} : n # 1 => n \in 2..n
      OBVIOUS
    <3>2. Len(ss) \in 2..Len(ss)
      BY <2>1, <3>1
    <3> QED BY <2>1, <2>2, <3>2
  <2> QED BY <2>1, <2>3 DEF SharesAt
<1>4. Entries(ds, us)
  BY <1>1, <1>3 DEF Entries
<1>5. Matched(us, ss, of, LeakedNamesIn(ds))
  <2>1. \A j \in 1..Len(ss) : j = 1
    BY <1>3
  <2>2. \A k \in 1..Len(us) : k = 1
    BY <1>3
  <2>3. ASSUME NEW x \in Names, us[1][x] = ts[1][x]
        PROVE  /\ ss[1][x] # None => us[1][x] = ss[1][x] \/ x \in LeakedNamesIn(ds)
               /\ us[1][x] # None => ss[1][x] = us[1][x] \/ x \in LeakedNamesIn(ds)
    <3>1. 1 \in 1..Len(ss) /\ 1 \in 1..Len(ts) /\ of[1] <= Len(ts)
      BY <1>3
    <3> QED BY <1>2, <1>3, <2>1, <2>3, <3>1 DEF Matched
  <2>4. \A x \in Names : /\ ss[1][x] # None => us[1][x] = ss[1][x] \/ x \in LeakedNamesIn(ds)
                         /\ us[1][x] # None => ss[1][x] = us[1][x] \/ x \in LeakedNamesIn(ds)
    BY <2>3
  <2>5. 1 \in 1..Len(ss)
    BY <1>3
  <2> QED BY <1>3, <2>1, <2>2, <2>4, <2>5 DEF Matched
<1> QED BY <1>1, <1>2, <1>4, <1>5 DEF Resolved

\* A body takes the place of its header, with or without a table.
LEMMA LayoutReplaced ==
  ASSUME NEW p \in Seq(Frames), NEW h \in Frames, NEW c \in Frames,
         NEW nt, NEW ns, NEW at, NEW of, Layout(Append(p, h), nt, ns, at, of),
         Opens(h), Scoped(c)
  PROVE  Layout(Append(p, c), IF Opens(c) THEN nt ELSE nt - 1, ns, at, of)
<1> DEFINE o == Append(p, h)
           q == Append(p, c)
           L == Len(p)
<1>1. /\ L \in Nat /\ Len(o) = L + 1 /\ Len(q) = L + 1
      /\ \A k \in 1..L : o[k] = q[k]
      /\ o[L + 1] = h /\ q[L + 1] = c
  BY Pushed
<1> HIDE DEF o, q, L
<1>2. /\ ns \in Nat \ {0} /\ nt \in Nat
      /\ at[1] = 0 /\ of[1] = 1
      /\ \A j \in 2..ns : /\ at[j] \in 1..(L + 1) /\ Scoped(o[at[j]])
                          /\ of[j] > 1
                          /\ of[j] = of[j - 1] + (IF SharesAt(o, at[j - 1]) THEN 0 ELSE 1)
      /\ \A i, j \in 1..ns : i < j => at[i] < at[j] /\ of[i] <= of[j]
      /\ \A k \in 1..(L + 1) : Scoped(o[k]) => \E j \in 1..ns : at[j] = k
      /\ nt = of[ns] - (IF SharesAt(o, at[ns]) THEN 1 ELSE 0)
  BY <1>1 DEF Layout, o
<1>3. at \in [1..ns -> Nat] /\ of \in [1..ns -> Nat]
  BY DEF Layout
<1>4. ns > 1 /\ at[ns] = L + 1
  <2>1. /\ L + 1 \in 1..Len(o) /\ Len(o) \in Nat /\ Scoped(o[L + 1])
        /\ \A j \in 1..Len(o) : j > L + 1 => ~Scoped(o[j])
    BY <1>1 DEF Scoped
  <2>2. Layout(o, nt, ns, at, of)
    BY DEF o
  <2> QED BY <2>1, <2>2, LastScope
<1>5. ASSUME NEW k \in 1..(L + 1) PROVE Scoped(q[k]) <=> Scoped(o[k])
  <2>1. CASE k = L + 1
    BY <1>1, <2>1 DEF Scoped
  <2>2. CASE k # L + 1
    <3>1. k \in 1..L
      BY <1>1, <2>2
    <3> QED BY <1>1, <3>1
  <2> QED BY <2>1, <2>2
<1>6. ASSUME NEW k \in 0..L PROVE SharesAt(o, k) <=> SharesAt(q, k)
  <2>1. CASE k = 0
    BY <2>1 DEF SharesAt
  <2>2. CASE k # 0
    <3>1. k \in 1..L
      BY <1>1, <2>2
    <3> QED BY <1>1, <3>1 DEF SharesAt
  <2> QED BY <2>1, <2>2
<1>7. ASSUME NEW j \in 2..ns
      PROVE  /\ at[j] \in 1..(L + 1) /\ Scoped(q[at[j]]) /\ of[j] > 1
             /\ of[j] = of[j - 1] + (IF SharesAt(q, at[j - 1]) THEN 0 ELSE 1)
  <2>1. j - 1 \in 1..ns /\ ns \in 1..ns /\ j - 1 < ns
    BY <1>2
  <2>2. at[j - 1] < L + 1 /\ at[j - 1] \in Nat
    BY <1>2, <1>3, <1>4, <2>1
  <2>3. at[j - 1] \in 0..L
    BY <1>1, <2>2
  <2>4. SharesAt(o, at[j - 1]) <=> SharesAt(q, at[j - 1])
    BY <1>6, <2>3
  <2>5. Scoped(q[at[j]])
    BY <1>2, <1>5
  <2> QED BY <1>2, <2>4, <2>5
<1>8. SharesAt(o, at[ns]) = FALSE
  BY <1>1, <1>4 DEF SharesAt, Shares, Opens
<1>9. SharesAt(q, at[ns]) <=> ~Opens(c)
  <2>1. Shares(c) <=> ~Opens(c)
    BY DEF Scoped, Shares, Opens
  <2> QED BY <1>1, <1>4, <2>1 DEF SharesAt
<1> DEFINE m == IF Opens(c) THEN nt ELSE nt - 1
<1>10. of[ns] > 1 /\ nt = of[ns] /\ of[ns] \in Nat
  <2>1. ns \in 2..ns /\ ns \in 1..ns
    BY <1>2, <1>4
  <2>2. of[ns] > 1 /\ of[ns] \in Nat
    BY <1>2, <1>3, <2>1
  <2> QED BY <1>2, <1>8, <2>2
<1>11. m \in Nat /\ m = of[ns] - (IF SharesAt(q, at[ns]) THEN 1 ELSE 0)
  BY <1>9, <1>10
<1>12. \A k \in 1..(L + 1) : Scoped(q[k]) => \E j \in 1..ns : at[j] = k
  BY <1>2, <1>5
<1> HIDE DEF m
<1>13. Layout(q, m, ns, at, of)
  BY <1>1, <1>2, <1>3, <1>7, <1>11, <1>12 DEF Layout
<1> QED BY <1>13 DEF q, m

\* An empty table has no name.
LEMMA EmptyTableIs == EmptyTable \in [Names -> Nat] /\ \A x \in Names : EmptyTable[x] = None
BY DEF EmptyTable, None

\* The body of a for statement, when it has the block it was entered with, and
\* when it is a block that has its own.
LEMMA ResolvedBody ==
  ASSUME NEW p \in Seq(Frames), NEW h \in Frames, NEW c \in Frames, Opens(h), Opens(c),
         NEW ds, NEW ts, NEW ss, Resolved(Append(p, h), ds, ts, ss)
  PROVE  Resolved(Append(p, c), ds, ts, ss)
<1>1. \A at, of : Layout(Append(p, h), Len(ts), Len(ss), at, of)
                    => Layout(Append(p, c), Len(ts), Len(ss), at, of)
  BY LayoutReplaced DEF Scoped
<1> QED BY <1>1 DEF Resolved

\* A for body's block gets the table of the header below it, and C's scopes
\* one more.
LEMMA ResolvedShared ==
  ASSUME NEW p \in Seq(Frames), NEW h \in Frames, NEW c \in Frames, NEW b \in Frames,
         Opens(h), Shares(c), Opens(b),
         NEW ds, DeclList(ds), NEW ts, NEW ss, Resolved(Append(p, h), ds, ts, ss)
  PROVE  Resolved(Append(Append(p, c), b), ds, ts, Append(ss, EmptyTable))
<1> DEFINE vs == Append(ss, EmptyTable)
           nt == Len(ts)
           ns == Len(ss)
           q  == Append(p, c)
<1>1. /\ ts \in Tables /\ ss \in Tables
      /\ Bounded(ts, Len(ds)) /\ Bounded(ss, Len(ds)) /\ Entries(ds, ts)
  BY DEF Resolved
<1>2. PICK at, of : /\ Layout(Append(p, h), nt, ns, at, of)
                    /\ Matched(ts, ss, of, LeakedNamesIn(ds))
  BY DEF Resolved
<1>3. nt \in Nat /\ ns \in Nat
  BY <1>1, TableTypes
<1> DEFINE at2 == OneMoreAt(at, ns, Len(q) + 1)
           of2 == OneMoreAt(of, ns, nt)
           m == nt - 1
<1>4. Layout(Append(q, b), nt, ns + 1, at2, of2)
  <2>1. ~Opens(c) /\ Scoped(c) /\ ~Shares(b)
    BY DEF Opens, Shares, Scoped
  <2>2. q \in Seq(Frames)
    BY Pushed
  <2>3. m + 1 = nt
    BY <1>3
  <2> HIDE DEF nt, ns, q, m
  <2>4. Layout(q, m, ns, at, of)
    BY <1>2, <2>1, LayoutReplaced DEF q, m
  <2>5. Layout(Append(q, b), m + 1, ns + 1, OneMoreAt(at, ns, Len(q) + 1), OneMoreAt(of, ns, m + 1))
    BY <2>1, <2>2, <2>4, LayoutPushed
  <2> QED BY <2>3, <2>5
<1>5. of2[ns + 1] = nt /\ \A j \in 1..ns : of2[j] = of[j]
  BY <1>3 DEF OneMoreAt
<1>6. /\ vs \in Tables /\ Len(vs) = ns + 1 /\ vs[ns + 1] = EmptyTable
      /\ \A k \in 1..ns : vs[k] = ss[k]
  BY <1>1, EmptyTableIs, AppendTable
<1> HIDE DEF vs, at2, of2
<1>7. \A k \in 1..(ns + 1) : k \in 1..ns \/ k = ns + 1
  BY <1>3
<1>8. Bounded(vs, Len(ds))
  <2> SUFFICES ASSUME NEW k \in 1..(ns + 1), NEW x \in Names PROVE vs[k][x] <= Len(ds)
    BY <1>6 DEF Bounded
  <2>1. CASE k \in 1..ns
    BY <1>1, <1>6, <2>1 DEF Bounded
  <2>2. CASE k = ns + 1
    <3>1. Len(ds) \in Nat
      BY DeclTypes
    <3> QED BY <1>6, <2>2, <3>1, EmptyTableIs DEF None
  <2> QED BY <1>7, <2>1, <2>2
<1>9. ASSUME NEW j \in 1..(ns + 1), NEW x \in Names, vs[j][x] # None, of2[j] <= nt
      PROVE  ts[of2[j]][x] = vs[j][x] \/ (of2[j] = 1 /\ x \in LeakedNamesIn(ds))
  <2>1. j \in 1..ns
    BY <1>6, <1>7, <1>9, EmptyTableIs
  <2> QED BY <1>2, <1>5, <1>6, <1>9, <2>1 DEF Matched
<1>10. ASSUME NEW k \in 1..nt, NEW x \in Names, ts[k][x] # None
       PROVE  \/ \E j \in 1..(ns + 1) : of2[j] = k /\ vs[j][x] = ts[k][x]
              \/ k = 1 /\ x \in LeakedNamesIn(ds)
  <2>1. CASE k = 1 /\ x \in LeakedNamesIn(ds)
    BY <2>1
  <2>2. CASE \E j \in 1..ns : of[j] = k /\ ss[j][x] = ts[k][x]
    <3>1. PICK j \in 1..ns : of[j] = k /\ ss[j][x] = ts[k][x]
      BY <2>2
    <3>2. of2[j] = k /\ vs[j][x] = ts[k][x] /\ j \in 1..(ns + 1)
      BY <1>3, <1>5, <1>6, <3>1
    <3> QED BY <3>2
  <2> QED BY <1>2, <1>10, <2>1, <2>2 DEF Matched
<1>11. Matched(ts, vs, of2, LeakedNamesIn(ds))
  BY <1>6, <1>9, <1>10 DEF Matched
<1>12. Layout(Append(q, b), Len(ts), Len(vs), at2, of2)
  BY <1>4, <1>6
<1>13. Resolved(Append(q, b), ds, ts, vs)
  BY <1>1, <1>6, <1>8, <1>11, <1>12 DEF Resolved
<1> QED BY <1>13 DEF vs

(***************************************************************************)
(* Shared bodies, and mentions.                                            *)
(***************************************************************************)
LEMMA BodiedAnyway ==
  ASSUME NEW o, NEW r, Bodied(o, "nothing")
  PROVE  Bodied(o, r)
BY DEF Bodied

\* Which calls may be open once one more began.
LEMMA BodiedPushed ==
  ASSUME NEW o \in Seq(Frames), NEW c \in Frames, NEW q, NEW r, Bodied(o, q),
         o # <<>> => ~Shares(Last(o)) \/ c.call = "block",
         r = "nothing" => ~Shares(c)
  PROVE  Bodied(Append(o, c), r)
<1> DEFINE a == Append(o, c)
           L == Len(o)
<1>1. L \in Nat /\ Len(a) = L + 1 /\ (\A k \in 1..L : a[k] = o[k]) /\ a[L + 1] = c
  BY Pushed
<1>2. Last(a) = c
  BY <1>1 DEF Last
<1>3. Last(o) = o[L]
  BY DEF Last
<1>4. L > 0 => o # <<>>
  OBVIOUS
<1> HIDE DEF a, L
<1>5. ASSUME NEW k \in 1..(L + 1), Shares(a[k]), k < L + 1 PROVE a[k + 1].call = "block"
  <2>1. k \in 1..L /\ a[k] = o[k]
    BY <1>1, <1>5
  <2>2. CASE k = L
    BY <1>1, <1>3, <1>4, <1>5, <2>1, <2>2
  <2>3. CASE k # L
    <3>1. k + 1 \in 1..L /\ k < L
      BY <1>1, <2>1, <2>3
    <3> QED BY <1>1, <1>5, <2>1, <3>1 DEF Bodied, L
  <2> QED BY <2>2, <2>3
<1>6. Bodied(a, r)
  BY <1>1, <1>2, <1>5 DEF Bodied
<1> QED BY <1>6 DEF a

\* The call below one that is no block is no shared body.
LEMMA BodiedBelow ==
  ASSUME NEW p \in Seq(Frames), NEW c \in Frames, NEW q, NEW r, Bodied(Append(p, c), q),
         c.call # "block" \/ r # "nothing" \/ (p # <<>> => Last(p).call = "block")
  PROVE  Bodied(p, r)
<1> DEFINE a == Append(p, c)
           L == Len(p)
<1>1. L \in Nat /\ Len(a) = L + 1 /\ (\A k \in 1..L : a[k] = p[k]) /\ a[L + 1] = c
  BY Pushed
<1>2. Last(p) = p[L]
  BY DEF Last
<1>3. p # <<>> => L \in 1..L
  BY <1>1, EmptySeq
<1> HIDE DEF a, L
<1>4. \A k \in 1..(L + 1) : Shares(a[k]) /\ k < L + 1 => a[k + 1].call = "block"
  BY <1>1 DEF Bodied, a
<1>5. ASSUME NEW k \in 1..L, Shares(p[k]), k < L PROVE p[k + 1].call = "block"
  <2>1. k \in 1..(L + 1) /\ k < L + 1 /\ k + 1 \in 1..L
    BY <1>1, <1>5
  <2>2. Shares(a[k]) /\ a[k + 1] = p[k + 1]
    BY <1>1, <1>5, <2>1
  <2> QED BY <1>4, <2>1, <2>2
<1>6. ASSUME r = "nothing", p # <<>> PROVE ~Shares(Last(p))
  <2>1. CASE Last(p).call = "block"
    BY <2>1 DEF Shares
  <2>2. CASE c.call # "block"
    <3>1. L \in 1..(L + 1) /\ L < L + 1 /\ a[L] = Last(p)
      BY <1>1, <1>2, <1>3, <1>6
    <3> QED BY <1>1, <1>4, <2>2, <3>1
  <2> QED BY <1>6, <2>1, <2>2
<1> QED BY <1>5, <1>6 DEF Bodied, L

\* LookupsFollowScopes, of one use of a name and of all.
MentionOK(ds, m) ==
    /\ m.decl \in 1..Len(ds) /\ m.meant \in 0..Len(ds)
    /\ \/ m.decl = m.meant
       \/ m.kind = "Function" /\ m.meant # None /\ ds[m.meant].kind # "Function"
       \/ ds[m.decl].name \in LeakedNamesIn(ds)
AllMentions(ds) == \A f \in 1..Len(ds) : \A k \in 1..Len(ds[f].items) : MentionOK(ds, ds[f].items[k])

\* A mention that names what it means goes on doing so as declarations are
\* added.
LEMMA MentionStaysOK ==
  ASSUME NEW ds, NEW es, NEW g, NEW new, DeclList(ds), DeclList(es), Extended(ds, es, g, new),
         NEW m, MentionOK(ds, m)
  PROVE  MentionOK(es, m)
<1>1. Len(ds) \in Nat /\ Len(es) \in Nat /\ Len(ds) <= Len(es)
  BY DeclTypes DEF Extended
<1>2. LeakedNamesIn(ds) \subseteq LeakedNamesIn(es)
  BY LeakedExtended
<1>3. m.decl \in 1..Len(ds) /\ m.meant \in 0..Len(ds)
  BY DEF MentionOK
<1>4. m.decl \in 1..Len(es) /\ m.meant \in 0..Len(es)
  BY <1>1, <1>3
<1>5. SameDecl(ds[m.decl], es[m.decl])
  BY <1>3 DEF Extended
<1>6. m.meant # None => SameDecl(ds[m.meant], es[m.meant])
  <2> SUFFICES ASSUME m.meant # None PROVE SameDecl(ds[m.meant], es[m.meant])
    OBVIOUS
  <2>1. m.meant \in 1..Len(ds)
    BY <1>1, <1>3 DEF None
  <2> QED BY <2>1 DEF Extended
<1> QED BY <1>2, <1>4, <1>5, <1>6 DEF MentionOK, SameDecl

\* The items of a longer list: those that were there, then the new ones.
LEMMA ItemsExtended ==
  ASSUME NEW ds, NEW es, NEW g, NEW new \in Seq(BodyItems), DeclList(ds), DeclList(es),
         Extended(ds, es, g, new), NEW f \in 1..Len(es)
  PROVE  \A k \in 1..Len(es[f].items) :
            \/ /\ f \in 1..Len(ds) /\ k \in 1..Len(ds[f].items)
               /\ es[f].items[k] = ds[f].items[k]
            \/ /\ f = g /\ f \in 1..Len(ds) /\ k > Len(ds[f].items)
               /\ k - Len(ds[f].items) \in 1..Len(new)
               /\ es[f].items[k] = new[k - Len(ds[f].items)]
<1>1. Len(ds) \in Nat /\ Len(es) \in Nat
  BY DeclTypes
<1>2. CASE f > Len(ds)
  <2>1. es[f].items = <<>>
    BY <1>2 DEF Extended
  <2>2. 1..Len(<<>>) = {}
    OBVIOUS
  <2> QED BY <2>1, <2>2
<1>3. CASE f <= Len(ds) /\ f # g
  <2>1. f \in 1..Len(ds)
    BY <1>1, <1>3
  <2>2. es[f].items = ds[f].items
    BY <1>3, <2>1 DEF Extended
  <2> QED BY <2>1, <2>2
<1>4. CASE f <= Len(ds) /\ f = g
  <2>1. f \in 1..Len(ds)
    BY <1>1, <1>4
  <2> DEFINE s == ds[f].items
             n == Len(s)
             m == Len(new)
  <2>2. s \in Seq(BodyItems) /\ n \in Nat /\ m \in Nat
    BY <2>1, DeclTypes, LenProperties
  <2>3. es[f].items = s \o new
    BY <1>4, <2>1 DEF Extended
  <2>4. /\ Len(s \o new) = n + m
        /\ \A i \in 1..(n + m) : (s \o new)[i] = IF i <= n THEN s[i] ELSE new[i - n]
    BY <2>2, ConcatProperties
  <2> HIDE DEF s, n, m
  <2> SUFFICES ASSUME NEW k \in 1..(n + m)
               PROVE  \/ k \in 1..n /\ (s \o new)[k] = s[k]
                      \/ k > n /\ k - n \in 1..m /\ (s \o new)[k] = new[k - n]
    BY <1>4, <2>1, <2>3, <2>4 DEF s, n, m
  <2>5. CASE k <= n
    <3>1. k \in 1..n
      BY <2>2, <2>5
    <3> QED BY <2>4, <2>5, <3>1
  <2>6. CASE ~(k <= n)
    <3>1. k > n /\ k - n \in 1..m
      BY <2>2, <2>6
    <3> QED BY <2>4, <2>6, <3>1
  <2> QED BY <2>5, <2>6
<1>5. f <= Len(ds) \/ f > Len(ds)
  BY <1>1
<1> QED BY <1>2, <1>3, <1>4, <1>5

\* All mentions do, the new ones included.
LEMMA MentionsExtended ==
  ASSUME NEW ds, NEW es, NEW g, NEW new \in Seq(BodyItems), DeclList(ds), DeclList(es),
         Extended(ds, es, g, new), AllMentions(ds), \A k \in 1..Len(new) : MentionOK(es, new[k])
  PROVE  AllMentions(es)
<1> SUFFICES ASSUME NEW f \in 1..Len(es), NEW k \in 1..Len(es[f].items)
             PROVE  MentionOK(es, es[f].items[k])
  BY DEF AllMentions
<1>1. CASE f \in 1..Len(ds) /\ k \in 1..Len(ds[f].items) /\ es[f].items[k] = ds[f].items[k]
  BY <1>1, MentionStaysOK DEF AllMentions
<1>2. CASE /\ k - Len(ds[f].items) \in 1..Len(new)
           /\ es[f].items[k] = new[k - Len(ds[f].items)]
  BY <1>2
<1> QED BY <1>1, <1>2, ItemsExtended

\* What findSymbol's answer becomes in a body.
LEMMA MentionOfFound ==
  ASSUME NEW o \in Seq(Frames), NEW ds, DeclList(ds), NEW ts, NEW ss, Resolved(o, ds, ts, ss),
         Bodied(o, "nothing"), NEW name \in Names, Len(ts) >= 1,
         NEW d \in {FindVar(ts, ds, name), FindFunction(ts, ds, name)}, d # None
  PROVE  LET m == [kind |-> ds[d].kind, decl |-> d, meant |-> MeantIn(ss, name)]
         IN  d \in 1..Len(ds) /\ m \in BodyItems /\ MentionOK(ds, m)
<1> DEFINE meant == MeantIn(ss, name)
           m == [kind |-> ds[d].kind, decl |-> d, meant |-> meant]
<1>1. /\ ts \in Tables /\ ss \in Tables
      /\ Bounded(ts, Len(ds)) /\ Bounded(ss, Len(ds)) /\ Entries(ds, ts)
  BY DEF Resolved
<1>2. /\ d \in 0..Len(ds) /\ meant \in 0..Len(ds) /\ ds[d].name = name
      /\ d = FindFunction(ts, ds, name) => ds[d].kind = "Function"
  BY <1>1, FoundIsNamed
<1>3. d \in 1..Len(ds) /\ meant \in Nat /\ d \in Nat
  <2>1. Len(ds) \in Nat
    BY DeclTypes
  <2> HIDE DEF meant
  <2> QED BY <1>2, <2>1 DEF None
<1>4. ds[d].kind \in DeclKinds
  BY <1>3, DeclTypes
<1>5. name \in LeakedNamesIn(ds) \/ d = meant
         \/ (ds[d].kind = "Function" /\ meant # None /\ ds[meant].kind # "Function")
  <2> SUFFICES ASSUME name \notin LeakedNamesIn(ds)
               PROVE d = meant \/ (ds[d].kind = "Function" /\ meant # None /\ ds[meant].kind # "Function")
    OBVIOUS
  <2>1. CASE d = FindVar(ts, ds, name)
    BY <2>1, VariableFound
  <2>2. CASE d = FindFunction(ts, ds, name)
    BY <1>2, <2>2, FunctionFound
  <2> QED BY <2>1, <2>2
<1> HIDE DEF meant
<1>6. m.kind = ds[d].kind /\ m.decl = d /\ m.meant = meant
  OBVIOUS
<1>7. m \in BodyItems
  BY <1>3, <1>4 DEF BodyItems
<1> HIDE DEF m
<1>8. MentionOK(ds, m)
  BY <1>2, <1>3, <1>5, <1>6 DEF MentionOK
<1> QED BY <1>3, <1>7, <1>8 DEF m, meant

(***************************************************************************)
(* Parameters in a table.                                                  *)
(***************************************************************************)
\* What enterFunction adds: the last parameter of each name.
ParamAt(names, x) == {k \in DOMAIN names : x # NoName /\ names[k] = x}
WithParams(t, names) ==
    [x \in Names |-> IF ParamAt(names, x) = {} THEN t[x] ELSE Len(decls) + 1 + Max(ParamAt(names, x))]

\* The maximum of a set of numbers is one of them.
LEMMA MaxIsIn ==
  ASSUME NEW n \in Nat, NEW S \in SUBSET (1..n), S # {}
  PROVE  Max(S) \in S
<1>1. PICK x \in S : \A y \in S : y <= x
  BY LargestElement
<1>2. \A y \in S : x >= y
  BY <1>1
<1> QED BY <1>1, <1>2 DEF Max

\* An entry of a table with parameters is the table's or a parameter's.
LEMMA WithParamsIs ==
  ASSUME Len(decls) \in Nat, NEW names \in Seq(STRING), NEW t \in [Names -> Nat]
  PROVE  /\ WithParams(t, names) \in [Names -> Nat]
         /\ \A x \in Names :
              \/ WithParams(t, names)[x] = t[x]
              \/ \E k \in 1..Len(names) : /\ x # NoName /\ names[k] = x
                                          /\ WithParams(t, names)[x] = Len(decls) + 1 + k
<1>1. Len(names) \in Nat /\ DOMAIN names = 1..Len(names)
  BY LenProperties
<1>2. ASSUME NEW x \in Names, ParamAt(names, x) # {}
      PROVE  /\ Max(ParamAt(names, x)) \in 1..Len(names)
             /\ x # NoName /\ names[Max(ParamAt(names, x))] = x
  <2>1. ParamAt(names, x) \in SUBSET (1..Len(names))
    BY <1>1 DEF ParamAt
  <2>2. Max(ParamAt(names, x)) \in ParamAt(names, x)
    BY <1>1, <1>2, <2>1, MaxIsIn
  <2> QED BY <1>1, <2>1, <2>2 DEF ParamAt
<1>3. \A x \in Names : WithParams(t, names)[x] =
         IF ParamAt(names, x) = {} THEN t[x] ELSE Len(decls) + 1 + Max(ParamAt(names, x))
  BY DEF WithParams
<1>4. \A x \in Names : \/ WithParams(t, names)[x] = t[x]
                       \/ \E k \in 1..Len(names) : /\ x # NoName /\ names[k] = x
                                                   /\ WithParams(t, names)[x] = Len(decls) + 1 + k
  BY <1>2, <1>3
<1>5. \A x \in Names : WithParams(t, names)[x] \in Nat
  <2> SUFFICES ASSUME NEW x \in Names PROVE WithParams(t, names)[x] \in Nat
    OBVIOUS
  <2>1. \A k \in 1..Len(names) : Len(decls) + 1 + k \in Nat
    BY <1>1
  <2>2. t[x] \in Nat
    OBVIOUS
  <2> QED BY <1>4, <2>1, <2>2
<1>6. WithParams(t, names) = [x \in Names |-> WithParams(t, names)[x]]
  BY DEF WithParams
<1> QED BY <1>4, <1>5, <1>6

\* The tables with one of them replaced.
LEMMA TableReplaced ==
  ASSUME NEW ts \in Tables, NEW i \in 1..Len(ts), NEW t \in [Names -> Nat]
  PROVE  /\ [ts EXCEPT ![i] = t] \in Tables /\ Len([ts EXCEPT ![i] = t]) = Len(ts)
         /\ [ts EXCEPT ![i] = t][i] = t
<1>1. DOMAIN ts = 1..Len(ts)
  BY TableTypes
<1>2. [ts EXCEPT ![i] = t][i] = t
  BY <1>1
<1>3. [ts EXCEPT ![i] = t] \in Tables /\ Len([ts EXCEPT ![i] = t]) = Len(ts)
  BY ExceptSeq DEF Tables
<1> QED BY <1>2, <1>3

\* A function on 1..n is a sequence.
LEMMA FunctionIsSeq ==
  ASSUME NEW n \in Nat, NEW S, NEW s \in [1..n -> S]
  PROVE  s \in Seq(S) /\ Len(s) = n
<1>1. s \in Seq(S)
  BY SeqDef
<1> QED BY <1>1, LenProperties

\* Parameters go into the innermost table.
LEMMA AddParamsIs ==
  ASSUME NEW ts, NEW names
  PROVE  AddParams(ts, names) = [ts EXCEPT ![Len(ts)] = WithParams(@, names)]
BY DEF AddParams, WithParams, ParamAt

\* Onto a new table, and onto the last one there is.
LEMMA AddParamsNew ==
  ASSUME Len(decls) \in Nat, NEW ts \in Tables, NEW names \in Seq(STRING)
  PROVE  AddParams(Append(ts, EmptyTable), names) = Append(ts, WithParams(EmptyTable, names))
<1> DEFINE a == Append(ts, EmptyTable)
           t == WithParams(EmptyTable, names)
           n == Len(ts)
           l == [a EXCEPT ![n + 1] = t]
           r == Append(ts, t)
<1>1. t \in [Names -> Nat] /\ EmptyTable \in [Names -> Nat]
  BY EmptyTableIs, WithParamsIs
<1>2. n \in Nat /\ n + 1 \in 1..(n + 1)
  BY TableTypes
<1>3. /\ a \in Tables /\ Len(a) = n + 1 /\ a[n + 1] = EmptyTable
      /\ \A k \in 1..n : a[k] = ts[k]
  BY <1>1, AppendTable
<1>4. AddParams(a, names) = l
  <2> HIDE DEF a, n
  <2>1. AddParams(a, names) = [a EXCEPT ![n + 1] = WithParams(a[n + 1], names)]
    BY <1>3, AddParamsIs
  <2> QED BY <1>3, <2>1
<1> HIDE DEF t
<1>5. /\ r \in Tables /\ Len(r) = n + 1 /\ r[n + 1] = t
      /\ \A k \in 1..n : r[k] = ts[k]
  BY <1>1, AppendTable
<1> HIDE DEF a, r, n
<1>6. l \in Tables /\ Len(l) = n + 1 /\ l[n + 1] = t /\ \A k \in 1..(n + 1) : k # n + 1 => l[k] = a[k]
  BY <1>1, <1>2, <1>3, ExceptSeq DEF Tables
<1> HIDE DEF l
<1>7. \A k \in 1..(n + 1) : l[k] = r[k]
  <2> SUFFICES ASSUME NEW k \in 1..(n + 1) PROVE l[k] = r[k]
    OBVIOUS
  <2>1. CASE k = n + 1
    BY <1>5, <1>6, <2>1
  <2>2. CASE k # n + 1
    <3>1. k \in 1..n
      BY <1>2, <2>2
    <3> QED BY <1>3, <1>5, <1>6, <2>2, <3>1
  <2> QED BY <2>1, <2>2
<1>8. l = r
  BY <1>5, <1>6, <1>7, SeqEqual DEF Tables
<1> QED BY <1>4, <1>8 DEF a, r, t

\* An entry of the innermost table is then what it was or a parameter of its
\* name.
LEMMA AddParamsOnto ==
  ASSUME Len(decls) \in Nat, NEW ts \in Tables, Len(ts) >= 1, NEW names \in Seq(STRING)
  PROVE  LET us == AddParams(ts, names)
         IN  /\ us \in Tables /\ Len(us) = Len(ts)
             /\ \A x \in Names :
                  \/ us[Len(ts)][x] = ts[Len(ts)][x]
                  \/ \E k \in 1..Len(names) : /\ x # NoName /\ names[k] = x
                                              /\ us[Len(ts)][x] = Len(decls) + 1 + k
<1> DEFINE n == Len(ts)
           t == WithParams(ts[n], names)
           us == [ts EXCEPT ![n] = t]
<1>1. n \in 1..Len(ts) /\ ts[n] \in [Names -> Nat]
  BY TableTypes
<1>2. AddParams(ts, names) = us
  BY AddParamsIs
<1>3. /\ t \in [Names -> Nat]
      /\ \A x \in Names :
           \/ t[x] = ts[n][x]
           \/ \E k \in 1..Len(names) : /\ x # NoName /\ names[k] = x
                                       /\ t[x] = Len(decls) + 1 + k
  BY <1>1, WithParamsIs
<1> HIDE DEF t, n
<1>4. us \in Tables /\ Len(us) = Len(ts) /\ us[n] = t
  BY <1>1, <1>3, TableReplaced
<1> HIDE DEF us
<1> QED BY <1>2, <1>3, <1>4 DEF n

\* A function and its parameters, at the end of the list.
WithFunction(p, extern, body) ==
    decls \o FunctionAndParams(FunctionOf(p, extern, ParamIds(p.params), body), p.params)

\* The declarations with a function and its parameters behind the rest.
LEMMA FunctionAdded ==
  ASSUME NEW p \in Prototypes, NEW extern \in BOOLEAN, NEW body \in BOOLEAN, DeclList(decls)
  PROVE  /\ DeclList(WithFunction(p, extern, body))
         /\ Extended(decls, WithFunction(p, extern, body), 0, <<>>)
         /\ Len(WithFunction(p, extern, body)) = Len(decls) + 1 + Len(p.params)
         /\ \A f \in 1..Len(decls) : WithFunction(p, extern, body)[f] = decls[f]
         /\ WithFunction(p, extern, body)[Len(decls) + 1] = FunctionOf(p, extern, ParamIds(p.params), body)
         /\ \A k \in 1..Len(p.params) :
               WithFunction(p, extern, body)[Len(decls) + 1 + k] = Declared("ParamVar", p.params[k], FALSE)
<1> DEFINE es == WithFunction(p, extern, body)
<1>0. es = decls \o FunctionAndParams(FunctionOf(p, extern, ParamIds(p.params), body), p.params)
  BY DEF WithFunction
<1> HIDE DEF es
<1> DEFINE names == p.params
           ids == ParamIds(names)
           f == FunctionOf(p, extern, ids, body)
           ps == [k \in DOMAIN names |-> Declared("ParamVar", names[k], FALSE)]
           more == <<f>> \o ps
           n == Len(decls)
           m == Len(names)
<1>1. /\ n \in Nat /\ p.name \in STRING /\ p.void \in BOOLEAN
      /\ names \in Seq(STRING) /\ m \in Nat /\ DOMAIN names = 1..m
      /\ \A k \in 1..m : names[k] \in STRING
  <2>1. p.name \in STRING /\ p.void \in BOOLEAN /\ p.params \in Seq(STRING)
    BY DeclarationsAssumption
  <2> QED BY <2>1, DeclTypes, LenProperties, ElementOfSeq
<1> HIDE DEF n, m, names
<1>2. ids \in Seq(Nat) /\ ToSet(ids) \subseteq 1..(n + 1 + m)
  <2>1. ids = [k \in 1..m |-> n + 1 + k]
    BY <1>1 DEF ParamIds, n
  <2>2. \A k \in 1..m : n + 1 + k \in Nat /\ n + 1 + k \in 1..(n + 1 + m)
    BY <1>1
  <2>3. ids \in Seq(Nat)
    BY <1>1, <2>1, <2>2, IsASeq
  <2>4. DOMAIN ids = 1..m /\ \A k \in 1..m : ids[k] \in 1..(n + 1 + m)
    BY <2>1, <2>2
  <2> QED BY <2>3, <2>4 DEF ToSet
<1> HIDE DEF ids
<1>3. f \in NamedDecls /\ f.items = <<>> /\ f.params = ids
  <2>1. <<>> \in Seq(BodyItems)
    BY EmptySeq
  <2> QED BY <1>1, <1>2, <2>1 DEF FunctionOf, Declared, NamedDecls, DeclKinds
<1>4. ASSUME NEW k \in 1..m
      PROVE  Declared("ParamVar", names[k], FALSE) \in NamedDecls
             /\ Declared("ParamVar", names[k], FALSE).items = <<>>
             /\ Declared("ParamVar", names[k], FALSE).params = <<>>
  <2>1. names[k] \in STRING /\ <<>> \in Seq(BodyItems) /\ <<>> \in Seq(Nat)
    BY <1>1, EmptySeq
  <2> QED BY <2>1 DEF Declared, NamedDecls, DeclKinds
<1> HIDE DEF f
<1>5. ps \in Seq(NamedDecls) /\ Len(ps) = m /\ \A k \in 1..m : ps[k] = Declared("ParamVar", names[k], FALSE)
  <2>1. ps = [k \in 1..m |-> Declared("ParamVar", names[k], FALSE)]
    BY <1>1
  <2>2. ps \in Seq(NamedDecls)
    <3>1. \A k \in 1..m : Declared("ParamVar", names[k], FALSE) \in NamedDecls
      BY <1>4
    <3>2. ps \in [1..m -> NamedDecls]
      BY <2>1, <3>1
    <3> HIDE DEF ps
    <3> QED BY <1>1, <3>2, FunctionIsSeq
  <2>3. Len(ps) = m
    BY <1>1, <2>1, <2>2, LenProperties
  <2> QED BY <2>1, <2>2, <2>3
<1> HIDE DEF ps
<1>6. /\ more \in Seq(NamedDecls) /\ Len(more) = m + 1
      /\ more[1] = f /\ \A k \in 1..m : more[1 + k] = ps[k]
  <2>1. <<f>> \in Seq(NamedDecls) /\ Len(<<f>>) = 1 /\ <<f>>[1] = f
    BY <1>3
  <2> DEFINE s == <<f>>
  <2>2. s \in Seq(NamedDecls) /\ Len(s) = 1 /\ s[1] = f
    BY <2>1
  <2> HIDE DEF s, more
  <2>9. /\ s \o ps \in Seq(NamedDecls) /\ Len(s \o ps) = Len(s) + Len(ps)
        /\ \A k \in 1..(Len(s) + Len(ps)) :
              (s \o ps)[k] = IF k <= Len(s) THEN s[k] ELSE ps[k - Len(s)]
    BY <1>5, <2>2, ConcatProperties
  <2>3. /\ s \o ps \in Seq(NamedDecls) /\ Len(s \o ps) = 1 + m
        /\ \A k \in 1..(1 + m) : (s \o ps)[k] = IF k <= 1 THEN s[k] ELSE ps[k - 1]
    BY <1>5, <2>2, <2>9
  <2>4. \A k \in 1..m : 1 + k \in 1..(1 + m) /\ ~(1 + k <= 1) /\ 1 + k - 1 = k
    BY <1>1
  <2>5. 1 \in 1..(1 + m) /\ 1 <= 1
    BY <1>1
  <2>6. (s \o ps)[1] = f
    BY <2>2, <2>3, <2>5
  <2>7. \A k \in 1..m : (s \o ps)[1 + k] = ps[k]
    BY <2>3, <2>4
  <2>8. 1 + m = m + 1
    BY <1>1
  <2> QED BY <2>3, <2>6, <2>7, <2>8 DEF s, more
<1> HIDE DEF more
<1>7. \A k \in 1..(m + 1) : k = 1 \/ (k - 1 \in 1..m /\ k = 1 + (k - 1))
  BY <1>1
<1>8. ASSUME NEW k \in 1..Len(more)
      PROVE  more[k].items = <<>> /\ ToSet(more[k].params) \subseteq 1..(n + Len(more))
  <2>1. CASE k = 1
    <3>1. n + 1 + m = n + Len(more)
      BY <1>1, <1>6
    <3> QED BY <1>2, <1>3, <1>6, <2>1, <3>1
  <2>2. CASE k # 1
    <3>1. k - 1 \in 1..m /\ k = 1 + (k - 1)
      BY <1>6, <1>7, <2>2
    <3>2. more[k] = Declared("ParamVar", names[k - 1], FALSE)
      BY <1>5, <1>6, <3>1
    <3>3. ToSet(<<>>) = {}
      BY DEF ToSet
    <3> QED BY <1>4, <3>1, <3>2, <3>3
  <2> QED BY <2>1, <2>2
<1>9. es = decls \o more
  BY <1>0 DEF FunctionAndParams, more, f, ps, ids, names
<1>10. /\ DeclList(es) /\ Extended(decls, es, 0, <<>>) /\ Len(es) = n + Len(more)
       /\ \A g \in 1..n : es[g] = decls[g]
       /\ \A k \in 1..Len(more) : es[n + k] = more[k]
  <2> DEFINE g == 0
             new == <<>>
  <2>1. g \in 1..Len(decls) => new = <<>>
    OBVIOUS
  <2>2. \A k \in 1..Len(more) : more[k].items = <<>> /\ ToSet(more[k].params) \subseteq 1..(Len(decls) + Len(more))
    BY <1>8 DEF n
  <2>3. more \in Seq(NamedDecls)
    BY <1>6
  <2> DEFINE all == decls \o more
  <2> HIDE DEF g, new
  <2>4. /\ DeclList(all) /\ Extended(decls, all, g, new) /\ Len(all) = Len(decls) + Len(more)
        /\ \A h \in 1..Len(decls) : all[h] = decls[h]
        /\ \A k \in 1..Len(more) : all[Len(decls) + k] = more[k]
    BY <2>1, <2>2, <2>3, DeclsAdded
  <2> HIDE DEF all
  <2>5. es = all
    BY <1>9 DEF all
  <2> QED BY <2>4, <2>5 DEF g, new, n
<1>11. Len(es) = n + 1 + m
  BY <1>1, <1>6, <1>10
<1>12. es[n + 1] = f
  <2>1. 1 \in 1..Len(more)
    BY <1>1, <1>6
  <2> QED BY <1>6, <1>10, <2>1
<1>13. ASSUME NEW k \in 1..m PROVE es[n + 1 + k] = Declared("ParamVar", names[k], FALSE)
  <2>1. 1 + k \in 1..Len(more) /\ n + 1 + k = n + (1 + k)
    BY <1>1, <1>6
  <2> QED BY <1>5, <1>6, <1>10, <2>1
<1> QED BY <1>10, <1>11, <1>12, <1>13 DEF n, m, f, ids, names, es

(***************************************************************************)
(* The invariant of the scopes.                                            *)
(***************************************************************************)
UndeclaredId == "use of undeclared identifier"
RightlyUndeclared(name, kind) ==
    LET d == Meant(name)
    IN  d = None \/ name \in LeakedNames \/ (decls[d].kind = "Function") # (kind = "Function")

Scoping ==
    /\ DeclList(decls) /\ AllMentions(decls)
    /\ tables \in Tables /\ scopes \in Tables
    /\ Bounded(tables, Len(decls)) /\ Bounded(scopes, Len(decls))
    /\ phase = "parse" => /\ Resolved(open, decls, tables, scopes)
                          /\ Bodied(open, returned)
                          /\ open # <<>> => func \in 1..Len(decls)
    /\ phase = "rejected" /\ reason[1] = UndeclaredId => RightlyUndeclared(reason[2], reason[3])

\* What it says while the text is parsed.
LEMMA WhileScoping ==
  ASSUME Inv, Scoping, phase = "parse"
  PROVE  /\ open \in Seq(Frames) /\ loop \in LoopsOf
         /\ tables \in Tables /\ scopes \in Tables /\ Len(tables) >= 1
         /\ DeclList(decls) /\ AllMentions(decls)
         /\ Resolved(open, decls, tables, scopes) /\ Bodied(open, returned)
         /\ open # <<>> => func \in 1..Len(decls)
         /\ Len(decls) \in Nat
<1>1. open \in Seq(Frames) /\ loop \in LoopsOf /\ Len(tables) \in Nat /\ Len(tables) > 0
  BY WhileParsing
<1>2. Len(tables) >= 1
  BY <1>1
<1> QED BY <1>1, <1>2, DeclTypes DEF Scoping

\* Between top-level declarations one table is on the stack.
LEMMA OneTable ==
  ASSUME Inv, phase = "parse", open = <<>>
  PROVE  Len(tables) = 1
<1>1. Good(open, loop, depth, Len(tables), Len(scopes), func)
  BY WhileParsing
<1>2. depth = 0
  BY <1>1, NothingCounted DEF Good
<1> QED BY <1>1, <1>2 DEF Good

\* A step of the parser.
LEMMA ScopedStep ==
  ASSUME Scoping, phase' = "parse", NEW g, NEW new \in Seq(BodyItems),
         DeclList(decls'), Extended(decls, decls', g, new),
         \A k \in 1..Len(new) : MentionOK(decls', new[k]),
         Resolved(open', decls', tables', scopes'), Bodied(open', returned'),
         open' # <<>> => func' \in 1..Len(decls')
  PROVE  Scoping'
<1>1. AllMentions(decls')
  BY MentionsExtended DEF Scoping
<1>2. /\ tables' \in Tables /\ scopes' \in Tables
      /\ Bounded(tables', Len(decls')) /\ Bounded(scopes', Len(decls'))
  BY DEF Resolved
<1> QED BY <1>1, <1>2 DEF Scoping

\* A step that declares nothing keeps the matching of tables and scopes if
\* what it opens or closes does.
LEMMA ScopedStay ==
  ASSUME Scoping, phase' = "parse", decls' = decls,
         Resolved(open', decls, tables', scopes'), Bodied(open', returned'),
         open' # <<>> => func' \in 1..Len(decls)
  PROVE  Scoping'
<1>1. /\ tables' \in Tables /\ scopes' \in Tables
      /\ Bounded(tables', Len(decls)) /\ Bounded(scopes', Len(decls))
  BY DEF Resolved
<1> QED BY <1>1 DEF Scoping

\* The end of it.
LEMMA ScopedStop ==
  ASSUME Scoping, NEW how, NEW why, Stop(how, why), how # "parse",
         how = "rejected" => why[1] # UndeclaredId
  PROVE  Scoping'
<1>1. /\ phase' = how /\ reason' = why
      /\ decls' = decls /\ tables' = tables /\ scopes' = scopes
  BY DEF Stop, parserVars
<1> QED BY <1>1 DEF Scoping

\* A text rejected for anything but an unknown name breaks no promise about
\* names,
LEMMA ScopedReject ==
  ASSUME Scoping, NEW why, Reject(why), why # UndeclaredId
  PROVE  Scoping'
<1>1. <<why>>[1] # UndeclaredId
  OBVIOUS
<1> QED BY <1>1, ScopedStop DEF Reject

\* and none rejected for a name that C does not know either.
LEMMA ScopedUndeclared ==
  ASSUME Scoping, NEW name, NEW kind, Undeclared(name, kind), RightlyUndeclared(name, kind)
  PROVE  Scoping'
<1>1. /\ phase' = "rejected" /\ reason' = <<UndeclaredId, name, kind>>
      /\ decls' = decls /\ tables' = tables /\ scopes' = scopes
  BY DEF Undeclared, Stop, parserVars, UndeclaredId
<1>2. reason'[2] = name /\ reason'[3] = kind
  BY <1>1
<1>3. RightlyUndeclared(name, kind)'
  BY <1>1 DEF RightlyUndeclared, Meant, LeakedNames, Leaked, LeakedBy
<1>4. RightlyUndeclared(reason[2], reason[3])'
  BY <1>2, <1>3 DEF RightlyUndeclared, Meant
<1> QED BY <1>1, <1>4 DEF Scoping

\* The names of variables and functions are names, and not the anonymous one.
LEMMA NamesAre ==
  /\ VarNames \subseteq Names /\ FunctionNames \subseteq Names
  /\ NoName \notin VarNames /\ NoName \notin FunctionNames
  /\ VarNames \subseteq STRING
  /\ \A p \in Prototypes : p.name \in FunctionNames
BY DeclarationsAssumption DEF Names, FunctionNames

\* A look-up finds nothing.
LEMMA NothingFound ==
  ASSUME Inv, Scoping, phase = "parse", returned = "nothing" \/ Bodied(open, "nothing"),
         NEW name \in Names
  PROVE  /\ FindVar(tables, decls, name) = None => RightlyUndeclared(name, "Var")
         /\ FindFunction(tables, decls, name) = None => RightlyUndeclared(name, "Function")
<1>1. /\ open \in Seq(Frames) /\ DeclList(decls) /\ Resolved(open, decls, tables, scopes)
      /\ Bodied(open, "nothing")
  BY WhileScoping
<1>2. LeakedNames = LeakedNamesIn(decls) /\ Meant(name) = MeantIn(scopes, name)
  BY <1>1, LeakedIsLeakedIn DEF Meant, MeantIn
<1>3. CASE name \in LeakedNames
  BY <1>3 DEF RightlyUndeclared
<1>4. CASE name \notin LeakedNames
  <2>1. ASSUME FindVar(tables, decls, name) = None
        PROVE  Meant(name) = None \/ decls[Meant(name)].kind = "Function"
    BY <1>1, <1>2, <1>4, <2>1, VariableFound
  <2>2. ASSUME FindFunction(tables, decls, name) = None
        PROVE  Meant(name) = None \/ decls[Meant(name)].kind # "Function"
    BY <1>1, <1>2, <1>4, <2>2, FunctionFound
  <2> QED BY <2>1, <2>2 DEF RightlyUndeclared
<1> QED BY <1>3, <1>4

\* A mention of what was found.
LEMMA Mentioned ==
  ASSUME Inv, Scoping, phase = "parse", Bodied(open, "nothing"), NEW name \in Names,
         NEW d \in {FindVar(tables, decls, name), FindFunction(tables, decls, name)}, d # None
  PROVE  /\ d \in 1..Len(decls)
         /\ Mention(d, Meant(name)) \in BodyItems /\ MentionOK(decls, Mention(d, Meant(name)))
<1>1. /\ open \in Seq(Frames) /\ DeclList(decls) /\ Resolved(open, decls, tables, scopes)
      /\ Len(tables) >= 1
  BY WhileScoping
<1>2. Meant(name) = MeantIn(scopes, name)
  BY DEF Meant, MeantIn
<1>3. Mention(d, Meant(name)) = [kind |-> decls[d].kind, decl |-> d, meant |-> MeantIn(scopes, name)]
  BY <1>2 DEF Mention
<1> QED BY <1>1, <1>3, MentionOfFound

\* A body's items with one more.
LEMMA ItemAdded ==
  ASSUME DeclList(decls), func \in 1..Len(decls), NEW item \in BodyItems
  PROVE  LET es == Item(item)
         IN  /\ DeclList(es) /\ Extended(decls, es, func, <<item>>) /\ Len(es) = Len(decls)
             /\ <<item>> \in Seq(BodyItems)
<1> DEFINE new == <<item>>
           es == [decls EXCEPT ![func].items = @ \o new]
<1>1. new \in Seq(BodyItems)
  OBVIOUS
<1>2. es = Item(item)
  <2>1. decls[func].items \in Seq(BodyItems)
    BY DeclTypes
  <2>2. Append(decls[func].items, item) = decls[func].items \o new
    BY <2>1, AppendIsConcat
  <2> HIDE DEF new
  <2> QED BY <2>2 DEF Item
<1> HIDE DEF new
<1>3. DeclList(es) /\ Extended(decls, es, func, new) /\ Len(es) = Len(decls)
  BY <1>1, ItemsAdded
<1> HIDE DEF es
<1> QED BY <1>1, <1>2, <1>3 DEF new

\* A statement that is one mention.
LEMMA ItemStep ==
  ASSUME Inv, Scoping, phase = "parse", phase' = "parse", open # <<>>,
         NEW item \in BodyItems, MentionOK(decls, item), decls' = Item(item), func' = func,
         Resolved(open', decls, tables', scopes'), Bodied(open', returned')
  PROVE  Scoping'
<1>1. DeclList(decls) /\ func \in 1..Len(decls)
  BY WhileScoping
<1> DEFINE new == <<item>>
<1>2. /\ DeclList(decls') /\ Extended(decls, decls', func, new) /\ Len(decls') = Len(decls)
      /\ new \in Seq(BodyItems)
  BY <1>1, ItemAdded
<1>3. MentionOK(decls', item)
  BY <1>1, <1>2, MentionStaysOK
<1>4. \A k \in 1..Len(new) : new[k] = item
  OBVIOUS
<1>5. Resolved(open', decls', tables', scopes')
  BY <1>1, <1>2, ResolvedExtended
<1> HIDE DEF new
<1>6. \A k \in 1..Len(new) : MentionOK(decls', new[k])
  BY <1>3, <1>4
<1>7. func' \in 1..Len(decls')
  BY <1>1, <1>2
<1> QED BY <1>2, <1>5, <1>6, <1>7, ScopedStep

\* At the end of a statement no declaration is being parsed.
LEMMA FinishedBodied ==
  ASSUME Inv, Scoping, AtStatement, NEW kind, Finish(kind)
  PROVE  /\ phase = "parse" /\ open # <<>> /\ open' = open
         /\ Bodied(open, "nothing") /\ Bodied(open', returned')
<1>1. phase = "parse" /\ open # <<>> /\ open' = open /\ returned = "nothing"
  BY DEF AtStatement, Finish
<1>2. Bodied(open, "nothing")
  BY <1>1, WhileScoping
<1> QED BY <1>1, <1>2, BodiedAnyway

\* The statements that open no scope, and the mentions, keep the matching.
LEMMA SimpleScoped ==
  ASSUME Inv, Scoping
  PROVE  /\ EmptyStmt \/ LoopExit => Scoping'
         /\ \A v \in BOOLEAN : ReturnStmt(v) => Scoping'
         /\ \A n \in VarNames : UseVariable(n) => Scoping'
         /\ \A n \in FunctionNames, argc \in 0..1 : CallFunction(n, argc) => Scoping'
<1>1. ASSUME NEW kind, AtStatement, Finish(kind), phase' = phase, decls' = decls, func' = func,
             tables' = tables, scopes' = scopes
      PROVE  Scoping'
  <2>1. /\ phase = "parse" /\ open # <<>> /\ open' = open /\ Bodied(open', returned')
    BY <1>1, FinishedBodied
  <2>2. Resolved(open', decls, tables', scopes') /\ func' \in 1..Len(decls)
    BY <1>1, <2>1, WhileScoping
  <2> QED BY <1>1, <2>1, <2>2, ScopedStay
<1>2. ASSUME NEW kind, NEW n \in Names, NEW d \in {FindVar(tables, decls, n), FindFunction(tables, decls, n)},
             d # None, AtStatement, Finish(kind), phase' = phase, func' = func,
             tables' = tables, scopes' = scopes, decls' = Item(Mention(d, Meant(n)))
      PROVE  Scoping'
  <2>1. /\ phase = "parse" /\ open # <<>> /\ open' = open
        /\ Bodied(open, "nothing") /\ Bodied(open', returned')
    BY <1>2, FinishedBodied
  <2>2. Mention(d, Meant(n)) \in BodyItems /\ MentionOK(decls, Mention(d, Meant(n)))
    BY <1>2, <2>1, Mentioned
  <2>3. Resolved(open', decls, tables', scopes')
    BY <1>2, <2>1, WhileScoping
  <2> QED BY <1>2, <2>1, <2>2, <2>3, ItemStep
<1>3. ASSUME EmptyStmt PROVE Scoping'
  BY <1>1, <1>3 DEF EmptyStmt, Parsing
<1>4. ASSUME LoopExit PROVE Scoping'
  <2>1. CASE loop.call # "while"
    BY <1>4, <2>1, ScopedReject DEF LoopExit, UndeclaredId
  <2>2. CASE loop.call = "while"
    BY <1>1, <1>4, <2>2 DEF LoopExit, Parsing
  <2> QED BY <2>1, <2>2
<1>5. ASSUME NEW v \in BOOLEAN, ReturnStmt(v) PROVE Scoping'
  <2>1. CASE v = decls[func].void
    BY <1>5, <2>1, ScopedReject DEF ReturnStmt, UndeclaredId
  <2>2. CASE v # decls[func].void
    BY <1>1, <1>5, <2>2 DEF ReturnStmt, Parsing
  <2> QED BY <2>1, <2>2
<1>6. ASSUME NEW n \in VarNames, UseVariable(n) PROVE Scoping'
  <2>1. n \in Names /\ phase = "parse" /\ returned = "nothing"
    BY <1>6, NamesAre DEF UseVariable, AtStatement
  <2>2. CASE FindVar(tables, decls, n) = None
    <3>1. Undeclared(n, "Var")
      BY <1>6, <2>2 DEF UseVariable
    <3>2. RightlyUndeclared(n, "Var")
      BY <2>1, <2>2, NothingFound
    <3> QED BY <3>1, <3>2, ScopedUndeclared
  <2>3. CASE FindVar(tables, decls, n) # None
    <3> DEFINE d == FindVar(tables, decls, n)
    <3>1. /\ AtStatement /\ Finish("simple") /\ phase' = phase /\ func' = func
          /\ tables' = tables /\ scopes' = scopes /\ decls' = Item(Mention(d, Meant(n)))
      BY <1>6, <2>3 DEF UseVariable, Parsing
    <3> QED BY <1>2, <2>1, <2>3, <3>1
  <2> QED BY <2>2, <2>3
<1>7. ASSUME NEW n \in FunctionNames, NEW argc \in 0..1, CallFunction(n, argc) PROVE Scoping'
  <2> DEFINE d == FindFunction(tables, decls, n)
  <2>1. n \in Names /\ phase = "parse" /\ returned = "nothing"
    BY <1>7, NamesAre DEF CallFunction, AtStatement
  <2>2. CASE d = None
    <3>1. Undeclared(n, "Function")
      BY <1>7, <2>2 DEF CallFunction
    <3>2. RightlyUndeclared(n, "Function")
      BY <2>1, <2>2, NothingFound
    <3> QED BY <3>1, <3>2, ScopedUndeclared
  <2>3. CASE d # None /\ Len(decls[d].params) # argc
    BY <1>7, <2>3, ScopedReject DEF CallFunction, UndeclaredId
  <2>4. CASE d # None /\ Len(decls[d].params) = argc
    <3>1. /\ AtStatement /\ Finish("simple") /\ phase' = phase /\ func' = func
          /\ tables' = tables /\ scopes' = scopes /\ decls' = Item(Mention(d, Meant(n)))
      BY <1>7, <2>4 DEF CallFunction, Parsing
    <3> QED BY <1>2, <2>1, <2>4, <3>1
  <2> QED BY <2>2, <2>3, <2>4
<1> QED BY <1>3, <1>4, <1>5, <1>6, <1>7

\* A new variable, after the items of the function's body, if any, are added.
LEMMA VariableAdded ==
  ASSUME NEW ds, DeclList(ds), NEW name \in STRING, NEW extern \in BOOLEAN,
         NEW es, es = Append(ds, Declared("Var", name, extern))
  PROVE  /\ DeclList(es) /\ Extended(ds, es, 0, <<>>) /\ Len(es) = Len(ds) + 1
         /\ es[Len(ds) + 1] = Declared("Var", name, extern)
         /\ \A f \in 1..Len(ds) : es[f] = ds[f]
<1> DEFINE d == Declared("Var", name, extern)
           more == <<d>>
           all == ds \o more
           g == 0
           new == <<>>
<1>1. d \in NamedDecls /\ d.items = <<>> /\ d.params = <<>>
  <2>1. <<>> \in Seq(BodyItems) /\ <<>> \in Seq(Nat)
    BY EmptySeq
  <2> QED BY <2>1 DEF Declared, NamedDecls, DeclKinds
<1> HIDE DEF d
<1>2. more \in Seq(NamedDecls) /\ Len(more) = 1 /\ more[1] = d
  BY <1>1
<1>3. ds \in Seq(NamedDecls) /\ Len(ds) \in Nat
  BY DeclTypes DEF DeclList
<1>4. es = all
  BY <1>1, <1>3, AppendIsConcat DEF d
<1> HIDE DEF more, all
<1>5. \A k \in 1..Len(more) : /\ more[k].items = <<>>
                              /\ ToSet(more[k].params) \subseteq 1..(Len(ds) + Len(more))
  <2>1. \A k \in 1..Len(more) : k = 1
    BY <1>2
  <2>2. ToSet(<<>>) = {}
    BY DEF ToSet
  <2> QED BY <1>1, <1>2, <2>1, <2>2
<1>6. g \in 1..Len(ds) => new = <<>>
  OBVIOUS
<1> HIDE DEF g, new
<1>7. /\ DeclList(all) /\ Extended(ds, all, g, new) /\ Len(all) = Len(ds) + Len(more)
      /\ \A f \in 1..Len(ds) : all[f] = ds[f]
      /\ \A k \in 1..Len(more) : all[Len(ds) + k] = more[k]
  BY <1>2, <1>5, <1>6, DeclsAdded DEF all
<1>8. all[Len(ds) + 1] = d
  BY <1>2, <1>7
<1> QED BY <1>2, <1>4, <1>7, <1>8 DEF g, new, d

\* A local variable keeps the matching.
LEMMA LocalVariableScoped ==
  ASSUME Inv, Scoping, NEW n \in VarNames, NEW init \in VarNames \cup {NoName},
         LocalVariable(n, init)
  PROVE  Scoping'
<1> DEFINE d   == Len(decls) + 1
           i   == IF init = NoName THEN None ELSE FindVar(tables, decls, init)
           use == IF i = None THEN <<>> ELSE <<Mention(i, Meant(init))>>
           def == <<[kind |-> "Local", decl |-> d, meant |-> d]>>
           new == use \o def
           ms  == [decls EXCEPT ![func].items = @ \o new]
           es  == Append(ms, Declared("Var", n, FALSE))
<1>1. /\ phase = "parse" /\ returned = "nothing" /\ open # <<>>
      /\ n \in Names /\ n # NoName /\ n \in STRING
      /\ init # NoName => init \in Names
  BY NamesAre DEF LocalVariable, AtStatement
<1>2. /\ open \in Seq(Frames) /\ tables \in Tables /\ Len(tables) >= 1
      /\ DeclList(decls) /\ func \in 1..Len(decls) /\ Len(decls) \in Nat
      /\ Resolved(open, decls, tables, scopes) /\ Bodied(open, "nothing")
  BY <1>1, WhileScoping
<1>3. CASE init # NoName /\ i = None
  <2>1. Undeclared(init, "Var")
    BY <1>3 DEF LocalVariable
  <2>2. RightlyUndeclared(init, "Var")
    BY <1>1, <1>3, NothingFound
  <2> QED BY <2>1, <2>2, ScopedUndeclared
<1>4. CASE (init = NoName \/ i # None) /\ ~Standalone /\ Last(tables)[n] # None
  BY <1>4, ScopedReject DEF LocalVariable, UndeclaredId
<1>5. CASE (init = NoName \/ i # None) /\ (Standalone \/ Last(tables)[n] = None)
  <2>1. /\ phase' = "parse" /\ AtStatement /\ Finish("simple") /\ func' = func
        /\ decls' = Append([decls EXCEPT ![func].items = @ \o use \o def], Declared("Var", n, FALSE))
        /\ tables' = IF Standalone THEN tables ELSE AddSymbol(tables, n, d)
        /\ scopes' = IF Standalone THEN scopes ELSE AddSymbol(scopes, n, d)
    BY <1>1, <1>5 DEF LocalVariable, Parsing
  <2>2. /\ use \in Seq(BodyItems) /\ def \in Seq(BodyItems)
        /\ \A k \in 1..Len(use) : MentionOK(decls, use[k])
        /\ Len(use) \in Nat
        /\ Len(def) = 1 /\ def[1] = [kind |-> "Local", decl |-> d, meant |-> d]
    <3>1. [kind |-> "Local", decl |-> d, meant |-> d] \in BodyItems
      BY <1>2 DEF BodyItems
    <3>2. def \in Seq(BodyItems) /\ Len(def) = 1 /\ def[1] = [kind |-> "Local", decl |-> d, meant |-> d]
      BY <3>1
    <3>3. CASE i = None
      <4>1. use = <<>>
        BY <3>3
      <4>2. <<>> \in Seq(BodyItems) /\ Len(<<>>) = 0 /\ 1..0 = {}
        BY EmptySeq
      <4> HIDE DEF use
      <4> QED BY <3>2, <4>1, <4>2
    <3>4. CASE i # None
      <4> DEFINE m == Mention(i, Meant(init))
      <4>1. init \in Names /\ i = FindVar(tables, decls, init)
        BY <1>1, <3>4
      <4>2. m \in BodyItems /\ MentionOK(decls, m)
        <5> HIDE DEF i
        <5> QED BY <1>1, <1>2, <3>4, <4>1, Mentioned
      <4>3. use = <<m>>
        BY <3>4
      <4> HIDE DEF m, use, i
      <4>4. Len(<<m>>) = 1 /\ <<m>>[1] = m /\ <<m>> \in Seq(BodyItems)
        BY <4>2
      <4>5. \A k \in 1..Len(<<m>>) : <<m>>[k] = m
        OBVIOUS
      <4>6. \A k \in 1..Len(use) : MentionOK(decls, use[k])
        BY <4>2, <4>3, <4>5
      <4> QED BY <3>2, <4>3, <4>4, <4>6
    <3> QED BY <3>3, <3>4
  <2> HIDE DEF i, use, def, d
  <2>3. new \in Seq(BodyItems) /\ decls' = es
    <3>1. new \in Seq(BodyItems)
      BY <2>2, ConcatProperties
    <3>2. decls[func].items \in Seq(BodyItems)
      BY <1>2, DeclTypes
    <3>3. (decls[func].items \o use) \o def = decls[func].items \o new
      <4> DEFINE s == decls[func].items
      <4>1. s \in Seq(BodyItems) /\ use \in Seq(BodyItems) /\ def \in Seq(BodyItems)
        BY <2>2, <3>2
      <4> HIDE DEF s, ms, es
      <4>2. (s \o use) \o def = s \o (use \o def)
        BY <4>1, ConcatAssociative
      <4> QED BY <4>2 DEF s
    <3> HIDE DEF new
    <3>4. [decls EXCEPT ![func].items = @ \o use \o def] = ms
      BY <3>3
    <3> QED BY <2>1, <3>1, <3>4
  <2> HIDE DEF new
  <2>4. DeclList(ms) /\ Extended(decls, ms, func, new) /\ Len(ms) = Len(decls)
    BY <1>2, <2>3, ItemsAdded
  <2> HIDE DEF ms
  <2>5. /\ DeclList(es) /\ Extended(ms, es, 0, <<>>) /\ Len(es) = Len(ms) + 1
        /\ es[Len(ms) + 1] = Declared("Var", n, FALSE)
    BY <1>1, <2>4, VariableAdded
  <2> HIDE DEF es
  <2>6. Extended(decls, es, func, new)
    BY <1>2, <2>4, <2>5, ExtendedTwice
  <2>7. /\ d \in 1..Len(es) /\ Len(es) = d
        /\ es[d].name = n /\ es[d].kind = "Var" /\ d # None
    <3>1. Len(es) = d /\ d \in Nat /\ d >= 1
      BY <1>2, <2>4, <2>5 DEF d
    <3>2. es[d] = Declared("Var", n, FALSE)
      BY <2>4, <2>5 DEF d
    <3> QED BY <3>1, <3>2 DEF Declared, None
  <2>8. ASSUME NEW k \in 1..Len(new) PROVE MentionOK(es, new[k])
    <3>1. Len(use \o def) = Len(use) + Len(def)
          /\ \A j \in 1..(Len(use) + Len(def)) :
                (use \o def)[j] = IF j <= Len(use) THEN use[j] ELSE def[j - Len(use)]
      BY <2>2, ConcatProperties
    <3>2. k \in 1..(Len(use) + 1) /\ new[k] = IF k <= Len(use) THEN use[k] ELSE def[k - Len(use)]
      BY <2>2, <2>8, <3>1 DEF new
    <3>3. CASE k <= Len(use)
      <4>1. k \in 1..Len(use)
        BY <2>2, <3>2, <3>3
      <4>2. MentionOK(es, use[k])
        BY <1>2, <2>2, <2>5, <2>6, <4>1, MentionStaysOK
      <4> QED BY <3>2, <3>3, <4>2
    <3>4. CASE ~(k <= Len(use))
      <4>1. k - Len(use) = 1
        BY <2>2, <3>2, <3>4
      <4>2. new[k] = [kind |-> "Local", decl |-> d, meant |-> d]
        BY <2>2, <3>2, <3>4, <4>1
      <4>3. d \in 0..Len(es)
        BY <2>7
      <4> QED BY <2>7, <4>2, <4>3 DEF MentionOK
    <3> QED BY <3>3, <3>4
  <2>9. open' = open /\ Bodied(open', returned')
    BY <2>1, FinishedBodied
  <2>10. Resolved(open, es, tables, scopes)
    BY <1>2, <2>5, <2>6, ResolvedExtended
  <2>11. Resolved(open, es, tables', scopes')
    <3>1. CASE Standalone
      BY <2>1, <2>10, <3>1
    <3>2. CASE ~Standalone
      <4>1. Last(tables)[n] = None /\ tables' = AddSymbol(tables, n, d) /\ scopes' = AddSymbol(scopes, n, d)
        BY <1>5, <2>1, <3>2
      <4>2. es[d].kind # "Function"
        BY <2>7
      <4>3. Resolved(open, es, AddSymbol(tables, n, d), AddSymbol(scopes, n, d))
        BY <1>1, <1>2, <2>5, <2>7, <2>10, <4>1, <4>2, ResolvedAdded
      <4> QED BY <4>1, <4>3
    <3> QED BY <3>1, <3>2
  <2>12. func' \in 1..Len(decls')
    BY <1>2, <2>1, <2>3, <2>4, <2>5
  <2>13. /\ DeclList(decls') /\ Extended(decls, decls', func, new)
         /\ \A k \in 1..Len(new) : MentionOK(decls', new[k])
         /\ Resolved(open', decls', tables', scopes')
    BY <2>3, <2>5, <2>6, <2>8, <2>9, <2>11
  <2> QED BY <2>1, <2>3, <2>9, <2>12, <2>13, ScopedStep
<1> QED BY <1>3, <1>4, <1>5

\* New declarations alone.
LEMMA ScopedGrowth ==
  ASSUME Scoping, phase' = "parse", DeclList(decls'), Extended(decls, decls', 0, <<>>),
         Resolved(open', decls', tables', scopes'), Bodied(open', returned'),
         open' # <<>> => func' \in 1..Len(decls')
  PROVE  Scoping'
<1> DEFINE g == 0
           new == <<>>
<1>1. new \in Seq(BodyItems) /\ \A k \in 1..Len(new) : MentionOK(decls', new[k])
  BY EmptySeq
<1>2. Extended(decls, decls', g, new)
  OBVIOUS
<1> HIDE DEF g, new
<1> QED BY <1>1, <1>2, ScopedStep

\* Outside of any function no call is open.
LEMMA NoneOpen == Bodied(<<>>, "nothing") /\ <<>> \in Seq(Frames)
BY EmptySeq DEF Bodied

\* A global variable keeps the matching.
LEMMA GlobalVariableScoped ==
  ASSUME Inv, Scoping, NEW n \in VarNames, NEW extern \in BOOLEAN, NEW more \in BOOLEAN,
         GlobalVariable(n, extern, more)
  PROVE  Scoping'
<1> DEFINE d == Len(decls) + 1
           es == Append(decls, Declared("Var", n, extern))
<1>1. phase = "parse" /\ open = <<>> /\ n \in Names /\ n # NoName /\ n \in STRING
  BY NamesAre DEF GlobalVariable, AtGlobal
<1>2. /\ tables \in Tables /\ DeclList(decls) /\ Len(decls) \in Nat
      /\ Resolved(open, decls, tables, scopes) /\ Bodied(open, returned) /\ Len(tables) = 1
  BY <1>1, WhileScoping, OneTable
<1>3. CASE tables[1][n] # None
  BY <1>3, ScopedReject DEF GlobalVariable, UndeclaredId
<1>4. CASE tables[1][n] = None
  <2>1. /\ phase' = "parse" /\ open' = open /\ returned' = returned
        /\ decls' = es
        /\ tables' = AddSymbol(tables, n, d) /\ scopes' = AddSymbol(scopes, n, d)
    BY <1>1, <1>4 DEF GlobalVariable, Parsing
  <2>2. /\ DeclList(es) /\ Extended(decls, es, 0, <<>>) /\ Len(es) = Len(decls) + 1
        /\ es[Len(decls) + 1] = Declared("Var", n, extern)
    <3>1. n \in STRING /\ DeclList(decls)
      BY <1>1, <1>2
    <3>2. es = Append(decls, Declared("Var", n, extern))
      OBVIOUS
    <3> HIDE DEF es
    <3> QED BY <3>1, <3>2, VariableAdded
  <2> HIDE DEF es, d
  <2>3. d \in 1..Len(es) /\ es[d].name = n
    BY <1>2, <2>2 DEF d, Declared
  <2>4. Resolved(open, es, tables, scopes)
    <3> DEFINE g == 0
               new == <<>>
    <3>1. Extended(decls, es, g, new)
      BY <2>2
    <3> HIDE DEF g, new
    <3> QED BY <1>2, <2>2, <3>1, ResolvedExtended
  <2>5. Resolved(open, es, AddSymbol(tables, n, d), AddSymbol(scopes, n, d))
    <3>1. open \in Seq(Frames) /\ Bodied(open, "nothing")
      BY <1>1, NoneOpen
    <3> QED BY <1>1, <1>2, <2>2, <2>3, <2>4, <3>1, ResolvedAdded
  <2>6. /\ DeclList(decls') /\ Extended(decls, decls', 0, <<>>)
        /\ Resolved(open', decls', tables', scopes') /\ Bodied(open', returned')
    BY <1>2, <2>1, <2>2, <2>5
  <2>7. open' = <<>>
    BY <1>1, <2>1
  <2> QED BY <2>1, <2>6, <2>7, ScopedGrowth
<1> QED BY <1>3, <1>4

\* Calls begin.
LEMMA BegunScoped ==
  ASSUME Inv, Scoping
  PROVE  /\ OpenBlock \/ BeginIf \/ BeginFor => Scoping'
         /\ \A call \in {"do", "while"} : BeginLoop(call) => Scoping'
<1>1. ASSUME NEW call \in {"block", "if", "for", "do", "while"}, AtStatement, Call(Frame(call)),
             phase' = phase, decls' = decls, func' = func,
             IF call \in {"block", "for"} THEN Enter ELSE tables' = tables /\ scopes' = scopes
      PROVE  Scoping'
  <2> DEFINE c == Frame(call)
  <2>1. /\ phase = "parse" /\ open # <<>> /\ returned = "nothing"
        /\ open' = Append(open, c) /\ returned' = "nothing"
    BY <1>1 DEF AtStatement, Call
  <2>2. /\ open \in Seq(Frames) /\ loop \in LoopsOf /\ DeclList(decls)
        /\ Resolved(open, decls, tables, scopes) /\ Bodied(open, "nothing")
        /\ func \in 1..Len(decls) /\ Len(decls) \in Nat
    BY <2>1, WhileScoping
  <2>3. c \in Frames /\ c.call = call
    BY <2>2, NewFrame DEF Calls
  <2> HIDE DEF c
  <2>4. ~Shares(c) /\ (Opens(c) <=> call \in {"block", "for"})
    <3>1. ~Shares(c)
      BY <2>3 DEF Shares
    <3>2. Opens(c) <=> call \in {"block", "for"}
      BY <2>3 DEF Opens
    <3> QED BY <3>1, <3>2
  <2>5. Bodied(open', returned')
    <3>1. ~Shares(Last(open))
      BY <2>1, <2>2 DEF Bodied
    <3> QED BY <2>1, <2>2, <2>3, <2>4, <3>1, BodiedPushed
  <2>6. Resolved(open', decls, tables', scopes')
    <3>1. CASE call \in {"block", "for"}
      <4>1. tables' = Append(tables, EmptyTable) /\ scopes' = Append(scopes, EmptyTable)
        BY <1>1, <3>1 DEF Enter, Deeper
      <4>2. /\ EmptyTable \in [Names -> Nat]
            /\ \A x \in Names : EmptyTable[x] <= Len(decls) /\ EmptyTable[x] = None
        BY <2>2, EmptyTableIs DEF None
      <4>3. Resolved(Append(open, c), decls, Append(tables, EmptyTable), Append(scopes, EmptyTable))
        BY <2>2, <2>3, <2>4, <3>1, <4>2, ResolvedEntered
      <4> QED BY <2>1, <4>1, <4>3
    <3>2. CASE ~(call \in {"block", "for"})
      <4>1. ~Scoped(c)
        BY <2>4, <3>2 DEF Scoped
      <4>2. Resolved(Append(open, c), decls, tables, scopes)
        BY <2>2, <2>3, <4>1, ResolvedPushed
      <4> QED BY <1>1, <2>1, <3>2, <4>2
    <3> QED BY <3>1, <3>2
  <2>7. phase' = "parse" /\ func' \in 1..Len(decls)
    BY <1>1, <2>1, <2>2
  <2> QED BY <1>1, <2>5, <2>6, <2>7, ScopedStay
<1>2. ASSUME OpenBlock PROVE Scoping'
  <2>1. /\ AtStatement /\ Call(Frame("block")) /\ phase' = phase /\ decls' = decls /\ func' = func
        /\ Enter
    BY <1>2 DEF OpenBlock, Parsing
  <2> QED BY <1>1, <2>1
<1>3. ASSUME BeginIf PROVE Scoping'
  <2>1. /\ AtStatement /\ Call(Frame("if")) /\ phase' = phase /\ decls' = decls /\ func' = func
        /\ tables' = tables /\ scopes' = scopes
    BY <1>3 DEF BeginIf, Parsing
  <2> QED BY <1>1, <2>1
<1>4. ASSUME BeginFor PROVE Scoping'
  <2>1. /\ AtStatement /\ Call(Frame("for")) /\ phase' = phase /\ decls' = decls /\ func' = func
        /\ Enter
    BY <1>4 DEF BeginFor, Parsing
  <2> QED BY <1>1, <2>1
<1>5. ASSUME NEW call \in {"do", "while"}, BeginLoop(call) PROVE Scoping'
  <2>1. /\ AtStatement /\ Call(Frame(call)) /\ phase' = phase /\ decls' = decls /\ func' = func
        /\ tables' = tables /\ scopes' = scopes
    BY <1>5 DEF BeginLoop, Parsing
  <2> QED BY <1>1, <2>1
<1> QED BY <1>2, <1>3, <1>4, <1>5

\* The stack at the end of a call.
LEMMA StackBelow ==
  ASSUME Inv, Scoping, phase = "parse", open # <<>>
  PROVE  /\ Front(open) \in Seq(Frames) /\ Top \in Frames /\ open = Append(Front(open), Top)
         /\ Bodied(Append(Front(open), Top), returned)
         /\ Resolved(Append(Front(open), Top), decls, tables, scopes)
         /\ Len(tables) >= 1 /\ DeclList(decls)
         /\ func \in 1..Len(decls)
<1>1. open \in Seq(Frames)
  BY WhileScoping
<1>2. Front(open) \in Seq(Frames) /\ Top \in Frames /\ open = Append(Front(open), Top)
  BY <1>1, Popped DEF Top
<1>3. Bodied(open, returned) /\ Resolved(open, decls, tables, scopes)
  BY WhileScoping
<1>4. Bodied(Append(Front(open), Top), returned)
  BY <1>2, <1>3
<1>5. Resolved(Append(Front(open), Top), decls, tables, scopes)
  BY <1>2, <1>3
<1> QED BY <1>2, <1>4, <1>5, WhileScoping

\* Calls end.
LEMMA EndedScoped ==
  ASSUME Inv, Scoping
  PROVE  CloseBlock \/ EndIf \/ EndLoop \/ EndFor => Scoping'
<1>1. ASSUME phase = "parse", open # <<>>, Return("other"), phase' = phase, decls' = decls, func' = func,
             tables' = IF Opens(Top) THEN Front(tables) ELSE tables,
             scopes' = IF Scoped(Top) THEN Front(scopes) ELSE scopes
      PROVE  Scoping'
  <2> DEFINE p == Front(open)
             c == Top
  <2>1. /\ p \in Seq(Frames) /\ c \in Frames
        /\ Bodied(Append(p, c), returned) /\ Resolved(Append(p, c), decls, tables, scopes)
        /\ Len(tables) >= 1 /\ DeclList(decls) /\ func \in 1..Len(decls)
    BY <1>1, StackBelow
  <2>2. open' = p /\ (returned' = "nothing" => Last(p).call = "block")
    <3>1. "other" # "nothing"
      OBVIOUS
    <3> QED BY <1>1, <3>1 DEF Return, Result
  <2> HIDE DEF p, c
  <2>3. Bodied(p, returned')
    BY <2>1, <2>2, BodiedBelow
  <2>4. Resolved(p, decls, tables', scopes')
    <3>1. CASE Scoped(c)
      <4>1. Resolved(p, decls, IF Opens(c) THEN Front(tables) ELSE tables, Front(scopes))
        BY <2>1, <3>1, ResolvedLeft
      <4> QED BY <1>1, <3>1, <4>1 DEF c
    <3>2. CASE ~Scoped(c)
      <4>1. ~Opens(c)
        BY <3>2 DEF Scoped
      <4>2. Resolved(p, decls, tables, scopes)
        BY <2>1, <3>2, ResolvedPopped
      <4> QED BY <1>1, <3>2, <4>1, <4>2 DEF c
    <3> QED BY <3>1, <3>2
  <2>5. phase' = "parse" /\ func' \in 1..Len(decls)
    BY <1>1, <2>1
  <2> QED BY <1>1, <2>2, <2>3, <2>4, <2>5, ScopedStay
<1>2. ASSUME CloseBlock PROVE Scoping'
  <2>1. /\ phase = "parse" /\ Len(open) > 1 /\ Top.call = "block" /\ Return("other")
        /\ phase' = phase /\ decls' = decls /\ func' = func
        /\ tables' = Front(tables) /\ scopes' = Front(scopes)
    BY <1>2 DEF CloseBlock, Parsing, Leave
  <2>2. open # <<>>
    <3>1. open \in Seq(Frames)
      BY <2>1, WhileScoping
    <3> QED BY <2>1, <3>1, LongStack
  <2>3. Opens(Top) /\ Scoped(Top)
    BY <2>1 DEF Opens, Scoped
  <2> QED BY <1>1, <2>1, <2>2, <2>3
<1>3. ASSUME EndIf \/ EndLoop PROVE Scoping'
  <2>1. /\ phase = "parse" /\ open # <<>> /\ Top.call \in {"if", "else", "do", "while"}
        /\ Return("other")
        /\ phase' = phase /\ decls' = decls /\ func' = func
        /\ tables' = tables /\ scopes' = scopes
    BY <1>3 DEF EndIf, EndLoop, Returned, Parsing
  <2>2. ~Opens(Top) /\ ~Scoped(Top)
    BY <2>1 DEF Opens, Shares, Scoped
  <2> QED BY <1>1, <2>1, <2>2
<1>4. ASSUME EndFor PROVE Scoping'
  <2>1. phase = "parse" /\ open # <<>> /\ Top.call = "for body"
    BY <1>4 DEF EndFor, Returned
  <2>2. CASE ~Top.wellFormed
    BY <1>4, <2>2, ScopedReject DEF EndFor, UndeclaredId
  <2>3. CASE Top.wellFormed
    <3>1. /\ Return("other") /\ phase' = phase /\ decls' = decls /\ func' = func
          /\ scopes' = Front(scopes)
          /\ tables' = IF Top.leave THEN Front(tables) ELSE tables
      BY <1>4, <2>3 DEF EndFor, Parsing, Leave
    <3>2. (Opens(Top) <=> Top.leave) /\ Scoped(Top)
      <4>1. Opens(Top) <=> Top.leave
        BY <2>1 DEF Opens
      <4>2. Shares(Top) <=> ~Top.leave
        BY <2>1 DEF Shares
      <4> QED BY <4>1, <4>2 DEF Scoped
    <3>3. /\ tables' = (IF Opens(Top) THEN Front(tables) ELSE tables)
          /\ scopes' = (IF Scoped(Top) THEN Front(scopes) ELSE scopes)
      BY <3>1, <3>2
    <3> QED BY <1>1, <2>1, <3>1, <3>3
  <2> QED BY <2>2, <2>3
<1> QED BY <1>2, <1>3, <1>4

\* else keeps the matching.
LEMMA ElseScoped ==
  ASSUME Inv, Scoping, Else
  PROVE  Scoping'
<1> DEFINE p == Front(open)
           c == Frame("else")
<1>1. /\ phase = "parse" /\ open # <<>> /\ Top.call = "if"
      /\ phase' = "parse" /\ decls' = decls /\ func' = func
      /\ open' = Append(p, c) /\ returned' = "nothing"
      /\ tables' = tables /\ scopes' = scopes
  BY DEF Else, Returned, Parsing
<1>2. /\ p \in Seq(Frames) /\ Top \in Frames
      /\ Bodied(Append(p, Top), returned) /\ Resolved(Append(p, Top), decls, tables, scopes)
      /\ func \in 1..Len(decls)
  BY <1>1, StackBelow
<1>3. c \in Frames /\ c.call = "else"
  BY <1>1, WhileScoping, NewFrame DEF Calls
<1> HIDE DEF p, c
<1>4. ~Scoped(Top) /\ ~Scoped(c) /\ ~Shares(c) /\ Top.call # "block"
  BY <1>1, <1>3 DEF Opens, Shares, Scoped
<1>5. Bodied(p, "nothing")
  BY <1>2, <1>4, BodiedBelow
<1>6. Bodied(Append(p, c), "nothing")
  <2>1. p # <<>> => ~Shares(Last(p))
    BY <1>5 DEF Bodied
  <2> QED BY <1>2, <1>3, <1>4, <1>5, <2>1, BodiedPushed
<1>7. Resolved(p, decls, tables, scopes)
  BY <1>2, <1>4, ResolvedPopped
<1>8. Resolved(Append(p, c), decls, tables, scopes)
  BY <1>2, <1>3, <1>4, <1>7, ResolvedPushed
<1> QED BY <1>1, <1>2, <1>6, <1>8, ScopedStay

\* The header of a for loop keeps the matching.
LEMMA ForHeaderScoped ==
  ASSUME Inv, Scoping,
         NEW name \in VarNames \cup {NoName}, NEW increment \in BOOLEAN, NEW brace \in BOOLEAN,
         ForHeader(name, increment, brace)
  PROVE  Scoping'
<1> DEFINE v == IF name = NoName THEN None ELSE FindVar(tables, decls, name)
           c == [call |-> "for body", upper |-> loop, leave |-> ShouldRunLeaveBlock(brace),
                 wellFormed |-> WellFormedFor(returned, increment)]
           b == Frame("block")
           p == Front(open)
<1>1. /\ phase = "parse" /\ open # <<>> /\ Top.call = "for"
  BY DEF ForHeader, Returned
<1>2. /\ p \in Seq(Frames) /\ Top \in Frames /\ open = Append(p, Top)
      /\ Bodied(Append(p, Top), returned) /\ Resolved(Append(p, Top), decls, tables, scopes)
      /\ func \in 1..Len(decls) /\ DeclList(decls)
  BY <1>1, StackBelow
<1>3. Opens(Top) /\ ~Shares(Top) /\ Top.call # "block"
  BY <1>1 DEF Opens, Shares
<1>4. Bodied(p, "nothing")
  BY <1>2, <1>3, BodiedBelow
<1>5. Bodied(open, "nothing")
  <2>1. p # <<>> => ~Shares(Last(p))
    BY <1>4 DEF Bodied
  <2>2. Bodied(Append(p, Top), "nothing")
    <3> HIDE DEF p
    <3> QED BY <1>2, <1>3, <1>4, <2>1, BodiedPushed
  <2> QED BY <1>2, <2>2
<1>6. name # NoName => name \in Names
  BY NamesAre
<1>7. CASE name # NoName /\ v = None
  <2>1. Undeclared(name, "Var")
    BY <1>7 DEF ForHeader
  <2>2. RightlyUndeclared(name, "Var")
    BY <1>1, <1>5, <1>6, <1>7, NothingFound
  <2> QED BY <2>1, <2>2, ScopedUndeclared
<1>8. CASE ~(name # NoName /\ v = None)
  <2>1. /\ phase' = "parse" /\ func' = func /\ tables' = tables
        /\ decls' = IF v = None THEN decls ELSE Item(Mention(v, Meant(name)))
        /\ open' = Append(p, c) \o (IF brace THEN <<b>> ELSE <<>>)
        /\ returned' = "nothing"
        /\ scopes' = IF brace THEN Append(scopes, EmptyTable) ELSE scopes
    BY <1>8 DEF ForHeader, Returned, Parsing
  <2>2. loop \in LoopsOf
    BY <1>1, WhileScoping
  <2>3. c \in Frames /\ c.call = "for body" /\ c.leave = ~brace
    BY <2>2 DEF Frames, Calls, ShouldRunLeaveBlock, WellFormedFor
  <2>4. b \in Frames /\ b.call = "block"
    BY <2>2, NewFrame DEF Calls
  <2> HIDE DEF c, b, p
  <2>5. (Opens(c) <=> ~brace) /\ (Shares(c) <=> brace)
    <3>1. Opens(c) <=> ~brace
      BY <2>3 DEF Opens
    <3>2. Shares(c) <=> brace
      BY <2>3 DEF Shares
    <3> QED BY <3>1, <3>2
  <2>6. Opens(b) /\ ~Shares(b)
    BY <2>4 DEF Opens, Shares
  <2>7. p # <<>> => ~Shares(Last(p))
    BY <1>4 DEF Bodied
  <2>8. Append(p, c) \in Seq(Frames) /\ Append(p, c) # <<>>
    BY <1>2, <2>3, Pushed
  <2>9. Bodied(open', returned') /\ Resolved(open', decls, tables', scopes')
    <3>1. CASE ~brace
      <4>1. open' = Append(p, c) /\ scopes' = scopes
        BY <2>1, <2>8, <3>1, ConcatEmptySeq
      <4>2. Bodied(Append(p, c), "nothing")
        BY <1>2, <1>4, <2>3, <2>5, <2>7, <3>1, BodiedPushed
      <4>3. Resolved(Append(p, c), decls, tables, scopes)
        BY <1>2, <1>3, <2>3, <2>5, <3>1, ResolvedBody
      <4> QED BY <2>1, <4>1, <4>2, <4>3
    <3>2. CASE brace
      <4>1. open' = Append(Append(p, c), b) /\ scopes' = Append(scopes, EmptyTable)
        BY <2>1, <2>4, <2>8, <3>2, AppendIsConcat
      <4>2. Bodied(Append(p, c), "other")
        <5> DEFINE r == "other"
        <5>1. r # "nothing"
          OBVIOUS
        <5> HIDE DEF r
        <5>2. Bodied(Append(p, c), r)
          BY <1>2, <1>4, <2>3, <2>7, <5>1, BodiedPushed
        <5> QED BY <5>2 DEF r
      <4>3. Bodied(Append(Append(p, c), b), "nothing")
        BY <2>4, <2>6, <2>8, <4>2, BodiedPushed
      <4>4. Resolved(Append(Append(p, c), b), decls, tables, Append(scopes, EmptyTable))
        BY <1>2, <1>3, <2>3, <2>4, <2>5, <2>6, <3>2, ResolvedShared
      <4> QED BY <2>1, <4>1, <4>3, <4>4
    <3> QED BY <3>1, <3>2
  <2>10. CASE v = None
    <3>1. decls' = decls
      BY <2>1, <2>10
    <3> QED BY <1>2, <2>1, <2>9, <3>1, ScopedStay
  <2>11. CASE v # None
    <3>1. name \in Names /\ v = FindVar(tables, decls, name)
      BY <1>6, <2>11
    <3>2. decls' = Item(Mention(v, Meant(name)))
      BY <2>1, <2>11
    <3> HIDE DEF v
    <3>3. Mention(v, Meant(name)) \in BodyItems /\ MentionOK(decls, Mention(v, Meant(name)))
      BY <1>1, <1>5, <2>11, <3>1, Mentioned
    <3> QED BY <1>1, <2>1, <2>9, <3>2, <3>3, ItemStep
  <2> QED BY <2>10, <2>11
<1> QED BY <1>7, <1>8

\* A function and its parameters: in the list, and in scope.
Truth == BOOLEAN

\* The facts of FunctionAdded that the cases below use, with the name of the
\* function and of each parameter.
LEMMA FunctionThere ==
  ASSUME NEW p \in Prototypes, NEW extern \in Truth, NEW body \in Truth, DeclList(decls)
  PROVE  /\ Len(decls) \in Nat /\ p.params \in Seq(STRING) /\ Len(p.params) \in Nat
         /\ p.name \in Names /\ p.name # NoName
         /\ DeclList(WithFunction(p, extern, body))
         /\ Extended(decls, WithFunction(p, extern, body), 0, <<>>)
         /\ Len(decls) + 1 \in 1..Len(WithFunction(p, extern, body))
         /\ WithFunction(p, extern, body)[Len(decls) + 1].name = p.name
         /\ WithFunction(p, extern, body)[Len(decls) + 1].kind = "Function"
         /\ WithFunction(p, extern, body)[Len(decls) + 1] = FunctionOf(p, extern, ParamIds(p.params), body)
         /\ WithFunction(p, extern, body)[Len(decls) + 1].params = ParamIds(p.params)
         /\ \A k \in 1..Len(p.params) :
               /\ WithFunction(p, extern, body)[Len(decls) + 1 + k].name = p.params[k]
               /\ WithFunction(p, extern, body)[Len(decls) + 1 + k].kind = "ParamVar"
<1> DEFINE es == WithFunction(p, extern, body)
           n == Len(decls)
           m == Len(p.params)
<1>1. n \in Nat /\ p.params \in Seq(STRING) /\ m \in Nat /\ p.name \in Names /\ p.name # NoName
  <2>1. p.params \in Seq(STRING)
    BY DeclarationsAssumption
  <2> QED BY <2>1, NamesAre, LenProperties, DeclTypes
<1>3. /\ DeclList(es) /\ Extended(decls, es, 0, <<>>)
      /\ Len(es) = Len(decls) + 1 + Len(p.params)
      /\ es[Len(decls) + 1] = FunctionOf(p, extern, ParamIds(p.params), body)
      /\ \A k \in 1..Len(p.params) :
            es[Len(decls) + 1 + k] = Declared("ParamVar", p.params[k], FALSE)
  <2>1. extern \in BOOLEAN /\ body \in BOOLEAN
    BY DEF Truth
  <2> QED BY <2>1, FunctionAdded
<1> HIDE DEF n, m, es
<1>4. Len(es) = n + 1 + m
  BY <1>3 DEF n, m
<1>5. n + 1 \in 1..Len(es)
  BY <1>1, <1>4
<1>6. es[n + 1] = FunctionOf(p, extern, ParamIds(p.params), body)
  BY <1>3 DEF n
<1>7. /\ es[n + 1].name = p.name /\ es[n + 1].kind = "Function"
      /\ es[n + 1].params = ParamIds(p.params)
  <2> DEFINE r == FunctionOf(p, extern, ParamIds(p.params), body)
  <2>1. r.name = p.name /\ r.kind = "Function" /\ r.params = ParamIds(p.params)
    BY DEF FunctionOf, Declared
  <2> HIDE DEF r
  <2>2. es[n + 1] = r
    BY <1>6 DEF r
  <2> QED BY <2>1, <2>2
<1>8. \A k \in 1..m : es[n + 1 + k] = Declared("ParamVar", p.params[k], FALSE)
  BY <1>3 DEF n, m
<1>9. ASSUME NEW k \in 1..m
      PROVE  es[n + 1 + k].name = p.params[k] /\ es[n + 1 + k].kind = "ParamVar"
  <2> DEFINE r == Declared("ParamVar", p.params[k], FALSE)
  <2>1. r.name = p.params[k] /\ r.kind = "ParamVar"
    BY DEF Declared
  <2> HIDE DEF r
  <2>2. es[n + 1 + k] = r
    BY <1>8 DEF r
  <2> QED BY <2>1, <2>2
<1>10. DeclList(es) /\ Extended(decls, es, 0, <<>>)
  BY <1>3
<1> QED BY <1>1, <1>4, <1>5, <1>6, <1>7, <1>9, <1>10 DEF n, m, es

\* How many declarations a function adds.
LEMMA FunctionLength ==
  ASSUME NEW p \in Prototypes, NEW extern \in Truth, NEW body \in Truth, DeclList(decls)
  PROVE  Len(WithFunction(p, extern, body)) = Len(decls) + 1 + Len(p.params)
<1>1. extern \in BOOLEAN /\ body \in BOOLEAN
  BY DEF Truth
<1> QED BY <1>1, FunctionAdded, Zenon

\* A function added at the top level keeps tables and scopes matched, its
\* symbol entered or not.
LEMMA FunctionInScope ==
  ASSUME Inv, Scoping, phase = "parse", open = <<>>,
         NEW p \in Prototypes, NEW extern \in Truth, NEW body \in Truth
  PROVE  LET es == WithFunction(p, extern, body)
         IN  /\ Resolved(<<>>, es, tables, scopes)
             /\ Resolved(<<>>, es, AddSymbol(tables, p.name, Len(decls) + 1),
                         AddSymbol(scopes, p.name, Len(decls) + 1))
<1> DEFINE d == Len(decls) + 1
           es == WithFunction(p, extern, body)
           name == p.name
<1>1. DeclList(decls) /\ Resolved(<<>>, decls, tables, scopes)
  BY WhileScoping
<1>2. /\ DeclList(es) /\ Extended(decls, es, 0, <<>>) /\ d \in 1..Len(es)
      /\ es[d].name = p.name /\ es[d].kind = "Function" /\ name \in Names /\ name # NoName
  BY <1>1, FunctionThere
<1> HIDE DEF es, d, name
<1>3. Resolved(<<>>, es, tables, scopes)
  <2> DEFINE g == 0
             new == <<>>
  <2>1. Extended(decls, es, g, new)
    BY <1>2
  <2> HIDE DEF g, new
  <2> QED BY <1>1, <1>2, <2>1, ResolvedExtended
<1>4. Resolved(<<>>, es, AddSymbol(tables, name, d), AddSymbol(scopes, name, d))
  <2> DEFINE o == <<>>
  <2>1. o \in Seq(Frames) /\ Bodied(o, "nothing") /\ Resolved(o, es, tables, scopes)
    BY <1>3, NoneOpen
  <2>2. Len(tables) = 1
    BY OneTable
  <2>3. es[d].name = name
    BY <1>2 DEF name
  <2> HIDE DEF o
  <2>4. Resolved(o, es, AddSymbol(tables, name, d), AddSymbol(scopes, name, d))
    BY <1>2, <2>1, <2>2, <2>3, ResolvedAdded
  <2> QED BY <2>4 DEF o
<1> QED BY <1>3, <1>4 DEF d, es, name

\* The parameters of a function without a body leak, whatever the global table is.
LEMMA ParamsLeaked ==
  ASSUME Inv, Scoping, phase = "parse", open = <<>>,
         NEW p \in Prototypes, NEW extern \in Truth, NEW body \in Truth, body = FALSE,
         NEW ts, NEW ss, Resolved(<<>>, WithFunction(p, extern, body), ts, ss), Len(ts) = Len(tables)
  PROVE  Resolved(<<>>, WithFunction(p, extern, body), AddParams(ts, p.params), ss)
<1> DEFINE es == WithFunction(p, extern, body)
           us == AddParams(ts, p.params)
           n == Len(decls)
           names == p.params
           m == Len(names)
           nt == Len(ts)
<1>1. DeclList(decls)
  BY WhileScoping
<1>0. Len(es) = n + 1 + m
  BY <1>1, FunctionLength, Zenon
<1>2. /\ DeclList(es) /\ n \in Nat /\ names \in Seq(STRING) /\ m \in Nat
      /\ n + 1 \in 1..Len(es)
      /\ es[n + 1].kind = "Function" /\ es[n + 1] = FunctionOf(p, extern, ParamIds(names), body)
      /\ es[n + 1].params = ParamIds(names)
      /\ \A k \in 1..m : es[n + 1 + k].name = names[k]
  BY <1>1, FunctionThere
<1>3. Resolved(<<>>, es, ts, ss)
  OBVIOUS
<1> HIDE DEF es
<1>4. ts \in Tables /\ Bounded(ts, Len(es))
  BY <1>3 DEF Resolved
<1>5. Len(tables) = 1
  BY OneTable
<1>6. nt = 1
  BY <1>5
<1> HIDE DEF nt
<1>7. nt >= 1
  BY <1>6
<1>8. /\ us \in Tables /\ Len(us) = nt
      /\ \A x \in Names :
           \/ us[nt][x] = ts[nt][x]
           \/ \E k \in 1..m : /\ x # NoName /\ names[k] = x
                              /\ us[nt][x] = n + 1 + k
  BY <1>2, <1>4, <1>7, AddParamsOnto DEF nt
<1> HIDE DEF us, n, m, names
<1>9. \A x \in Names : \/ us[1][x] = ts[1][x]
                       \/ \E k \in 1..m : names[k] = x /\ us[1][x] = n + 1 + k
  BY <1>6, <1>8
<1>10. ASSUME NEW k \in 1..m PROVE names[k] \in LeakedNamesIn(es) /\ n + 1 + k <= Len(es)
  <2>1. n + 1 + k <= Len(es)
    BY <1>0, <1>2
  <2>2. n + 1 + k \in ToSet(ParamIds(names))
    <3>1. DOMAIN names = 1..m
      BY <1>2, LenProperties DEF m
    <3>2. ParamIds(names) = [i \in 1..m |-> n + 1 + i]
      BY <3>1 DEF ParamIds, n
    <3>3. k \in 1..m /\ ParamIds(names)[k] = n + 1 + k /\ DOMAIN ParamIds(names) = 1..m
      BY <3>2
    <3> QED BY <3>3 DEF ToSet
  <2>3. n + 1 + k \in LeakedIn(es)
    <3>1. n + 1 + k \in Nat
      BY <1>2
    <3>2. n + 1 \in 1..Len(es) /\ es[n + 1].kind = "Function" /\ n + 1 + k \in ToSet(es[n + 1].params)
      BY <1>2, <2>2
    <3>3. ~es[n + 1].body
      <4>1. ~FunctionOf(p, extern, ParamIds(names), FALSE).body
        BY DEF FunctionOf, Declared
      <4> QED BY <1>2, <4>1
    <3> QED BY <3>1, <3>2, <3>3 DEF LeakedIn
  <2>4. es[n + 1 + k].name \in LeakedNamesIn(es)
    BY <2>3 DEF LeakedNamesIn
  <2>5. es[n + 1 + k].name = names[k]
    BY <1>2
  <2> QED BY <2>1, <2>4, <2>5
<1>11. Bounded(us, Len(es))
  <2> SUFFICES ASSUME NEW j \in 1..Len(us), NEW x \in Names PROVE us[j][x] <= Len(es)
    BY DEF Bounded
  <2>1. j = 1 /\ 1 \in 1..Len(ts)
    BY <1>6, <1>8 DEF nt
  <2>2. ts[1][x] <= Len(es)
    BY <1>4, <2>1 DEF Bounded
  <2> QED BY <1>9, <1>10, <2>1, <2>2
<1>12. \A x \in Names : \/ us[1][x] = ts[1][x]
                         \/ (x \in LeakedNamesIn(es) /\ (us[1][x] # None => es[us[1][x]].name = x))
  <2> SUFFICES ASSUME NEW x \in Names, us[1][x] # ts[1][x]
               PROVE  x \in LeakedNamesIn(es) /\ es[us[1][x]].name = x
    OBVIOUS
  <2>1. PICK k \in 1..m : names[k] = x /\ us[1][x] = n + 1 + k
    BY <1>9
  <2> QED BY <1>2, <1>10, <2>1
<1>13. us \in Tables /\ Len(us) = Len(ts)
  BY <1>8 DEF nt
<1>14. Resolved(<<>>, es, us, ss)
  BY <1>2, <1>3, <1>11, <1>12, <1>13, ResolvedLeaked
<1> QED BY <1>14 DEF us, es, names

\* A prototype keeps the matching.
LEMMA DeclareFunctionScoped ==
  ASSUME Inv, Scoping, NEW proto \in Prototypes, NEW extern \in BOOLEAN,
         DeclareFunction(proto, extern)
  PROVE  Scoping'
<1> DEFINE d    == Len(decls) + 1
           prev == tables[1][proto.name]
           body == FALSE
           f    == FunctionOf(proto, extern, ParamIds(proto.params), body)
           es   == WithFunction(proto, extern, body)
           ts   == IF prev = None THEN AddSymbol(tables, proto.name, d) ELSE tables
           ss   == IF prev = None THEN AddSymbol(scopes, proto.name, d) ELSE scopes
<1>1. CASE prev # None /\ ~SameProto(f, decls[prev])
  BY <1>1, ScopedReject DEF DeclareFunction, UndeclaredId
<1>2. CASE (prev = None \/ SameProto(f, decls[prev])) /\ ~extern
  BY <1>2, ScopedReject DEF DeclareFunction, UndeclaredId
<1>3. CASE (prev = None \/ SameProto(f, decls[prev])) /\ extern
  <2>1. /\ phase = "parse" /\ open = <<>> /\ phase' = "parse" /\ open' = <<>> /\ returned' = returned
        /\ decls' = es /\ tables' = AddParams(ts, proto.params) /\ scopes' = ss
    BY <1>3 DEF DeclareFunction, AtGlobal, Parsing, WithFunction
  <2>2. extern \in Truth /\ body \in Truth /\ body = FALSE
    BY DEF Truth
  <2> HIDE DEF body
  <2>3. DeclList(decls)
    BY <2>1, WhileScoping
  <2>4. DeclList(es) /\ Extended(decls, es, 0, <<>>)
    BY <2>2, <2>3, FunctionThere
  <2>5. /\ Resolved(<<>>, es, tables, scopes)
        /\ Resolved(<<>>, es, AddSymbol(tables, proto.name, d), AddSymbol(scopes, proto.name, d))
    BY <2>1, <2>2, FunctionInScope
  <2>6. Resolved(<<>>, es, ts, ss)
    BY <2>5
  <2>7. Len(ts) = Len(tables)
    <3>1. IsSeq(tables)
      BY <2>1, WhileParsing
    <3> QED BY <3>1, AddSymbolKeepsTables
  <2> HIDE DEF ts, ss
  <2>8. Resolved(<<>>, es, AddParams(ts, proto.params), ss)
    BY <2>1, <2>2, <2>6, <2>7, ParamsLeaked
  <2> HIDE DEF es
  <2>9. Bodied(open', returned')
    <3>1. Bodied(open, returned)
      BY <2>1, WhileScoping
    <3> QED BY <2>1, <3>1
  <2>10. /\ DeclList(decls') /\ Extended(decls, decls', 0, <<>>)
         /\ Resolved(open', decls', tables', scopes')
    BY <2>1, <2>4, <2>8
  <2> QED BY <2>1, <2>9, <2>10, ScopedGrowth
<1> QED BY <1>1, <1>2, <1>3

\* The last m numbers of a list of n + 1 + m.
LEMMA WithinAll ==
  ASSUME NEW n \in Nat, NEW m \in Nat, NEW all, all = n + 1 + m
  PROVE  all \in Nat /\ 0 <= all /\ \A k \in 1..m : n + 1 + k <= all
OBVIOUS

\* The head of a definition keeps the matching, its parameters in both.
LEMMA BeginFunctionScoped ==
  ASSUME Inv, Scoping, NEW proto \in Prototypes, NEW extern \in BOOLEAN,
         BeginFunction(proto, extern)
  PROVE  Scoping'
<1> DEFINE d    == Len(decls) + 1
           prev == tables[1][proto.name]
           body == TRUE
           f    == FunctionOf(proto, extern, ParamIds(proto.params), body)
           es   == WithFunction(proto, extern, body)
           ts   == AddSymbol(tables, proto.name, d)
           ss   == AddSymbol(scopes, proto.name, d)
           t    == WithParams(EmptyTable, proto.params)
           b    == Frame("block")
<1>1. CASE prev # None /\ (~SameProto(f, decls[prev]) \/ decls[prev].body)
  BY <1>1, ScopedReject DEF BeginFunction, UndeclaredId
<1>2. CASE ~(prev # None /\ (~SameProto(f, decls[prev]) \/ decls[prev].body))
  <2>1. /\ phase = "parse" /\ open = <<>> /\ phase' = "parse" /\ open' = <<b>> /\ returned' = returned
        /\ decls' = es /\ func' = d
        /\ tables' = AddParams(Append(ts, EmptyTable), proto.params)
        /\ scopes' = AddParams(Append(ss, EmptyTable), proto.params)
    BY <1>2 DEF BeginFunction, AtGlobal, Parsing, Deeper, WithFunction
  <2>2. /\ DeclList(es) /\ Extended(decls, es, 0, <<>>)
        /\ Len(decls) \in Nat /\ proto.params \in Seq(STRING) /\ Len(proto.params) \in Nat
        /\ Len(decls) + 1 \in 1..Len(es)
        /\ \A k \in 1..Len(proto.params) :
              /\ es[Len(decls) + 1 + k].name = proto.params[k]
              /\ es[Len(decls) + 1 + k].kind = "ParamVar"
        /\ Resolved(<<>>, es, ts, ss)
    <3>1. extern \in Truth /\ body \in Truth
      BY DEF Truth
    <3> HIDE DEF body
    <3>2. DeclList(decls)
      BY <2>1, WhileScoping
    <3>3. /\ DeclList(es) /\ Extended(decls, es, 0, <<>>)
          /\ Len(decls) \in Nat /\ proto.params \in Seq(STRING) /\ Len(proto.params) \in Nat
          /\ Len(decls) + 1 \in 1..Len(es)
          /\ \A k \in 1..Len(proto.params) :
                /\ es[Len(decls) + 1 + k].name = proto.params[k]
                /\ es[Len(decls) + 1 + k].kind = "ParamVar"
      BY <3>1, <3>2, FunctionThere
    <3>4. Resolved(<<>>, es, ts, ss)
      BY <2>1, <3>1, FunctionInScope
    <3> QED BY <3>3, <3>4
  <2>16. Len(es) = Len(decls) + 1 + Len(proto.params)
    <3>1. extern \in Truth /\ body \in Truth /\ DeclList(decls)
      BY <2>1, WhileScoping DEF Truth
    <3> HIDE DEF body
    <3> QED BY <3>1, FunctionLength, Zenon
  <2> HIDE DEF es, ts, ss, body
  <2>17. /\ Len(es) \in Nat /\ 0 <= Len(es)
         /\ \A k \in 1..Len(proto.params) : Len(decls) + 1 + k <= Len(es)
    BY <2>2, <2>16, WithinAll, Zenon
  <2>3. ts \in Tables /\ ss \in Tables
    BY <2>2 DEF Resolved
  <2>4. tables' = Append(ts, t) /\ scopes' = Append(ss, t)
    BY <2>1, <2>2, <2>3, AddParamsNew
  <2>5. /\ t \in [Names -> Nat]
        /\ \A x \in Names : \/ t[x] = EmptyTable[x]
                            \/ \E k \in 1..Len(proto.params) : /\ x # NoName /\ proto.params[k] = x
                                                               /\ t[x] = Len(decls) + 1 + k
    BY <2>2, EmptyTableIs, WithParamsIs
  <2> HIDE DEF t
  <2>6. ASSUME NEW x \in Names
        PROVE  /\ t[x] <= Len(es)
               /\ t[x] # None => es[t[x]].name = x /\ es[t[x]].kind # "Function"
    <3>1. CASE t[x] = EmptyTable[x]
      <4>1. t[x] = 0 /\ t[x] = None
        BY <3>1, EmptyTableIs DEF None
      <4>3. 0 <= Len(es)
        BY <2>17
      <4> QED BY <4>1, <4>3
    <3>2. CASE \E k \in 1..Len(proto.params) : proto.params[k] = x /\ t[x] = Len(decls) + 1 + k
      <4>1. PICK k \in 1..Len(proto.params) : proto.params[k] = x /\ t[x] = Len(decls) + 1 + k
        BY <3>2
      <4>2. Len(decls) + 1 + k <= Len(es)
        BY <2>17
      <4>3. es[t[x]].name = x /\ es[t[x]].kind = "ParamVar"
        BY <2>2, <4>1
      <4> QED BY <4>1, <4>2, <4>3
    <3> QED BY <2>5, <3>1, <3>2
  <2>7. loop \in LoopsOf
    BY <2>1, WhileParsing
  <2>8. b \in Frames /\ b.call = "block"
    BY <2>7, NewFrame DEF Calls
  <2>9. open' = Append(<<>>, b)
    BY <2>1
  <2> HIDE DEF b
  <2>10. Opens(b) /\ ~Shares(b)
    BY <2>8 DEF Opens, Shares
  <2> DEFINE o == <<>>
  <2>11. o \in Seq(Frames) /\ Bodied(o, "nothing") /\ Resolved(o, es, ts, ss) /\ open' = Append(o, b)
    BY <2>2, <2>9, NoneOpen
  <2> HIDE DEF o
  <2>12. Resolved(Append(o, b), es, Append(ts, t), Append(ss, t))
    BY <2>2, <2>5, <2>6, <2>8, <2>10, <2>11, ResolvedEntered
  <2>13. Bodied(Append(o, b), returned')
    BY <2>8, <2>10, <2>11, BodiedPushed
  <2>14. func' \in 1..Len(decls')
    BY <2>1, <2>2
  <2>15. /\ DeclList(decls') /\ Extended(decls, decls', 0, <<>>)
         /\ Resolved(open', decls', tables', scopes') /\ Bodied(open', returned')
    BY <2>1, <2>2, <2>4, <2>11, <2>12, <2>13
  <2> QED BY <2>1, <2>14, <2>15, ScopedGrowth
<1> QED BY <1>1, <1>2

\* The definition is no longer external, whatever it said.
NotExternal(ds, g) == [ds EXCEPT ![g].extern = FALSE]

\* A function that is no longer external is otherwise what it was.
LEMMA ExternCleared ==
  ASSUME NEW ds, DeclList(ds), NEW g \in 1..Len(ds)
  PROVE  LET es == NotExternal(ds, g)
         IN  /\ DeclList(es) /\ Extended(ds, es, 0, <<>>) /\ Len(es) = Len(ds)
             /\ es[g].extern = FALSE /\ \A f \in 1..Len(ds) : f # g => es[f] = ds[f]
<1> DEFINE d == [ds[g] EXCEPT !.extern = FALSE]
           es == [ds EXCEPT ![g] = d]
<1>1. ds \in Seq(NamedDecls) /\ ds[g] \in NamedDecls /\ DOMAIN ds = 1..Len(ds) /\ Len(ds) \in Nat
  BY DeclTypes DEF DeclList
<1>2. d \in NamedDecls /\ SameDecl(ds[g], d) /\ d.items = ds[g].items /\ d.extern = FALSE
  BY <1>1 DEF NamedDecls, SameDecl
<1>3. NotExternal(ds, g) = es
  BY DEF NotExternal
<1> HIDE DEF d
<1>4. es \in Seq(NamedDecls) /\ Len(es) = Len(ds)
  BY <1>1, <1>2, ExceptSeq
<1>5. es[g] = d /\ \A f \in 1..Len(ds) : f # g => es[f] = ds[f]
  BY <1>1
<1> HIDE DEF es
<1>6. \A f \in 1..Len(ds) : SameDecl(ds[f], es[f]) /\ es[f].items = ds[f].items
  BY <1>2, <1>5 DEF SameDecl
<1>7. Extended(ds, es, 0, <<>>)
  <2>1. 0 \notin 1..Len(ds)
    OBVIOUS
  <2>2. \A f \in 1..Len(es) : ~(f > Len(ds))
    BY <1>1, <1>4
  <2>3. Len(ds) <= Len(es)
    BY <1>1, <1>4
  <2> QED BY <1>6, <2>1, <2>2, <2>3 DEF Extended
<1>8. DeclList(es)
  BY <1>4, <1>6 DEF DeclList, SameDecl
<1> QED BY <1>2, <1>3, <1>4, <1>5, <1>7, <1>8

\* The end of a function keeps the matching.
LEMMA EndFunctionScoped ==
  ASSUME Inv, Scoping, EndFunction
  PROVE  Scoping'
<1>1. /\ phase = "parse" /\ Len(open) = 1 /\ Top.call = "block" /\ phase' = "parse"
      /\ tables' = Front(tables) /\ scopes' = Front(scopes) /\ open' = <<>>
      /\ decls' = [decls EXCEPT ![func].extern = FALSE]
  BY DEF EndFunction, Parsing, Leave
<1>2. open # <<>>
  <2>1. open = <<>> => Len(open) = 0
    BY <1>1, Numbers
  <2> QED BY <1>1, <2>1
<1>3. /\ Front(open) \in Seq(Frames) /\ Top \in Frames
      /\ Resolved(Append(Front(open), Top), decls, tables, scopes)
      /\ Len(tables) >= 1 /\ DeclList(decls) /\ func \in 1..Len(decls)
  BY <1>1, <1>2, StackBelow
<1>4. Front(open) = <<>>
  <2>1. open \in Seq(Frames)
    BY <1>1, WhileScoping
  <2> QED BY <1>1, <1>2, <2>1, Popped
<1>5. Opens(Top) /\ Scoped(Top)
  BY <1>1 DEF Opens, Scoped
<1>6. Resolved(Front(open), decls, Front(tables), Front(scopes))
  BY <1>3, <1>5, ResolvedLeft
<1>7. DeclList(decls') /\ Extended(decls, decls', 0, <<>>)
  <2>1. decls' = NotExternal(decls, func)
    BY <1>1 DEF NotExternal
  <2> QED BY <1>3, <2>1, ExternCleared
<1>8. Resolved(<<>>, decls', tables', scopes')
  <2> DEFINE g == 0
             new == <<>>
             o == <<>>
  <2>1. Extended(decls, decls', g, new) /\ Resolved(o, decls, tables', scopes')
    BY <1>1, <1>4, <1>6, <1>7
  <2> HIDE DEF g, new, o
  <2>2. Resolved(o, decls', tables', scopes')
    BY <1>3, <1>7, <2>1, ResolvedExtended
  <2> QED BY <2>2 DEF o
<1>9. Bodied(<<>>, returned')
  BY NoneOpen, BodiedAnyway
<1> QED BY <1>1, <1>7, <1>8, <1>9, ScopedGrowth

\* The end of the text, and the translator.
LEMMA LaterScoped ==
  ASSUME Inv, Scoping
  PROVE  EndText \/ TranslateVar \/ TranslateFunction => Scoping'
<1>1. ASSUME phase' \notin {"parse", "rejected"}, decls' = decls, tables' = tables, scopes' = scopes
      PROVE  Scoping'
  BY <1>1 DEF Scoping
<1>2. ASSUME EndText PROVE Scoping'
  BY <1>1, <1>2 DEF EndText
<1>3. ASSUME NEW why, Abort(why) PROVE Scoping'
  BY <1>1, <1>3 DEF Abort, Stop, parserVars
<1>4. ASSUME Translated, UNCHANGED parserVars PROVE Scoping'
  BY <1>1, <1>4 DEF Translated, parserVars
<1>5. ASSUME TranslateVar PROVE Scoping'
  BY <1>3, <1>4, <1>5 DEF TranslateVar
<1>6. ASSUME TranslateFunction PROVE Scoping'
  <2> DEFINE d == tu[next]
             failed == {k \in DOMAIN decls[d].items : Failure(d, k) # "none"}
             why == Failure(d, CHOOSE k \in failed : \A j \in failed : k <= j)
  <2>1. \/ Abort(why) \/ Abort("accepted")
        \/ Translated /\ UNCHANGED parserVars
    <3> HIDE DEF why
    <3>1. failed # {} => Abort(why)
      BY <1>6 DEF TranslateFunction, why
    <3>2. failed = {} => Abort("accepted") \/ (Translated /\ UNCHANGED parserVars)
      BY <1>6 DEF TranslateFunction
    <3> QED BY <3>1, <3>2
  <2> HIDE DEF why
  <2> QED BY <1>3, <1>4, <2>1
<1> QED BY <1>2, <1>5, <1>6

\* Every step keeps the matching.
LEMMA NextScoped ==
  ASSUME Inv, Scoping, Next
  PROVE  Scoping'
<1>1. CASE Statement
  BY <1>1, SimpleScoped, LocalVariableScoped, BegunScoped, EndedScoped, ElseScoped, ForHeaderScoped
  DEF Statement
<1>2. CASE Declaration
  BY <1>2, GlobalVariableScoped, DeclareFunctionScoped, BeginFunctionScoped, EndFunctionScoped, LaterScoped
  DEF Declaration
<1>3. CASE TranslateVar \/ TranslateFunction
  BY <1>3, LaterScoped
<1> QED BY <1>1, <1>2, <1>3 DEF Next

\* The presets.
LEMMA PresetsAreDecls ==
  ASSUME Init
  PROVE  /\ DeclList(decls) /\ Len(decls) \in Nat /\ Len(decls) = Len(Presets)
         /\ \A k \in 1..Len(decls) : decls[k].name = Presets[k] /\ decls[k].items = <<>>
<1> DEFINE n == Len(Presets)
<1>1. Presets \in Seq(STRING) /\ n \in Nat /\ DOMAIN Presets = 1..n /\ \A k \in 1..n : Presets[k] \in STRING
  <2>1. Presets \in Seq(STRING)
    BY DeclarationsAssumption
  <2> QED BY <2>1, LenProperties, ElementOfSeq
<1>2. ASSUME NEW k \in 1..n
      PROVE  /\ Preset(Presets[k]) \in NamedDecls /\ Preset(Presets[k]).params = <<>>
             /\ Preset(Presets[k]).items = <<>> /\ Preset(Presets[k]).name = Presets[k]
  <2>1. Presets[k] \in STRING /\ <<>> \in Seq(BodyItems) /\ <<>> \in Seq(Nat)
    BY <1>1, EmptySeq
  <2> QED BY <2>1 DEF Preset, FunctionOf, Declared, NamedDecls, DeclKinds
<1> HIDE DEF n
<1>3. decls = [k \in 1..n |-> Preset(Presets[k])]
  BY <1>1 DEF Init
<1>4. decls \in [1..n -> NamedDecls] /\ \A k \in 1..n : decls[k] = Preset(Presets[k])
  BY <1>2, <1>3
<1>5. decls \in Seq(NamedDecls) /\ Len(decls) = n
  BY <1>1, <1>4, FunctionIsSeq
<1>6. ToSet(<<>>) = {}
  BY DEF ToSet
<1>7. DeclList(decls)
  BY <1>2, <1>4, <1>5, <1>6 DEF DeclList
<1> QED BY <1>1, <1>2, <1>4, <1>5, <1>7 DEF n

PresetAt(x) == {k \in DOMAIN Presets : Presets[k] = x}
TheTable == [x \in Names |-> IF PresetAt(x) = {} THEN None ELSE Max(PresetAt(x))]

\* The first table holds the library functions.
LEMMA PresetTableIs ==
  /\ PresetTable = <<TheTable>> /\ TheTable \in [Names -> Nat] /\ Len(Presets) \in Nat
  /\ \A x \in Names : \/ TheTable[x] = None
                      \/ TheTable[x] \in 1..Len(Presets) /\ Presets[TheTable[x]] = x
<1> DEFINE n == Len(Presets)
<1>1. n \in Nat /\ DOMAIN Presets = 1..n
  <2>1. Presets \in Seq(STRING)
    BY DeclarationsAssumption
  <2> QED BY <2>1, LenProperties
<1>2. PresetTable = <<TheTable>>
  BY DEF PresetTable, TheTable, PresetAt
<1>3. ASSUME NEW x \in Names, PresetAt(x) # {}
      PROVE  Max(PresetAt(x)) \in 1..n /\ Presets[Max(PresetAt(x))] = x
  <2>1. PresetAt(x) \in SUBSET (1..n)
    BY <1>1 DEF PresetAt
  <2>2. Max(PresetAt(x)) \in PresetAt(x)
    BY <1>1, <1>3, <2>1, MaxIsIn
  <2> QED BY <1>1, <2>1, <2>2 DEF PresetAt
<1>4. \A x \in Names : TheTable[x] = IF PresetAt(x) = {} THEN None ELSE Max(PresetAt(x))
  BY DEF TheTable
<1>5. \A x \in Names : TheTable[x] = None \/ (TheTable[x] \in 1..n /\ Presets[TheTable[x]] = x)
  BY <1>3, <1>4
<1>6. \A x \in Names : TheTable[x] \in Nat
  BY <1>1, <1>5 DEF None
<1>7. TheTable = [x \in Names |-> TheTable[x]]
  BY DEF TheTable
<1> QED BY <1>1, <1>2, <1>5, <1>6, <1>7

\* Tables and scopes match before the first token.
LEMMA InitScoped == Init => Scoping
<1> SUFFICES ASSUME Init PROVE Scoping
  OBVIOUS
<1> DEFINE ts == <<TheTable>>
           n == Len(decls)
<1>1. /\ phase = "parse" /\ open = <<>> /\ returned = "nothing"
      /\ tables = ts /\ scopes = ts
  BY PresetTableIs DEF Init
<1>2. DeclList(decls) /\ n \in Nat /\ AllMentions(decls)
  <2>1. \A f \in 1..Len(decls) : Len(decls[f].items) = 0
    BY PresetsAreDecls
  <2> QED BY <2>1, PresetsAreDecls DEF AllMentions
<1>3. \A x \in Names : \/ TheTable[x] = None
                       \/ TheTable[x] \in 1..n /\ decls[TheTable[x]].name = x
  <2>1. Len(Presets) = n
    BY PresetsAreDecls
  <2> HIDE DEF n
  <2>2. \A k \in 1..n : decls[k].name = Presets[k]
    BY PresetsAreDecls DEF n
  <2> QED BY <2>1, <2>2, PresetTableIs
<1>4. /\ ts \in Tables /\ Len(ts) = 1 /\ ts[1] = TheTable
  BY PresetTableIs DEF Tables
<1> HIDE DEF ts, n
<1>5. Bounded(ts, n)
  <2>1. \A x \in Names : TheTable[x] <= n
    BY <1>2, <1>3 DEF None
  <2> QED BY <1>4, <2>1 DEF Bounded
<1>6. Entries(decls, ts)
  BY <1>3, <1>4 DEF Entries
<1> DEFINE at == [j \in 1..1 |-> 0]
           of == [j \in 1..1 |-> 1]
<1>7. /\ at \in [1..1 -> Nat] /\ of \in [1..1 -> Nat] /\ at[1] = 0 /\ of[1] = 1
  OBVIOUS
<1> HIDE DEF at, of
<1>8. Layout(<<>>, 1, 1, at, of)
  BY <1>7 DEF Layout, SharesAt
<1>9. Matched(ts, ts, of, LeakedNamesIn(decls))
  BY <1>4, <1>7 DEF Matched
<1>10. Resolved(<<>>, decls, ts, ts)
  <2>1. Layout(<<>>, Len(ts), Len(ts), at, of)
    BY <1>4, <1>8
  <2> QED BY <1>4, <1>5, <1>6, <1>9, <2>1 DEF Resolved, n
<1>11. Bodied(open, returned)
  BY <1>1, NoneOpen
<1> QED BY <1>1, <1>2, <1>4, <1>5, <1>10, <1>11 DEF Scoping, n

(***************************************************************************)
(* The theorem.                                                            *)
(***************************************************************************)
LEMMA ScopingAlways == Spec => [](Inv /\ Scoping)
<1>1. Init => Inv /\ Scoping
  BY InitInv, InitScoped
<1>2. Inv /\ Scoping /\ [Next]_vars => Inv' /\ Scoping'
  <2> SUFFICES ASSUME Inv, Scoping, [Next]_vars PROVE Scoping'
    BY NextInv
  <2>1. CASE Next
    BY <2>1, NextScoped
  <2>2. CASE UNCHANGED vars
    <3>1. /\ phase' = phase /\ reason' = reason /\ decls' = decls /\ tables' = tables /\ scopes' = scopes
          /\ open' = open /\ returned' = returned /\ func' = func
      BY <2>2 DEF vars, parserVars
    <3>2. RightlyUndeclared(reason[2], reason[3])' <=> RightlyUndeclared(reason[2], reason[3])
      BY <3>1 DEF RightlyUndeclared, Meant, LeakedNames, Leaked, LeakedBy
    <3> QED BY <3>1, <3>2 DEF Scoping
  <2> QED BY <2>1, <2>2
<1> QED BY <1>1, <1>2, PTL DEF Spec

\* A use of a name is a use of the declaration C's scopes give it, wherever blocks,
\* loop bodies and parameters begin and end, and findSymbol misses none: what is
\* reported as undeclared has no declaration of its kind in scope.  The exceptions are
\* calls past a local variable of the function's name and the names that the
\* parameters of bodyless functions have put into the global table.
THEOREM LookupsAlwaysFollowScopes == Spec => []LookupsFollowScopes
<1>1. Inv /\ Scoping => LookupsFollowScopes
  <2> SUFFICES ASSUME Inv, Scoping PROVE LookupsFollowScopes
    OBVIOUS
  <2>1. DeclList(decls) /\ AllMentions(decls) /\ LeakedNames = LeakedNamesIn(decls)
    BY LeakedIsLeakedIn DEF Scoping
  <2>2. ASSUME NEW m \in Mentions
        PROVE  \/ m.decl = m.meant
               \/ m.kind = "Function" /\ m.meant # None /\ decls[m.meant].kind # "Function"
               \/ decls[m.decl].name \in LeakedNames
    <3>1. PICK f \in 1..Len(decls) : m \in ToSet(decls[f].items)
      BY <2>1, DeclTypes DEF Mentions
    <3>2. PICK k \in 1..Len(decls[f].items) : m = decls[f].items[k]
      BY <2>1, <3>1, DeclTypes DEF ToSet
    <3> QED BY <2>1, <3>2 DEF AllMentions, MentionOK
  <2>3. ASSUME phase = "rejected", reason[1] = "use of undeclared identifier"
        PROVE  LET d == Meant(reason[2])
               IN  \/ d = None \/ reason[2] \in LeakedNames
                   \/ (decls[d].kind = "Function") # (reason[3] = "Function")
    BY <2>3 DEF Scoping, RightlyUndeclared, UndeclaredId
  <2> QED BY <2>2, <2>3 DEF LookupsFollowScopes
<1> QED BY <1>1, ScopingAlways, PTL

(***************************************************************************)
(* The unit.  Its invariant is a conjunction over any declarations ds, any *)
(* list s of them, the global table t and the noted references refs.       *)
(***************************************************************************)
\* The unit with the function whose body is being parsed at its tail, where
\* parseGlobalDecl will put it.
Line == IF open = <<>> THEN tu ELSE Append(tu, func)

\* s lists variables and functions, no two of one name.
Listed(ds, s) ==
    /\ s \in Seq(1..Len(ds))
    /\ \A i \in 1..Len(s) : ds[s[i]].kind \in {"Var", "Function"} /\ ds[s[i]].name \in Names
    /\ \A i, j \in 1..Len(s) : i # j => ds[s[i]].name # ds[s[j]].name

\* A function is external exactly when it has no body.
Bodyless(d) == d.kind = "Function" /\ ~d.body
WithBody(d) == d.kind = "Function" /\ d.body
Externals(ds, s) ==
    /\ \A f \in 1..Len(ds) : Bodyless(ds[f]) => ds[f].extern
    /\ \A i \in 1..Len(s) : WithBody(ds[s[i]]) => ~ds[s[i]].extern

\* The global table has an entry for each declaration of the unit, itself or the
\* parameter that took its place, and none but those.
InTable(ds, s, t) ==
    \A i \in 1..Len(s) : LET e == t[ds[s[i]].name]
                         IN  e = s[i] \/ (e # None /\ ds[e].kind = "ParamVar")
FromUnit(ds, s, t) ==
    \A x \in Names : t[x] # None => \/ \E i \in 1..Len(s) : s[i] = t[x]
                                    \/ t[x] \in LeakedIn(ds) /\ ds[t[x]].kind = "ParamVar"

\* Every use of a name has been noted.
Noted(ds, refs) ==
    \A f \in 1..Len(ds) : \A k \in 1..Len(ds[f].items) :
        LET m == ds[f].items[k]
        IN  m.kind # "Local" => m.decl \in refs /\ ds[m.decl].kind = m.kind

\* What the k-th item of the body of g refers to: a leaked parameter, something of
\* its own, something earlier in the unit, or a declaration that a definition
\* further down has replaced.
Precedes(s, e, g) == \E i, j \in 1..Len(s) : i < j /\ s[i] = e /\ s[j] = g
Overtaken(ds, s, e, g) ==
    \E h \in 1..Len(ds) : Precedes(s, g, h) /\ WithBody(ds[h]) /\ ds[h].name = ds[e].name
ParametersIn(ds, g) == {p \in ToSet(ds[g].params) : ds[p].name # NoName}
LocalsIn(ds, g, k) ==
    {ds[g].items[j].decl : j \in {i \in 1..(k - 1) : ds[g].items[i].kind = "Local"}}
Placed(ds, s, g, k) ==
    LET m == ds[g].items[k]
    IN  /\ m.kind \in {"Var", "ParamVar"} =>
              \/ m.decl \in LeakedIn(ds) \cup ParametersIn(ds, g) \cup LocalsIn(ds, g, k)
              \/ Precedes(s, m.decl, g)
        /\ m.kind = "Function" =>
              \/ m.decl = g
              \/ Precedes(s, m.decl, g)
              \/ ~ds[m.decl].body /\ Overtaken(ds, s, m.decl, g)
AllPlaced(ds, s) == \A i \in 1..Len(s) : \A k \in 1..Len(ds[s[i]].items) : Placed(ds, s, s[i], k)

\* What the inner tables hold is the function's own.
Inside(ds, g, ts) ==
    \A k \in 2..Len(ts) : \A x \in Names :
        ts[k][x] # None => ts[k][x] \in ParametersIn(ds, g) \cup LocalsIn(ds, g, Len(ds[g].items) + 1)

\* What the module has when the translator comes to declaration n of the unit.
Accounted(ds, s, n, fs, gs, as) ==
    /\ fs \in [Names \cup {Memset} -> Int] /\ fs[Memset] = Builtin
    /\ \A i \in 1..Len(s) : i < n =>
          IF ds[s[i]].kind = "Function" THEN fs[ds[s[i]].name] = s[i] ELSE s[i] \in as
    /\ \A x \in Names \cup {Memset} :
          fs[x] # None => \/ x = Memset
                          \/ \E i \in 1..Len(s) : i < n /\ fs[x] = s[i] /\ ds[s[i]].name = x
    /\ \A x \in gs : \E i \in 1..Len(s) : i < n /\ ds[s[i]].name = x

Basics ==
    /\ phase \in {"parse", "translate", "done", "rejected", "aborted"}
    /\ depth \in Nat /\ tu \in Seq(1..Len(decls))
    /\ symrefs \subseteq 1..Len(decls) /\ addresses \subseteq 1..Len(decls)
WhileParsed ==
    /\ Listed(decls, Line) /\ Externals(decls, tu)
    /\ InTable(decls, Line, tables[1]) /\ FromUnit(decls, Line, tables[1])
    /\ Noted(decls, symrefs) /\ AllPlaced(decls, Line)
    /\ open # <<>> => WithBody(decls[func]) /\ Inside(decls, func, tables)
    /\ Accounted(decls, <<>>, 1, functions, globals, addresses) /\ next = 1
AfterParsing ==
    /\ Listed(decls, tu) /\ Externals(decls, tu) /\ AllPlaced(decls, tu)
    /\ Noted(decls, symrefs)
    /\ \A i \in 1..Len(tu) : Bodyless(decls[tu[i]]) => tu[i] \in symrefs
    /\ next \in Nat \ {0} /\ Accounted(decls, tu, next, functions, globals, addresses)
Unit ==
    /\ Basics
    /\ phase = "parse" => WhileParsed
    /\ phase \in {"translate", "done", "aborted"} => AfterParsing
    /\ AbortExplained

(***************************************************************************)
(* Remaining: a list without some of its members.                          *)
(***************************************************************************)
\* A nonempty set of numbers has a least one; a set of numbers that has 0 and with
\* each number the next has them all.
LEMMA LeastElement ==
  ASSUME NEW S \in SUBSET Nat, S # {}
  PROVE  \E x \in S : \A y \in S : x <= y
<1> DEFINE R == OpToRel(<, Nat)
<1>1. PICK x \in S : \A y \in S : ~(<<y, x>> \in R)
  <2>1. IsWellFoundedOn(R, Nat)
    BY NatLessThanWellFounded
  <2> HIDE DEF R
  <2> QED BY <2>1, WFMin
<1>2. ASSUME NEW y \in S PROVE ~(y < x)
  BY <1>1, Zenon DEF OpToRel
<1>3. \A y \in S : x <= y
  BY <1>2
<1> QED BY <1>3

\* A set with 0 and with every successor of its numbers has every number.
LEMMA NumberSets ==
  ASSUME NEW T, 0 \in T, \A n \in Nat : n \in T => n + 1 \in T
  PROVE  Nat \subseteq T
<1> SUFFICES ASSUME Nat \ T # {} PROVE FALSE
  OBVIOUS
<1>1. PICK x \in Nat \ T : \A y \in Nat \ T : x <= y
  BY LeastElement
<1>2. x # 0 /\ x - 1 \in Nat /\ ~(x <= x - 1)
  OBVIOUS
<1>3. x - 1 \in T
  BY <1>1, <1>2
<1>4. (x - 1) + 1 = x
  BY <1>1
<1> QED BY <1>1, <1>2, <1>3, <1>4

\* The recursive function of Remaining, up to the n-th member, exists.
IsUpTo(f, s, gone, n) ==
    f = [i \in 0 .. n |->
            IF i = 0 THEN <<>> ELSE IF s[i] \in gone THEN f[i - 1] ELSE Append(f[i - 1], s[i])]

\* What Remaining's recursion builds exists for every prefix of the list.
LEMMA UpToExists ==
  ASSUME NEW s, NEW gone
  PROVE  \A n \in Nat : \E f : IsUpTo(f, s, gone, n)
<1> DEFINE T == {n \in Nat : \E f : IsUpTo(f, s, gone, n)}
<1>1. 0 \in T
  <2> DEFINE f == [i \in 0 .. 0 |-> <<>>]
  <2>1. IsUpTo(f, s, gone, 0)
    BY DEF IsUpTo
  <2> QED BY <2>1
<1>2. ASSUME NEW n \in Nat, n \in T PROVE n + 1 \in T
  <2>1. PICK f : IsUpTo(f, s, gone, n)
    BY <1>2
  <2> DEFINE e == IF s[n + 1] \in gone THEN f[n] ELSE Append(f[n], s[n + 1])
             g == [i \in 0 .. (n + 1) |-> IF i = n + 1 THEN e ELSE f[i]]
  <2>2. ASSUME NEW i \in 0 .. n
        PROVE  f[i] = IF i = 0 THEN <<>> ELSE IF s[i] \in gone THEN f[i - 1] ELSE Append(f[i - 1], s[i])
    BY <2>1, Zenon DEF IsUpTo
  <2> HIDE DEF e
  <2>3. g[n + 1] = e /\ n + 1 # 0 /\ (n + 1) - 1 = n /\ n \in 0 .. n
    OBVIOUS
  <2>4. \A i \in 0 .. n : g[i] = f[i]
    OBVIOUS
  <2>5. ASSUME NEW i \in 0 .. (n + 1)
        PROVE  g[i] = IF i = 0 THEN <<>> ELSE IF s[i] \in gone THEN g[i - 1] ELSE Append(g[i - 1], s[i])
    <3>1. CASE i = n + 1
      <4>1. i - 1 = n /\ g[n] = f[n] /\ i # 0
        BY <2>3, <2>4, <3>1
      <4> HIDE DEF g
      <4> QED BY <2>3, <3>1, <4>1 DEF e
    <3>2. CASE i # n + 1
      <4>1. i \in 0 .. n
        BY <3>2
      <4>2. i # 0 => i - 1 \in 0 .. n
        BY <4>1
      <4> HIDE DEF g
      <4> QED BY <2>2, <2>4, <4>1, <4>2
    <3> QED BY <3>1, <3>2
  <2>6. g = [i \in 0 .. (n + 1) |-> g[i]]
    OBVIOUS
  <2> HIDE DEF g
  <2>7. g = [i \in 0 .. (n + 1) |->
               IF i = 0 THEN <<>> ELSE IF s[i] \in gone THEN g[i - 1] ELSE Append(g[i - 1], s[i])]
    BY <2>5, <2>6, Zenon
  <2>8. IsUpTo(g, s, gone, n + 1)
    BY <2>7 DEF IsUpTo
  <2> QED BY <2>8
<1>3. Nat \subseteq T
  <2> HIDE DEF T
  <2> QED BY <1>1, <1>2, NumberSets
<1> QED BY <1>3

\* r is the first n members of s without those in gone; p says where they were.
Picks(p, r, s, gone, n) ==
    /\ p \in [1..Len(r) -> 1..n]
    /\ \A j \in 1..Len(r) : r[j] = s[p[j]] /\ s[p[j]] \notin gone
    /\ \A j, k \in 1..Len(r) : j < k => p[j] < p[k]
    /\ \A i \in 1..n : s[i] \notin gone => \E j \in 1..Len(r) : p[j] = i

\* One more entry of the list, picked or dropped.
LEMMA PicksOn ==
  ASSUME NEW S, NEW s \in Seq(S), NEW gone, NEW n \in Nat, n + 1 <= Len(s),
         NEW r \in Seq(S), NEW p, Picks(p, r, s, gone, n)
  PROVE  LET t == IF s[n + 1] \in gone THEN r ELSE Append(r, s[n + 1])
         IN  t \in Seq(S) /\ \E q : Picks(q, t, s, gone, n + 1)
<1>1. n + 1 \in 1..Len(s) /\ Len(s) \in Nat /\ s[n + 1] \in S /\ Len(r) \in Nat
  <2>1. Len(s) \in Nat /\ Len(r) \in Nat
    BY LenProperties
  <2>2. n + 1 \in 1..Len(s)
    BY <2>1
  <2> QED BY <2>1, <2>2, ElementOfSeq
<1>2. /\ p \in [1..Len(r) -> 1..n]
      /\ \A j \in 1..Len(r) : r[j] = s[p[j]] /\ s[p[j]] \notin gone
      /\ \A j, k \in 1..Len(r) : j < k => p[j] < p[k]
      /\ \A i \in 1..n : s[i] \notin gone => \E j \in 1..Len(r) : p[j] = i
  BY DEF Picks
<1>3. CASE s[n + 1] \in gone
  <2>1. p \in [1..Len(r) -> 1..(n + 1)]
    BY <1>2
  <2>2. ASSUME NEW i \in 1..(n + 1), s[i] \notin gone PROVE \E j \in 1..Len(r) : p[j] = i
    <3>1. i \in 1..n
      BY <1>3, <2>2
    <3> QED BY <1>2, <2>2, <3>1
  <2>3. Picks(p, r, s, gone, n + 1)
    BY <1>2, <2>1, <2>2 DEF Picks
  <2> QED BY <1>3, <2>3
<1>4. CASE s[n + 1] \notin gone
  <2> DEFINE m == Len(r)
             t == Append(r, s[n + 1])
             q == [j \in 1..(m + 1) |-> IF j = m + 1 THEN n + 1 ELSE p[j]]
  <2>1. t \in Seq(S) /\ Len(t) = m + 1 /\ t[m + 1] = s[n + 1] /\ \A j \in 1..m : t[j] = r[j]
    BY <1>1, AppendProperties
  <2>2. /\ p \in [1..m -> 1..n]
        /\ \A j \in 1..m : r[j] = s[p[j]] /\ s[p[j]] \notin gone
        /\ \A j, k \in 1..m : j < k => p[j] < p[k]
        /\ \A i \in 1..n : s[i] \notin gone => \E j \in 1..m : p[j] = i
    BY <1>2
  <2>3. m \in Nat
    BY <1>1
  <2> HIDE DEF m, t
  <2>4. q[m + 1] = n + 1 /\ \A j \in 1..m : q[j] = p[j] /\ p[j] \in 1..n
    BY <2>2, <2>3
  <2>5. \A j \in 1..(m + 1) : j = m + 1 \/ j \in 1..m
    BY <2>3
  <2>6. q \in [1..(m + 1) -> 1..(n + 1)]
    <3>1. \A j \in 1..(m + 1) : q[j] \in 1..(n + 1)
      <4> HIDE DEF q
      <4> QED BY <2>4, <2>5
    <3> QED BY <3>1
  <2> HIDE DEF q
  <2>7. \A j \in 1..(m + 1) : t[j] = s[q[j]] /\ s[q[j]] \notin gone
    BY <1>4, <2>1, <2>2, <2>4, <2>5
  <2>8. ASSUME NEW j \in 1..(m + 1), NEW k \in 1..(m + 1), j < k PROVE q[j] < q[k]
    <3>1. j \in 1..m
      BY <2>3, <2>8
    <3>2. CASE k = m + 1
      BY <2>4, <3>1, <3>2
    <3>3. CASE k \in 1..m
      BY <2>2, <2>4, <2>8, <3>1, <3>3
    <3> QED BY <2>5, <3>2, <3>3
  <2>9. ASSUME NEW i \in 1..(n + 1), s[i] \notin gone PROVE \E j \in 1..(m + 1) : q[j] = i
    <3>1. CASE i = n + 1
      <4>1. m + 1 \in 1..(m + 1)
        BY <2>3
      <4> QED BY <2>4, <3>1, <4>1
    <3>2. CASE i # n + 1
      <4>1. i \in 1..n
        BY <3>2
      <4>2. PICK j \in 1..m : p[j] = i
        BY <2>2, <2>9, <4>1
      <4>3. j \in 1..(m + 1)
        BY <2>3
      <4> QED BY <2>4, <4>2, <4>3
    <3> QED BY <3>1, <3>2
  <2>10. Picks(q, t, s, gone, n + 1)
    BY <2>1, <2>6, <2>7, <2>8, <2>9 DEF Picks
  <2> QED BY <1>4, <2>1, <2>10 DEF t
<1> QED BY <1>3, <1>4

\* What Remaining leaves: the members that are not gone, in their order.
LEMMA RemainingIs ==
  ASSUME NEW S, NEW s \in Seq(S), NEW gone
  PROVE  /\ Remaining(s, gone) \in Seq(S)
         /\ \E p : Picks(p, Remaining(s, gone), s, gone, Len(s))
<1> DEFINE n == Len(s)
           g == CHOOSE f : IsUpTo(f, s, gone, n)
<1>1. n \in Nat
  BY LenProperties
<1>2. IsUpTo(g, s, gone, n)
  <2>1. \E f : IsUpTo(f, s, gone, n)
    BY <1>1, UpToExists
  <2> QED BY <2>1, Zenon
<1>3. Remaining(s, gone) = g[n]
  BY Zenon DEF Remaining, IsUpTo
<1> HIDE DEF g
<1>4. ASSUME NEW i \in 0 .. n
      PROVE  g[i] = IF i = 0 THEN <<>> ELSE IF s[i] \in gone THEN g[i - 1] ELSE Append(g[i - 1], s[i])
  BY <1>2, Zenon DEF IsUpTo
<1> DEFINE T == {i \in Nat : i <= n => g[i] \in Seq(S) /\ \E p : Picks(p, g[i], s, gone, i)}
<1>5. 0 \in T
  <2>1. g[0] = <<>>
    BY <1>1, <1>4
  <2>2. <<>> \in Seq(S) /\ Len(<<>>) = 0
    BY EmptySeq
  <2> DEFINE p == [j \in 1..0 |-> 0]
  <2>3. Picks(p, <<>>, s, gone, 0)
    BY <2>2 DEF Picks
  <2> QED BY <2>1, <2>2, <2>3
<1>6. ASSUME NEW i \in Nat, i \in T PROVE i + 1 \in T
  <2> SUFFICES ASSUME i + 1 <= n
               PROVE  g[i + 1] \in Seq(S) /\ \E p : Picks(p, g[i + 1], s, gone, i + 1)
    OBVIOUS
  <2>1. i <= n /\ i + 1 \in 0 .. n /\ i + 1 # 0 /\ (i + 1) - 1 = i
    BY <1>1
  <2>2. g[i] \in Seq(S) /\ \E p : Picks(p, g[i], s, gone, i)
    BY <1>6, <2>1
  <2>3. g[i + 1] = IF s[i + 1] \in gone THEN g[i] ELSE Append(g[i], s[i + 1])
    <3> DEFINE k == i + 1
    <3>1. k \in 0 .. n /\ k # 0 /\ k - 1 = i
      BY <2>1
    <3> HIDE DEF k
    <3>2. g[k] = IF s[k] \in gone THEN g[i] ELSE Append(g[i], s[k])
      BY <1>4, <3>1
    <3> QED BY <3>2 DEF k
  <2>4. i + 1 <= Len(s)
    OBVIOUS
  <2> QED BY <2>2, <2>3, <2>4, PicksOn
<1>7. Nat \subseteq T
  <2> HIDE DEF T
  <2> QED BY <1>5, <1>6, NumberSets
<1>8. g[n] \in Seq(S) /\ \E p : Picks(p, g[n], s, gone, n)
  BY <1>1, <1>7
<1> QED BY <1>3, <1>8

(***************************************************************************)
(* The order of the unit.                                                  *)
(***************************************************************************)
\* What the picked members say of the list they are picked from.
PickedFrom(p, r, s, gone) ==
    /\ \A j \in 1..Len(r) : p[j] \in 1..Len(s) /\ r[j] = s[p[j]] /\ r[j] \notin gone
    /\ \A j, k \in 1..Len(r) : j # k => p[j] # p[k]
    /\ \A j, k \in 1..Len(r) : p[j] < p[k] => j < k
    /\ \A i \in 1..Len(s) : s[i] \notin gone => \E j \in 1..Len(r) : p[j] = i /\ r[j] = s[i]

\* Remaining picks from the list, in its order, what is not gone.
LEMMA PickedIs ==
  ASSUME NEW S, NEW s \in Seq(S), NEW gone
  PROVE  /\ Remaining(s, gone) \in Seq(S)
         /\ \E p : PickedFrom(p, Remaining(s, gone), s, gone)
<1> DEFINE r == Remaining(s, gone)
<1>1. PICK p : r \in Seq(S) /\ Picks(p, r, s, gone, Len(s))
  BY RemainingIs
<1> HIDE DEF r
<1>2. Len(s) \in Nat /\ Len(r) \in Nat
  BY <1>1, LenProperties
<1>3. /\ \A j \in 1..Len(r) : p[j] \in 1..Len(s) /\ r[j] = s[p[j]] /\ r[j] \notin gone
      /\ \A j, k \in 1..Len(r) : j < k => p[j] < p[k]
      /\ \A i \in 1..Len(s) : s[i] \notin gone => \E j \in 1..Len(r) : p[j] = i
  BY <1>1 DEF Picks
<1>4. ASSUME NEW j \in 1..Len(r), NEW k \in 1..Len(r)
      PROVE  (j # k => p[j] # p[k]) /\ (p[j] < p[k] => j < k)
  <2>1. j < k => p[j] < p[k]
    BY <1>3
  <2>2. k < j => p[k] < p[j]
    BY <1>3
  <2>3. j \in Nat /\ k \in Nat /\ p[j] \in Nat /\ p[k] \in Nat
    BY <1>2, <1>3
  <2> QED BY <2>1, <2>2, <2>3
<1>5. \A i \in 1..Len(s) : s[i] \notin gone => \E j \in 1..Len(r) : p[j] = i /\ r[j] = s[i]
  BY <1>3
<1>6. PickedFrom(p, r, s, gone)
  BY <1>3, <1>4, <1>5 DEF PickedFrom
<1> QED BY <1>1, <1>6 DEF r

\* Picking keeps the order.
LEMMA PickedPrecedes ==
  ASSUME NEW s, NEW gone, NEW r, NEW p, PickedFrom(p, r, s, gone),
         NEW e, NEW g, Precedes(s, e, g), e \notin gone, g \notin gone
  PROVE  Precedes(r, e, g)
<1>1. PICK i \in 1..Len(s), j \in 1..Len(s) : i < j /\ s[i] = e /\ s[j] = g
  BY DEF Precedes
<1>2. PICK a \in 1..Len(r) : p[a] = i /\ r[a] = e
  BY <1>1 DEF PickedFrom
<1>3. PICK b \in 1..Len(r) : p[b] = j /\ r[b] = g
  BY <1>1 DEF PickedFrom
<1>4. a < b
  BY <1>1, <1>2, <1>3 DEF PickedFrom
<1> QED BY <1>2, <1>3, <1>4 DEF Precedes

\* The members of a list with one more at its tail.
LEMMA AppendedIs ==
  ASSUME NEW S, NEW s \in Seq(S), NEW d \in S
  PROVE  /\ Append(s, d) \in Seq(S)
         /\ Len(s) + 1 \in 1..Len(Append(s, d)) /\ Append(s, d)[Len(s) + 1] = d
         /\ \A i \in 1..Len(s) : i \in 1..Len(Append(s, d)) /\ Append(s, d)[i] = s[i]
         /\ \A i \in 1..Len(Append(s, d)) : i \in 1..Len(s) \/ (i = Len(s) + 1 /\ Append(s, d)[i] = d)
<1> DEFINE t == Append(s, d)
           n == Len(s)
<1>1. n \in Nat /\ t \in Seq(S) /\ Len(t) = n + 1 /\ t[n + 1] = d /\ \A i \in 1..n : t[i] = s[i]
  BY LenProperties, AppendProperties
<1> HIDE DEF t, n
<1>2. /\ n + 1 \in 1..Len(t)
      /\ \A i \in 1..n : i \in 1..Len(t) /\ i < n + 1
      /\ \A i \in 1..Len(t) : i \in 1..n \/ i = n + 1
  BY <1>1
<1> QED BY <1>1, <1>2 DEF t, n

\* A declaration appended comes after all the others.
LEMMA AppendedPrecedes ==
  ASSUME NEW S, NEW s \in Seq(S), NEW d \in S
  PROVE  /\ \A e, g : Precedes(s, e, g) => Precedes(Append(s, d), e, g)
         /\ \A i \in 1..Len(s) : Precedes(Append(s, d), s[i], d)
<1> DEFINE t == Append(s, d)
           n == Len(s)
<1>1. n \in Nat /\ Len(t) = n + 1 /\ t[n + 1] = d /\ \A i \in 1..n : t[i] = s[i]
  BY LenProperties, AppendProperties
<1> HIDE DEF t, n
<1>2. /\ n + 1 \in 1..Len(t)
      /\ \A i \in 1..n : i \in 1..Len(t) /\ i < n + 1
  BY <1>1
<1>3. \A e, g : Precedes(s, e, g) => Precedes(t, e, g)
  BY <1>1, <1>2 DEF Precedes, n
<1>4. \A i \in 1..n : Precedes(t, s[i], d)
  BY <1>1, <1>2 DEF Precedes
<1> QED BY <1>3, <1>4 DEF t, n

\* A list with some declarations removed has no name twice,
LEMMA ListedPicked ==
  ASSUME NEW ds, NEW s, Listed(ds, s), NEW gone
  PROVE  Listed(ds, Remaining(s, gone))
<1> DEFINE r == Remaining(s, gone)
<1>1. s \in Seq(1..Len(ds))
  BY DEF Listed
<1>2. PICK p : r \in Seq(1..Len(ds)) /\ PickedFrom(p, r, s, gone)
  BY <1>1, PickedIs
<1> HIDE DEF r
<1>3. ASSUME NEW j \in 1..Len(r)
      PROVE  ds[r[j]].kind \in {"Var", "Function"} /\ ds[r[j]].name \in Names
  <2>1. p[j] \in 1..Len(s) /\ r[j] = s[p[j]]
    BY <1>2 DEF PickedFrom
  <2> QED BY <2>1 DEF Listed
<1>4. ASSUME NEW j \in 1..Len(r), NEW k \in 1..Len(r), j # k
      PROVE  ds[r[j]].name # ds[r[k]].name
  <2>1. /\ p[j] \in 1..Len(s) /\ r[j] = s[p[j]] /\ p[k] \in 1..Len(s) /\ r[k] = s[p[k]]
        /\ p[j] # p[k]
    BY <1>2, <1>4 DEF PickedFrom
  <2> QED BY <2>1 DEF Listed
<1>5. Listed(ds, r)
  BY <1>2, <1>3, <1>4 DEF Listed
<1> QED BY <1>5 DEF r

\* nor does one with a declaration of a new name at its end.
LEMMA ListedAppended ==
  ASSUME NEW ds, NEW s, Listed(ds, s), NEW d \in 1..Len(ds),
         ds[d].kind \in {"Var", "Function"}, ds[d].name \in Names,
         \A i \in 1..Len(s) : ds[s[i]].name # ds[d].name
  PROVE  Listed(ds, Append(s, d))
<1> DEFINE t == Append(s, d)
<1>1. s \in Seq(1..Len(ds))
  BY DEF Listed
<1>2. /\ t \in Seq(1..Len(ds))
      /\ \A i \in 1..Len(s) : t[i] = s[i]
      /\ \A i \in 1..Len(t) : i \in 1..Len(s) \/ (i = Len(s) + 1 /\ t[i] = d)
  BY <1>1, AppendedIs
<1> HIDE DEF t
<1>3. \A i \in 1..Len(t) : ds[t[i]].kind \in {"Var", "Function"} /\ ds[t[i]].name \in Names
  BY <1>2 DEF Listed
<1>4. \A i, j \in 1..Len(t) : i # j => ds[t[i]].name # ds[t[j]].name
  <2> SUFFICES ASSUME NEW i \in 1..Len(t), NEW j \in 1..Len(t), i # j
               PROVE  ds[t[i]].name # ds[t[j]].name
    OBVIOUS
  <2>1. CASE i \in 1..Len(s) /\ j \in 1..Len(s)
    BY <1>2, <2>1 DEF Listed
  <2>2. CASE i \in 1..Len(s) /\ j \notin 1..Len(s)
    BY <1>2, <2>2
  <2>3. CASE i \notin 1..Len(s) /\ j \in 1..Len(s)
    BY <1>2, <2>3
  <2>4. CASE i \notin 1..Len(s) /\ j \notin 1..Len(s)
    BY <1>2, <2>4
  <2> QED BY <2>1, <2>2, <2>3, <2>4
<1>5. Listed(ds, t)
  BY <1>2, <1>3, <1>4 DEF Listed
<1> QED BY <1>5 DEF t

\* A longer list of declarations changes nothing for those that were there.
LEMMA ListedExtended ==
  ASSUME NEW ds, NEW es, NEW g, NEW new, DeclList(ds), DeclList(es), Extended(ds, es, g, new),
         NEW s, Listed(ds, s)
  PROVE  Listed(es, s) /\ \A i \in 1..Len(s) : s[i] \in 1..Len(ds) /\ SameDecl(ds[s[i]], es[s[i]])
<1>1. Len(ds) \in Nat /\ Len(es) \in Nat /\ Len(ds) <= Len(es)
  BY DeclTypes DEF Extended
<1>2. 1..Len(ds) \subseteq 1..Len(es)
  BY <1>1
<1>3. s \in Seq(1..Len(ds)) /\ s \in Seq(1..Len(es))
  BY <1>2, SeqMonotonic DEF Listed
<1>4. \A i \in 1..Len(s) : s[i] \in 1..Len(ds)
  BY <1>3, ElementOfSeq
<1>5. \A i \in 1..Len(s) : SameDecl(ds[s[i]], es[s[i]])
  BY <1>4 DEF Extended
<1>6. \A i \in 1..Len(s) : es[s[i]].name = ds[s[i]].name /\ es[s[i]].kind = ds[s[i]].kind
  BY <1>5 DEF SameDecl
<1>7. Listed(es, s)
  BY <1>3, <1>6 DEF Listed
<1> QED BY <1>4, <1>5, <1>7

\* One list goes before another in the same order.
InOrder(s, t) == \A e, g : Precedes(s, e, g) => Precedes(t, e, g)

\* The types an item of a body has.
LEMMA ItemTypes ==
  ASSUME NEW ds, DeclList(ds), AllMentions(ds), NEW g \in 1..Len(ds), NEW k \in 1..Len(ds[g].items)
  PROVE  /\ ds[g].items[k].decl \in 1..Len(ds)
         /\ ds[g].items[k].kind \in {"Var", "ParamVar", "Function", "Local"}
<1>1. MentionOK(ds, ds[g].items[k])
  BY DEF AllMentions
<1>2. ds[g].items[k] \in BodyItems
  BY DeclTypes
<1>3. ds[g].items[k].kind \in {"Var", "ParamVar", "Function", "Local"}
  BY <1>2 DEF BodyItems, DeclKinds
<1> QED BY <1>1, <1>3 DEF MentionOK

\* The items of a body stay where they are as declarations are added.
LEMMA OldItems ==
  ASSUME NEW ds, NEW es, NEW g, NEW new \in Seq(BodyItems), DeclList(ds), DeclList(es),
         Extended(ds, es, g, new), NEW f \in 1..Len(ds)
  PROVE  /\ f \in 1..Len(es) /\ Len(ds[f].items) \in Nat /\ Len(es[f].items) \in Nat
         /\ \A k \in 1..Len(ds[f].items) :
               k \in 1..Len(es[f].items) /\ es[f].items[k] = ds[f].items[k]
<1>1. /\ Len(ds) \in Nat /\ Len(es) \in Nat /\ Len(ds) <= Len(es)
      /\ ds[f].items \in Seq(BodyItems) /\ Len(ds[f].items) \in Nat
  BY DeclTypes DEF Extended
<1>2. f \in 1..Len(es)
  BY <1>1
<1>3. CASE f = g
  <2>1. es[f].items = ds[f].items \o new
    BY <1>3 DEF Extended
  <2>2. /\ Len(ds[f].items \o new) = Len(ds[f].items) + Len(new) /\ Len(new) \in Nat
        /\ \A k \in 1..Len(ds[f].items) : (ds[f].items \o new)[k] = ds[f].items[k]
    BY <1>1, ConcatProperties, LenProperties
  <2> DEFINE old == ds[f].items
             now == es[f].items
  <2>3. Len(old) \in Nat /\ Len(new) \in Nat /\ Len(now) = Len(old) + Len(new)
    BY <1>1, <2>1, <2>2
  <2>4. \A k \in 1..Len(old) : now[k] = old[k]
    BY <2>1, <2>2
  <2> HIDE DEF old, now
  <2>5. Len(now) \in Nat /\ \A k \in 1..Len(old) : k \in 1..Len(now)
    BY <2>3
  <2> QED BY <1>1, <1>2, <2>4, <2>5 DEF old, now
<1>4. CASE f # g
  <2>1. es[f].items = ds[f].items
    BY <1>4 DEF Extended
  <2> QED BY <1>1, <1>2, <2>1
<1> QED BY <1>3, <1>4

\* What an item refers to is still there in a longer list of declarations and in a
\* unit that keeps the order.
LEMMA LocalsExtended ==
  ASSUME NEW ds, NEW es, NEW g, NEW new \in Seq(BodyItems), DeclList(ds), DeclList(es),
         Extended(ds, es, g, new), NEW f \in 1..Len(ds), NEW k \in Nat, k <= Len(ds[f].items) + 1
  PROVE  LocalsIn(ds, f, k) \subseteq LocalsIn(es, f, k)
<1>1. \A i \in 1..(k - 1) : i \in 1..Len(ds[f].items)
  <2>1. Len(ds[f].items) \in Nat
    BY DeclTypes
  <2> QED BY <2>1
<1>2. \A i \in 1..(k - 1) : es[f].items[i] = ds[f].items[i]
  BY <1>1, OldItems
<1>3. \A x \in LocalsIn(ds, f, k) : x \in LocalsIn(es, f, k)
  <2> SUFFICES ASSUME NEW x \in LocalsIn(ds, f, k) PROVE x \in LocalsIn(es, f, k)
    OBVIOUS
  <2>1. PICK i \in 1..(k - 1) : ds[f].items[i].kind = "Local" /\ x = ds[f].items[i].decl
    BY Zenon DEF LocalsIn
  <2>2. es[f].items[i].kind = "Local" /\ x = es[f].items[i].decl
    BY <1>2, <2>1
  <2> QED BY <2>2, Zenon DEF LocalsIn
<1> QED BY <1>3

\* The parameters of a function that was there have the names they had.
LEMMA ParametersExtended ==
  ASSUME NEW ds, NEW es, NEW g, NEW new, DeclList(ds), DeclList(es),
         Extended(ds, es, g, new), NEW f \in 1..Len(ds)
  PROVE  ParametersIn(ds, f) \subseteq ParametersIn(es, f)
<1> SUFFICES ASSUME NEW p \in ParametersIn(ds, f) PROVE p \in ParametersIn(es, f)
  OBVIOUS
<1>1. p \in ToSet(ds[f].params) /\ ds[p].name # NoName
  BY Zenon DEF ParametersIn
<1>2. p \in 1..Len(ds)
  BY <1>1 DEF DeclList
<1>3. SameDecl(ds[f], es[f]) /\ SameDecl(ds[p], es[p])
  BY <1>2, Zenon DEF Extended
<1>4. p \in ToSet(es[f].params) /\ es[p].name # NoName
  BY <1>1, <1>3, Zenon DEF SameDecl
<1> QED BY <1>4, Zenon DEF ParametersIn

\* What a mention means stays where it has to be as the unit and the body
\* grow.
LEMMA PlacedExtended ==
  ASSUME NEW ds, NEW es, NEW g, NEW new \in Seq(BodyItems), DeclList(ds), DeclList(es),
         Extended(ds, es, g, new), AllMentions(ds), NEW s, NEW t, InOrder(s, t),
         NEW f \in 1..Len(ds), NEW k \in 1..Len(ds[f].items), Placed(ds, s, f, k)
  PROVE  Placed(es, t, f, k)
<1> DEFINE m == ds[f].items[k]
<1>1. es[f].items[k] = m
  BY OldItems
<1>2. m.decl \in 1..Len(ds)
  BY ItemTypes
<1>3. /\ LeakedIn(ds) \subseteq LeakedIn(es)
      /\ ParametersIn(ds, f) \subseteq ParametersIn(es, f)
      /\ LocalsIn(ds, f, k) \subseteq LocalsIn(es, f, k)
  <2>1. k \in Nat /\ k <= Len(ds[f].items) + 1
    <3>1. Len(ds[f].items) \in Nat
      BY DeclTypes
    <3> QED BY <3>1
  <2>2. LeakedIn(ds) \subseteq LeakedIn(es)
    BY LeakedExtended
  <2>3. ParametersIn(ds, f) \subseteq ParametersIn(es, f)
    BY ParametersExtended
  <2>4. LocalsIn(ds, f, k) \subseteq LocalsIn(es, f, k)
    BY <2>1, LocalsExtended
  <2> QED BY <2>2, <2>3, <2>4
<1>4. es[m.decl].body = ds[m.decl].body /\ es[m.decl].name = ds[m.decl].name
  BY <1>2, Zenon DEF Extended, SameDecl
<1>5. \A h \in 1..Len(ds) : /\ h \in 1..Len(es) /\ es[h].name = ds[h].name
                            /\ WithBody(ds[h]) => WithBody(es[h])
  <2>1. Len(ds) \in Nat /\ Len(es) \in Nat /\ Len(ds) <= Len(es)
    BY DeclTypes DEF Extended
  <2>2. \A h \in 1..Len(ds) : h \in 1..Len(es)
    BY <2>1
  <2>3. \A h \in 1..Len(ds) : SameDecl(ds[h], es[h])
    BY Zenon DEF Extended
  <2> QED BY <2>2, <2>3, Zenon DEF SameDecl, WithBody
<1>6. Overtaken(ds, s, m.decl, f) => Overtaken(es, t, m.decl, f)
  <2> SUFFICES ASSUME Overtaken(ds, s, m.decl, f) PROVE Overtaken(es, t, m.decl, f)
    OBVIOUS
  <2>1. PICK h \in 1..Len(ds) : Precedes(s, f, h) /\ WithBody(ds[h]) /\ ds[h].name = ds[m.decl].name
    BY Zenon DEF Overtaken
  <2>2. h \in 1..Len(es) /\ Precedes(t, f, h) /\ WithBody(es[h]) /\ es[h].name = es[m.decl].name
    BY <1>4, <1>5, <2>1, Zenon DEF InOrder
  <2> QED BY <2>2, Zenon DEF Overtaken
<1>7. Precedes(s, m.decl, f) => Precedes(t, m.decl, f)
  BY Zenon DEF InOrder
<1> HIDE DEF m
<1>8. /\ m.kind \in {"Var", "ParamVar"} =>
           \/ m.decl \in LeakedIn(ds) \cup ParametersIn(ds, f) \cup LocalsIn(ds, f, k)
           \/ Precedes(s, m.decl, f)
      /\ m.kind = "Function" =>
           \/ m.decl = f
           \/ Precedes(s, m.decl, f)
           \/ ~ds[m.decl].body /\ Overtaken(ds, s, m.decl, f)
  BY Zenon DEF Placed, m
<1>9. /\ m.kind \in {"Var", "ParamVar"} =>
           \/ m.decl \in LeakedIn(es) \cup ParametersIn(es, f) \cup LocalsIn(es, f, k)
           \/ Precedes(t, m.decl, f)
      /\ m.kind = "Function" =>
           \/ m.decl = f
           \/ Precedes(t, m.decl, f)
           \/ ~es[m.decl].body /\ Overtaken(es, t, m.decl, f)
  BY <1>3, <1>4, <1>6, <1>7, <1>8
<1> QED BY <1>1, <1>9, Zenon DEF Placed

\* Every item of every function of a unit, but those the step adds.
LEMMA AllPlacedExtended ==
  ASSUME NEW ds, NEW es, NEW g, NEW new \in Seq(BodyItems), DeclList(ds), DeclList(es),
         Extended(ds, es, g, new), AllMentions(ds), NEW s, Listed(ds, s), NEW t, InOrder(s, t),
         AllPlaced(ds, s), NEW i \in 1..Len(s), NEW k \in 1..Len(es[s[i]].items)
  PROVE  \/ Placed(es, t, s[i], k)
         \/ /\ s[i] = g /\ k > Len(ds[g].items) /\ k - Len(ds[g].items) \in 1..Len(new)
            /\ es[g].items[k] = new[k - Len(ds[g].items)]
<1> DEFINE f == s[i]
<1>1. f \in 1..Len(ds)
  BY ElementOfSeq DEF Listed
<1>2. f \in 1..Len(es)
  BY <1>1, OldItems
<1>3. CASE k \in 1..Len(ds[f].items)
  <2>1. Placed(ds, s, f, k)
    BY <1>3 DEF AllPlaced
  <2> HIDE DEF f
  <2>2. Placed(es, t, f, k)
    BY <1>1, <1>3, <2>1, PlacedExtended
  <2> QED BY <2>2 DEF f
<1>4. CASE k \notin 1..Len(ds[f].items)
  <2>1. k \in 1..Len(es[f].items)
    OBVIOUS
  <2> HIDE DEF f
  <2>2. /\ f = g /\ k > Len(ds[f].items) /\ k - Len(ds[f].items) \in 1..Len(new)
        /\ es[f].items[k] = new[k - Len(ds[f].items)]
    BY <1>2, <1>4, <2>1, ItemsExtended
  <2> QED BY <2>2 DEF f
<1> QED BY <1>3, <1>4

(***************************************************************************)
(* Statements.                                                             *)
(***************************************************************************)
\* One table, with all its entries.
LEMMA TablesExtended ==
  ASSUME NEW ds, NEW es, NEW g, NEW new, DeclList(ds), DeclList(es), Extended(ds, es, g, new),
         NEW s, Listed(ds, s), NEW t, \A x \in Names : t[x] \in 0..Len(ds)
  PROVE  /\ InTable(ds, s, t) => InTable(es, s, t)
         /\ FromUnit(ds, s, t) => FromUnit(es, s, t)
<1>1. \A f \in 1..Len(ds) : es[f].name = ds[f].name /\ es[f].kind = ds[f].kind
  BY Zenon DEF Extended, SameDecl
<1>2. \A i \in 1..Len(s) : s[i] \in 1..Len(ds) /\ ds[s[i]].name \in Names
  BY ElementOfSeq DEF Listed
<1>3. LeakedIn(ds) \subseteq LeakedIn(es)
  BY LeakedExtended
<1>4. \A x \in Names : t[x] # None => t[x] \in 1..Len(ds)
  <2>1. Len(ds) \in Nat
    BY DeclTypes
  <2> QED BY <2>1 DEF None
<1>5. ASSUME InTable(ds, s, t) PROVE InTable(es, s, t)
  <2> SUFFICES ASSUME NEW i \in 1..Len(s)
               PROVE  LET e == t[es[s[i]].name] IN e = s[i] \/ (e # None /\ es[e].kind = "ParamVar")
    BY DEF InTable
  <2>1. es[s[i]].name = ds[s[i]].name /\ ds[s[i]].name \in Names
    BY <1>1, <1>2
  <2>2. LET e == t[ds[s[i]].name] IN e = s[i] \/ (e # None /\ ds[e].kind = "ParamVar")
    BY <1>5 DEF InTable
  <2> QED BY <1>1, <1>4, <2>1, <2>2
<1>6. ASSUME FromUnit(ds, s, t) PROVE FromUnit(es, s, t)
  <2> SUFFICES ASSUME NEW x \in Names, t[x] # None
               PROVE  \/ \E i \in 1..Len(s) : s[i] = t[x]
                      \/ t[x] \in LeakedIn(es) /\ es[t[x]].kind = "ParamVar"
    BY DEF FromUnit
  <2>1. \/ \E i \in 1..Len(s) : s[i] = t[x]
        \/ t[x] \in LeakedIn(ds) /\ ds[t[x]].kind = "ParamVar"
    BY <1>6 DEF FromUnit
  <2> QED BY <1>1, <1>3, <1>4, <2>1
<1> QED BY <1>5, <1>6

\* extern is what it was.
ExternsKept(ds, es) == \A f \in 1..Len(ds) : es[f].extern = ds[f].extern

\* Which functions have bodies does not depend on what is added.
LEMMA BodiesExtended ==
  ASSUME NEW ds, NEW es, NEW g, NEW new, DeclList(ds), DeclList(es), Extended(ds, es, g, new),
         NEW f \in 1..Len(ds)
  PROVE  (Bodyless(es[f]) <=> Bodyless(ds[f])) /\ (WithBody(es[f]) <=> WithBody(ds[f]))
<1>1. es[f].kind = ds[f].kind /\ es[f].body = ds[f].body
  BY Zenon DEF Extended, SameDecl
<1> QED BY <1>1, Zenon DEF Bodyless, WithBody

\* The functions without a body stay external.
LEMMA ExternalsExtended ==
  ASSUME NEW ds, NEW es, NEW g, NEW new, DeclList(ds), DeclList(es), Extended(ds, es, g, new),
         ExternsKept(ds, es), NEW s \in Seq(1..Len(ds)), Externals(ds, s),
         \A f \in 1..Len(es) : f > Len(ds) /\ Bodyless(es[f]) => es[f].extern
  PROVE  Externals(es, s)
<1>1. \A i \in 1..Len(s) : s[i] \in 1..Len(ds)
  BY ElementOfSeq
<1>2. ASSUME NEW f \in 1..Len(es), Bodyless(es[f]) PROVE es[f].extern
  <2>1. CASE f \in 1..Len(ds)
    <3>1. Bodyless(ds[f])
      BY <1>2, <2>1, BodiesExtended
    <3>2. ds[f].extern
      BY <2>1, <3>1, Zenon DEF Externals
    <3> QED BY <2>1, <3>2, Zenon DEF ExternsKept
  <2>2. CASE f \notin 1..Len(ds)
    <3>1. Len(ds) \in Nat
      BY DeclTypes
    <3>2. f > Len(ds)
      BY <2>2, <3>1
    <3> QED BY <1>2, <3>2
  <2> QED BY <2>1, <2>2
<1>3. ASSUME NEW i \in 1..Len(s), WithBody(es[s[i]]) PROVE ~es[s[i]].extern
  <2>1. s[i] \in 1..Len(ds)
    BY <1>1
  <2>2. WithBody(ds[s[i]])
    BY <1>3, <2>1, BodiesExtended
  <2>3. ~ds[s[i]].extern
    BY <2>2, Zenon DEF Externals
  <2> QED BY <2>1, <2>3, Zenon DEF ExternsKept
<1> QED BY <1>2, <1>3, Zenon DEF Externals

\* Uses of names are noted.
NewNoted(ds, new, refs) ==
    \A k \in 1..Len(new) : new[k].kind # "Local" =>
        new[k].decl \in refs /\ new[k].decl \in 1..Len(ds) /\ ds[new[k].decl].kind = new[k].kind

\* What is mentioned stays noted, the new mentions included.
LEMMA NotedExtended ==
  ASSUME NEW ds, NEW es, NEW g, NEW new \in Seq(BodyItems), DeclList(ds), DeclList(es),
         Extended(ds, es, g, new), AllMentions(ds), NEW refs, NEW more, refs \subseteq more,
         Noted(ds, refs), NewNoted(ds, new, more)
  PROVE  Noted(es, more)
<1> SUFFICES ASSUME NEW f \in 1..Len(es), NEW k \in 1..Len(es[f].items),
                    es[f].items[k].kind # "Local"
             PROVE  es[f].items[k].decl \in more /\ es[es[f].items[k].decl].kind = es[f].items[k].kind
  BY DEF Noted
<1>1. \A h \in 1..Len(ds) : es[h].kind = ds[h].kind
  BY Zenon DEF Extended, SameDecl
<1>2. CASE f \in 1..Len(ds) /\ k \in 1..Len(ds[f].items) /\ es[f].items[k] = ds[f].items[k]
  <2>1. ds[f].items[k].decl \in refs /\ ds[ds[f].items[k].decl].kind = ds[f].items[k].kind
    BY <1>2 DEF Noted
  <2>2. ds[f].items[k].decl \in 1..Len(ds)
    BY <1>2, ItemTypes
  <2> QED BY <1>1, <1>2, <2>1, <2>2
<1>3. CASE /\ f = g /\ f \in 1..Len(ds) /\ k > Len(ds[f].items)
           /\ k - Len(ds[f].items) \in 1..Len(new)
           /\ es[f].items[k] = new[k - Len(ds[f].items)]
  BY <1>1, <1>3 DEF NewNoted
<1>4. \/ f \in 1..Len(ds) /\ k \in 1..Len(ds[f].items) /\ es[f].items[k] = ds[f].items[k]
      \/ /\ f = g /\ f \in 1..Len(ds) /\ k > Len(ds[f].items)
         /\ k - Len(ds[f].items) \in 1..Len(new)
         /\ es[f].items[k] = new[k - Len(ds[f].items)]
  BY ItemsExtended
<1> QED BY <1>2, <1>3, <1>4

\* A statement: what it adds are variables of the function and uses of names that
\* are in a table.
Spoken(new) ==
    /\ phase = "parse" /\ phase' = "parse" /\ open # <<>> /\ open' # <<>>
    /\ func' = func /\ tu' = tu /\ depth' \in Nat
    /\ next' = next /\ addresses' = addresses /\ functions' = functions /\ globals' = globals
    /\ new \in Seq(BodyItems) /\ DeclList(decls') /\ Extended(decls, decls', func, new)
    /\ ExternsKept(decls, decls')
    /\ \A f \in 1..Len(decls') : f > Len(decls) => decls'[f].kind = "Var"
    /\ symrefs \subseteq symrefs' /\ symrefs' \subseteq 1..Len(decls')
    /\ tables'[1] = tables[1]
    /\ \A k \in 2..Len(tables') : \A x \in Names : tables'[k][x] # None =>
          \/ \E j \in 2..Len(tables) : tables'[k][x] = tables[j][x]
          \/ tables'[k][x] \in LocalsIn(decls', func, Len(decls'[func].items) + 1)
    /\ \A k \in 1..Len(new) :
          \/ new[k].kind = "Local"
          \/ /\ new[k].decl \in symrefs' /\ new[k].decl \in 1..Len(decls)
             /\ decls[new[k].decl].kind = new[k].kind
             /\ \E j \in 1..Len(tables) : \E x \in Names : new[k].decl = tables[j][x]

\* What a name in scope refers to, where the k-th item of the body comes after all
\* there are.
LEMMA NamePlaced ==
  ASSUME NEW ds, NEW es, NEW g \in 1..Len(ds), NEW new \in Seq(BodyItems), DeclList(ds), DeclList(es),
         Extended(ds, es, g, new), NEW ts \in Tables, Bounded(ts, Len(ds)), Entries(ds, ts),
         Inside(ds, g, ts), NEW s \in Seq(1..Len(ds)), FromUnit(ds, Append(s, g), ts[1]), WithBody(ds[g]),
         NEW k \in 1..Len(es[g].items), k > Len(ds[g].items),
         NEW j \in 1..Len(ts), NEW x \in Names, es[g].items[k].decl = ts[j][x], ts[j][x] # None,
         ds[ts[j][x]].kind = es[g].items[k].kind
  PROVE  Placed(es, Append(s, g), g, k)
<1> DEFINE m == es[g].items[k]
           t == Append(s, g)
<1>0. Len(ds[g].items) \in Nat
  BY DeclTypes
<1>1. ts[j][x] \in 1..Len(ds)
  <2>1. ts[j][x] \in Nat /\ ts[j][x] <= Len(ds) /\ Len(ds) \in Nat
    BY TableTypes, DeclTypes DEF Bounded
  <2> QED BY <2>1 DEF None
<1>2. CASE j # 1
  <2>1. j \in 2..Len(ts)
    <3>1. Len(ts) \in Nat
      BY TableTypes
    <3> QED BY <1>2, <3>1
  <2>2. m.decl \in ParametersIn(ds, g) \cup LocalsIn(ds, g, Len(ds[g].items) + 1)
    BY <2>1, Zenon DEF Inside
  <2>3. LocalsIn(ds, g, Len(ds[g].items) + 1) \subseteq LocalsIn(es, g, Len(ds[g].items) + 1)
    <3> DEFINE n == Len(ds[g].items) + 1
    <3>1. n \in Nat /\ n <= Len(ds[g].items) + 1
      BY <1>0
    <3> HIDE DEF n
    <3>2. LocalsIn(ds, g, n) \subseteq LocalsIn(es, g, n)
      BY <3>1, LocalsExtended
    <3> QED BY <3>2 DEF n
  <2>4. LocalsIn(es, g, Len(ds[g].items) + 1) \subseteq LocalsIn(es, g, k)
    <3>1. \A i \in 1..((Len(ds[g].items) + 1) - 1) : i \in 1..(k - 1)
      <4>1. k \in Nat
        OBVIOUS
      <4> QED BY <1>0, <4>1
    <3> QED BY <3>1, Zenon DEF LocalsIn
  <2>5. ParametersIn(ds, g) \subseteq ParametersIn(es, g)
    BY ParametersExtended
  <2>6. m.decl \in LeakedIn(es) \cup ParametersIn(es, g) \cup LocalsIn(es, g, k)
    BY <2>2, <2>3, <2>4, <2>5
  <2>7. m.kind # "Function"
    BY <1>2 DEF Entries
  <2> QED BY <2>6, <2>7, Zenon DEF Placed
<1>3. CASE j = 1
  <2>1. \/ \E i \in 1..Len(t) : t[i] = m.decl
        \/ m.decl \in LeakedIn(ds) /\ ds[m.decl].kind = "ParamVar"
    <3>1. ts[1][x] # None /\ m.decl = ts[1][x]
      BY <1>3
    <3>2. FromUnit(ds, t, ts[1])
      OBVIOUS
    <3> HIDE DEF t
    <3>3. \/ \E i \in 1..Len(t) : t[i] = ts[1][x]
          \/ ts[1][x] \in LeakedIn(ds) /\ ds[ts[1][x]].kind = "ParamVar"
      BY <3>1, <3>2, Zenon DEF FromUnit
    <3> QED BY <3>1, <3>3
  <2>2. CASE m.decl \in LeakedIn(ds) /\ ds[m.decl].kind = "ParamVar"
    <3>1. m.decl \in LeakedIn(es)
      BY <2>2, LeakedExtended
    <3>2. m.kind # "Function"
      BY <2>2
    <3> QED BY <3>1, <3>2 DEF Placed
  <2>3. CASE \E i \in 1..Len(t) : t[i] = m.decl
    <3>1. PICK i \in 1..Len(t) : t[i] = m.decl
      BY <2>3
    <3>2. i \in 1..Len(s) \/ (i = Len(s) + 1 /\ t[i] = g)
      BY AppendedIs
    <3>3. CASE i \in 1..Len(s)
      <4>1. t[i] = s[i]
        BY <3>3, AppendedIs
      <4>2. Precedes(t, s[i], g)
        BY <3>3, AppendedPrecedes
      <4> HIDE DEF t
      <4>3. Precedes(t, m.decl, g)
        BY <3>1, <4>1, <4>2
      <4> QED BY <4>3, Zenon DEF Placed, t
    <3>4. CASE t[i] = g
      <4>1. m.decl = g
        BY <3>1, <3>4
      <4>2. m.kind = "Function"
        BY <4>1, Zenon DEF WithBody
      <4> QED BY <4>1, <4>2 DEF Placed
    <3> QED BY <3>2, <3>3, <3>4
  <2> QED BY <2>1, <2>2, <2>3
<1> QED BY <1>2, <1>3

\* What the module has is nothing to the parser.
LEMMA NothingAccounted ==
  ASSUME NEW ds, NEW es, NEW fs, NEW gs, NEW as, Accounted(ds, <<>>, 1, fs, gs, as)
  PROVE  Accounted(es, <<>>, 1, fs, gs, as)
<1>1. \A i \in 1..Len(<<>>) : FALSE
  BY EmptySeq
<1>2. /\ fs \in [Names \cup {Memset} -> Int] /\ fs[Memset] = Builtin
      /\ \A x \in Names \cup {Memset} : fs[x] # None => x = Memset
      /\ \A x \in gs : FALSE
  BY <1>1, Zenon DEF Accounted
<1> QED BY <1>1, <1>2, Zenon DEF Accounted

\* A list is in its own order.
LEMMA InOrderSame ==
  ASSUME NEW s
  PROVE  InOrder(s, s)
BY DEF InOrder

\* What the unit's invariant says while the text is parsed.
LEMMA UnitWhileParsed ==
  ASSUME Scoping, Unit, phase = "parse"
  PROVE  /\ DeclList(decls) /\ AllMentions(decls) /\ Len(decls) \in Nat
         /\ tables \in Tables /\ Bounded(tables, Len(decls)) /\ Entries(decls, tables)
         /\ tu \in Seq(1..Len(decls)) /\ symrefs \subseteq 1..Len(decls)
         /\ addresses \subseteq 1..Len(decls)
         /\ WhileParsed
<1>1. Basics /\ WhileParsed
  BY DEF Unit
<1>2. DeclList(decls) /\ AllMentions(decls) /\ tables \in Tables /\ Resolved(open, decls, tables, scopes)
  BY Zenon DEF Scoping
<1>3. Bounded(tables, Len(decls)) /\ Entries(decls, tables)
  BY <1>2, Zenon DEF Resolved
<1>4. Len(decls) \in Nat
  BY <1>2, DeclTypes
<1> QED BY <1>1, <1>2, <1>3, <1>4, Zenon DEF Basics

\* While the text is parsed, the unit's invariant is these two parts.
LEMMA UnitParsedOn ==
  ASSUME Basics', WhileParsed', phase' = "parse"
  PROVE  Unit'
BY DEF Unit, AbortExplained

\* The inner tables hold locals of the function being parsed as long as what
\* enters them is one.
LEMMA InnerTables ==
  ASSUME NEW ds, NEW es, NEW g \in 1..Len(ds), NEW new \in Seq(BodyItems), DeclList(ds), DeclList(es),
         Extended(ds, es, g, new), NEW ts, NEW us, Inside(ds, g, ts),
         \A k \in 2..Len(us) : \A x \in Names : us[k][x] # None =>
            \/ \E j \in 2..Len(ts) : us[k][x] = ts[j][x]
            \/ us[k][x] \in LocalsIn(es, g, Len(es[g].items) + 1)
  PROVE  Inside(es, g, us)
<1> SUFFICES ASSUME NEW k \in 2..Len(us), NEW x \in Names, us[k][x] # None
             PROVE  us[k][x] \in ParametersIn(es, g) \cup LocalsIn(es, g, Len(es[g].items) + 1)
  BY Zenon DEF Inside
<1> DEFINE n == Len(ds[g].items) + 1
           m == Len(es[g].items) + 1
<1>1. n \in Nat /\ n <= Len(ds[g].items) + 1
  <2>1. Len(ds[g].items) \in Nat
    BY DeclTypes
  <2> QED BY <2>1
<1>2. \A i \in 1..(n - 1) : i \in 1..(m - 1)
  <2>1. Len(ds[g].items) \in Nat /\ Len(es[g].items) \in Nat
    BY OldItems
  <2>2. \A i \in 1..Len(ds[g].items) : i \in 1..Len(es[g].items)
    BY OldItems
  <2> QED BY <2>1, <2>2
<1>3. us[k][x] \in LocalsIn(es, g, m) \/ \E j \in 2..Len(ts) : us[k][x] = ts[j][x]
  OBVIOUS
<1> HIDE DEF n, m
<1>4. LocalsIn(ds, g, n) \subseteq LocalsIn(es, g, n)
  BY <1>1, LocalsExtended
<1>5. LocalsIn(es, g, n) \subseteq LocalsIn(es, g, m)
  BY <1>2, Zenon DEF LocalsIn
<1>6. ParametersIn(ds, g) \subseteq ParametersIn(es, g)
  BY ParametersExtended
<1>7. CASE \E j \in 2..Len(ts) : us[k][x] = ts[j][x]
  <2>1. us[k][x] \in ParametersIn(ds, g) \cup LocalsIn(ds, g, n)
    BY <1>7, Zenon DEF Inside, n
  <2> QED BY <1>4, <1>5, <1>6, <2>1 DEF m
<1>8. CASE us[k][x] \in LocalsIn(es, g, m)
  BY <1>8 DEF m
<1> QED BY <1>3, <1>7, <1>8

\* The items a statement adds refer to what they may.
LEMMA SpokenPlaced ==
  ASSUME Inv, Scoping, Unit, NEW new, Spoken(new)
  PROVE  AllPlaced(decls', Append(tu, func))
<1> DEFINE s == Append(tu, func)
           es == decls'
<1>1. /\ DeclList(decls) /\ AllMentions(decls) /\ tables \in Tables /\ Bounded(tables, Len(decls))
      /\ Entries(decls, tables) /\ tu \in Seq(1..Len(decls)) /\ WhileParsed
  BY UnitWhileParsed DEF Spoken
<1>2. open # <<>> /\ Line = s
  BY DEF Spoken, Line
<1>3. func \in 1..Len(decls)
  BY <1>2 DEF Scoping, Spoken
<1>4. /\ Listed(decls, s) /\ FromUnit(decls, s, tables[1]) /\ AllPlaced(decls, s)
      /\ WithBody(decls[func]) /\ Inside(decls, func, tables)
  BY <1>1, <1>2 DEF WhileParsed
<1>5. new \in Seq(BodyItems) /\ DeclList(es) /\ Extended(decls, es, func, new)
  BY DEF Spoken
<1>6. \A k \in 1..Len(new) :
        \/ new[k].kind = "Local"
        \/ /\ new[k].decl \in 1..Len(decls) /\ decls[new[k].decl].kind = new[k].kind
           /\ \E j \in 1..Len(tables) : \E x \in Names : new[k].decl = tables[j][x]
  BY Zenon DEF Spoken
<1> HIDE DEF s, es
<1>7. ASSUME NEW i \in 1..Len(s), NEW k \in 1..Len(es[s[i]].items) PROVE Placed(es, s, s[i], k)
  <2>1. \/ Placed(es, s, s[i], k)
        \/ /\ s[i] = func /\ k > Len(decls[func].items) /\ k - Len(decls[func].items) \in 1..Len(new)
           /\ es[func].items[k] = new[k - Len(decls[func].items)]
    <3>1. InOrder(s, s)
      BY InOrderSame
    <3>2. Listed(decls, s) /\ AllPlaced(decls, s) /\ DeclList(decls) /\ AllMentions(decls)
      BY <1>1, <1>4
    <3> QED BY <1>5, <3>1, <3>2, AllPlacedExtended
  <2>2. CASE /\ s[i] = func /\ k > Len(decls[func].items) /\ k - Len(decls[func].items) \in 1..Len(new)
             /\ es[func].items[k] = new[k - Len(decls[func].items)]
    <3> DEFINE m == es[func].items[k]
    <3>1. \/ m.kind = "Local"
          \/ /\ m.decl \in 1..Len(decls) /\ decls[m.decl].kind = m.kind
             /\ \E j \in 1..Len(tables) : \E x \in Names : m.decl = tables[j][x]
      <4> DEFINE h == k - Len(decls[func].items)
      <4>1. h \in 1..Len(new) /\ m = new[h]
        BY <2>2
      <4> HIDE DEF h, m
      <4> QED BY <1>6, <4>1
    <3>2. CASE m.kind = "Local"
      <4>1. Placed(es, s, func, k)
        BY <3>2 DEF Placed
      <4> QED BY <2>2, <4>1
    <3>3. CASE /\ m.decl \in 1..Len(decls) /\ decls[m.decl].kind = m.kind
               /\ \E j \in 1..Len(tables) : \E x \in Names : m.decl = tables[j][x]
      <4>1. PICK j \in 1..Len(tables), x \in Names : m.decl = tables[j][x]
        BY <3>3
      <4>2. tables[j][x] # None /\ decls[tables[j][x]].kind = m.kind
        BY <3>3, <4>1 DEF None
      <4>3. k \in 1..Len(es[func].items) /\ k > Len(decls[func].items)
        BY <2>2
      <4>4. FromUnit(decls, Append(tu, func), tables[1])
        BY <1>4 DEF s
      <4>5. Placed(es, Append(tu, func), func, k)
        BY <1>1, <1>3, <1>4, <1>5, <4>1, <4>2, <4>3, <4>4, NamePlaced
      <4> QED BY <2>2, <4>5 DEF s
    <3> QED BY <3>1, <3>2, <3>3
  <2> QED BY <2>1, <2>2
<1>8. AllPlaced(es, s)
  BY <1>7 DEF AllPlaced
<1> QED BY <1>8 DEF s, es

\* A step that only adds items to the body keeps the unit's invariant.
LEMMA SpokenUnit ==
  ASSUME Inv, Scoping, Unit, NEW new, Spoken(new)
  PROVE  Unit'
<1> DEFINE s == Append(tu, func)
           es == decls'
           ts == tables'
<1>1. /\ DeclList(decls) /\ AllMentions(decls) /\ Len(decls) \in Nat
      /\ tables \in Tables /\ Bounded(tables, Len(decls))
      /\ tu \in Seq(1..Len(decls)) /\ symrefs \subseteq 1..Len(decls)
      /\ addresses \subseteq 1..Len(decls) /\ WhileParsed
  BY UnitWhileParsed DEF Spoken
<1>2. open # <<>> /\ Line = s
  BY DEF Spoken, Line
<1>3. func \in 1..Len(decls)
  BY <1>2 DEF Scoping, Spoken
<1>4. /\ Listed(decls, s) /\ Externals(decls, tu)
      /\ InTable(decls, s, tables[1]) /\ FromUnit(decls, s, tables[1]) /\ Noted(decls, symrefs)
      /\ WithBody(decls[func]) /\ Inside(decls, func, tables)
      /\ Accounted(decls, <<>>, 1, functions, globals, addresses) /\ next = 1
  BY <1>1, <1>2 DEF WhileParsed
<1>5. /\ new \in Seq(BodyItems) /\ DeclList(es) /\ Extended(decls, es, func, new)
      /\ ExternsKept(decls, es) /\ symrefs \subseteq symrefs' /\ symrefs' \subseteq 1..Len(es)
      /\ phase' = "parse" /\ open' # <<>> /\ func' = func /\ tu' = tu /\ depth' \in Nat
      /\ next' = next /\ addresses' = addresses /\ functions' = functions /\ globals' = globals
      /\ ts[1] = tables[1]
  BY DEF Spoken
<1>6. Line' = s
  BY <1>5 DEF Line
<1>7. \A f \in 1..Len(es) : f > Len(decls) => es[f].kind = "Var"
  BY Zenon DEF Spoken
<1>8. \A k \in 2..Len(ts) : \A x \in Names : ts[k][x] # None =>
          \/ \E j \in 2..Len(tables) : ts[k][x] = tables[j][x]
          \/ ts[k][x] \in LocalsIn(es, func, Len(es[func].items) + 1)
  BY <1>5, Zenon DEF Spoken
<1>9. \A k \in 1..Len(new) : new[k].kind # "Local" =>
        new[k].decl \in symrefs' /\ new[k].decl \in 1..Len(decls) /\ decls[new[k].decl].kind = new[k].kind
  BY Zenon DEF Spoken
<1>10. AllPlaced(es, s)
  BY SpokenPlaced
<1> HIDE DEF s, es, ts
<1>11. Listed(es, s)
  BY <1>1, <1>4, <1>5, ListedExtended
<1>12. Externals(es, tu)
  <2>1. \A f \in 1..Len(es) : f > Len(decls) /\ Bodyless(es[f]) => es[f].extern
    BY <1>7 DEF Bodyless
  <2> QED BY <1>1, <1>4, <1>5, <2>1, ExternalsExtended
<1>13. InTable(es, s, ts[1]) /\ FromUnit(es, s, ts[1])
  <2>1. \A x \in Names : tables[1][x] \in 0..Len(decls)
    <3>1. 1 \in 1..Len(tables)
      BY Numbers, LenProperties, <1>1 DEF Tables, Spoken
    <3>2. \A x \in Names : tables[1][x] \in Nat /\ tables[1][x] <= Len(decls)
      BY <1>1, <3>1, TableTypes DEF Bounded
    <3> QED BY <1>1, <3>2
  <2>2. InTable(es, s, tables[1]) /\ FromUnit(es, s, tables[1])
    BY <1>1, <1>4, <1>5, <2>1, TablesExtended
  <2> QED BY <1>5, <2>2
<1>14. Noted(es, symrefs')
  <2> DEFINE more == symrefs'
  <2>1. symrefs \subseteq more /\ NewNoted(decls, new, more)
    BY <1>5, <1>9 DEF NewNoted
  <2> HIDE DEF more
  <2>2. Noted(es, more)
    BY <1>1, <1>4, <1>5, <2>1, NotedExtended
  <2> QED BY <2>2 DEF more
<1>15. WithBody(es[func])
  BY <1>1, <1>3, <1>4, <1>5, BodiesExtended
<1>16. Inside(es, func, ts)
  BY <1>1, <1>3, <1>4, <1>5, <1>8, InnerTables
<1>17. Accounted(es, <<>>, 1, functions, globals, addresses)
  BY <1>4, NothingAccounted
<1>18. Basics'
  <2>1. Len(es) \in Nat /\ Len(decls) <= Len(es)
    BY <1>5, DeclTypes DEF Extended
  <2>2. 1..Len(decls) \subseteq 1..Len(es)
    BY <1>1, <2>1
  <2>3. tu \in Seq(1..Len(es))
    BY <1>1, <2>2, SeqMonotonic
  <2> QED BY <1>1, <1>5, <2>2, <2>3 DEF Basics, es
<1>19. WhileParsed'
  BY <1>4, <1>5, <1>6, <1>10, <1>11, <1>12, <1>13, <1>14, <1>15, <1>16, <1>17 DEF WhileParsed, es, ts
<1> QED BY <1>5, <1>18, <1>19, UnitParsedOn

\* Nothing added extends the declarations.
LEMMA ExtendedSame ==
  ASSUME NEW ds, DeclList(ds), NEW g
  PROVE  Extended(ds, ds, g, <<>>) /\ <<>> \in Seq(BodyItems) /\ Len(<<>>) = 0
<1>1. Len(ds) \in Nat /\ \A f \in 1..Len(ds) : ds[f].items \in Seq(BodyItems)
  BY DeclTypes
<1>2. \A f \in 1..Len(ds) : SameDecl(ds[f], ds[f])
  BY DEF SameDecl
<1>3. <<>> \in Seq(BodyItems) /\ Len(<<>>) = 0
  BY EmptySeq
<1>4. g \in 1..Len(ds) => ds[g].items = ds[g].items \o <<>>
  BY <1>1, ConcatEmptySeq
<1>5. \A f \in 1..Len(ds) : f > Len(ds) => ds[f].items = <<>>
  BY <1>1
<1>6. Len(ds) <= Len(ds)
  BY <1>1
<1> QED BY <1>2, <1>3, <1>4, <1>5, <1>6, Zenon DEF Extended

\* The end of it by a diagnosis.
LEMMA StoppedUnit ==
  ASSUME Unit, NEW why, Stop("rejected", why)
  PROVE  Unit'
<1>1. /\ phase' = "rejected" /\ depth' = depth /\ tu' = tu /\ decls' = decls
      /\ symrefs' = symrefs /\ addresses' = addresses
  BY DEF Stop, parserVars, moduleVars
<1>2. Basics'
  BY <1>1 DEF Unit, Basics
<1> QED BY <1>1, <1>2 DEF Unit, AbortExplained

\* A rejected text is no unit,
LEMMA RejectedUnit ==
  ASSUME Unit, NEW why, Reject(why)
  PROVE  Unit'
BY StoppedUnit DEF Reject

\* nor is one with an undeclared identifier.
LEMMA UndeclaredUnit ==
  ASSUME Unit, NEW name, NEW kind, Undeclared(name, kind)
  PROVE  Unit'
BY StoppedUnit DEF Undeclared

\* A table fewer, or one more without entries.
LEMMA TablesAround ==
  ASSUME NEW ts \in Tables, NEW us \in {ts, Append(ts, EmptyTable), Front(ts)}, Len(ts) >= 1, Len(us) >= 1
  PROVE  /\ us[1] = ts[1]
         /\ \A k \in 2..Len(us) : \A x \in Names :
               us[k][x] # None => \E j \in 2..Len(ts) : us[k][x] = ts[j][x]
<1>1. Len(ts) \in Nat
  BY TableTypes
<1>2. CASE us = ts
  BY <1>2
<1>3. CASE us = Append(ts, EmptyTable)
  <2>1. /\ Len(us) = Len(ts) + 1 /\ us[Len(ts) + 1] = EmptyTable
        /\ \A k \in 1..Len(ts) : us[k] = ts[k]
    BY <1>3, EmptyTableIs, AppendTable
  <2>2. \A x \in Names : EmptyTable[x] = None
    BY EmptyTableIs
  <2>3. \A k \in 2..Len(us) : k \in 2..Len(ts) \/ k = Len(ts) + 1
    BY <1>1, <2>1
  <2>4. 1 \in 1..Len(ts) /\ \A k \in 2..Len(ts) : k \in 1..Len(ts)
    BY <1>1
  <2> QED BY <2>1, <2>2, <2>3, <2>4
<1>4. CASE us = Front(ts)
  <2>1. Len(us) = Len(ts) - 1 /\ \A k \in 1..(Len(ts) - 1) : us[k] = ts[k]
    BY <1>4, FrontTable
  <2>2. 1 \in 1..(Len(ts) - 1) /\ \A k \in 2..Len(us) : k \in 2..Len(ts) /\ k \in 1..(Len(ts) - 1)
    BY <1>1, <2>1
  <2> QED BY <2>1, <2>2
<1> QED BY <1>2, <1>3, <1>4

\* The parser's counts, one step on.
LEMMA CountsOn ==
  ASSUME Inv', phase' = "parse"
  PROVE  depth' \in Nat /\ Len(tables') >= 1
<1> DEFINE o == open'
           l == loop'
           d == depth'
           t == Len(tables')
           s == Len(scopes')
           f == func'
<1>1. Good(o, l, d, t, s, f)
  BY DEF Inv
<1> HIDE DEF o, l, d, t, s, f
<1>2. d \in Nat /\ t = d + 1
  BY <1>1, GoodNumbers
<1>3. t >= 1
  BY <1>2
<1> QED BY <1>2, <1>3 DEF d, t

\* Statements that mention nothing and declare nothing.
Quiet ==
    /\ phase = "parse" /\ phase' = "parse" /\ open # <<>> /\ open' # <<>>
    /\ decls' = decls /\ symrefs' = symrefs /\ func' = func /\ tu' = tu
    /\ moduleVars' = moduleVars
    /\ tables' \in {tables, Append(tables, EmptyTable), Front(tables)}

\* A step that declares and mentions nothing keeps the unit's invariant.
LEMMA QuietUnit ==
  ASSUME Inv, Inv', Scoping, Unit, Quiet
  PROVE  Unit'
<1>1. /\ DeclList(decls) /\ Len(decls) \in Nat /\ tables \in Tables /\ symrefs \subseteq 1..Len(decls)
  BY UnitWhileParsed DEF Quiet
<1>2. depth' \in Nat /\ Len(tables') >= 1
  BY CountsOn DEF Quiet
<1>3. Len(tables) >= 1
  BY Numbers DEF Quiet
<1>4. /\ tables'[1] = tables[1]
      /\ \A k \in 2..Len(tables') : \A x \in Names :
            tables'[k][x] # None => \E j \in 2..Len(tables) : tables'[k][x] = tables[j][x]
  <2> DEFINE us == tables'
  <2>1. us \in {tables, Append(tables, EmptyTable), Front(tables)} /\ Len(us) >= 1
    BY <1>2 DEF Quiet
  <2> HIDE DEF us
  <2>2. /\ us[1] = tables[1]
        /\ \A k \in 2..Len(us) : \A x \in Names :
              us[k][x] # None => \E j \in 2..Len(tables) : us[k][x] = tables[j][x]
    BY <1>1, <1>3, <2>1, TablesAround
  <2> QED BY <2>2 DEF us
<1>5. Extended(decls, decls', func, <<>>) /\ <<>> \in Seq(BodyItems) /\ Len(<<>>) = 0
  BY <1>1, ExtendedSame DEF Quiet
<1>6. ExternsKept(decls, decls') /\ DeclList(decls')
  BY <1>1 DEF ExternsKept, Quiet
<1>7. \A f \in 1..Len(decls') : f > Len(decls) => decls'[f].kind = "Var"
  BY <1>1 DEF Quiet
<1>8. \A k \in 1..Len(<<>>) : FALSE
  BY <1>5
<1>9. Spoken(<<>>)
  BY <1>1, <1>2, <1>4, <1>5, <1>6, <1>7, <1>8 DEF Spoken, Quiet, moduleVars
<1> QED BY <1>9, SpokenUnit

\* Those steps are the statements without names.
LEMMA QuietSteps ==
  ASSUME Inv, Inv', Scoping, Unit
  PROVE  /\ EmptyStmt \/ LoopExit \/ OpenBlock \/ BeginIf \/ BeginFor => Unit'
         /\ CloseBlock \/ Else \/ EndIf \/ EndLoop \/ EndFor => Unit'
         /\ \A v \in BOOLEAN : ReturnStmt(v) => Unit'
         /\ \A call \in {"do", "while"} : BeginLoop(call) => Unit'
<1>0. phase = "parse" => open \in Seq(Frames)
  BY WhileParsing
<1>1. ASSUME phase = "parse", NEW c, open' = Append(open, c) PROVE open' # <<>>
  <2>1. Len(open') = Len(open) + 1 /\ Len(open) \in Nat
    <3> DEFINE o == open
    <3>1. IsSeq(o)
      BY <1>0, <1>1 DEF IsSeq
    <3> HIDE DEF o
    <3>2. Len(Append(o, c)) = Len(o) + 1 /\ Len(o) \in Nat
      BY <3>1, AppendIsSeq
    <3> QED BY <1>1, <3>2 DEF o
  <2> QED BY <2>1, EmptySeq
<1>2. ASSUME phase = "parse", Len(open) > 1 PROVE open # <<>> /\ Front(open) # <<>>
  <2>1. open # <<>>
    BY <1>0, <1>2, LongStack
  <2> QED BY <1>0, <1>2, <2>1, Popped
<1>3. ASSUME phase = "parse", open # <<>>, Top.call # "block" PROVE Front(open) # <<>>
  <2>1. Len(open) > 1
    BY <1>3, NotAlone
  <2> QED BY <1>2, <1>3, <2>1
<1>4. ASSUME EmptyStmt PROVE Unit'
  BY <1>4, QuietUnit DEF EmptyStmt, AtStatement, Parsing, Finish, Quiet
<1>5. ASSUME LoopExit PROVE Unit'
  <2>1. CASE loop.call # "while"
    BY <1>5, <2>1, RejectedUnit DEF LoopExit
  <2>2. CASE loop.call = "while"
    BY <1>5, <2>2, QuietUnit DEF LoopExit, AtStatement, Parsing, Finish, Quiet
  <2> QED BY <2>1, <2>2
<1>6. ASSUME OpenBlock PROVE Unit'
  <2>1. Quiet
    BY <1>1, <1>6 DEF OpenBlock, AtStatement, Parsing, Call, Enter, Deeper, Quiet
  <2> QED BY <2>1, QuietUnit
<1>7. ASSUME BeginIf PROVE Unit'
  <2>1. Quiet
    BY <1>1, <1>7 DEF BeginIf, AtStatement, Parsing, Call, Quiet
  <2> QED BY <2>1, QuietUnit
<1>8. ASSUME BeginFor PROVE Unit'
  <2>1. Quiet
    BY <1>1, <1>8 DEF BeginFor, AtStatement, Parsing, Call, Enter, Deeper, Quiet
  <2> QED BY <2>1, QuietUnit
<1>9. ASSUME CloseBlock PROVE Unit'
  <2>1. phase = "parse" /\ Len(open) > 1
    BY <1>9 DEF CloseBlock, Parsing
  <2>2. Quiet
    BY <1>2, <1>9, <2>1 DEF CloseBlock, Parsing, Leave, Return, Quiet
  <2> QED BY <2>2, QuietUnit
<1>10. ASSUME Else PROVE Unit'
  <2>1. phase = "parse" /\ open # <<>> /\ open' = Append(Front(open), Frame("else"))
    BY <1>10 DEF Else, Returned
  <2>2. open' # <<>>
    <3> DEFINE o == Front(open)
    <3>1. IsSeq(o)
      BY <1>0, <2>1, Popped DEF IsSeq
    <3> HIDE DEF o
    <3>2. Len(Append(o, Frame("else"))) = Len(o) + 1 /\ Len(o) \in Nat
      BY <3>1, AppendIsSeq
    <3>3. Append(o, Frame("else")) # <<>>
      BY <3>2, EmptySeq
    <3> QED BY <2>1, <3>3 DEF o
  <2>3. Quiet
    BY <1>10, <2>1, <2>2 DEF Else, Parsing, Quiet
  <2> QED BY <2>3, QuietUnit
<1>11. ASSUME EndIf PROVE Unit'
  <2>1. phase = "parse" /\ open # <<>> /\ Top.call # "block"
    BY <1>11 DEF EndIf, Returned
  <2>2. Quiet
    BY <1>3, <1>11, <2>1 DEF EndIf, Parsing, Return, Quiet
  <2> QED BY <2>2, QuietUnit
<1>12. ASSUME EndLoop PROVE Unit'
  <2>1. phase = "parse" /\ open # <<>> /\ Top.call # "block"
    BY <1>12 DEF EndLoop, Returned
  <2>2. Quiet
    BY <1>3, <1>12, <2>1 DEF EndLoop, Parsing, Return, Quiet
  <2> QED BY <2>2, QuietUnit
<1>13. ASSUME EndFor PROVE Unit'
  <2>1. phase = "parse" /\ open # <<>> /\ Top.call # "block"
    BY <1>13 DEF EndFor, Returned
  <2>2. CASE ~Top.wellFormed
    BY <1>13, <2>2, RejectedUnit DEF EndFor
  <2>3. CASE Top.wellFormed
    <3>1. Quiet
      BY <1>3, <1>13, <2>1, <2>3 DEF EndFor, Parsing, Return, Leave, Quiet
    <3> QED BY <3>1, QuietUnit
  <2> QED BY <2>2, <2>3
<1>14. ASSUME NEW v \in BOOLEAN, ReturnStmt(v) PROVE Unit'
  <2>1. CASE v = decls[func].void
    BY <1>14, <2>1, RejectedUnit DEF ReturnStmt
  <2>2. CASE v # decls[func].void
    BY <1>14, <2>2, QuietUnit DEF ReturnStmt, AtStatement, Parsing, Finish, Quiet
  <2> QED BY <2>1, <2>2
<1>15. ASSUME NEW call \in {"do", "while"}, BeginLoop(call) PROVE Unit'
  <2>1. Quiet
    BY <1>1, <1>15 DEF BeginLoop, AtStatement, Parsing, Call, Quiet
  <2> QED BY <2>1, QuietUnit
<1>16. EmptyStmt \/ LoopExit \/ OpenBlock \/ BeginIf \/ BeginFor => Unit'
  BY <1>4, <1>5, <1>6, <1>7, <1>8
<1>17. CloseBlock \/ Else \/ EndIf \/ EndLoop \/ EndFor => Unit'
  BY <1>9, <1>10, <1>11, <1>12, <1>13
<1> QED BY <1>14, <1>15, <1>16, <1>17

\* What findSymbol finds is in a table.
LEMMA FoundInTable ==
  ASSUME NEW ds, NEW ts \in Tables, Len(ts) >= 1, NEW name \in Names,
         NEW d \in {FindVar(ts, ds, name), FindFunction(ts, ds, name)}, d # None
  PROVE  \E j \in 1..Len(ts) : \E x \in Names : d = ts[j][x]
<1>1. CASE d = FindVar(ts, ds, name)
  <2>1. \E k \in 1..Len(ts) : FindVar(ts, ds, name) = ts[k][name]
    BY <1>1, FindVarIs
  <2> QED BY <1>1, <2>1
<1>2. CASE d = FindFunction(ts, ds, name)
  <2>1. d = ts[1][name]
    BY <1>2, Zenon DEF FindFunction
  <2>2. 1 \in 1..Len(ts)
    <3>1. Len(ts) \in Nat
      BY TableTypes
    <3> QED BY <3>1
  <2> QED BY <2>1, <2>2
<1> QED BY <1>1, <1>2

\* A mention of what was found.
LEMMA FoundMention ==
  ASSUME Inv, Scoping, phase = "parse", NEW name \in Names,
         NEW d \in {FindVar(tables, decls, name), FindFunction(tables, decls, name)}, d # None
  PROVE  /\ d \in 1..Len(decls) /\ Mention(d, Meant(name)) \in BodyItems
         /\ \E j \in 1..Len(tables) : \E x \in Names : d = tables[j][x]
<1>1. /\ tables \in Tables /\ Len(tables) >= 1 /\ scopes \in Tables /\ DeclList(decls)
      /\ Len(decls) \in Nat /\ Resolved(open, decls, tables, scopes)
  BY WhileScoping
<1>2. Bounded(tables, Len(decls)) /\ Bounded(scopes, Len(decls)) /\ Entries(decls, tables)
  BY <1>1, Zenon DEF Resolved
<1> DEFINE v == FindVar(tables, decls, name)
           f == FindFunction(tables, decls, name)
           m == MeantIn(scopes, name)
<1>3. v \in 0..Len(decls) /\ f \in 0..Len(decls) /\ m \in 0..Len(decls)
  BY <1>1, <1>2, FoundIsNamed
<1>4. Meant(name) = m
  BY DEF Meant, MeantIn
<1>5. d \in {v, f}
  OBVIOUS
<1> HIDE DEF v, f, m
<1>6. d \in 1..Len(decls)
  BY <1>1, <1>3, <1>5 DEF None
<1>7. m \in Nat /\ d \in Nat
  BY <1>1, <1>3, <1>6
<1>8. decls[d].kind \in DeclKinds
  BY <1>1, <1>6, DeclTypes
<1>9. Mention(d, m) \in BodyItems
  BY <1>7, <1>8 DEF Mention, BodyItems
<1>10. \E j \in 1..Len(tables) : \E x \in Names : d = tables[j][x]
  BY <1>1, FoundInTable
<1> QED BY <1>4, <1>6, <1>9, <1>10

\* Items leave extern alone.
LEMMA ItemsKeepExterns ==
  ASSUME NEW ds, DeclList(ds), NEW g \in 1..Len(ds), NEW items
  PROVE  ExternsKept(ds, [ds EXCEPT ![g].items = items])
<1>1. ds \in Seq(NamedDecls) /\ DOMAIN ds = 1..Len(ds)
  BY DeclTypes DEF DeclList
<1> SUFFICES ASSUME NEW f \in 1..Len(ds)
             PROVE  [ds EXCEPT ![g].items = items][f].extern = ds[f].extern
  BY Zenon DEF ExternsKept
<1>2. ds[f] \in NamedDecls /\ ds[g] \in NamedDecls
  BY DeclTypes
<1> QED BY <1>1, <1>2 DEF NamedDecls

\* A name that is found and mentioned keeps the unit's invariant.
LEMMA MentionUnit ==
  ASSUME Inv, Inv', Scoping, Unit, phase = "parse", phase' = "parse", open # <<>>, open' # <<>>,
         NEW name \in Names,
         NEW d \in {FindVar(tables, decls, name), FindFunction(tables, decls, name)}, d # None,
         decls' = Item(Mention(d, Meant(name))), symrefs' = Refer(d), func' = func, tu' = tu,
         moduleVars' = moduleVars, tables' = tables
  PROVE  Unit'
<1> DEFINE m   == Mention(d, Meant(name))
           new == <<m>>
           es  == decls'
<1>1. /\ DeclList(decls) /\ Len(decls) \in Nat /\ tables \in Tables /\ symrefs \subseteq 1..Len(decls)
  BY UnitWhileParsed
<1>2. d \in 1..Len(decls) /\ m \in BodyItems
      /\ \E j \in 1..Len(tables) : \E x \in Names : d = tables[j][x]
  BY FoundMention
<1>3. m.decl = d /\ m.kind = decls[d].kind
  BY DEF Mention
<1>4. func \in 1..Len(decls)
  BY DEF Scoping
<1>5. depth' \in Nat
  BY CountsOn
<1>6. ExternsKept(decls, es)
  <2>1. ExternsKept(decls, [decls EXCEPT ![func].items = Append(decls[func].items, m)])
    BY <1>1, <1>4, ItemsKeepExterns
  <2> HIDE DEF m
  <2>2. Item(m) = [decls EXCEPT ![func].items = Append(decls[func].items, m)]
    BY DEF Item
  <2> QED BY <2>1, <2>2 DEF m
<1>7. symrefs' = symrefs \cup {d}
  BY DEF Refer
<1> HIDE DEF m
<1>8. es = Item(m)
  BY DEF m
<1>9. DeclList(es) /\ Extended(decls, es, func, new) /\ Len(es) = Len(decls) /\ new \in Seq(BodyItems)
  BY <1>1, <1>2, <1>4, <1>8, ItemAdded
<1>10. \A k \in 1..Len(new) : new[k] = m
  OBVIOUS
<1> HIDE DEF new, es
<1>11. \A f \in 1..Len(es) : f > Len(decls) => es[f].kind = "Var"
  BY <1>1, <1>9
<1>12. symrefs \subseteq symrefs' /\ symrefs' \subseteq 1..Len(es) /\ d \in symrefs'
  BY <1>1, <1>2, <1>7, <1>9
<1>13. \A k \in 1..Len(new) :
          /\ new[k].decl \in symrefs' /\ new[k].decl \in 1..Len(decls)
          /\ decls[new[k].decl].kind = new[k].kind
          /\ \E j \in 1..Len(tables) : \E x \in Names : new[k].decl = tables[j][x]
  BY <1>2, <1>3, <1>10, <1>12
<1>14. \A k \in 2..Len(tables) : \A x \in Names : tables[k][x] # None =>
          \E j \in 2..Len(tables) : tables[k][x] = tables[j][x]
  OBVIOUS
<1>15. Spoken(new)
  BY <1>5, <1>6, <1>9, <1>11, <1>12, <1>13, <1>14 DEF Spoken, es, moduleVars
<1> QED BY <1>15, SpokenUnit

\* Those steps are the uses of variables, the calls and the headers of for
\* loops.
LEMMA MentionSteps ==
  ASSUME Inv, Inv', Scoping, Unit
  PROVE  /\ \A n \in VarNames : UseVariable(n) => Unit'
         /\ \A n \in FunctionNames, argc \in 0..1 : CallFunction(n, argc) => Unit'
         /\ \A n \in VarNames \cup {NoName}, increment, brace \in BOOLEAN :
               ForHeader(n, increment, brace) => Unit'
<1>1. ASSUME NEW n \in VarNames, UseVariable(n) PROVE Unit'
  <2> DEFINE d == FindVar(tables, decls, n)
  <2>1. n \in Names /\ phase = "parse" /\ open # <<>>
    BY <1>1, NamesAre DEF UseVariable, AtStatement
  <2>2. CASE d = None
    BY <1>1, <2>2, UndeclaredUnit DEF UseVariable
  <2>3. CASE d # None
    <3>1. /\ phase' = "parse" /\ open' # <<>> /\ decls' = Item(Mention(d, Meant(n)))
          /\ symrefs' = Refer(d) /\ func' = func /\ tu' = tu /\ moduleVars' = moduleVars
          /\ tables' = tables
      BY <1>1, <2>1, <2>3 DEF UseVariable, Parsing, Finish
    <3>2. d \in {FindVar(tables, decls, n), FindFunction(tables, decls, n)}
      OBVIOUS
    <3> HIDE DEF d
    <3> QED BY <2>1, <2>3, <3>1, <3>2, MentionUnit
  <2> QED BY <2>2, <2>3
<1>2. ASSUME NEW n \in FunctionNames, NEW argc \in 0..1, CallFunction(n, argc) PROVE Unit'
  <2> DEFINE d == FindFunction(tables, decls, n)
  <2>1. n \in Names /\ phase = "parse" /\ open # <<>>
    BY <1>2, NamesAre DEF CallFunction, AtStatement
  <2>2. CASE d = None
    BY <1>2, <2>2, UndeclaredUnit DEF CallFunction
  <2>3. CASE d # None /\ Len(decls[d].params) # argc
    BY <1>2, <2>3, RejectedUnit DEF CallFunction
  <2>4. CASE d # None /\ Len(decls[d].params) = argc
    <3>1. /\ phase' = "parse" /\ open' # <<>> /\ decls' = Item(Mention(d, Meant(n)))
          /\ symrefs' = Refer(d) /\ func' = func /\ tu' = tu /\ moduleVars' = moduleVars
          /\ tables' = tables
      BY <1>2, <2>1, <2>4 DEF CallFunction, Parsing, Finish
    <3>2. d \in {FindVar(tables, decls, n), FindFunction(tables, decls, n)}
      OBVIOUS
    <3> HIDE DEF d
    <3> QED BY <2>1, <2>4, <3>1, <3>2, MentionUnit
  <2> QED BY <2>2, <2>3, <2>4
<1>3. ASSUME NEW n \in VarNames \cup {NoName}, NEW increment \in BOOLEAN, NEW brace \in BOOLEAN,
             ForHeader(n, increment, brace)
      PROVE  Unit'
  <2> DEFINE d == IF n = NoName THEN None ELSE FindVar(tables, decls, n)
             c == [call |-> "for body", upper |-> loop, leave |-> ShouldRunLeaveBlock(brace),
                   wellFormed |-> WellFormedFor(returned, increment)]
             more == IF brace THEN <<Frame("block")>> ELSE <<>>
  <2>1. phase = "parse" /\ open # <<>>
    BY <1>3 DEF ForHeader, Returned
  <2>2. CASE n # NoName /\ d = None
    BY <1>3, <2>2, UndeclaredUnit DEF ForHeader
  <2>3. CASE ~(n # NoName /\ d = None)
    <3>1. /\ phase' = "parse" /\ decls' = IF d = None THEN decls ELSE Item(Mention(d, Meant(n)))
          /\ symrefs' = Refer(d) /\ func' = func /\ tu' = tu /\ moduleVars' = moduleVars
          /\ tables' = tables /\ open' = Append(Front(open), c) \o more
      BY <1>3, <2>1, <2>3 DEF ForHeader, Parsing
    <3>2. open' # <<>>
      <4> DEFINE o == Front(open)
      <4>1. \A s : IsSeq(s) => Len(Append(s, c)) = Len(s) + 1 /\ Len(s) \in Nat /\ IsSeq(Append(s, c))
        BY AppendIsSeq
      <4>2. IsSeq(o)
        BY <2>1, WhileParsing, Popped DEF IsSeq
      <4> HIDE DEF o, c
      <4>3. more = <<>> \/ more = <<Frame("block")>>
        OBVIOUS
      <4> DEFINE q == Append(o, c)
      <4>4. Len(q) \in Nat /\ Len(q) > 0
        BY <4>1, <4>2
      <4>5. Len(more) \in Nat
        BY <4>3, EmptySeq
      <4>6. Len(q \o more) = Len(q) + Len(more)
        BY <4>4, <4>5
      <4> HIDE DEF q, more
      <4>7. Len(q \o more) > 0
        BY <4>4, <4>5, <4>6
      <4>8. q \o more # <<>>
        BY <4>7, EmptySeq
      <4> QED BY <3>1, <4>8 DEF q, o
    <3>3. CASE d = None
      <4>1. symrefs' = symrefs /\ decls' = decls
        BY <3>1, <3>3 DEF Refer
      <4>2. Quiet
        BY <2>1, <3>1, <3>2, <4>1 DEF Quiet
      <4> QED BY <4>2, QuietUnit
    <3>4. CASE d # None
      <4>1. n \in Names /\ d \in {FindVar(tables, decls, n), FindFunction(tables, decls, n)}
        BY <3>4, NamesAre
      <4>2. decls' = Item(Mention(d, Meant(n)))
        BY <3>1, <3>4
      <4> HIDE DEF d
      <4> QED BY <2>1, <3>1, <3>2, <3>4, <4>1, <4>2, MentionUnit
    <3> QED BY <3>3, <3>4
  <2> QED BY <2>2, <2>3
<1> QED BY <1>1, <1>2, <1>3

\* A function's body has a table of its own.
LEMMA DeepEnough ==
  ASSUME Inv, phase = "parse", open # <<>>
  PROVE  Len(tables) >= 2
<1>1. /\ open \in Seq(Frames) /\ depth \in Nat /\ Len(tables) \in Nat
      /\ open[1].call = "block" /\ depth = Cardinality(Opening(open)) /\ Len(tables) = depth + 1
  BY WhileParsing, Zenon DEF Good
<1>2. Len(open) \in Nat /\ Len(open) > 0 /\ DOMAIN open = 1..Len(open)
  BY <1>1, LenProperties, Popped
<1>3. 1 \in Opening(open) /\ Opening(open) \subseteq 1..Len(open)
  <2>1. 1 \in DOMAIN open /\ Opens(open[1])
    BY <1>1, <1>2 DEF Opens
  <2>2. 1 \in Opening(open)
    BY <2>1, Zenon DEF Opening
  <2>3. Opening(open) \subseteq DOMAIN open
    BY Zenon DEF Opening
  <2> QED BY <1>2, <2>2, <2>3
<1>4. IsFiniteSet(Opening(open))
  <2>1. IsFiniteSet(1..Len(open))
    BY <1>2, FS_Interval
  <2> QED BY <1>3, <2>1, FS_Subset
<1>5. Cardinality(Opening(open)) # 0
  BY <1>3, <1>4, FS_EmptySet
<1> QED BY <1>1, <1>5

\* The items of a declaration with an initialiser, and the variable it declares.
WithLocal(ds, g, use, l, name) ==
    Append([ds EXCEPT ![g].items = @ \o use \o <<l>>], Declared("Var", name, FALSE))

\* The declarations with a local variable, entered in its function's body
\* behind its initialiser's mentions.
LEMMA LocalAdded ==
  ASSUME NEW ds, DeclList(ds), NEW g \in 1..Len(ds), NEW use \in Seq(BodyItems),
         NEW l \in BodyItems, NEW name \in STRING
  PROVE  LET es  == WithLocal(ds, g, use, l, name)
             new == use \o <<l>>
         IN  /\ new \in Seq(BodyItems) /\ DeclList(es) /\ Extended(ds, es, g, new)
             /\ ExternsKept(ds, es)
             /\ Len(ds) + 1 \in 1..Len(es) /\ \A f \in 1..Len(es) : f > Len(ds) => es[f].kind = "Var"
             /\ Len(es[g].items) \in Nat /\ Len(es[g].items) \in 1..Len(es[g].items)
             /\ es[g].items[Len(es[g].items)] = l
             /\ \A k \in 1..Len(new) : (k \in 1..Len(use) /\ new[k] = use[k]) \/ new[k] = l
<1> DEFINE def == <<l>>
           new == use \o def
           old == ds[g].items
           items == old \o use \o def
           ms  == [ds EXCEPT ![g].items = items]
           es  == Append(ms, Declared("Var", name, FALSE))
<1>1. old \in Seq(BodyItems) /\ Len(ds) \in Nat /\ Len(old) \in Nat
  BY DeclTypes
<1>2. def \in Seq(BodyItems) /\ Len(def) = 1 /\ def[1] = l
  OBVIOUS
<1> HIDE DEF old, def
<1>3. new \in Seq(BodyItems) /\ Len(use) \in Nat /\ Len(new) = Len(use) + 1
      /\ \A j \in 1..(Len(use) + Len(def)) :
            new[j] = IF j <= Len(use) THEN use[j] ELSE def[j - Len(use)]
  <2>1. Len(use) \in Nat
    BY LenProperties
  <2>2. new \in Seq(BodyItems)
    BY <1>2, ConcatProperties
  <2>3. Len(new) = Len(use) + Len(def)
    BY <1>2, ConcatProperties
  <2>4. \A j \in 1..(Len(use) + Len(def)) :
            new[j] = IF j <= Len(use) THEN use[j] ELSE def[j - Len(use)]
    BY <1>2, ConcatProperties
  <2> QED BY <1>2, <2>1, <2>2, <2>3, <2>4
<1>4. \A k \in 1..Len(new) : (k \in 1..Len(use) /\ new[k] = use[k]) \/ new[k] = l
  <2> SUFFICES ASSUME NEW k \in 1..Len(new)
               PROVE  (k \in 1..Len(use) /\ new[k] = use[k]) \/ new[k] = l
    OBVIOUS
  <2>1. k \in 1..(Len(use) + Len(def)) /\ (k <= Len(use) \/ k = Len(use) + 1)
    BY <1>2, <1>3
  <2>2. CASE k <= Len(use)
    <3>1. k \in 1..Len(use)
      BY <1>3, <2>1, <2>2
    <3> QED BY <1>3, <2>1, <2>2, <3>1
  <2>3. CASE k = Len(use) + 1
    <3>1. ~(k <= Len(use)) /\ k - Len(use) = 1
      BY <1>3, <2>3
    <3>2. new[k] = def[1]
      BY <1>3, <2>1, <3>1
    <3> QED BY <1>2, <3>2
  <2> QED BY <2>1, <2>2, <2>3
<1>5. items = old \o new
  BY <1>1, <1>2, ConcatAssociative
<1> HIDE DEF new, items
<1>6. ms = [ds EXCEPT ![g].items = @ \o new]
  BY <1>5 DEF old
<1>7. DeclList(ms) /\ Extended(ds, ms, g, new) /\ Len(ms) = Len(ds)
  <2> HIDE DEF ms
  <2> DEFINE qs == [ds EXCEPT ![g].items = @ \o new]
  <2>1. DeclList(qs) /\ Extended(ds, qs, g, new) /\ Len(qs) = Len(ds)
    BY <1>3, ItemsAdded
  <2> QED BY <1>6, <2>1
<1>8. ExternsKept(ds, ms)
  BY ItemsKeepExterns
<1>9. WithLocal(ds, g, use, l, name) = es
  BY DEF WithLocal, items, old, def
<1> HIDE DEF ms
<1>10. /\ DeclList(es) /\ Extended(ms, es, 0, <<>>) /\ Len(es) = Len(ms) + 1
       /\ es[Len(ms) + 1] = Declared("Var", name, FALSE)
       /\ \A f \in 1..Len(ms) : es[f] = ms[f]
  BY <1>7, VariableAdded
<1> HIDE DEF es
<1>11. Extended(ds, es, g, new)
  BY <1>7, <1>10, ExtendedTwice
<1>12. ExternsKept(ds, es)
  BY <1>7, <1>8, <1>10 DEF ExternsKept
<1>13. Len(ds) + 1 \in 1..Len(es) /\ \A f \in 1..Len(es) : f > Len(ds) => es[f].kind = "Var"
  <2>1. Len(ds) + 1 \in 1..Len(es) /\ \A f \in 1..Len(es) : f > Len(ds) => f = Len(ms) + 1
    BY <1>1, <1>7, <1>10
  <2>2. Declared("Var", name, FALSE).kind = "Var"
    BY DEF Declared
  <2> QED BY <1>10, <2>1, <2>2
<1>14. es[g].items = old \o new
  BY <1>11 DEF Extended, old
<1>15. /\ Len(es[g].items) \in Nat /\ Len(es[g].items) \in 1..Len(es[g].items)
       /\ es[g].items[Len(es[g].items)] = l
  <2> DEFINE all == old \o new
  <2>1. Len(all) = Len(old) + Len(new) /\ \A j \in 1..(Len(old) + Len(new)) :
           all[j] = IF j <= Len(old) THEN old[j] ELSE new[j - Len(old)]
    <3>1. new \in Seq(BodyItems)
      BY <1>3
    <3>2. Len(all) = Len(old) + Len(new)
      BY <1>1, <3>1, ConcatProperties
    <3>3. \A j \in 1..(Len(old) + Len(new)) :
             all[j] = IF j <= Len(old) THEN old[j] ELSE new[j - Len(old)]
      BY <1>1, <3>1, ConcatProperties
    <3> QED BY <3>2, <3>3
  <2> HIDE DEF all
  <2>2. /\ Len(all) \in 1..(Len(old) + Len(new)) /\ ~(Len(all) <= Len(old))
        /\ Len(all) - Len(old) = Len(use) + 1 /\ Len(all) \in Nat
    BY <1>1, <1>3, <2>1
  <2>3. all[Len(all)] = new[Len(use) + 1]
    BY <2>1, <2>2
  <2>4. new[Len(use) + 1] = def[1]
    <3>1. /\ Len(use) + 1 \in 1..(Len(use) + Len(def)) /\ ~(Len(use) + 1 <= Len(use))
          /\ (Len(use) + 1) - Len(use) = 1
      BY <1>2, <1>3
    <3> QED BY <1>3, <3>1
  <2>5. Len(all) \in 1..Len(all)
    BY <2>1, <2>2
  <2> QED BY <1>2, <1>14, <2>2, <2>3, <2>4, <2>5 DEF all
<1> QED BY <1>3, <1>4, <1>9, <1>10, <1>11, <1>12, <1>13, <1>15 DEF new, def

\* What an initialiser adds to a body.
Uses(i, name) == IF i = None THEN <<>> ELSE <<Mention(i, Meant(name))>>

\* What an initialiser mentions is a declaration that the look-up found.
LEMMA UsesAre ==
  ASSUME Inv, Scoping, phase = "parse", NEW name, NEW i,
         i # None => name \in Names /\ i = FindVar(tables, decls, name)
  PROVE  /\ Uses(i, name) \in Seq(BodyItems)
         /\ i # None => i \in 1..Len(decls)
         /\ \A k \in 1..Len(Uses(i, name)) :
              /\ i # None /\ Uses(i, name)[k].decl = i /\ Uses(i, name)[k].kind = decls[i].kind
              /\ \E j \in 1..Len(tables) : \E x \in Names : i = tables[j][x]
<1>1. CASE i = None
  <2>1. Uses(i, name) = <<>>
    BY <1>1 DEF Uses
  <2>2. <<>> \in Seq(BodyItems) /\ Len(<<>>) = 0 /\ 1..0 = {}
    BY EmptySeq
  <2> QED BY <1>1, <2>1, <2>2
<1>2. CASE i # None
  <2> DEFINE m == Mention(i, Meant(name))
  <2>1. i \in 1..Len(decls) /\ m \in BodyItems
        /\ \E j \in 1..Len(tables) : \E x \in Names : i = tables[j][x]
    <3>1. name \in Names /\ i \in {FindVar(tables, decls, name), FindFunction(tables, decls, name)}
      BY <1>2
    <3> QED BY <1>2, <3>1, FoundMention
  <2>2. m.decl = i /\ m.kind = decls[i].kind
    BY DEF Mention
  <2>3. Uses(i, name) = <<m>>
    BY <1>2 DEF Uses
  <2> HIDE DEF m
  <2>4. <<m>> \in Seq(BodyItems) /\ \A k \in 1..Len(<<m>>) : <<m>>[k] = m
    BY <2>1
  <2> QED BY <1>2, <2>1, <2>2, <2>3, <2>4
<1> QED BY <1>1, <1>2

\* A local variable keeps the unit's invariant.
LEMMA LocalVariableUnit ==
  ASSUME Inv, Inv', Scoping, Unit, NEW n \in VarNames, NEW init \in VarNames \cup {NoName},
         LocalVariable(n, init)
  PROVE  Unit'
<1> DEFINE d   == Len(decls) + 1
           i   == IF init = NoName THEN None ELSE FindVar(tables, decls, init)
           use == Uses(i, init)
           l   == [kind |-> "Local", decl |-> d, meant |-> d]
           new == use \o <<l>>
           es  == decls'
           ts  == tables'
<1>1. phase = "parse" /\ open # <<>> /\ n \in Names /\ n # NoName /\ n \in STRING
  BY NamesAre DEF LocalVariable, AtStatement
<1>2. CASE init # NoName /\ i = None
  BY <1>2, UndeclaredUnit DEF LocalVariable
<1>3. CASE (init = NoName \/ i # None) /\ ~Standalone /\ Last(tables)[n] # None
  BY <1>3, RejectedUnit DEF LocalVariable
<1>4. CASE (init = NoName \/ i # None) /\ (Standalone \/ Last(tables)[n] = None)
  <2>1. /\ phase' = "parse" /\ open' = open /\ func' = func /\ tu' = tu /\ moduleVars' = moduleVars
        /\ es = WithLocal(decls, func, use, l, n)
        /\ ts = IF Standalone THEN tables ELSE AddSymbol(tables, n, d)
        /\ symrefs' = Refer(i)
    <3>1. es = Append([decls EXCEPT ![func].items = @ \o use \o <<l>>], Declared("Var", n, FALSE))
      BY <1>4 DEF LocalVariable, Parsing, Uses
    <3>2. es = WithLocal(decls, func, use, l, n)
      <4> HIDE DEF es, use, l
      <4> QED BY <3>1 DEF WithLocal
    <3>3. /\ phase' = "parse" /\ open' = open /\ func' = func /\ tu' = tu /\ moduleVars' = moduleVars
          /\ ts = IF Standalone THEN tables ELSE AddSymbol(tables, n, d)
          /\ symrefs' = Refer(i)
      BY <1>1, <1>4 DEF LocalVariable, Parsing, Finish
    <3> QED BY <3>2, <3>3
  <2>2. /\ DeclList(decls) /\ Len(decls) \in Nat /\ tables \in Tables /\ symrefs \subseteq 1..Len(decls)
    BY <1>1, UnitWhileParsed
  <2>3. func \in 1..Len(decls)
    BY <1>1 DEF Scoping
  <2>4. depth' \in Nat
    BY <2>1, CountsOn
  <2>5. i # None => init \in Names /\ i = FindVar(tables, decls, init)
    BY NamesAre
  <2>6. l \in BodyItems /\ l.kind = "Local" /\ l.decl = d
    BY <2>2 DEF BodyItems
  <2>7. symrefs' = symrefs \cup ({i} \ {None})
    BY <2>1 DEF Refer
  <2> HIDE DEF i
  <2>8. /\ use \in Seq(BodyItems)
        /\ i # None => i \in 1..Len(decls)
        /\ \A k \in 1..Len(use) :
             /\ i # None /\ use[k].decl = i /\ use[k].kind = decls[i].kind
             /\ \E j \in 1..Len(tables) : \E x \in Names : i = tables[j][x]
    BY <1>1, <2>5, UsesAre
  <2> HIDE DEF use, l
  <2>9. /\ new \in Seq(BodyItems) /\ DeclList(es) /\ Extended(decls, es, func, new)
        /\ ExternsKept(decls, es)
        /\ Len(decls) + 1 \in 1..Len(es) /\ \A f \in 1..Len(es) : f > Len(decls) => es[f].kind = "Var"
        /\ Len(es[func].items) \in Nat /\ Len(es[func].items) \in 1..Len(es[func].items)
        /\ es[func].items[Len(es[func].items)] = l
        /\ \A k \in 1..Len(new) : (k \in 1..Len(use) /\ new[k] = use[k]) \/ new[k] = l
    <3> HIDE DEF es
    <3> QED BY <1>1, <2>1, <2>2, <2>3, <2>6, <2>8, LocalAdded
  <2> HIDE DEF new, es, ts
  <2>10. symrefs \subseteq symrefs' /\ symrefs' \subseteq 1..Len(es) /\ (i # None => i \in symrefs')
    <3>1. Len(es) \in Nat /\ Len(decls) <= Len(es)
      BY <2>9, DeclTypes DEF Extended
    <3>2. 1..Len(decls) \subseteq 1..Len(es)
      BY <2>2, <3>1
    <3> QED BY <2>2, <2>7, <2>8, <3>2
  <2>11. d \in LocalsIn(es, func, Len(es[func].items) + 1)
    <3> DEFINE m == Len(es[func].items)
    <3>1. m \in 1..((m + 1) - 1)
      BY <2>9
    <3>2. es[func].items[m].kind = "Local" /\ es[func].items[m].decl = d
      BY <2>6, <2>9
    <3> HIDE DEF m, d
    <3>3. d \in LocalsIn(es, func, m + 1)
      BY <3>1, <3>2, Zenon DEF LocalsIn
    <3> QED BY <3>3 DEF m
  <2>12. /\ ts[1] = tables[1]
         /\ \A k \in 2..Len(ts) : \A x \in Names : ts[k][x] # None =>
               \/ \E j \in 2..Len(tables) : ts[k][x] = tables[j][x]
               \/ ts[k][x] \in LocalsIn(es, func, Len(es[func].items) + 1)
    <3>1. CASE Standalone
      BY <2>1, <3>1
    <3>2. CASE ~Standalone
      <4>1. ts = AddSymbol(tables, n, d)
        BY <2>1, <3>2
      <4>2. Len(tables) >= 2 /\ Len(tables) \in Nat
        BY <1>1, <2>2, DeepEnough, TableTypes
      <4>3. d \in Nat
        BY <2>2
      <4> HIDE DEF d
      <4>4. /\ ts \in Tables /\ Len(ts) = Len(tables) /\ ts[Len(tables)][n] = d
            /\ \A k \in 1..Len(tables) : \A x \in Names :
                  k # Len(tables) \/ x # n => ts[k][x] = tables[k][x]
        BY <1>1, <2>2, <4>1, <4>2, <4>3, AddSymbolIs
      <4>5. ts[1] = tables[1]
        <5>1. 1 \in 1..Len(tables) /\ 1 # Len(tables)
          <6> DEFINE p == Len(tables)
          <6>1. p >= 2 /\ p \in Nat
            BY <4>2
          <6> HIDE DEF p
          <6>2. 1 \in 1..p /\ 1 # p
            BY <6>1
          <6> QED BY <6>2 DEF p
        <5>2. ts[1] \in [Names -> Nat] /\ tables[1] \in [Names -> Nat]
          BY <2>2, <4>4, <5>1, TableTypes
        <5>3. \A x \in Names : ts[1][x] = tables[1][x]
          BY <4>4, <5>1
        <5> QED BY <5>2, <5>3
      <4>6. ASSUME NEW k \in 2..Len(ts), NEW x \in Names, ts[k][x] # None
            PROVE  \/ \E j \in 2..Len(tables) : ts[k][x] = tables[j][x]
                   \/ ts[k][x] = d
        <5>1. k \in 2..Len(tables) /\ k \in 1..Len(tables)
          BY <4>2, <4>4
        <5> QED BY <4>4, <5>1
      <4> QED BY <2>11, <4>5, <4>6
    <3> QED BY <3>1, <3>2
  <2>13. \A k \in 1..Len(new) :
            \/ new[k].kind = "Local"
            \/ /\ new[k].decl \in symrefs' /\ new[k].decl \in 1..Len(decls)
               /\ decls[new[k].decl].kind = new[k].kind
               /\ \E j \in 1..Len(tables) : \E x \in Names : new[k].decl = tables[j][x]
    <3> SUFFICES ASSUME NEW k \in 1..Len(new)
                 PROVE  \/ new[k].kind = "Local"
                        \/ /\ new[k].decl \in symrefs' /\ new[k].decl \in 1..Len(decls)
                           /\ decls[new[k].decl].kind = new[k].kind
                           /\ \E j \in 1..Len(tables) : \E x \in Names : new[k].decl = tables[j][x]
      OBVIOUS
    <3>1. CASE new[k] = l
      BY <2>6, <3>1
    <3>2. CASE k \in 1..Len(use) /\ new[k] = use[k]
      BY <2>8, <2>10, <3>2
    <3> QED BY <2>9, <3>1, <3>2
  <2>14. Spoken(new)
    BY <1>1, <2>1, <2>4, <2>9, <2>10, <2>12, <2>13 DEF Spoken, es, ts, moduleVars
  <2> QED BY <2>14, SpokenUnit
<1> QED BY <1>2, <1>3, <1>4

(***************************************************************************)
(* Top-level declarations.                                                 *)
(***************************************************************************)
\* A new declaration at the tail of a unit.
LEMMA AllPlacedAppended ==
  ASSUME NEW ds, NEW es, DeclList(ds), DeclList(es), Extended(ds, es, 0, <<>>), AllMentions(ds),
         NEW s, Listed(ds, s), AllPlaced(ds, s), NEW d \in 1..Len(es), d > Len(ds)
  PROVE  AllPlaced(es, s) /\ AllPlaced(es, Append(s, d))
<1> DEFINE t == Append(s, d)
           none == <<>>
<1>0. none \in Seq(BodyItems) /\ \A k : k \notin 1..Len(none)
  BY EmptySeq
<1>1. s \in Seq(1..Len(es)) /\ Len(s) \in Nat
  <2>1. Len(ds) \in Nat /\ Len(es) \in Nat /\ Len(ds) <= Len(es)
    BY DeclTypes DEF Extended
  <2>2. 1..Len(ds) \subseteq 1..Len(es)
    BY <2>1
  <2>3. s \in Seq(1..Len(ds))
    BY DEF Listed
  <2>4. s \in Seq(1..Len(es))
    BY <2>2, <2>3, SeqMonotonic
  <2> QED BY <2>4, LenProperties
<1>2. InOrder(s, s)
  BY InOrderSame
<1>3. InOrder(s, t)
  BY <1>1, AppendedPrecedes DEF InOrder
<1> HIDE DEF none
<1>4. Extended(ds, es, 0, none)
  BY DEF none
<1>5. ASSUME NEW u, InOrder(s, u), NEW i \in 1..Len(s), NEW k \in 1..Len(es[s[i]].items)
      PROVE  Placed(es, u, s[i], k)
  <2>1. \/ Placed(es, u, s[i], k)
        \/ /\ s[i] = 0 /\ k > Len(ds[0].items) /\ k - Len(ds[0].items) \in 1..Len(none)
           /\ es[0].items[k] = none[k - Len(ds[0].items)]
    BY <1>0, <1>4, <1>5, AllPlacedExtended
  <2> QED BY <1>0, <2>1
<1>6. AllPlaced(es, s)
  BY <1>2, <1>5 DEF AllPlaced
<1>7. ASSUME NEW i \in 1..Len(t), NEW k \in 1..Len(es[t[i]].items) PROVE Placed(es, t, t[i], k)
  <2>1. CASE i \in 1..Len(s)
    <3>1. t[i] = s[i]
      BY <1>1, <2>1, AppendedIs
    <3> HIDE DEF t
    <3> QED BY <1>3, <1>5, <1>7, <2>1, <3>1
  <2>2. CASE i \notin 1..Len(s)
    <3>1. t[i] = d
      BY <1>1, <2>2, AppendedIs
    <3>2. es[d].items = none
      BY DEF Extended, none
    <3> HIDE DEF t
    <3> QED BY <1>0, <1>7, <3>1, <3>2
  <2> QED BY <2>1, <2>2
<1>8. AllPlaced(es, t)
  BY <1>7 DEF AllPlaced
<1> QED BY <1>6, <1>8

\* No declaration of the unit has a name for which the global table has no entry,
\* or one that is gone from the unit.
Free(ds, t, name, gone) == t[name] = None \/ (t[name] \in gone /\ ds[t[name]].kind # "ParamVar")

\* A name free in the global table, but for what is gone, is the name of
\* nothing that stays listed.
LEMMA NewName ==
  ASSUME NEW ds, DeclList(ds), NEW s, Listed(ds, s), NEW t, InTable(ds, s, t), NEW name, NEW gone,
         Free(ds, t, name, gone), NEW i \in 1..Len(s), s[i] \notin gone
  PROVE  ds[s[i]].name # name
<1> SUFFICES ASSUME ds[s[i]].name = name PROVE FALSE
  OBVIOUS
<1>1. s[i] \in 1..Len(ds)
  BY ElementOfSeq DEF Listed
<1>2. t[name] = s[i] \/ (t[name] # None /\ ds[t[name]].kind = "ParamVar")
  BY Zenon DEF InTable
<1>3. s[i] # None
  BY <1>1 DEF None
<1> QED BY <1>2, <1>3 DEF Free

\* A declaration, without a body of statements, between two others.
GlobalStep(d) ==
    /\ phase = "parse" /\ phase' = "parse" /\ open = <<>> /\ open' = <<>> /\ func' = func
    /\ symrefs' = symrefs /\ moduleVars' = moduleVars
    /\ DeclList(decls') /\ Extended(decls, decls', 0, <<>>) /\ ExternsKept(decls, decls')
    /\ \A f \in 1..Len(decls') : f > Len(decls) /\ Bodyless(decls'[f]) => decls'[f].extern
    /\ d \in 1..Len(decls') /\ d > Len(decls) /\ ~WithBody(decls'[d])
    /\ decls'[d].kind \in {"Var", "Function"} /\ decls'[d].name \in Names
    /\ \/ tu' = tu
       \/ tu' = Append(tu, d) /\ tables[1][decls'[d].name] = None
    /\ InTable(decls', tu', tables'[1]) /\ FromUnit(decls', tu', tables'[1])

\* A declaration put at the end of the unit, with the one it replaces taken
\* out, keeps the invariant.
LEMMA GlobalUnit ==
  ASSUME Inv, Inv', Scoping, Unit, NEW d, GlobalStep(d)
  PROVE  Unit'
<1> DEFINE es == decls'
           s  == tu'
<1>1. /\ DeclList(decls) /\ AllMentions(decls) /\ Len(decls) \in Nat
      /\ tu \in Seq(1..Len(decls)) /\ symrefs \subseteq 1..Len(decls)
      /\ addresses \subseteq 1..Len(decls) /\ WhileParsed
  BY UnitWhileParsed DEF GlobalStep
<1>2. Line = tu /\ Line' = s
  BY DEF GlobalStep, Line
<1>3. /\ Listed(decls, tu) /\ Externals(decls, tu) /\ InTable(decls, tu, tables[1])
      /\ Noted(decls, symrefs) /\ AllPlaced(decls, tu)
      /\ Accounted(decls, <<>>, 1, functions, globals, addresses) /\ next = 1
  BY <1>1, <1>2 DEF WhileParsed
<1>4. /\ phase' = "parse" /\ open' = <<>> /\ symrefs' = symrefs
      /\ next' = next /\ addresses' = addresses /\ functions' = functions /\ globals' = globals
      /\ DeclList(es) /\ Extended(decls, es, 0, <<>>) /\ ExternsKept(decls, es)
      /\ d \in 1..Len(es) /\ d > Len(decls) /\ ~WithBody(es[d])
      /\ es[d].kind \in {"Var", "Function"} /\ es[d].name \in Names
      /\ \/ s = tu
         \/ s = Append(tu, d) /\ tables[1][es[d].name] = None
      /\ InTable(es, s, tables'[1]) /\ FromUnit(es, s, tables'[1])
  BY DEF GlobalStep, moduleVars
<1>5. \A f \in 1..Len(es) : f > Len(decls) /\ Bodyless(es[f]) => es[f].extern
  BY Zenon DEF GlobalStep
<1>6. depth' \in Nat
  BY <1>4, CountsOn
<1> HIDE DEF es, s
<1>7. Listed(es, tu) /\ \A i \in 1..Len(tu) : tu[i] \in 1..Len(decls) /\ SameDecl(decls[tu[i]], es[tu[i]])
  BY <1>1, <1>3, <1>4, ListedExtended
<1>8. Externals(es, tu)
  BY <1>1, <1>3, <1>4, <1>5, ExternalsExtended
<1>9. Noted(es, symrefs)
  <2> DEFINE none == <<>>
  <2>1. none \in Seq(BodyItems) /\ NewNoted(decls, none, symrefs)
    <3>1. <<>> \in Seq(BodyItems) /\ \A k : k \notin 1..Len(<<>>)
      BY EmptySeq
    <3> QED BY <3>1, Zenon DEF NewNoted
  <2> HIDE DEF none
  <2>2. Extended(decls, es, 0, none)
    BY <1>4 DEF none
  <2> QED BY <1>1, <1>3, <1>4, <2>1, <2>2, NotedExtended
<1>10. AllPlaced(es, tu) /\ AllPlaced(es, Append(tu, d))
  BY <1>1, <1>3, <1>4, AllPlacedAppended
<1>11. Listed(es, s) /\ Externals(es, s) /\ AllPlaced(es, s)
  <2>1. CASE s = tu
    BY <1>7, <1>8, <1>10, <2>1
  <2>2. CASE s = Append(tu, d) /\ tables[1][es[d].name] = None
    <3>1. \A i \in 1..Len(tu) : es[tu[i]].name # es[d].name
      <4> SUFFICES ASSUME NEW i \in 1..Len(tu) PROVE es[tu[i]].name # es[d].name
        OBVIOUS
      <4>1. decls[tu[i]].name # es[d].name
        <5> DEFINE name == es[d].name
                   t == tables[1]
                   none == {}
        <5>1. Free(decls, t, name, none) /\ InTable(decls, tu, t) /\ tu[i] \notin none
          BY <1>3, <2>2 DEF Free
        <5> HIDE DEF name, t, none
        <5>2. decls[tu[i]].name # name
          BY <1>1, <1>3, <5>1, NewName
        <5> QED BY <5>2 DEF name
      <4> QED BY <1>7, <4>1 DEF SameDecl
    <3>2. Listed(es, s)
      BY <1>4, <1>7, <2>2, <3>1, ListedAppended
    <3>3. ASSUME NEW i \in 1..Len(s), WithBody(es[s[i]]) PROVE ~es[s[i]].extern
      <4>1. (i \in 1..Len(tu) /\ s[i] = tu[i]) \/ s[i] = d
        <5>1. tu \in Seq(1..Len(es))
          BY <1>7 DEF Listed
        <5> QED BY <1>4, <2>2, <3>3, <5>1, AppendedIs
      <4>2. CASE s[i] = d
        BY <1>4, <3>3, <4>2
      <4>3. CASE i \in 1..Len(tu) /\ s[i] = tu[i]
        BY <1>8, <3>3, <4>3, Zenon DEF Externals
      <4> QED BY <4>1, <4>2, <4>3
    <3>4. Externals(es, s)
      BY <1>8, <3>3, Zenon DEF Externals
    <3> QED BY <1>10, <2>2, <3>2, <3>4
  <2> QED BY <1>4, <2>1, <2>2
<1>12. Accounted(es, <<>>, 1, functions, globals, addresses)
  BY <1>3, NothingAccounted
<1>13. Basics'
  <2>1. Len(es) \in Nat /\ Len(decls) <= Len(es)
    BY <1>4, DeclTypes DEF Extended
  <2>2. 1..Len(decls) \subseteq 1..Len(es)
    BY <1>1, <2>1
  <2>3. s \in Seq(1..Len(es))
    BY <1>11 DEF Listed
  <2> QED BY <1>1, <1>4, <1>6, <2>2, <2>3 DEF Basics, es, s
<1>14. WhileParsed'
  BY <1>2, <1>3, <1>4, <1>9, <1>11, <1>12 DEF WhileParsed, es, s
<1> QED BY <1>4, <1>13, <1>14, UnitParsedOn

\* r is s without what is gone.
Without(r, s, gone) ==
    /\ \A j \in 1..Len(r) : \E i \in 1..Len(s) : r[j] = s[i] /\ s[i] \notin gone
    /\ \A i \in 1..Len(s) : s[i] \notin gone => \E j \in 1..Len(r) : r[j] = s[i]

\* A declaration enters the table and the unit, perhaps in the place of another.
LEMMA EntryAdded ==
  ASSUME NEW ds, NEW es, DeclList(ds), DeclList(es), Extended(ds, es, 0, <<>>),
         NEW s, Listed(ds, s), NEW t, \A x \in Names : t[x] \in 0..Len(ds),
         InTable(ds, s, t), FromUnit(ds, s, t),
         NEW r \in Seq(1..Len(es)), NEW gone, Without(r, s, gone),
         NEW name \in Names, Free(ds, t, name, gone),
         \A x \in Names : x # name => t[x] \notin gone \/ t[x] = None,
         NEW d \in 1..Len(es), es[d].name = name,
         NEW u, u[name] = d, \A x \in Names : x # name => u[x] = t[x]
  PROVE  InTable(es, Append(r, d), u) /\ FromUnit(es, Append(r, d), u)
<1> DEFINE q == Append(r, d)
<1>1. InTable(es, s, t) /\ FromUnit(es, s, t)
  BY TablesExtended
<1>2. Listed(es, s) /\ \A i \in 1..Len(s) : s[i] \in 1..Len(ds) /\ SameDecl(ds[s[i]], es[s[i]])
  BY ListedExtended
<1>3. ASSUME NEW i \in 1..Len(s), s[i] \notin gone PROVE es[s[i]].name # name
  <2>1. ds[s[i]].name # name
    BY <1>3, NewName
  <2> QED BY <1>2, <2>1 DEF SameDecl
<1>4. /\ Len(r) + 1 \in 1..Len(q) /\ q[Len(r) + 1] = d
      /\ \A j \in 1..Len(r) : j \in 1..Len(q) /\ q[j] = r[j]
      /\ \A j \in 1..Len(q) : j \in 1..Len(r) \/ (j = Len(r) + 1 /\ q[j] = d)
  BY AppendedIs
<1> HIDE DEF q
<1>5. ASSUME NEW j \in 1..Len(q)
      PROVE  LET e == u[es[q[j]].name] IN e = q[j] \/ (e # None /\ es[e].kind = "ParamVar")
  <2>1. CASE j \in 1..Len(r)
    <3>0. q[j] = r[j]
      BY <1>4, <2>1
    <3>1. PICK i \in 1..Len(s) : r[j] = s[i] /\ s[i] \notin gone
      BY <2>1, Zenon DEF Without
    <3>2. es[s[i]].name \in Names /\ es[s[i]].name # name
      BY <1>2, <1>3, <3>1 DEF Listed
    <3>3. u[es[s[i]].name] = t[es[s[i]].name]
      BY <3>2
    <3>4. LET e == t[es[s[i]].name] IN e = s[i] \/ (e # None /\ es[e].kind = "ParamVar")
      BY <1>1, Zenon DEF InTable
    <3> QED BY <3>0, <3>1, <3>3, <3>4
  <2>2. CASE q[j] = d
    BY <2>2
  <2> QED BY <1>4, <2>1, <2>2
<1>6. ASSUME NEW x \in Names, u[x] # None
      PROVE  \/ \E j \in 1..Len(q) : q[j] = u[x]
             \/ u[x] \in LeakedIn(es) /\ es[u[x]].kind = "ParamVar"
  <2>1. CASE x = name
    BY <1>4, <2>1
  <2>2. CASE x # name
    <3>1. u[x] = t[x] /\ t[x] \notin gone
      BY <1>6, <2>2
    <3>2. \/ \E i \in 1..Len(s) : s[i] = t[x]
          \/ t[x] \in LeakedIn(es) /\ es[t[x]].kind = "ParamVar"
      BY <1>1, <1>6, <3>1 DEF FromUnit
    <3>3. CASE \E i \in 1..Len(s) : s[i] = t[x]
      <4>1. PICK i \in 1..Len(s) : s[i] = t[x]
        BY <3>3
      <4>2. PICK j \in 1..Len(r) : r[j] = s[i]
        BY <3>1, <4>1 DEF Without
      <4> QED BY <1>4, <3>1, <4>1, <4>2
    <3> QED BY <3>1, <3>2, <3>3
  <2> QED BY <2>1, <2>2
<1>7. InTable(es, q, u)
  BY <1>5, Zenon DEF InTable
<1>8. FromUnit(es, q, u)
  BY <1>6, Zenon DEF FromUnit
<1> QED BY <1>7, <1>8 DEF q

\* Parameters that end up in the global table.
LEMMA EntriesLeaked ==
  ASSUME NEW es, DeclList(es), NEW s, Listed(es, s), NEW t, InTable(es, s, t), FromUnit(es, s, t),
         NEW u, \A x \in Names : \/ u[x] = t[x]
                                 \/ u[x] # None /\ u[x] \in LeakedIn(es) /\ es[u[x]].kind = "ParamVar"
  PROVE  InTable(es, s, u) /\ FromUnit(es, s, u)
<1>1. ASSUME NEW i \in 1..Len(s)
      PROVE  LET e == u[es[s[i]].name] IN e = s[i] \/ (e # None /\ es[e].kind = "ParamVar")
  <2>1. es[s[i]].name \in Names
    BY DEF Listed
  <2>2. LET e == t[es[s[i]].name] IN e = s[i] \/ (e # None /\ es[e].kind = "ParamVar")
    BY Zenon DEF InTable
  <2> QED BY <2>1, <2>2
<1>2. ASSUME NEW x \in Names, u[x] # None
      PROVE  \/ \E i \in 1..Len(s) : s[i] = u[x]
             \/ u[x] \in LeakedIn(es) /\ es[u[x]].kind = "ParamVar"
  BY <1>2 DEF FromUnit
<1>3. InTable(es, s, u)
  BY <1>1, Zenon DEF InTable
<1>4. FromUnit(es, s, u)
  BY <1>2, Zenon DEF FromUnit
<1> QED BY <1>3, <1>4

\* A list with nothing removed.
LEMMA SameWithout ==
  ASSUME NEW s
  PROVE  Without(s, s, {})
BY DEF Without

\* The global table, between two declarations.
LEMMA GlobalTable ==
  ASSUME Inv, Scoping, Unit, phase = "parse", open = <<>>
  PROVE  /\ Len(tables) = 1 /\ tables[1] \in [Names -> Nat]
         /\ \A x \in Names : tables[1][x] \in 0..Len(decls)
         /\ \A x \in Names : tables[1][x] # None => decls[tables[1][x]].name = x
         /\ Listed(decls, tu) /\ InTable(decls, tu, tables[1]) /\ FromUnit(decls, tu, tables[1])
<1>1. Len(tables) = 1
  BY OneTable
<1>2. /\ tables \in Tables /\ Bounded(tables, Len(decls)) /\ Entries(decls, tables)
      /\ Len(decls) \in Nat /\ WhileParsed
  BY UnitWhileParsed
<1>3. 1 \in 1..Len(tables)
  BY <1>1
<1>4. tables[1] \in [Names -> Nat] /\ \A x \in Names : tables[1][x] \in Nat
  BY <1>2, <1>3, TableTypes
<1>5. ASSUME NEW x \in Names PROVE tables[1][x] \in 0..Len(decls)
  <2>1. tables[1][x] <= Len(decls) /\ tables[1][x] \in Nat
    BY <1>2, <1>3, <1>4 DEF Bounded
  <2> QED BY <1>2, <2>1
<1>6. \A x \in Names : tables[1][x] # None => decls[tables[1][x]].name = x
  BY <1>2, <1>3 DEF Entries
<1>7. Line = tu
  BY DEF Line
<1> QED BY <1>1, <1>2, <1>4, <1>5, <1>6, <1>7 DEF WhileParsed

\* A global variable keeps the unit's invariant.
LEMMA GlobalVariableUnit ==
  ASSUME Inv, Inv', Scoping, Unit,
         NEW n \in VarNames, NEW extern \in BOOLEAN, NEW more \in BOOLEAN,
         GlobalVariable(n, extern, more)
  PROVE  Unit'
<1> DEFINE d  == Len(decls) + 1
           v  == Declared("Var", n, extern)
           es == Append(decls, v)
           t  == tables[1]
           u  == tables'[1]
<1>1. phase = "parse" /\ open = <<>> /\ n \in Names /\ n # NoName /\ n \in STRING
  BY NamesAre DEF GlobalVariable, AtGlobal
<1>2. CASE t[n] # None
  BY <1>2, RejectedUnit DEF GlobalVariable
<1>3. CASE t[n] = None
  <2>1. /\ phase' = "parse" /\ open' = <<>> /\ func' = func /\ symrefs' = symrefs
        /\ moduleVars' = moduleVars /\ decls' = es
        /\ tables' = AddSymbol(tables, n, d) /\ tu' = Append(tu, d)
    BY <1>1, <1>3 DEF GlobalVariable, Parsing
  <2>2. /\ Len(tables) = 1 /\ t \in [Names -> Nat] /\ \A x \in Names : t[x] \in 0..Len(decls)
        /\ Listed(decls, tu) /\ InTable(decls, tu, t) /\ FromUnit(decls, tu, t)
    BY <1>1, GlobalTable
  <2>3. DeclList(decls) /\ Len(decls) \in Nat /\ tables \in Tables /\ tu \in Seq(1..Len(decls))
    BY <1>1, UnitWhileParsed
  <2>4. /\ DeclList(es) /\ Extended(decls, es, 0, <<>>) /\ Len(es) = Len(decls) + 1
        /\ es[Len(decls) + 1] = v /\ \A f \in 1..Len(decls) : es[f] = decls[f]
    <3>1. es = Append(decls, Declared("Var", n, extern))
      OBVIOUS
    <3> HIDE DEF es
    <3>2. /\ DeclList(es) /\ Extended(decls, es, 0, <<>>) /\ Len(es) = Len(decls) + 1
          /\ es[Len(decls) + 1] = Declared("Var", n, extern)
      BY <1>1, <2>3, <3>1, VariableAdded
    <3>3. \A f \in 1..Len(decls) : es[f] = decls[f]
      BY <1>1, <2>3, <3>1, VariableAdded
    <3> QED BY <3>2, <3>3
  <2>5. v.kind = "Var" /\ v.name = n
    BY DEF Declared
  <2> HIDE DEF es, v
  <2>6. d \in 1..Len(es) /\ d > Len(decls) /\ es[d] = v /\ \A f \in 1..Len(es) : f > Len(decls) => f = d
    BY <2>3, <2>4
  <2>7. ExternsKept(decls, es)
    BY <2>4 DEF ExternsKept
  <2>8. ~WithBody(es[d]) /\ ~Bodyless(es[d])
    BY <2>5, <2>6 DEF WithBody, Bodyless
  <2>9. u[n] = d /\ \A x \in Names : x # n => u[x] = t[x]
    <3>1. d \in Nat /\ Len(tables) >= 1 /\ 1 \in 1..Len(tables)
      BY <2>2, <2>3
    <3> DEFINE us == AddSymbol(tables, n, d)
    <3> HIDE DEF d
    <3>2. /\ us[Len(tables)][n] = d
          /\ \A k \in 1..Len(tables) : \A x \in Names :
                k # Len(tables) \/ x # n => us[k][x] = tables[k][x]
      BY <1>1, <2>3, <3>1, AddSymbolIs
    <3> HIDE DEF us
    <3>3. us[1][n] = d /\ \A x \in Names : x # n => us[1][x] = tables[1][x]
      BY <2>2, <3>1, <3>2
    <3> QED BY <2>1, <3>3 DEF us
  <2>10. InTable(es, tu', u) /\ FromUnit(es, tu', u)
    <3> DEFINE gone == {}
    <3>1. Without(tu, tu, gone)
      BY SameWithout
    <3>2. tu \in Seq(1..Len(es))
      <4>1. 1..Len(decls) \subseteq 1..Len(es)
        BY <2>3, <2>4
      <4> QED BY <2>3, <4>1, SeqMonotonic
    <3>3. /\ Free(decls, t, n, gone)
          /\ \A x \in Names : x # n => t[x] \notin gone \/ t[x] = None
      BY <1>3 DEF Free
    <3> HIDE DEF gone, d, t, u
    <3>4. InTable(es, Append(tu, d), u) /\ FromUnit(es, Append(tu, d), u)
      BY <1>1, <2>2, <2>3, <2>4, <2>5, <2>6, <2>9, <3>1, <3>2, <3>3, EntryAdded
    <3> QED BY <2>1, <3>4
  <2>11. \A f \in 1..Len(es) : f > Len(decls) /\ Bodyless(es[f]) => es[f].extern
    BY <2>6, <2>8
  <2> HIDE DEF d
  <2>12. GlobalStep(d)
    BY <1>1, <1>3, <2>1, <2>4, <2>5, <2>6, <2>7, <2>8, <2>10, <2>11 DEF GlobalStep
  <2> QED BY <2>12, GlobalUnit
<1> QED BY <1>2, <1>3

\* es is the declarations with a function and its parameters.
HasFunction(es, p, extern, body) ==
    LET d == Len(decls) + 1
    IN  /\ DeclList(es) /\ Extended(decls, es, 0, <<>>) /\ ExternsKept(decls, es)
        /\ d \in 1..Len(es) /\ d > Len(decls) /\ p.name \in Names /\ p.name # NoName
        /\ es[d].name = p.name /\ es[d].kind = "Function"
        /\ es[d].body = body /\ es[d].extern = extern
        /\ p.params \in Seq(STRING)
        /\ \A f \in 1..Len(es) : f > Len(decls) => f = d \/ es[f].kind = "ParamVar"
        /\ \A k \in 1..Len(p.params) :
              /\ d + k \in 1..Len(es) /\ d + k \in ToSet(es[d].params)
              /\ es[d + k].kind = "ParamVar" /\ es[d + k].name = p.params[k]

\* What WithFunction adds, as the next lemmas cite it.
LEMMA NewFunction ==
  ASSUME NEW p \in Prototypes, NEW extern \in Truth, NEW body \in Truth, DeclList(decls)
  PROVE  HasFunction(WithFunction(p, extern, body), p, extern, body)
<1> DEFINE es == WithFunction(p, extern, body)
           n == Len(decls)
           d == Len(decls) + 1
           names == p.params
           m == Len(names)
<1>0. Len(es) = n + 1 + m
  BY FunctionLength, Zenon
<1>1. /\ DeclList(es) /\ n \in Nat /\ names \in Seq(STRING) /\ m \in Nat
      /\ Extended(decls, es, 0, <<>>) /\ p.name \in Names /\ p.name # NoName
      /\ d \in 1..Len(es) /\ es[d].name = p.name /\ es[d].kind = "Function"
      /\ es[d] = FunctionOf(p, extern, ParamIds(names), body) /\ es[d].params = ParamIds(names)
      /\ \A k \in 1..m : es[d + k].name = names[k] /\ es[d + k].kind = "ParamVar"
  BY FunctionThere
<1>2. \A f \in 1..n : es[f] = decls[f]
  <2>1. extern \in BOOLEAN /\ body \in BOOLEAN
    BY DEF Truth
  <2> QED BY <2>1, FunctionAdded
<1> HIDE DEF es, n, m, names
<1>3. es[d].body = body /\ es[d].extern = extern
  <2> DEFINE r == FunctionOf(p, extern, ParamIds(names), body)
  <2>1. r.body = body /\ r.extern = extern
    BY DEF FunctionOf, Declared
  <2> HIDE DEF r
  <2>2. es[d] = r
    BY <1>1 DEF r
  <2> QED BY <2>1, <2>2
<1>4. ExternsKept(decls, es)
  BY <1>2 DEF ExternsKept, n
<1>5. d = n + 1
  BY DEF n
<1> HIDE DEF d
<1>6. d > n /\ \A f \in 1..Len(es) : f > n => f = d \/ \E k \in 1..m : f = d + k
  <2> SUFFICES ASSUME NEW f \in 1..Len(es), f > n, f # d PROVE \E k \in 1..m : f = d + k
    BY <1>1, <1>5
  <2>1. f - d \in 1..m /\ f = d + (f - d)
    BY <1>0, <1>1, <1>5
  <2> QED BY <2>1
<1>7. \A f \in 1..Len(es) : f > n => f = d \/ es[f].kind = "ParamVar"
  BY <1>1, <1>6
<1>8. ASSUME NEW k \in 1..m PROVE d + k \in 1..Len(es) /\ d + k \in ToSet(es[d].params)
  <2>1. d + k \in 1..Len(es)
    BY <1>0, <1>1, <1>5
  <2>2. DOMAIN names = 1..m
    BY <1>1, LenProperties DEF m
  <2>3. ParamIds(names) = [i \in 1..m |-> d + i]
    BY <2>2 DEF ParamIds, d
  <2>4. k \in 1..m /\ ParamIds(names)[k] = d + k /\ DOMAIN ParamIds(names) = 1..m
    BY <2>3
  <2>5. d + k \in ToSet(ParamIds(names))
    BY <2>4 DEF ToSet
  <2> QED BY <1>1, <2>1, <2>5
<1>9. n = Len(decls)
  BY DEF n
<1>10. HasFunction(es, p, extern, body)
  BY <1>1, <1>3, <1>4, <1>6, <1>7, <1>8, <1>9 DEF HasFunction, d, m, names
<1> QED BY <1>10 DEF es

\* The parameters of a function in a table.
LEMMA ParametersEntered ==
  ASSUME NEW p \in Prototypes, NEW extern \in Truth, NEW body \in Truth, DeclList(decls),
         NEW es, HasFunction(es, p, extern, body), NEW t \in [Names -> Nat]
  PROVE  LET d == Len(decls) + 1
             u == WithParams(t, p.params)
         IN  /\ u \in [Names -> Nat]
             /\ \A x \in Names : \/ u[x] = t[x]
                                 \/ /\ u[x] # None /\ u[x] \in 1..Len(es) /\ u[x] \in ToSet(es[d].params)
                                    /\ es[u[x]].kind = "ParamVar" /\ es[u[x]].name # NoName
<1> DEFINE d == Len(decls) + 1
           names == p.params
           u == WithParams(t, names)
<1>1. Len(decls) \in Nat
  BY DeclTypes
<1>2. /\ names \in Seq(STRING)
      /\ \A k \in 1..Len(names) :
              /\ d + k \in 1..Len(es) /\ d + k \in ToSet(es[d].params)
              /\ es[d + k].kind = "ParamVar" /\ es[d + k].name = names[k]
  BY DEF HasFunction
<1> HIDE DEF names
<1>3. /\ u \in [Names -> Nat]
      /\ \A x \in Names :
              \/ u[x] = t[x]
              \/ \E k \in 1..Len(names) : /\ x # NoName /\ names[k] = x
                                          /\ u[x] = d + k
  BY <1>1, <1>2, WithParamsIs
<1> HIDE DEF u, d
<1>4. ASSUME NEW x \in Names, u[x] # t[x]
      PROVE  /\ u[x] # None /\ u[x] \in 1..Len(es) /\ u[x] \in ToSet(es[d].params)
             /\ es[u[x]].kind = "ParamVar" /\ es[u[x]].name # NoName
  <2>1. PICK k \in 1..Len(names) : x # NoName /\ names[k] = x /\ u[x] = d + k
    BY <1>3, <1>4
  <2>2. /\ u[x] \in 1..Len(es) /\ u[x] \in ToSet(es[d].params)
        /\ es[u[x]].kind = "ParamVar" /\ es[u[x]].name = x
    BY <1>2, <2>1
  <2> QED BY <2>1, <2>2 DEF None
<1> QED BY <1>3, <1>4 DEF d, u, names

\* addSymbol on the global table.
LEMMA SymbolEntered ==
  ASSUME NEW ts \in Tables, Len(ts) = 1, NEW name \in Names, name # NoName, NEW d \in Nat
  PROVE  LET us == AddSymbol(ts, name, d)
         IN  /\ us \in Tables /\ Len(us) = 1 /\ us[1] \in [Names -> Nat]
             /\ us[1][name] = d /\ \A x \in Names : x # name => us[1][x] = ts[1][x]
<1> DEFINE us == AddSymbol(ts, name, d)
<1>1. Len(ts) >= 1 /\ 1 \in 1..Len(ts)
  OBVIOUS
<1>2. /\ us \in Tables /\ Len(us) = Len(ts) /\ us[Len(ts)][name] = d
      /\ \A k \in 1..Len(ts) : \A x \in Names :
            k # Len(ts) \/ x # name => us[k][x] = ts[k][x]
  BY <1>1, AddSymbolIs
<1> HIDE DEF us
<1>3. us[1] \in [Names -> Nat]
  BY <1>1, <1>2, TableTypes
<1>4. us[1][name] = d /\ \A x \in Names : x # name => us[1][x] = ts[1][x]
  BY <1>1, <1>2
<1> QED BY <1>2, <1>3, <1>4 DEF us

\* The unit and the table when a function enters them.
LEMMA FunctionEntered ==
  ASSUME Inv, Scoping, Unit, phase = "parse", open = <<>>,
         NEW p \in Prototypes, NEW extern \in Truth, NEW body \in Truth,
         NEW es, HasFunction(es, p, extern, body), NEW gone,
         NEW r \in Seq(1..Len(decls)), Without(r, tu, gone), gone \subseteq {tables[1][p.name]},
         Free(decls, tables[1], p.name, gone)
  PROVE  LET d == Len(decls) + 1
             t == AddSymbol(tables, p.name, d)[1]
         IN  InTable(es, Append(r, d), t) /\ FromUnit(es, Append(r, d), t)
<1> DEFINE d == Len(decls) + 1
           t == tables[1]
           u == AddSymbol(tables, p.name, d)[1]
           name == p.name
<1>1. /\ Len(tables) = 1 /\ t \in [Names -> Nat] /\ \A x \in Names : t[x] \in 0..Len(decls)
      /\ \A x \in Names : t[x] # None => decls[t[x]].name = x
      /\ Listed(decls, tu) /\ InTable(decls, tu, t) /\ FromUnit(decls, tu, t)
  BY GlobalTable
<1>2. DeclList(decls) /\ Len(decls) \in Nat /\ tables \in Tables
  BY UnitWhileParsed
<1>3. /\ DeclList(es) /\ Extended(decls, es, 0, <<>>) /\ d \in 1..Len(es) /\ es[d].name = name
      /\ name \in Names /\ name # NoName
  BY DEF HasFunction
<1>4. u[name] = d /\ \A x \in Names : x # name => u[x] = t[x]
  <2>1. d \in Nat
    BY <1>2
  <2> DEFINE us == AddSymbol(tables, name, d)
  <2> HIDE DEF d, name
  <2> DEFINE ts == tables
  <2>0. Len(ts) = 1 /\ ts \in Tables /\ name \in Names /\ name # NoName
    BY <1>1, <1>2, <1>3 DEF name
  <2> HIDE DEF ts
  <2>2. us[1][name] = d /\ \A x \in Names : x # name => us[1][x] = ts[1][x]
    BY <2>0, <2>1, SymbolEntered DEF ts
  <2> HIDE DEF us
  <2> QED BY <2>2 DEF us, name, ts
<1>5. r \in Seq(1..Len(es))
  <2>1. Len(es) \in Nat /\ Len(decls) <= Len(es)
    BY <1>3, DeclTypes DEF Extended
  <2>2. 1..Len(decls) \subseteq 1..Len(es)
    BY <1>2, <2>1
  <2> QED BY <2>2, SeqMonotonic
<1>6. \A x \in Names : x # name => t[x] \notin gone \/ t[x] = None
  <2> SUFFICES ASSUME NEW x \in Names, x # name, t[x] \in gone, t[x] # None PROVE FALSE
    OBVIOUS
  <2>1. t[x] = t[name]
    OBVIOUS
  <2>2. decls[t[x]].name = x /\ decls[t[name]].name = name
    BY <1>1, <1>3, <2>1
  <2> QED BY <2>1, <2>2
<1>7. Free(decls, t, name, gone)
  OBVIOUS
<1> HIDE DEF d, t, u, name
<1>8. InTable(es, Append(r, d), u) /\ FromUnit(es, Append(r, d), u)
  BY <1>1, <1>2, <1>3, <1>4, <1>5, <1>6, <1>7, EntryAdded
<1> QED BY <1>8 DEF d, u, name

\* A prototype keeps the unit's invariant.
LEMMA DeclareFunctionUnit ==
  ASSUME Inv, Inv', Scoping, Unit, NEW proto \in Prototypes, NEW extern \in BOOLEAN,
         DeclareFunction(proto, extern)
  PROVE  Unit'
<1> DEFINE d    == Len(decls) + 1
           prev == tables[1][proto.name]
           body == FALSE
           f    == FunctionOf(proto, extern, ParamIds(proto.params), body)
           es   == WithFunction(proto, extern, body)
           ts   == IF prev = None THEN AddSymbol(tables, proto.name, d) ELSE tables
           s    == IF prev = None THEN Append(tu, d) ELSE tu
           u    == WithParams(ts[1], proto.params)
<1>1. CASE prev # None /\ ~SameProto(f, decls[prev])
  BY <1>1, RejectedUnit DEF DeclareFunction
<1>2. CASE (prev = None \/ SameProto(f, decls[prev])) /\ ~extern
  BY <1>2, RejectedUnit DEF DeclareFunction
<1>3. CASE (prev = None \/ SameProto(f, decls[prev])) /\ extern
  <2>1. /\ phase = "parse" /\ open = <<>> /\ phase' = "parse" /\ open' = <<>> /\ func' = func
        /\ symrefs' = symrefs /\ moduleVars' = moduleVars
        /\ decls' = es /\ tables' = AddParams(ts, proto.params) /\ tu' = s
    BY <1>3 DEF DeclareFunction, AtGlobal, Parsing, WithFunction
  <2>2. extern \in Truth /\ body \in Truth
    BY DEF Truth
  <2>3. DeclList(decls) /\ Len(decls) \in Nat /\ tables \in Tables /\ tu \in Seq(1..Len(decls))
    BY <2>1, UnitWhileParsed
  <2>4. /\ Len(tables) = 1 /\ tables[1] \in [Names -> Nat]
        /\ \A x \in Names : tables[1][x] \in 0..Len(decls)
        /\ Listed(decls, tu) /\ InTable(decls, tu, tables[1]) /\ FromUnit(decls, tu, tables[1])
    BY <2>1, GlobalTable
  <2>5. HasFunction(es, proto, extern, body)
    <3> HIDE DEF body
    <3> QED BY <2>2, <2>3, NewFunction
  <2> HIDE DEF es
  <2>6. /\ DeclList(es) /\ Extended(decls, es, 0, <<>>) /\ ExternsKept(decls, es)
        /\ d \in 1..Len(es) /\ d > Len(decls) /\ proto.name \in Names /\ proto.name # NoName
        /\ es[d].name = proto.name /\ es[d].kind = "Function"
        /\ es[d].body = FALSE /\ es[d].extern = extern
    BY <2>5 DEF HasFunction
  <2>7. \A h \in 1..Len(es) : h > Len(decls) => h = d \/ es[h].kind = "ParamVar"
    BY <2>5, Zenon DEF HasFunction
  <2>8. ts \in Tables /\ Len(ts) = 1 /\ ts[1] \in [Names -> Nat]
    <3>1. d \in Nat
      BY <2>3
    <3> HIDE DEF d
    <3> QED BY <2>3, <2>4, <2>6, <3>1, SymbolEntered
  <2>9. InTable(es, s, ts[1]) /\ FromUnit(es, s, ts[1])
    <3>1. CASE prev = None
      <4> DEFINE gone == {}
      <4>1. /\ Without(tu, tu, gone) /\ gone \subseteq {tables[1][proto.name]}
            /\ Free(decls, tables[1], proto.name, gone)
        BY <3>1, SameWithout DEF Free
      <4>2. s = Append(tu, d) /\ ts = AddSymbol(tables, proto.name, d)
        BY <3>1
      <4> HIDE DEF gone, body, s, ts
      <4> QED BY <2>1, <2>2, <2>3, <2>5, <4>1, <4>2, FunctionEntered
    <3>2. CASE prev # None
      <4>1. s = tu /\ ts = tables
        BY <3>2
      <4> DEFINE g == 0
                 none == <<>>
      <4>2. Extended(decls, es, g, none)
        BY <2>6
      <4> HIDE DEF g, none
      <4>3. InTable(es, tu, tables[1]) /\ FromUnit(es, tu, tables[1])
        BY <2>3, <2>4, <2>6, <4>2, TablesExtended
      <4> QED BY <4>1, <4>3
    <3> QED BY <3>1, <3>2
  <2>10. tables'[1] = u
    <3>1. tables' = [ts EXCEPT ![Len(ts)] = WithParams(ts[Len(ts)], proto.params)]
      BY <2>1, AddParamsIs
    <3> HIDE DEF ts
    <3>2. 1 \in DOMAIN ts
      BY <2>8, TableTypes
    <3> QED BY <2>8, <3>1, <3>2
  <2>11. /\ u \in [Names -> Nat]
         /\ \A x \in Names : \/ u[x] = ts[1][x]
                             \/ /\ u[x] # None /\ u[x] \in 1..Len(es) /\ u[x] \in ToSet(es[d].params)
                                /\ es[u[x]].kind = "ParamVar" /\ es[u[x]].name # NoName
    <3> HIDE DEF body, ts
    <3> QED BY <2>2, <2>3, <2>5, <2>8, ParametersEntered
  <2> HIDE DEF ts, u
  <2>12. ASSUME NEW x \in Names
         PROVE  \/ u[x] = ts[1][x]
                \/ u[x] # None /\ u[x] \in LeakedIn(es) /\ es[u[x]].kind = "ParamVar"
    <3>1. CASE u[x] = ts[1][x]
      BY <3>1
    <3>2. CASE u[x] # None /\ u[x] \in 1..Len(es) /\ u[x] \in ToSet(es[d].params)
               /\ es[u[x]].kind = "ParamVar"
      <4>1. u[x] \in LeakedIn(es)
        BY <2>6, <2>11, <3>2 DEF LeakedIn
      <4> QED BY <3>2, <4>1
    <3> QED BY <2>11, <3>1, <3>2
  <2> DEFINE t == ts[1]
  <2>13. Listed(es, s)
    <3> DEFINE g == 0
               none == <<>>
    <3>1. Extended(decls, es, g, none)
      BY <2>6
    <3> HIDE DEF g, none
    <3>2. Listed(es, tu) /\ \A i \in 1..Len(tu) : tu[i] \in 1..Len(decls) /\ SameDecl(decls[tu[i]], es[tu[i]])
      BY <2>3, <2>4, <2>6, <3>1, ListedExtended
    <3>3. CASE prev = None
      <4> DEFINE gone == {}
      <4>1. \A i \in 1..Len(tu) : tu[i] \notin gone
        OBVIOUS
      <4>2. Free(decls, tables[1], proto.name, gone)
        BY <3>3 DEF Free
      <4> HIDE DEF gone
      <4>3. ASSUME NEW i \in 1..Len(tu) PROVE es[tu[i]].name # es[d].name
        <5> DEFINE tt == tables[1]
                   name == proto.name
        <5>1. Free(decls, tt, name, gone) /\ tu[i] \notin gone /\ InTable(decls, tu, tt)
          BY <2>4, <4>1, <4>2
        <5> HIDE DEF tt, name
        <5>2. decls[tu[i]].name # name
          BY <2>3, <2>4, <5>1, NewName
        <5> QED BY <2>6, <3>2, <5>2 DEF SameDecl, name
      <4>4. Listed(es, Append(tu, d))
        <5> HIDE DEF d
        <5> QED BY <2>6, <3>2, <4>3, ListedAppended
      <4> QED BY <3>3, <4>4
    <3>4. CASE prev # None
      BY <3>2, <3>4
    <3> QED BY <3>3, <3>4
  <2>14. InTable(es, s, u) /\ FromUnit(es, s, u)
    <3>1. InTable(es, s, t) /\ FromUnit(es, s, t)
      BY <2>9
    <3>2. \A x \in Names : \/ u[x] = t[x]
                           \/ u[x] # None /\ u[x] \in LeakedIn(es) /\ es[u[x]].kind = "ParamVar"
      BY <2>12
    <3> HIDE DEF t, s
    <3> QED BY <2>6, <2>13, <3>1, <3>2, EntriesLeaked
  <2>15. ~WithBody(es[d])
    BY <2>6 DEF WithBody
  <2>16. \A h \in 1..Len(es) : h > Len(decls) /\ Bodyless(es[h]) => es[h].extern
    BY <1>3, <2>6, <2>7 DEF Bodyless
  <2>17. s = tu \/ (s = Append(tu, d) /\ tables[1][es[d].name] = None)
    BY <2>6
  <2> HIDE DEF d, s
  <2>18. GlobalStep(d)
    BY <2>1, <2>6, <2>10, <2>14, <2>15, <2>16, <2>17 DEF GlobalStep
  <2> QED BY <2>18, GlobalUnit
<1> QED BY <1>1, <1>2, <1>3

\* Remaining is the list without what is gone.
LEMMA PickedWithout ==
  ASSUME NEW S, NEW s \in Seq(S), NEW gone
  PROVE  /\ Remaining(s, gone) \in Seq(S)
         /\ Without(Remaining(s, gone), s, gone)
<1> DEFINE r == Remaining(s, gone)
<1>1. r \in Seq(S) /\ \E p : PickedFrom(p, r, s, gone)
  BY PickedIs
<1> HIDE DEF r
<1>2. PICK p : PickedFrom(p, r, s, gone)
  BY <1>1
<1>3. ASSUME NEW j \in 1..Len(r) PROVE \E i \in 1..Len(s) : r[j] = s[i] /\ s[i] \notin gone
  <2>1. p[j] \in 1..Len(s) /\ r[j] = s[p[j]] /\ r[j] \notin gone
    BY <1>2, Zenon DEF PickedFrom
  <2> QED BY <2>1
<1>4. ASSUME NEW i \in 1..Len(s), s[i] \notin gone PROVE \E j \in 1..Len(r) : r[j] = s[i]
  BY <1>2, <1>4, Zenon DEF PickedFrom
<1>5. Without(r, s, gone)
  BY <1>3, <1>4, Zenon DEF Without
<1> QED BY <1>1, <1>5 DEF r

\* t is d and what s has but prev.
OnlyOf(t, s, prev, d) == \A i \in 1..Len(t) : t[i] = d \/ \E j \in 1..Len(s) : t[i] = s[j] /\ s[j] # prev

\* Without prev, and with d, which replaces it, at its tail, the unit is in the same
\* order.
LEMMA ReplacedOrder ==
  ASSUME NEW S, NEW s \in Seq(S), NEW prev, NEW d \in S
  PROVE  LET t == Append(Remaining(s, {prev}), d)
         IN  /\ t \in Seq(S)
             /\ \A e, g : e # prev /\ g # prev /\ Precedes(s, e, g) => Precedes(t, e, g)
             /\ \A i \in 1..Len(s) : s[i] # prev => Precedes(t, s[i], d)
             /\ OnlyOf(t, s, prev, d)
<1> DEFINE gone == {prev}
           r == Remaining(s, gone)
           t == Append(r, d)
<1>1. r \in Seq(S) /\ \E p : PickedFrom(p, r, s, gone)
  BY PickedIs
<1>2. Without(r, s, gone)
  BY PickedWithout
<1>3. \A x : x # prev <=> x \notin gone
  OBVIOUS
<1> HIDE DEF r, gone
<1>4. PICK p : PickedFrom(p, r, s, gone)
  BY <1>1
<1>5. /\ t \in Seq(S)
      /\ \A i \in 1..Len(t) : i \in 1..Len(r) \/ (i = Len(r) + 1 /\ t[i] = d)
      /\ \A i \in 1..Len(r) : t[i] = r[i]
  BY <1>1, AppendedIs
<1>6. /\ \A e, g : Precedes(r, e, g) => Precedes(t, e, g)
      /\ \A i \in 1..Len(r) : Precedes(t, r[i], d)
  BY <1>1, AppendedPrecedes
<1> HIDE DEF t
<1>7. ASSUME NEW e, NEW g, e # prev, g # prev, Precedes(s, e, g) PROVE Precedes(t, e, g)
  <2>1. e \notin gone /\ g \notin gone
    BY <1>3, <1>7
  <2>2. Precedes(r, e, g)
    BY <1>4, <1>7, <2>1, PickedPrecedes
  <2> QED BY <1>6, <2>2
<1>8. ASSUME NEW i \in 1..Len(s), s[i] # prev PROVE Precedes(t, s[i], d)
  <2>1. PICK j \in 1..Len(r) : r[j] = s[i]
    BY <1>2, <1>3, <1>8, Zenon DEF Without
  <2> QED BY <1>6, <2>1
<1>9. ASSUME NEW i \in 1..Len(t), t[i] # d PROVE \E j \in 1..Len(s) : t[i] = s[j] /\ s[j] # prev
  <2>1. i \in 1..Len(r) /\ t[i] = r[i]
    BY <1>5, <1>9
  <2>2. PICK j \in 1..Len(s) : r[i] = s[j] /\ s[j] \notin gone
    BY <1>2, <2>1, Zenon DEF Without
  <2> QED BY <1>3, <2>1, <2>2
<1>10. OnlyOf(t, s, prev, d)
  BY <1>9 DEF OnlyOf
<1> QED BY <1>5, <1>7, <1>8, <1>10 DEF t, r, gone

\* prev gives way to d.
Replaces(ds, es, prev, d) ==
    /\ d \in 1..Len(es) /\ d > Len(ds) /\ WithBody(es[d])
    /\ prev \in 1..Len(ds) => Bodyless(ds[prev]) /\ es[d].name = ds[prev].name

\* A mention of a replaced prototype is accounted for by the definition that
\* took its place.
LEMMA PlacedReplaced ==
  ASSUME NEW ds, NEW es, DeclList(ds), DeclList(es), NEW none, none = <<>>, Extended(ds, es, 0, none),
         AllMentions(ds), NEW refs, Noted(ds, refs), NEW s, NEW t, NEW prev, NEW d,
         Replaces(ds, es, prev, d),
         \A e, g : e # prev /\ g # prev /\ Precedes(s, e, g) => Precedes(t, e, g),
         NEW f \in 1..Len(ds), f # prev, Precedes(t, f, d),
         NEW k \in 1..Len(ds[f].items), Placed(ds, s, f, k)
  PROVE  Placed(es, t, f, k)
<1> DEFINE m == ds[f].items[k]
<1>0. none \in Seq(BodyItems)
  BY EmptySeq
<1>1. es[f].items[k] = m
  BY <1>0, OldItems
<1>2. m.decl \in 1..Len(ds)
  BY ItemTypes
<1>3. /\ LeakedIn(ds) \subseteq LeakedIn(es)
      /\ ParametersIn(ds, f) \subseteq ParametersIn(es, f)
      /\ LocalsIn(ds, f, k) \subseteq LocalsIn(es, f, k)
  <2>1. k \in Nat /\ k <= Len(ds[f].items) + 1
    <3>1. Len(ds[f].items) \in Nat
      BY DeclTypes
    <3> QED BY <3>1
  <2>2. LeakedIn(ds) \subseteq LeakedIn(es)
    BY LeakedExtended
  <2>3. ParametersIn(ds, f) \subseteq ParametersIn(es, f)
    BY ParametersExtended
  <2>4. LocalsIn(ds, f, k) \subseteq LocalsIn(es, f, k)
    BY <1>0, <2>1, LocalsExtended
  <2> QED BY <2>2, <2>3, <2>4
<1>4. \A h \in 1..Len(ds) : /\ h \in 1..Len(es) /\ es[h].name = ds[h].name /\ es[h].body = ds[h].body
                            /\ WithBody(ds[h]) => WithBody(es[h])
  <2>1. Len(ds) \in Nat /\ Len(es) \in Nat /\ Len(ds) <= Len(es)
    BY DeclTypes DEF Extended
  <2>2. \A h \in 1..Len(ds) : h \in 1..Len(es)
    BY <2>1
  <2>3. \A h \in 1..Len(ds) : SameDecl(ds[h], es[h])
    BY Zenon DEF Extended
  <2> QED BY <2>2, <2>3, Zenon DEF SameDecl, WithBody
<1>5. m.kind # "Local" => ds[m.decl].kind = m.kind
  BY DEF Noted
<1>6. Overtaken(ds, s, m.decl, f) => Overtaken(es, t, m.decl, f)
  <2> SUFFICES ASSUME Overtaken(ds, s, m.decl, f) PROVE Overtaken(es, t, m.decl, f)
    OBVIOUS
  <2>1. PICK h \in 1..Len(ds) : Precedes(s, f, h) /\ WithBody(ds[h]) /\ ds[h].name = ds[m.decl].name
    BY Zenon DEF Overtaken
  <2>2. h # prev
    BY <2>1 DEF Replaces, WithBody, Bodyless
  <2>3. h \in 1..Len(es) /\ Precedes(t, f, h) /\ WithBody(es[h]) /\ es[h].name = es[m.decl].name
    BY <1>2, <1>4, <2>1, <2>2
  <2> QED BY <2>3, Zenon DEF Overtaken
<1>7. Precedes(s, m.decl, f) =>
         \/ Precedes(t, m.decl, f)
         \/ m.decl = prev /\ ds[m.decl].kind = "Function" /\ ~es[m.decl].body /\ Overtaken(es, t, m.decl, f)
  <2>1. CASE m.decl # prev
    BY <2>1
  <2>2. CASE m.decl = prev
    <3>1. Bodyless(ds[m.decl]) /\ es[d].name = ds[m.decl].name /\ d \in 1..Len(es) /\ WithBody(es[d])
      BY <1>2, <2>2 DEF Replaces
    <3>2. es[d].name = es[m.decl].name /\ ~es[m.decl].body /\ ds[m.decl].kind = "Function"
      BY <1>2, <1>4, <3>1 DEF Bodyless
    <3>3. Overtaken(es, t, m.decl, f)
      BY <3>1, <3>2, Zenon DEF Overtaken
    <3> QED BY <2>2, <3>2, <3>3
  <2> QED BY <2>1, <2>2
<1> HIDE DEF m
<1>8. /\ m.kind \in {"Var", "ParamVar"} =>
           \/ m.decl \in LeakedIn(ds) \cup ParametersIn(ds, f) \cup LocalsIn(ds, f, k)
           \/ Precedes(s, m.decl, f)
      /\ m.kind = "Function" =>
           \/ m.decl = f
           \/ Precedes(s, m.decl, f)
           \/ ~ds[m.decl].body /\ Overtaken(ds, s, m.decl, f)
  BY Zenon DEF Placed, m
<1>9. m.kind \in {"Var", "ParamVar"} =>
           \/ m.decl \in LeakedIn(es) \cup ParametersIn(es, f) \cup LocalsIn(es, f, k)
           \/ Precedes(t, m.decl, f)
  <2> SUFFICES ASSUME m.kind \in {"Var", "ParamVar"}
               PROVE  \/ m.decl \in LeakedIn(es) \cup ParametersIn(es, f) \cup LocalsIn(es, f, k)
                      \/ Precedes(t, m.decl, f)
    OBVIOUS
  <2>1. ds[m.decl].kind # "Function"
    BY <1>5
  <2> QED BY <1>3, <1>7, <1>8, <2>1
<1>10. m.kind = "Function" =>
           \/ m.decl = f
           \/ Precedes(t, m.decl, f)
           \/ ~es[m.decl].body /\ Overtaken(es, t, m.decl, f)
  <2>1. es[m.decl].body = ds[m.decl].body
    BY <1>2, <1>4
  <2> QED BY <1>6, <1>7, <1>8, <2>1
<1> QED BY <1>1, <1>9, <1>10, Zenon DEF Placed

\* So are all mentions, when the prototype is removed and the definition
\* appended.
LEMMA AllPlacedReplaced ==
  ASSUME NEW ds, NEW es, DeclList(ds), DeclList(es), Extended(ds, es, 0, <<>>), AllMentions(ds),
         NEW refs, Noted(ds, refs), NEW s, Listed(ds, s), AllPlaced(ds, s),
         NEW prev, NEW d, Replaces(ds, es, prev, d)
  PROVE  AllPlaced(es, Append(Remaining(s, {prev}), d))
<1> DEFINE t == Append(Remaining(s, {prev}), d)
           none == <<>>
<1>0. none = <<>> /\ none \in Seq(BodyItems) /\ Extended(ds, es, 0, none) /\ \A k : k \notin 1..Len(none)
  BY EmptySeq
<1>1. s \in Seq(1..Len(es)) /\ d \in 1..Len(es)
  <2>1. Len(ds) \in Nat /\ Len(es) \in Nat /\ Len(ds) <= Len(es)
    BY DeclTypes DEF Extended
  <2>2. 1..Len(ds) \subseteq 1..Len(es)
    BY <2>1
  <2>3. s \in Seq(1..Len(ds))
    BY DEF Listed
  <2> QED BY <2>2, <2>3, SeqMonotonic DEF Replaces
<1>2. \A i \in 1..Len(s) : s[i] \in 1..Len(ds)
  BY ElementOfSeq DEF Listed
<1>3. /\ \A e, g : e # prev /\ g # prev /\ Precedes(s, e, g) => Precedes(t, e, g)
      /\ \A i \in 1..Len(s) : s[i] # prev => Precedes(t, s[i], d)
      /\ \A i \in 1..Len(t) : t[i] = d \/ \E j \in 1..Len(s) : t[i] = s[j] /\ s[j] # prev
  <2> DEFINE S == 1..Len(es)
  <2>1. s \in Seq(S) /\ d \in S
    BY <1>1
  <2> HIDE DEF S
  <2>2. \A e, g : e # prev /\ g # prev /\ Precedes(s, e, g) => Precedes(t, e, g)
    BY <2>1, ReplacedOrder
  <2>3. \A i \in 1..Len(s) : s[i] # prev => Precedes(t, s[i], d)
    BY <2>1, ReplacedOrder
  <2>4. OnlyOf(t, s, prev, d)
    BY <2>1, ReplacedOrder
  <2> HIDE DEF t
  <2> QED BY <2>2, <2>3, <2>4 DEF OnlyOf
<1>4. es[d].items = none
  BY DEF Extended, Replaces
<1> HIDE DEF t, none
<1>5. ASSUME NEW i \in 1..Len(t), NEW k \in 1..Len(es[t[i]].items) PROVE Placed(es, t, t[i], k)
  <2>1. PICK j \in 1..Len(s) : t[i] = s[j] /\ s[j] # prev
    BY <1>0, <1>3, <1>4, <1>5
  <2> DEFINE f == s[j]
  <2>2. f \in 1..Len(ds) /\ f # prev /\ Precedes(t, f, d) /\ f # 0
    BY <1>2, <1>3, <2>1
  <2>3. es[f].items = ds[f].items
    BY <2>2 DEF Extended
  <2>4. k \in 1..Len(ds[f].items)
    BY <2>1, <2>3
  <2>5. Placed(ds, s, f, k)
    BY <2>4 DEF AllPlaced
  <2> HIDE DEF f
  <2>6. Placed(es, t, f, k)
    BY <1>0, <1>3, <2>2, <2>4, <2>5, PlacedReplaced
  <2> QED BY <2>1, <2>6 DEF f
<1>6. AllPlaced(es, t)
  BY <1>5 DEF AllPlaced
<1> QED BY <1>6 DEF t

\* The head of a definition keeps the unit's invariant, whatever it replaces.
LEMMA BeginFunctionUnit ==
  ASSUME Inv, Inv', Scoping, Unit, NEW proto \in Prototypes, NEW extern \in BOOLEAN,
         BeginFunction(proto, extern)
  PROVE  Unit'
<1> DEFINE d    == Len(decls) + 1
           prev == tables[1][proto.name]
           body == TRUE
           f    == FunctionOf(proto, extern, ParamIds(proto.params), body)
           es   == WithFunction(proto, extern, body)
           ts   == AddSymbol(tables, proto.name, d)
           gone == {prev}
           r    == Remaining(tu, gone)
           s    == Append(r, d)
           u    == WithParams(EmptyTable, proto.params)
<1>1. CASE prev # None /\ (~SameProto(f, decls[prev]) \/ decls[prev].body)
  BY <1>1, RejectedUnit DEF BeginFunction
<1>2. CASE ~(prev # None /\ (~SameProto(f, decls[prev]) \/ decls[prev].body))
  <2>1. /\ phase = "parse" /\ open = <<>> /\ phase' = "parse" /\ open' = <<Frame("block")>>
        /\ func' = d /\ symrefs' = symrefs /\ moduleVars' = moduleVars
        /\ decls' = es /\ tables' = AddParams(Append(ts, EmptyTable), proto.params) /\ tu' = r
    BY <1>2 DEF BeginFunction, AtGlobal, Parsing, Deeper, WithFunction, RemoveFromUnit
  <2>2. extern \in Truth /\ body \in Truth
    BY DEF Truth
  <2>3. /\ DeclList(decls) /\ AllMentions(decls) /\ Len(decls) \in Nat /\ tables \in Tables
        /\ tu \in Seq(1..Len(decls)) /\ symrefs \subseteq 1..Len(decls)
        /\ addresses \subseteq 1..Len(decls) /\ WhileParsed
    BY <2>1, UnitWhileParsed
  <2>4. /\ Len(tables) = 1 /\ tables[1] \in [Names -> Nat]
        /\ \A x \in Names : tables[1][x] \in 0..Len(decls)
        /\ \A x \in Names : tables[1][x] # None => decls[tables[1][x]].name = x
        /\ Listed(decls, tu) /\ InTable(decls, tu, tables[1]) /\ FromUnit(decls, tu, tables[1])
    BY <2>1, GlobalTable
  <2>5. /\ Externals(decls, tu) /\ Noted(decls, symrefs) /\ AllPlaced(decls, tu)
        /\ Accounted(decls, <<>>, 1, functions, globals, addresses) /\ next = 1
    BY <2>1, <2>3 DEF WhileParsed, Line
  <2>6. HasFunction(es, proto, extern, body)
    <3> HIDE DEF body
    <3> QED BY <2>2, <2>3, NewFunction
  <2> HIDE DEF es
  <2>7. /\ DeclList(es) /\ Extended(decls, es, 0, <<>>) /\ ExternsKept(decls, es)
        /\ d \in 1..Len(es) /\ d > Len(decls) /\ proto.name \in Names /\ proto.name # NoName
        /\ es[d].name = proto.name /\ es[d].kind = "Function"
        /\ es[d].body = TRUE /\ proto.params \in Seq(STRING)
    BY <2>6 DEF HasFunction
  <2>8. \A h \in 1..Len(es) : h > Len(decls) => h = d \/ es[h].kind = "ParamVar"
    BY <2>6, Zenon DEF HasFunction
  <2>9. prev \in 0..Len(decls) /\ (prev # None => Bodyless(decls[prev]) /\ decls[prev].name = proto.name)
    <3>1. prev \in 0..Len(decls) /\ (prev # None => decls[prev].name = proto.name)
      BY <2>4, <2>7
    <3>2. prev # None => SameProto(f, decls[prev]) /\ ~decls[prev].body
      BY <1>2
    <3>3. prev # None => Bodyless(decls[prev])
      BY <3>2, Zenon DEF SameProto, Bodyless
    <3> QED BY <3>1, <3>3
  <2>10. r \in Seq(1..Len(decls)) /\ Without(r, tu, gone)
    BY <2>3, PickedWithout
  <2>11. Free(decls, tables[1], proto.name, gone) /\ gone \subseteq {tables[1][proto.name]}
    BY <2>9 DEF Free, Bodyless
  <2>12. ts \in Tables /\ Len(ts) = 1 /\ ts[1] \in [Names -> Nat]
    <3>1. d \in Nat
      BY <2>3
    <3> HIDE DEF d
    <3> QED BY <2>3, <2>4, <2>7, <3>1, SymbolEntered
  <2>13. InTable(es, s, ts[1]) /\ FromUnit(es, s, ts[1])
    <3> HIDE DEF body, gone, r, prev
    <3> QED BY <2>1, <2>2, <2>6, <2>10, <2>11, FunctionEntered
  <2>14. tables' = Append(ts, u)
    <3> HIDE DEF ts
    <3> QED BY <2>1, <2>3, <2>7, <2>12, AddParamsNew
  <2>15. /\ u \in [Names -> Nat]
         /\ \A x \in Names : \/ u[x] = EmptyTable[x]
                             \/ /\ u[x] # None /\ u[x] \in 1..Len(es) /\ u[x] \in ToSet(es[d].params)
                                /\ es[u[x]].kind = "ParamVar" /\ es[u[x]].name # NoName
    <3>1. EmptyTable \in [Names -> Nat]
      BY EmptyTableIs
    <3> DEFINE t == EmptyTable
    <3> HIDE DEF body, t
    <3> QED BY <2>2, <2>3, <2>6, <3>1, ParametersEntered DEF t
  <2> HIDE DEF u, ts
  <2>16. tables'[1] = ts[1] /\ Len(tables') = 2 /\ tables'[2] = u
    <3> DEFINE us == Append(ts, u)
    <3>1. Len(us) = Len(ts) + 1
      BY <2>12, <2>15, AppendTable
    <3>2. us[Len(ts) + 1] = u
      BY <2>12, <2>15, AppendTable
    <3>3. \A k \in 1..Len(ts) : us[k] = ts[k]
      BY <2>12, <2>15, AppendTable
    <3> HIDE DEF us
    <3>4. us[1] = ts[1] /\ Len(us) = 2 /\ us[2] = u
      BY <2>12, <3>1, <3>2, <3>3
    <3> QED BY <2>14, <3>4 DEF us
  <2>17. Inside(es, d, tables')
    <3>1. ASSUME NEW k \in 2..Len(tables'), NEW x \in Names, tables'[k][x] # None
          PROVE  tables'[k][x] \in ParametersIn(es, d)
      <4>1. k = 2
        BY <2>16
      <4>2. u[x] # EmptyTable[x]
        BY <2>16, <3>1, <4>1, EmptyTableIs
      <4>3. u[x] \in ToSet(es[d].params) /\ es[u[x]].name # NoName
        BY <2>15, <4>2
      <4>4. u[x] \in ParametersIn(es, d)
        BY <4>3, Zenon DEF ParametersIn
      <4> QED BY <2>16, <4>1, <4>4
    <3> HIDE DEF d
    <3> QED BY <3>1, Zenon DEF Inside
  <2>18. ASSUME NEW i \in 1..Len(r) PROVE \E j \in 1..Len(tu) : r[i] = tu[j] /\ tu[j] \notin gone
    BY <2>10, Zenon DEF Without
  <2>19. Listed(es, r) /\ \A i \in 1..Len(r) : r[i] \in 1..Len(decls) /\ SameDecl(decls[r[i]], es[r[i]])
    <3>1. Listed(decls, r)
      BY <2>4, ListedPicked
    <3> DEFINE g == 0
               none == <<>>
    <3>2. Extended(decls, es, g, none)
      BY <2>7
    <3> HIDE DEF g, none, r
    <3> QED BY <2>3, <2>7, <3>1, <3>2, ListedExtended
  <2>20. Listed(es, s)
    <3>1. ASSUME NEW i \in 1..Len(r) PROVE es[r[i]].name # es[d].name
      <4> DEFINE t == tables[1]
                 name == proto.name
      <4>1. PICK j \in 1..Len(tu) : r[i] = tu[j] /\ tu[j] \notin gone
        BY <2>18
      <4>2. Free(decls, t, name, gone) /\ InTable(decls, tu, t)
        BY <2>4, <2>11
      <4> HIDE DEF t, name, gone, r
      <4>3. decls[tu[j]].name # name
        BY <2>3, <2>4, <4>1, <4>2, NewName
      <4> QED BY <2>7, <2>19, <4>1, <4>3 DEF SameDecl, name
    <3> HIDE DEF r, d
    <3> QED BY <2>7, <2>19, <3>1, ListedAppended
  <2>21. Externals(es, r)
    <3>1. Externals(decls, r)
      <4>1. ASSUME NEW i \in 1..Len(r), WithBody(decls[r[i]]) PROVE ~decls[r[i]].extern
        <5>1. PICK j \in 1..Len(tu) : r[i] = tu[j]
          BY <2>18
        <5> QED BY <2>5, <4>1, <5>1 DEF Externals
      <4> HIDE DEF r
      <4> QED BY <2>5, <4>1 DEF Externals
    <3>2. ASSUME NEW h \in 1..Len(es), h > Len(decls), Bodyless(es[h]) PROVE es[h].extern
      <4>1. es[h].kind = "Function" /\ ~es[h].body
        BY <3>2 DEF Bodyless
      <4> QED BY <2>7, <2>8, <3>2, <4>1
    <3> DEFINE g == 0
               none == <<>>
    <3>3. Extended(decls, es, g, none)
      BY <2>7
    <3> HIDE DEF g, none, r
    <3> QED BY <2>3, <2>7, <2>10, <3>1, <3>2, <3>3, ExternalsExtended
  <2>22. Noted(es, symrefs)
    <3> DEFINE none == <<>>
               g == 0
    <3>1. none \in Seq(BodyItems) /\ NewNoted(decls, none, symrefs)
      <4>1. <<>> \in Seq(BodyItems) /\ \A k : k \notin 1..Len(<<>>)
        BY EmptySeq
      <4> QED BY <4>1, Zenon DEF NewNoted
    <3>2. Extended(decls, es, g, none)
      BY <2>7
    <3> HIDE DEF none, g
    <3> QED BY <2>3, <2>5, <2>7, <3>1, <3>2, NotedExtended
  <2>23. AllPlaced(es, s)
    <3>1. prev \in 1..Len(decls) => Bodyless(decls[prev]) /\ es[d].name = decls[prev].name
      BY <2>7, <2>9 DEF None
    <3>2. WithBody(es[d])
      BY <2>7 DEF WithBody
    <3> HIDE DEF d, prev
    <3>3. Replaces(decls, es, prev, d)
      BY <2>7, <3>1, <3>2 DEF Replaces
    <3> QED BY <2>3, <2>4, <2>5, <2>7, <3>3, AllPlacedReplaced
  <2>24. WithBody(es[d])
    BY <2>7 DEF WithBody
  <2>25. Accounted(es, <<>>, 1, functions, globals, addresses)
    BY <2>5, NothingAccounted
  <2>26. open' # <<>> /\ depth' \in Nat
    <3>1. open' # <<>>
      BY <2>1, EmptySeq
    <3> QED BY <2>1, <3>1, CountsOn
  <2>27. Line' = s
    BY <2>1, <2>26 DEF Line
  <2>28. Basics'
    <3>1. Len(es) \in Nat /\ Len(decls) <= Len(es)
      BY <2>7, DeclTypes DEF Extended
    <3>2. 1..Len(decls) \subseteq 1..Len(es)
      BY <2>3, <3>1
    <3>3. r \in Seq(1..Len(es))
      BY <2>10, <3>2, SeqMonotonic
    <3>4. symrefs' = symrefs /\ addresses' = addresses
      BY <2>1 DEF moduleVars
    <3> HIDE DEF r
    <3> QED BY <2>1, <2>3, <2>26, <3>2, <3>3, <3>4 DEF Basics
  <2>29. WhileParsed'
    <3>1. /\ functions' = functions /\ globals' = globals /\ addresses' = addresses /\ next' = next
      BY <2>1 DEF moduleVars
    <3> HIDE DEF r, s, d
    <3> QED BY <2>1, <2>5, <2>13, <2>16, <2>17, <2>20, <2>21, <2>22, <2>23, <2>24, <2>25, <2>27, <3>1
        DEF WhileParsed
  <2> QED BY <2>1, <2>28, <2>29, UnitParsedOn
<1> QED BY <1>1, <1>2

\* Nothing noted that was not.
LEMMA NotedOn ==
  ASSUME NEW ds, NEW es, DeclList(ds), DeclList(es), Extended(ds, es, 0, <<>>), AllMentions(ds),
         NEW refs, Noted(ds, refs)
  PROVE  Noted(es, refs)
<1> DEFINE none == <<>>
           g == 0
<1>1. none \in Seq(BodyItems) /\ NewNoted(ds, none, refs)
  <2>1. <<>> \in Seq(BodyItems) /\ \A k : k \notin 1..Len(<<>>)
    BY EmptySeq
  <2> QED BY <2>1, Zenon DEF NewNoted
<1>2. Extended(ds, es, g, none)
  OBVIOUS
<1> HIDE DEF none, g
<1> QED BY <1>1, <1>2, NotedExtended

\* Mentions stay placed as a declaration loses its extern.
LEMMA AllPlacedOn ==
  ASSUME NEW ds, NEW es, DeclList(ds), DeclList(es), Extended(ds, es, 0, <<>>), AllMentions(ds),
         NEW s, Listed(ds, s), AllPlaced(ds, s)
  PROVE  AllPlaced(es, s)
<1> DEFINE none == <<>>
           g == 0
<1>1. none \in Seq(BodyItems) /\ \A k : k \notin 1..Len(none)
  BY EmptySeq
<1>2. Extended(ds, es, g, none)
  OBVIOUS
<1> HIDE DEF none, g
<1>3. InOrder(s, s)
  BY InOrderSame
<1>4. ASSUME NEW i \in 1..Len(s), NEW k \in 1..Len(es[s[i]].items) PROVE Placed(es, s, s[i], k)
  <2>1. \/ Placed(es, s, s[i], k)
        \/ /\ s[i] = g /\ k > Len(ds[g].items) /\ k - Len(ds[g].items) \in 1..Len(none)
           /\ es[g].items[k] = none[k - Len(ds[g].items)]
    BY <1>1, <1>2, <1>3, AllPlacedExtended
  <2> QED BY <1>1, <2>1
<1> QED BY <1>4 DEF AllPlaced

\* The end of a function keeps the unit's invariant.
LEMMA EndFunctionUnit ==
  ASSUME Inv, Inv', Scoping, Unit, EndFunction
  PROVE  Unit'
<1> DEFINE es == NotExternal(decls, func)
           s  == Append(tu, func)
           t  == tables[1]
<1>1. /\ phase = "parse" /\ phase' = "parse" /\ Len(open) = 1 /\ open' = <<>>
      /\ decls' = es /\ tables' = Front(tables) /\ tu' = s /\ symrefs' = symrefs
      /\ next' = next /\ addresses' = addresses /\ functions' = functions /\ globals' = globals
  BY DEF EndFunction, Parsing, Leave, NotExternal, moduleVars
<1>2. open # <<>>
  BY <1>1, EmptySeq
<1>3. /\ DeclList(decls) /\ AllMentions(decls) /\ Len(decls) \in Nat
      /\ tables \in Tables /\ Bounded(tables, Len(decls))
      /\ tu \in Seq(1..Len(decls)) /\ symrefs \subseteq 1..Len(decls)
      /\ addresses \subseteq 1..Len(decls) /\ WhileParsed
  BY <1>1, UnitWhileParsed
<1>4. func \in 1..Len(decls) /\ Line = s
  BY <1>1, <1>2 DEF Scoping, Line
<1>5. /\ Listed(decls, s) /\ Externals(decls, tu) /\ InTable(decls, s, t) /\ FromUnit(decls, s, t)
      /\ Noted(decls, symrefs) /\ AllPlaced(decls, s) /\ WithBody(decls[func])
      /\ Accounted(decls, <<>>, 1, functions, globals, addresses) /\ next = 1
  BY <1>2, <1>3, <1>4 DEF WhileParsed
<1>6. /\ DeclList(es) /\ Extended(decls, es, 0, <<>>) /\ Len(es) = Len(decls)
      /\ es[func].extern = FALSE /\ \A f \in 1..Len(decls) : f # func => es[f] = decls[f]
  BY <1>3, <1>4, ExternCleared
<1>7. tables'[1] = t
  <2>1. Len(tables) >= 2 /\ Len(tables) \in Nat
    BY <1>1, <1>2, <1>3, DeepEnough, TableTypes
  <2>2. \A k \in 1..(Len(tables) - 1) : Front(tables)[k] = tables[k]
    BY <1>3, <2>1, FrontTable
  <2>3. 1 \in 1..(Len(tables) - 1)
    BY <2>1
  <2> QED BY <1>1, <2>2, <2>3
<1>8. \A i \in 1..Len(s) : (i \in 1..Len(tu) /\ s[i] = tu[i]) \/ s[i] = func
  BY <1>3, <1>4, AppendedIs
<1> HIDE DEF es, s
<1> DEFINE g == 0
           none == <<>>
<1>9. Extended(decls, es, g, none)
  BY <1>6
<1> HIDE DEF g, none
<1>10. Listed(es, s) /\ \A i \in 1..Len(s) : s[i] \in 1..Len(decls)
  BY <1>3, <1>5, <1>6, <1>9, ListedExtended
<1>11. InTable(es, s, t) /\ FromUnit(es, s, t)
  <2>1. \A x \in Names : t[x] \in 0..Len(decls)
    <3>1. 1 \in 1..Len(tables)
      BY Numbers, LenProperties, <1>1, <1>3 DEF Tables
    <3>2. \A x \in Names : t[x] \in Nat /\ t[x] <= Len(decls)
      BY <1>3, <3>1, TableTypes DEF Bounded
    <3> QED BY <1>3, <3>2
  <2> HIDE DEF t
  <2> QED BY <1>3, <1>5, <1>6, <1>9, <2>1, TablesExtended
<1>12. Externals(es, s)
  <2>1. ASSUME NEW f \in 1..Len(es), Bodyless(es[f]) PROVE es[f].extern
    <3>1. f \in 1..Len(decls)
      BY <1>6
    <3>2. Bodyless(decls[f])
      BY <1>3, <1>6, <1>9, <2>1, <3>1, BodiesExtended
    <3>3. f # func
      BY <1>5, <3>2 DEF Bodyless, WithBody
    <3> QED BY <1>5, <1>6, <3>1, <3>2, <3>3 DEF Externals
  <2>2. ASSUME NEW i \in 1..Len(s), WithBody(es[s[i]]) PROVE ~es[s[i]].extern
    <3>1. CASE s[i] = func
      BY <1>6, <3>1
    <3>2. CASE s[i] # func
      <4>1. i \in 1..Len(tu) /\ s[i] = tu[i] /\ s[i] \in 1..Len(decls)
        BY <1>8, <1>10, <3>2
      <4>2. es[s[i]] = decls[s[i]]
        BY <1>6, <3>2, <4>1
      <4>3. WithBody(decls[tu[i]])
        BY <2>2, <4>1, <4>2
      <4> QED BY <1>5, <4>1, <4>2, <4>3 DEF Externals
    <3> QED BY <3>1, <3>2
  <2> QED BY <2>1, <2>2, Zenon DEF Externals
<1>13. Noted(es, symrefs)
  BY <1>3, <1>5, <1>6, NotedOn
<1>14. AllPlaced(es, s)
  BY <1>3, <1>5, <1>6, AllPlacedOn
<1>15. Accounted(es, <<>>, 1, functions, globals, addresses)
  BY <1>5, NothingAccounted
<1>16. Line' = s
  BY <1>1 DEF Line
<1>17. Basics'
  <2>1. depth' \in Nat
    BY <1>1, CountsOn
  <2>2. s \in Seq(1..Len(es))
    BY <1>10 DEF Listed
  <2> QED BY <1>1, <1>3, <1>6, <2>1, <2>2 DEF Basics
<1>18. WhileParsed'
  BY <1>1, <1>5, <1>7, <1>10, <1>11, <1>12, <1>13, <1>14, <1>15, <1>16 DEF WhileParsed
<1> QED BY <1>1, <1>17, <1>18, UnitParsedOn

\* What dropUnusedExternalSymbols takes out of the unit.
Unused(ds, refs) == {d \in DOMAIN ds : d \notin refs /\ ds[d].extern}

\* Mentions stay placed when the unused bodyless functions are removed: a
\* mention has noted them.
LEMMA AllPlacedUsed ==
  ASSUME NEW ds, DeclList(ds), AllMentions(ds), NEW refs, Noted(ds, refs),
         NEW s, Listed(ds, s), Externals(ds, s), AllPlaced(ds, s)
  PROVE  AllPlaced(ds, Remaining(s, Unused(ds, refs)))
<1> DEFINE gone == Unused(ds, refs)
           r == Remaining(s, gone)
<1>1. s \in Seq(1..Len(ds))
  BY DEF Listed
<1>2. r \in Seq(1..Len(ds)) /\ \E p : PickedFrom(p, r, s, gone)
  BY <1>1, PickedIs
<1>3. \A x \in refs : x \notin gone
  BY DEF Unused
<1>4. \A x : x \in gone => ds[x].extern
  BY DEF Unused
<1> HIDE DEF r, gone
<1>5. PICK p : PickedFrom(p, r, s, gone)
  BY <1>2
<1>6. ASSUME NEW e, NEW g, e \notin gone, g \notin gone, Precedes(s, e, g) PROVE Precedes(r, e, g)
  BY <1>5, <1>6, PickedPrecedes
<1>7. ASSUME NEW j \in 1..Len(r), NEW k \in 1..Len(ds[r[j]].items) PROVE Placed(ds, r, r[j], k)
  <2> DEFINE g == r[j]
             m == ds[g].items[k]
  <2>1. p[j] \in 1..Len(s) /\ g = s[p[j]] /\ g \notin gone
    BY <1>5 DEF PickedFrom
  <2>2. Placed(ds, s, g, k)
    BY <2>1 DEF AllPlaced
  <2>3. g \in 1..Len(ds)
    BY <1>1, <2>1, ElementOfSeq
  <2>4. m.kind # "Local" => m.decl \notin gone
    BY <1>3, <2>3 DEF Noted
  <2>5. Overtaken(ds, s, m.decl, g) => Overtaken(ds, r, m.decl, g)
    <3> SUFFICES ASSUME Overtaken(ds, s, m.decl, g) PROVE Overtaken(ds, r, m.decl, g)
      OBVIOUS
    <3> HIDE DEF g, m
    <3>1. PICK h \in 1..Len(ds) : Precedes(s, g, h) /\ WithBody(ds[h]) /\ ds[h].name = ds[m.decl].name
      BY Zenon DEF Overtaken
    <3>2. PICK i \in 1..Len(s) : s[i] = h
      BY <3>1, Zenon DEF Precedes
    <3>3. ~ds[h].extern
      BY <3>1, <3>2, Zenon DEF Externals
    <3>4. Precedes(r, g, h)
      BY <1>4, <1>6, <2>1, <3>1, <3>3
    <3> QED BY <3>1, <3>4, Zenon DEF Overtaken
  <2> HIDE DEF m, g
  <2>6. /\ m.kind \in {"Var", "ParamVar"} =>
             \/ m.decl \in LeakedIn(ds) \cup ParametersIn(ds, g) \cup LocalsIn(ds, g, k)
             \/ Precedes(s, m.decl, g)
        /\ m.kind = "Function" =>
             \/ m.decl = g
             \/ Precedes(s, m.decl, g)
             \/ ~ds[m.decl].body /\ Overtaken(ds, s, m.decl, g)
    BY <2>2, Zenon DEF Placed, m
  <2>7. m.kind # "Local" => (Precedes(s, m.decl, g) => Precedes(r, m.decl, g))
    BY <1>6, <2>1, <2>4
  <2>8. m.kind \in {"Var", "ParamVar"} =>
             \/ m.decl \in LeakedIn(ds) \cup ParametersIn(ds, g) \cup LocalsIn(ds, g, k)
             \/ Precedes(r, m.decl, g)
    BY <2>6, <2>7
  <2>9. m.kind = "Function" =>
             \/ m.decl = g
             \/ Precedes(r, m.decl, g)
             \/ ~ds[m.decl].body /\ Overtaken(ds, r, m.decl, g)
    BY <2>5, <2>6, <2>7
  <2>10. Placed(ds, r, g, k)
    BY <2>8, <2>9, Zenon DEF Placed, m
  <2> QED BY <2>10 DEF g
<1>8. AllPlaced(ds, r)
  BY <1>7 DEF AllPlaced
<1> QED BY <1>8 DEF r, gone

\* The end of the text turns the invariant of the parser into that of the
\* translator.
LEMMA EndTextUnit ==
  ASSUME Inv, Scoping, Unit, EndText
  PROVE  Unit'
<1> DEFINE gone == Unused(decls, symrefs)
           r == Remaining(tu, gone)
<1>1. /\ phase = "parse" /\ open = <<>> /\ phase' = "translate" /\ tu' = r
      /\ decls' = decls /\ depth' = depth /\ symrefs' = symrefs
      /\ next' = next /\ addresses' = addresses /\ functions' = functions /\ globals' = globals
  BY DEF EndText, Unused, moduleVars
<1>2. /\ DeclList(decls) /\ AllMentions(decls) /\ Len(decls) \in Nat
      /\ tu \in Seq(1..Len(decls)) /\ symrefs \subseteq 1..Len(decls)
      /\ addresses \subseteq 1..Len(decls) /\ WhileParsed
  BY <1>1, UnitWhileParsed
<1>3. /\ Listed(decls, tu) /\ Externals(decls, tu)
      /\ Noted(decls, symrefs) /\ AllPlaced(decls, tu)
      /\ Accounted(decls, <<>>, 1, functions, globals, addresses) /\ next = 1
  BY <1>1, <1>2 DEF WhileParsed, Line
<1>4. r \in Seq(1..Len(decls)) /\ Without(r, tu, gone)
  BY <1>2, PickedWithout
<1>5. AllPlaced(decls, r)
  BY <1>2, <1>3, AllPlacedUsed
<1>6. Listed(decls, r)
  BY <1>3, ListedPicked
<1>7. \A d \in 1..Len(decls) : decls[d].extern /\ d \notin symrefs => d \in gone
  BY <1>2, DeclTypes DEF Unused
<1> HIDE DEF r, gone
<1>8. ASSUME NEW i \in 1..Len(r)
      PROVE  \E j \in 1..Len(tu) : r[i] = tu[j] /\ tu[j] \notin gone
  BY <1>4, Zenon DEF Without
<1>9. Externals(decls, r)
  <2>1. ASSUME NEW i \in 1..Len(r), WithBody(decls[r[i]]) PROVE ~decls[r[i]].extern
    <3>1. PICK j \in 1..Len(tu) : r[i] = tu[j]
      BY <1>8
    <3> QED BY <1>3, <2>1, <3>1 DEF Externals
  <2> QED BY <1>3, <2>1 DEF Externals
<1>10. ASSUME NEW i \in 1..Len(r), Bodyless(decls[r[i]]) PROVE r[i] \in symrefs
  <2>1. r[i] \in 1..Len(decls)
    BY <1>4, ElementOfSeq
  <2>2. decls[r[i]].extern
    BY <1>3, <1>10, <2>1 DEF Externals
  <2>3. r[i] \notin gone
    BY <1>8
  <2> QED BY <1>7, <2>1, <2>2, <2>3
<1>11. Accounted(decls, r, 1, functions, globals, addresses)
  <2> DEFINE n == 1
  <2>0. \A i \in 1..Len(<<>>) : FALSE
    BY EmptySeq
  <2>1. /\ functions \in [Names \cup {Memset} -> Int] /\ functions[Memset] = Builtin
        /\ \A x \in Names \cup {Memset} : functions[x] # None => x = Memset
        /\ \A x \in globals : FALSE
    BY <1>3, <2>0, Zenon DEF Accounted
  <2>2. \A i \in 1..Len(r) : ~(i < n)
    OBVIOUS
  <2> HIDE DEF n
  <2>3. Accounted(decls, r, n, functions, globals, addresses)
    BY <2>1, <2>2, Zenon DEF Accounted
  <2> QED BY <2>3 DEF n
<1>12. AfterParsing'
  BY <1>1, <1>3, <1>5, <1>6, <1>9, <1>10, <1>11 DEF AfterParsing
<1>13. Basics'
  <2>1. depth \in Nat
    BY DEF Unit, Basics
  <2> QED BY <1>1, <1>2, <1>4, <2>1 DEF Basics
<1> QED BY <1>1, <1>12, <1>13 DEF Unit, AbortExplained

(***************************************************************************)
(* The translator.                                                         *)
(***************************************************************************)
\* What comes before the n-th of the unit and what comes after it.
LEMMA AroundIt ==
  ASSUME NEW ds, NEW s, Listed(ds, s), NEW n \in 1..Len(s)
  PROVE  /\ \A e : Precedes(s, e, s[n]) => \E i \in 1..Len(s) : i < n /\ s[i] = e
         /\ \A h : Precedes(s, s[n], h) => \E j \in 1..Len(s) : n < j /\ s[j] = h
<1>1. \A j \in 1..Len(s) : s[j] = s[n] => j = n
  BY DEF Listed
<1> QED BY <1>1 DEF Precedes

\* What translateDeclRefExpr finds for a function that the body of d calls.
LEMMA CalleeIs ==
  ASSUME DeclList(decls), AllMentions(decls), AfterParsing, next <= Len(tu),
         NEW k \in 1..Len(decls[tu[next]].items), decls[tu[next]].items[k].kind = "Function"
  PROVE  LET m  == decls[tu[next]].items[k]
             nm == decls[m.decl].name
             fn == Callee(tu[next], nm)
         IN  /\ fn = None => /\ ~decls[m.decl].body
                             /\ \E j \in 1..Len(tu) : /\ next < j /\ decls[tu[j]].body
                                                      /\ nm = decls[tu[j]].name
             /\ fn # None => \/ nm = Memset
                             \/ fn # Builtin /\ Len(decls[fn].params) = Len(decls[m.decl].params)
<1> DEFINE d  == tu[next]
           m  == decls[d].items[k]
           nm == decls[m.decl].name
           fn == Callee(d, nm)
<1>1. /\ Listed(decls, tu) /\ AllPlaced(decls, tu) /\ Noted(decls, symrefs)
      /\ next \in Nat \ {0} /\ Accounted(decls, tu, next, functions, globals, addresses)
  BY DEF AfterParsing
<1>2. /\ tu \in Seq(1..Len(decls)) /\ \A i \in 1..Len(tu) : tu[i] \in 1..Len(decls) /\ tu[i] # None
      /\ Len(tu) \in Nat /\ next \in 1..Len(tu)
      /\ \A i \in 1..Len(tu) : tu[i] # Builtin
  <2>1. tu \in Seq(1..Len(decls))
    BY <1>1 DEF Listed
  <2>2. Len(tu) \in Nat
    BY <2>1, LenProperties
  <2>3. \A i \in 1..Len(tu) : tu[i] \in 1..Len(decls)
    BY <2>1, ElementOfSeq
  <2> QED BY <1>1, <2>1, <2>2, <2>3 DEF None, Builtin
<1>3. d \in 1..Len(decls)
  BY <1>2
<1>4. m.kind = "Function" /\ decls[m.decl].kind = "Function"
  BY <1>1, <1>3 DEF Noted
<1>5. Placed(decls, tu, d, k)
  BY <1>1, <1>2 DEF AllPlaced
<1>6. /\ \A e : Precedes(tu, e, d) => \E i \in 1..Len(tu) : i < next /\ tu[i] = e
      /\ \A h : Precedes(tu, d, h) => \E j \in 1..Len(tu) : next < j /\ tu[j] = h
  <2>1. Listed(decls, tu) /\ next \in 1..Len(tu)
    BY <1>1, <1>2
  <2>2. ASSUME NEW e, Precedes(tu, e, d) PROVE \E i \in 1..Len(tu) : i < next /\ tu[i] = e
    BY <2>1, <2>2, AroundIt
  <2>3. ASSUME NEW h, Precedes(tu, d, h) PROVE \E j \in 1..Len(tu) : next < j /\ tu[j] = h
    BY <2>1, <2>3, AroundIt
  <2> QED BY <2>2, <2>3
<1>7. \A i, j \in 1..Len(tu) : decls[tu[i]].name = decls[tu[j]].name => i = j
  BY <1>1 DEF Listed
<1>8. fn = IF decls[d].name = nm THEN d ELSE functions[nm]
  BY DEF Callee
<1>9. /\ functions[Memset] = Builtin
      /\ \A i \in 1..Len(tu) : i < next /\ decls[tu[i]].kind = "Function"
            => functions[decls[tu[i]].name] = tu[i]
      /\ \A x \in Names \cup {Memset} :
            functions[x] # None => \/ x = Memset
                                   \/ \E i \in 1..Len(tu) : i < next /\ functions[x] = tu[i] /\ decls[tu[i]].name = x
  BY <1>1, Zenon DEF Accounted
<1>10. \A i \in 1..Len(tu) : decls[tu[i]].name \in Names
  BY <1>1 DEF Listed
<1>11. \/ m.decl = d
       \/ \E i \in 1..Len(tu) : i < next /\ tu[i] = m.decl
       \/ ~decls[m.decl].body /\ \E j \in 1..Len(tu) : next < j /\ WithBody(decls[tu[j]]) /\ decls[tu[j]].name = nm
  <2> HIDE DEF m, d
  <2>1. \/ m.decl = d
        \/ Precedes(tu, m.decl, d)
        \/ ~decls[m.decl].body /\ Overtaken(decls, tu, m.decl, d)
    BY <1>4, <1>5, Zenon DEF Placed, m
  <2>2. CASE Overtaken(decls, tu, m.decl, d)
    <3>1. PICK h \in 1..Len(decls) : Precedes(tu, d, h) /\ WithBody(decls[h]) /\ decls[h].name = nm
      BY <2>2, Zenon DEF Overtaken
    <3>2. PICK j \in 1..Len(tu) : next < j /\ tu[j] = h
      BY <1>6, <3>1
    <3>3. \E j1 \in 1..Len(tu) : next < j1 /\ WithBody(decls[tu[j1]]) /\ decls[tu[j1]].name = nm
      BY <3>1, <3>2
    <3> QED BY <1>6, <2>1, <3>3
  <2> QED BY <1>6, <2>1, <2>2
<1> HIDE DEF m, d, nm, fn
<1>12. CASE m.decl = d
  <2>1. nm = decls[d].name /\ fn = d
    BY <1>8, <1>12 DEF nm
  <2>2. d # None /\ d # Builtin
    BY <1>2 DEF d
  <2> QED BY <1>12, <2>1, <2>2 DEF m, d, nm, fn
<1>13. CASE \E i \in 1..Len(tu) : i < next /\ tu[i] = m.decl
  <2>1. PICK i \in 1..Len(tu) : i < next /\ tu[i] = m.decl
    BY <1>13
  <2>2. nm = decls[tu[i]].name
    BY <2>1 DEF nm
  <2>3. decls[d].name # nm
    <3>1. i # next
      BY <2>1, <1>2
    <3> QED BY <1>2, <1>7, <2>2, <3>1 DEF d
  <2>4. fn = m.decl
    BY <1>4, <1>8, <1>9, <2>1, <2>2, <2>3
  <2>5. fn # None /\ fn # Builtin
    BY <1>2, <2>1, <2>4
  <2> QED BY <2>4, <2>5 DEF m, d, nm, fn
<1>14. CASE ~decls[m.decl].body /\ \E j \in 1..Len(tu) : next < j /\ WithBody(decls[tu[j]]) /\ decls[tu[j]].name = nm
  <2>1. PICK j \in 1..Len(tu) : next < j /\ WithBody(decls[tu[j]]) /\ decls[tu[j]].name = nm
    BY <1>14
  <2>2. decls[tu[j]].body
    BY <2>1 DEF WithBody
  <2>3. decls[d].name # nm
    <3>1. j # next
      BY <2>1, <1>2
    <3> QED BY <1>2, <1>7, <2>1, <3>1 DEF d
  <2>4. nm \in Names
    BY <1>10, <2>1
  <2>5. fn # None => nm = Memset
    <3> SUFFICES ASSUME functions[nm] # None, nm # Memset PROVE FALSE
      BY <1>8, <2>3
    <3>1. PICK i \in 1..Len(tu) : i < next /\ decls[tu[i]].name = nm
      BY <1>9, <2>4
    <3>2. i = j
      BY <1>7, <2>1, <3>1
    <3> QED BY <1>2, <2>1, <3>1, <3>2
  <2>6. \E j1 \in 1..Len(tu) : next < j1 /\ decls[tu[j1]].body /\ nm = decls[tu[j1]].name
    BY <2>1, <2>2
  <2> QED BY <1>14, <2>5, <2>6 DEF m, d, nm, fn
<1> QED BY <1>11, <1>12, <1>13, <1>14

\* A variable that the body of d uses has an address, or is a leaked parameter.
LEMMA AddressIs ==
  ASSUME DeclList(decls), AllMentions(decls), AfterParsing, next <= Len(tu),
         NEW k \in 1..Len(decls[tu[next]].items),
         decls[tu[next]].items[k].kind \in {"Var", "ParamVar"}
  PROVE  LET d == tu[next]
             e == decls[d].items[k].decl
         IN  e \in Leaked \cup addresses \cup Parameters(d) \cup LocalsBefore(d, k)
<1> DEFINE d == tu[next]
           m == decls[d].items[k]
           e == m.decl
<1>1. /\ Listed(decls, tu) /\ AllPlaced(decls, tu) /\ Noted(decls, symrefs)
      /\ next \in Nat \ {0} /\ Accounted(decls, tu, next, functions, globals, addresses)
  BY DEF AfterParsing
<1>2. /\ \A i \in 1..Len(tu) : tu[i] \in 1..Len(decls)
      /\ next \in 1..Len(tu)
  <2>1. tu \in Seq(1..Len(decls))
    BY <1>1 DEF Listed
  <2>2. Len(tu) \in Nat
    BY <2>1, LenProperties
  <2>3. \A i \in 1..Len(tu) : tu[i] \in 1..Len(decls)
    BY <2>1, ElementOfSeq
  <2> QED BY <1>1, <2>1, <2>2, <2>3
<1>3. d \in 1..Len(decls)
  BY <1>2
<1>4. decls[e].kind = m.kind /\ m.kind \in {"Var", "ParamVar"}
  BY <1>1, <1>3 DEF Noted
<1>5. Placed(decls, tu, d, k)
  BY <1>1, <1>2 DEF AllPlaced
<1>6. Leaked = LeakedIn(decls)
  BY LeakedIsLeakedIn
<1>7. Parameters(d) = ParametersIn(decls, d) /\ LocalsBefore(d, k) = LocalsIn(decls, d, k)
  BY DEF Parameters, ParametersIn, LocalsBefore, LocalsIn
<1>8. Precedes(tu, e, d) => e \in addresses
  <2> SUFFICES ASSUME Precedes(tu, e, d) PROVE e \in addresses
    OBVIOUS
  <2> HIDE DEF m, e
  <2>1. PICK i \in 1..Len(tu) : i < next /\ tu[i] = e
    BY <1>1, <1>2, AroundIt
  <2>2. decls[tu[i]].kind # "Function"
    BY <1>4, <2>1
  <2> QED BY <1>1, <2>1, <2>2, Zenon DEF Accounted
<1> HIDE DEF d, m
<1>9. e \in LeakedIn(decls) \cup ParametersIn(decls, d) \cup LocalsIn(decls, d, k) \/ Precedes(tu, e, d)
  BY <1>4, <1>5, Zenon DEF Placed, m
<1> QED BY <1>6, <1>7, <1>8, <1>9 DEF d, m

\* AbortExplained, of the assertion why.
Explained(why) ==
    CASE why = "func != nullptr" ->
           \E k \in next .. Len(tu) : k # next /\ decls[tu[k]].body
               /\ \E m \in ToSet(decls[tu[next]].items) :
                     /\ m.kind = "Function" /\ ~decls[m.decl].body
                     /\ decls[m.decl].name = decls[tu[k]].name
      [] why = "variableAddressTable.count(decl) == 1" ->
           \E m \in ToSet(decls[tu[next]].items) : m.decl \in Leaked
      [] why = "accepted" -> decls[tu[next]].name = Memset
      [] OTHER -> CallsMemset(tu[next])

\* A translator that aborted for a reason its assertion explains keeps the
\* invariant.
LEMMA AbortedUnit ==
  ASSUME Unit, phase = "translate", NEW why, Abort(why), Explained(why)
  PROVE  Unit'
<1>1. /\ phase' = "aborted" /\ reason' = <<why, tu[next]>> /\ depth' = depth /\ tu' = tu
      /\ decls' = decls /\ symrefs' = symrefs
      /\ next' = next /\ addresses' = addresses /\ functions' = functions /\ globals' = globals
  BY DEF Abort, Stop, parserVars, moduleVars
<1>2. Basics /\ AfterParsing
  BY DEF Unit
<1>3. Basics'
  BY <1>1, <1>2 DEF Basics
<1>4. AfterParsing'
  BY <1>1, <1>2 DEF AfterParsing
<1>5. reason'[1] = why
  BY <1>1
<1>6. Explained(why)'
  BY <1>1 DEF Explained, Leaked, LeakedBy, CallsMemset
<1>7. AbortExplained'
  BY <1>5, <1>6 DEF AbortExplained, Explained
<1> QED BY <1>1, <1>3, <1>4, <1>7 DEF Unit

\* What the invariant says while the unit is translated.
LEMMA WhileTranslating ==
  ASSUME Scoping, Unit, phase = "translate", next <= Len(tu)
  PROVE  /\ DeclList(decls) /\ AllMentions(decls) /\ AfterParsing
         /\ depth \in Nat /\ tu \in Seq(1..Len(decls)) /\ symrefs \subseteq 1..Len(decls)
         /\ addresses \subseteq 1..Len(decls) /\ Len(decls) \in Nat
         /\ next \in 1..Len(tu) /\ Len(tu) \in Nat
         /\ \A i \in 1..Len(tu) : tu[i] \in 1..Len(decls) /\ decls[tu[i]].name \in Names
         /\ \A i, j \in 1..Len(tu) : decls[tu[i]].name = decls[tu[j]].name => i = j
         /\ Accounted(decls, tu, next, functions, globals, addresses)
<1>1. DeclList(decls) /\ AllMentions(decls) /\ AfterParsing /\ Basics
  BY DEF Scoping, Unit
<1>2. tu \in Seq(1..Len(decls))
  BY <1>1 DEF Basics
<1>3. Len(tu) \in Nat /\ \A i \in 1..Len(tu) : tu[i] \in 1..Len(decls)
  BY <1>2, LenProperties, ElementOfSeq
<1>4. next \in 1..Len(tu)
  BY <1>1, <1>3 DEF AfterParsing
<1>5. /\ \A i \in 1..Len(tu) : decls[tu[i]].name \in Names
      /\ \A i, j \in 1..Len(tu) : decls[tu[i]].name = decls[tu[j]].name => i = j
  BY <1>1 DEF AfterParsing, Listed
<1>6. Len(decls) \in Nat
  BY <1>1, DeclTypes
<1>7. Accounted(decls, tu, next, functions, globals, addresses)
  BY <1>1 DEF AfterParsing
<1> QED BY <1>1, <1>2, <1>3, <1>4, <1>5, <1>6, <1>7 DEF Basics

\* One declaration more.
LEMMA TranslatedUnit ==
  ASSUME Scoping, Unit, phase = "translate", next <= Len(tu), Translated, next' = next + 1,
         UNCHANGED <<reason, parserVars>>, addresses' \subseteq 1..Len(decls),
         Accounted(decls, tu, next + 1, functions', globals', addresses')
  PROVE  Unit'
<1>1. /\ depth' = depth /\ tu' = tu /\ decls' = decls /\ symrefs' = symrefs
      /\ phase' \in {"done", "translate"}
  BY DEF parserVars, Translated
<1>2. Basics /\ AfterParsing
  BY DEF Unit
<1>3. Basics'
  BY <1>1, <1>2 DEF Basics
<1>4. next + 1 \in Nat \ {0}
  BY <1>2 DEF AfterParsing
<1>5. AfterParsing'
  BY <1>1, <1>2, <1>4 DEF AfterParsing
<1> QED BY <1>1, <1>3, <1>5 DEF Unit, AbortExplained

\* Translating a global variable keeps the unit's invariant.
LEMMA TranslateVarUnit ==
  ASSUME Scoping, Unit, TranslateVar
  PROVE  Unit'
<1> DEFINE d  == tu[next]
           nm == decls[d].name
           n  == next + 1
           gs == globals \cup {nm}
           as == addresses \cup {d}
<1>1. phase = "translate" /\ next <= Len(tu) /\ decls[d].kind = "Var"
  BY DEF TranslateVar
<1>2. /\ addresses \subseteq 1..Len(decls) /\ next \in 1..Len(tu) /\ Len(tu) \in Nat
      /\ \A i \in 1..Len(tu) : tu[i] \in 1..Len(decls) /\ decls[tu[i]].name \in Names
      /\ \A i, j \in 1..Len(tu) : decls[tu[i]].name = decls[tu[j]].name => i = j
      /\ Accounted(decls, tu, next, functions, globals, addresses)
  BY <1>1, WhileTranslating
<1>3. nm \notin globals
  <2> SUFFICES ASSUME nm \in globals PROVE FALSE
    OBVIOUS
  <2>1. PICK i \in 1..Len(tu) : i < next /\ decls[tu[i]].name = nm
    BY <1>2 DEF Accounted
  <2>2. i = next
    BY <1>2, <2>1
  <2> QED BY <1>2, <2>1, <2>2
<1>4. /\ Translated /\ addresses' = as /\ globals' = gs /\ next' = next + 1
      /\ functions' = functions /\ UNCHANGED <<reason, parserVars>>
  BY <1>3 DEF TranslateVar
<1>5. \A i \in 1..Len(tu) : (i < n <=> i < next \/ i = next)
  BY <1>2
<1>6. Accounted(decls, tu, n, functions, gs, as)
  <2> HIDE DEF n
  <2>1. /\ functions \in [Names \cup {Memset} -> Int] /\ functions[Memset] = Builtin
        /\ \A i \in 1..Len(tu) : i < next =>
              IF decls[tu[i]].kind = "Function" THEN functions[decls[tu[i]].name] = tu[i]
              ELSE tu[i] \in addresses
        /\ \A x \in Names \cup {Memset} :
              functions[x] # None => \/ x = Memset
                              \/ \E i \in 1..Len(tu) : i < next /\ functions[x] = tu[i] /\ decls[tu[i]].name = x
        /\ \A x \in globals : \E i \in 1..Len(tu) : i < next /\ decls[tu[i]].name = x
    BY <1>2, Zenon DEF Accounted
  <2>2. \A i \in 1..Len(tu) : i < n =>
              IF decls[tu[i]].kind = "Function" THEN functions[decls[tu[i]].name] = tu[i]
              ELSE tu[i] \in as
    BY <1>1, <1>5, <2>1
  <2>3. \A x \in Names \cup {Memset} :
              functions[x] # None => \/ x = Memset
                              \/ \E i \in 1..Len(tu) : i < n /\ functions[x] = tu[i] /\ decls[tu[i]].name = x
    BY <1>5, <2>1
  <2>4. \A x \in gs : \E i \in 1..Len(tu) : i < n /\ decls[tu[i]].name = x
    BY <1>2, <1>5, <2>1
  <2> QED BY <2>1, <2>2, <2>3, <2>4 DEF Accounted
<1>7. as \subseteq 1..Len(decls)
  BY <1>2
<1> QED BY <1>1, <1>4, <1>6, <1>7, TranslatedUnit

\* An assertion that fails is explained.
LEMMA FailureExplained ==
  ASSUME Scoping, Unit, phase = "translate", next <= Len(tu),
         NEW k \in 1..Len(decls[tu[next]].items), Failure(tu[next], k) # "none"
  PROVE  Explained(Failure(tu[next], k))
<1> DEFINE d  == tu[next]
           m  == decls[d].items[k]
           nm == decls[m.decl].name
           fn == Callee(d, nm)
           why == Failure(d, k)
<1>1. DeclList(decls) /\ AllMentions(decls) /\ AfterParsing /\ next \in 1..Len(tu) /\ Len(tu) \in Nat
      /\ d \in 1..Len(decls)
  BY WhileTranslating
<1>2. m \in ToSet(decls[d].items)
  <2>1. DOMAIN decls[d].items = 1..Len(decls[d].items)
    BY <1>1, DeclTypes
  <2> QED BY <2>1 DEF ToSet
<1>3. why = CASE m.kind = "Function" /\ fn = None -> "func != nullptr"
              [] m.kind = "Function" /\ fn # None
                   /\ (fn = Builtin \/ Len(decls[fn].params) # Len(decls[m.decl].params)) ->
                     "totalParams() == argList.size()"
              [] m.kind \in {"Var", "ParamVar"}
                   /\ m.decl \notin addresses \cup Parameters(d) \cup LocalsBefore(d, k) ->
                     "variableAddressTable.count(decl) == 1"
              [] OTHER -> "none"
  BY DEF Failure
<1>4. CASE m.kind = "Function" /\ fn = None
  <2>1. why = "func != nullptr"
    BY <1>3, <1>4
  <2>2. /\ ~decls[m.decl].body
        /\ \E j \in 1..Len(tu) : next < j /\ decls[tu[j]].body /\ nm = decls[tu[j]].name
    BY <1>1, <1>4, CalleeIs
  <2>3. PICK j \in 1..Len(tu) : next < j /\ decls[tu[j]].body /\ nm = decls[tu[j]].name
    BY <2>2
  <2>4. j \in next .. Len(tu) /\ j # next
    BY <1>1, <2>3
  <2> QED BY <1>2, <1>4, <2>1, <2>2, <2>3, <2>4 DEF Explained
<1>5. CASE m.kind = "Function" /\ fn # None
               /\ (fn = Builtin \/ Len(decls[fn].params) # Len(decls[m.decl].params))
  <2>1. why = "totalParams() == argList.size()"
    BY <1>3, <1>5
  <2>2. nm = Memset
    BY <1>1, <1>5, CalleeIs
  <2>3. CallsMemset(d)
    BY <1>2, <1>5, <2>2 DEF CallsMemset
  <2> QED BY <2>1, <2>3 DEF Explained
<1>6. CASE m.kind \in {"Var", "ParamVar"}
               /\ m.decl \notin addresses \cup Parameters(d) \cup LocalsBefore(d, k)
  <2>1. why = "variableAddressTable.count(decl) == 1"
    BY <1>3, <1>6
  <2>2. m.decl \in Leaked
    BY <1>1, <1>6, AddressIs
  <2> QED BY <1>2, <2>1, <2>2 DEF Explained
<1>7. CASE ~(m.kind = "Function" /\ fn = None)
           /\ ~(m.kind = "Function" /\ fn # None
               /\ (fn = Builtin \/ Len(decls[fn].params) # Len(decls[m.decl].params)))
           /\ ~(m.kind \in {"Var", "ParamVar"}
               /\ m.decl \notin addresses \cup Parameters(d) \cup LocalsBefore(d, k))
  <2>1. why = "none"
    BY <1>3, <1>7
  <2> QED BY <2>1
<1> QED BY <1>4, <1>5, <1>6, <1>7

\* Only the module's own memset has that name.
LEMMA AcceptedIs ==
  ASSUME Scoping, Unit, phase = "translate", next <= Len(tu), decls[tu[next]].kind = "Function"
  PROVE  /\ ~Accepted(tu[next]) => decls[tu[next]].name = Memset
         /\ Accepted(tu[next]) => decls[tu[next]].name # Memset
<1> DEFINE nm == decls[tu[next]].name
<1>1. /\ next \in 1..Len(tu)
      /\ \A i \in 1..Len(tu) : tu[i] \in 1..Len(decls) /\ decls[tu[i]].name \in Names
      /\ \A i, j \in 1..Len(tu) : decls[tu[i]].name = decls[tu[j]].name => i = j
      /\ Accounted(decls, tu, next, functions, globals, addresses)
  BY WhileTranslating
<1>2. /\ functions[Memset] = Builtin
      /\ \A x \in Names \cup {Memset} :
            functions[x] # None => \/ x = Memset
                            \/ \E i \in 1..Len(tu) : i < next /\ functions[x] = tu[i] /\ decls[tu[i]].name = x
  BY <1>1, Zenon DEF Accounted
<1>3. functions[nm] # None => nm = Memset
  <2> SUFFICES ASSUME functions[nm] # None, nm # Memset PROVE FALSE
    OBVIOUS
  <2>1. nm \in Names
    BY <1>1
  <2>2. PICK i \in 1..Len(tu) : i < next /\ decls[tu[i]].name = nm
    BY <1>2, <2>1
  <2>3. i = next
    BY <1>1, <2>2
  <2> QED BY <1>1, <2>2, <2>3
<1>4. Builtin # None
  BY DEF Builtin, None
<1> QED BY <1>2, <1>3, <1>4 DEF Accepted

\* Translating a function keeps it, or aborts for a mention that is too early
\* or for memset.
LEMMA TranslateFunctionUnit ==
  ASSUME Scoping, Unit, TranslateFunction
  PROVE  Unit'
<1> DEFINE d  == tu[next]
           nm == decls[d].name
           failed == {k \in DOMAIN decls[d].items : Failure(d, k) # "none"}
           n  == next + 1
           fs == [functions EXCEPT ![nm] = d]
           as == addresses \cup LocalsBefore(d, Len(decls[d].items) + 1)
                   \cup (IF decls[d].body THEN Parameters(d) ELSE {})
<1>1. phase = "translate" /\ next <= Len(tu) /\ decls[d].kind = "Function"
  BY DEF TranslateFunction
<1>2. /\ DeclList(decls) /\ AllMentions(decls) /\ Len(decls) \in Nat
      /\ addresses \subseteq 1..Len(decls) /\ next \in 1..Len(tu) /\ Len(tu) \in Nat
      /\ \A i \in 1..Len(tu) : tu[i] \in 1..Len(decls) /\ decls[tu[i]].name \in Names
      /\ \A i, j \in 1..Len(tu) : decls[tu[i]].name = decls[tu[j]].name => i = j
      /\ Accounted(decls, tu, next, functions, globals, addresses)
  BY <1>1, WhileTranslating
<1>3. d \in 1..Len(decls) /\ DOMAIN decls[d].items = 1..Len(decls[d].items) /\ Len(decls[d].items) \in Nat
  BY <1>2, DeclTypes
<1>4. CASE failed # {}
  <2> DEFINE k == CHOOSE k \in failed : \A j \in failed : k <= j
  <2>1. failed \in SUBSET Nat
    BY <1>3
  <2>2. k \in failed
    <3> HIDE DEF failed
    <3>1. \E x \in failed : \A y \in failed : x <= y
      BY <1>4, <2>1, LeastElement
    <3> QED BY <3>1
  <2>3. Abort(Failure(d, k))
    BY <1>4 DEF TranslateFunction
  <2> HIDE DEF k
  <2>4. k \in 1..Len(decls[d].items) /\ Failure(d, k) # "none"
    BY <1>3, <2>2
  <2>5. Explained(Failure(d, k))
    BY <1>1, <2>4, FailureExplained
  <2> QED BY <1>1, <2>3, <2>5, AbortedUnit
<1>5. CASE failed = {} /\ ~Accepted(d)
  <2>1. Abort("accepted")
    BY <1>5 DEF TranslateFunction
  <2>2. nm = Memset
    BY <1>1, <1>5, AcceptedIs
  <2>3. Explained("accepted")
    BY <2>2 DEF Explained
  <2> QED BY <1>1, <2>1, <2>3, AbortedUnit
<1>6. CASE failed = {} /\ Accepted(d)
  <2>1. /\ Translated /\ addresses' = as /\ functions' = fs /\ next' = next + 1
        /\ globals' = globals /\ UNCHANGED <<reason, parserVars>>
    BY <1>6 DEF TranslateFunction
  <2>2. nm # Memset
    BY <1>1, <1>6, AcceptedIs
  <2>3. LocalsBefore(d, Len(decls[d].items) + 1) \subseteq 1..Len(decls)
    <3>1. \A i \in 1..((Len(decls[d].items) + 1) - 1) : decls[d].items[i].decl \in 1..Len(decls)
      <4>1. \A i \in 1..((Len(decls[d].items) + 1) - 1) : i \in 1..Len(decls[d].items)
        BY <1>3
      <4> QED BY <1>2, <1>3, <4>1, ItemTypes
    <3> HIDE DEF d
    <3> QED BY <3>1 DEF LocalsBefore
  <2>4. Parameters(d) \subseteq 1..Len(decls)
    BY <1>2, <1>3 DEF Parameters, DeclList
  <2>5. as \subseteq 1..Len(decls) /\ addresses \subseteq as
    BY <1>2, <2>3, <2>4
  <2>6. \A i \in 1..Len(tu) : (i < n <=> i < next \/ i = next)
    BY <1>2
  <2>7. /\ functions \in [Names \cup {Memset} -> Int] /\ functions[Memset] = Builtin
        /\ \A i \in 1..Len(tu) : i < next =>
              IF decls[tu[i]].kind = "Function" THEN functions[decls[tu[i]].name] = tu[i]
              ELSE tu[i] \in addresses
        /\ \A x \in Names \cup {Memset} :
              functions[x] # None => \/ x = Memset
                              \/ \E i \in 1..Len(tu) : i < next /\ functions[x] = tu[i] /\ decls[tu[i]].name = x
        /\ \A x \in globals : \E i \in 1..Len(tu) : i < next /\ decls[tu[i]].name = x
    BY <1>2, Zenon DEF Accounted
  <2>8. /\ fs \in [Names \cup {Memset} -> Int] /\ fs[nm] = d
        /\ \A x \in Names \cup {Memset} : x # nm => fs[x] = functions[x]
    <3>1. nm \in Names \cup {Memset} /\ d \in Int
      BY <1>2, <1>3
    <3> HIDE DEF nm, d
    <3> QED BY <2>7, <3>1
  <2> HIDE DEF fs, as, n
  <2>9. ASSUME NEW i \in 1..Len(tu), i < n
        PROVE  IF decls[tu[i]].kind = "Function" THEN fs[decls[tu[i]].name] = tu[i] ELSE tu[i] \in as
    <3>1. CASE i = next
      BY <1>1, <2>8, <3>1
    <3>2. CASE i < next
      <4>1. decls[tu[i]].name # nm /\ decls[tu[i]].name \in Names
        <5>1. i # next
          BY <1>2, <3>2
        <5> QED BY <1>2, <5>1
      <4> HIDE DEF nm
      <4> QED BY <2>5, <2>7, <2>8, <3>2, <4>1
    <3> QED BY <2>6, <2>9, <3>1, <3>2
  <2>10. ASSUME NEW x \in Names \cup {Memset}, fs[x] # None
         PROVE  \/ x = Memset
                \/ \E i \in 1..Len(tu) : i < n /\ fs[x] = tu[i] /\ decls[tu[i]].name = x
    <3>1. CASE x = nm
      BY <1>2, <2>6, <2>8, <3>1
    <3>2. CASE x # nm
      <4> HIDE DEF nm
      <4> QED BY <2>6, <2>7, <2>8, <2>10, <3>2
    <3> QED BY <3>1, <3>2
  <2>11. fs[Memset] = Builtin
    BY <2>2, <2>7, <2>8
  <2>12. \A x \in globals : \E i \in 1..Len(tu) : i < n /\ decls[tu[i]].name = x
    BY <2>6, <2>7
  <2>13. Accounted(decls, tu, n, fs, globals, as)
    BY <2>8, <2>9, <2>10, <2>11, <2>12 DEF Accounted
  <2> QED BY <1>1, <2>1, <2>5, <2>13, TranslatedUnit DEF n
<1> QED BY <1>4, <1>5, <1>6

\* addPresetSymbols.
LEMMA InitUnit == Init => Unit
<1> SUFFICES ASSUME Init PROVE Unit
  OBVIOUS
<1> DEFINE n == Len(Presets)
           t == TheTable
<1>1. /\ phase = "parse" /\ open = <<>> /\ depth = 0 /\ tables = <<t>> /\ symrefs = {} /\ addresses = {}
      /\ tu = [k \in DOMAIN Presets |-> k] /\ next = 1 /\ globals = {}
      /\ decls = [k \in DOMAIN Presets |-> Preset(Presets[k])]
      /\ functions = [x \in Names \cup {Memset} |-> IF x = Memset THEN Builtin ELSE None]
  BY PresetTableIs DEF Init
<1>2. Presets \in Seq(STRING) /\ n \in Nat /\ DOMAIN Presets = 1..n
  <2>1. Presets \in Seq(STRING)
    BY DeclarationsAssumption
  <2> QED BY <2>1, LenProperties
<1>3. Len(decls) = n /\ \A k \in 1..n : decls[k] = Preset(Presets[k]) /\ tu[k] = k
  BY <1>1, <1>2, PresetsAreDecls
<1>4. \A k \in 1..n : /\ decls[k].kind = "Function" /\ decls[k].name = Presets[k] /\ decls[k].extern = TRUE
                      /\ decls[k].body = FALSE /\ decls[k].items = <<>>
  BY <1>3 DEF Preset, FunctionOf, Declared
<1>5. tu \in Seq(1..n) /\ Len(tu) = n
  <2>1. tu \in [1..n -> 1..n]
    BY <1>1, <1>2
  <2> QED BY <1>2, <2>1, FunctionIsSeq
<1>6. /\ \A k \in 1..n : Presets[k] \in Names
      /\ \A i, j \in 1..n : Presets[i] = Presets[j] => i = j
  <2>1. \A k \in 1..n : Presets[k] \in Names
    BY <1>2 DEF Names, ToSet
  <2> QED BY <1>2, <2>1, DeclarationsAssumption
<1>7. \A x \in Names : t[x] = None \/ (t[x] \in 1..n /\ Presets[t[x]] = x)
  BY PresetTableIs
<1>8. ASSUME NEW k \in 1..n PROVE t[Presets[k]] = k
  <2> DEFINE S == PresetAt(Presets[k])
  <2>1. k \in S /\ S \in SUBSET (1..n) /\ S # {}
    BY <1>2 DEF PresetAt
  <2>2. t[Presets[k]] = Max(S)
    BY <1>6, <2>1 DEF TheTable
  <2> HIDE DEF S
  <2>3. Max(S) \in S
    BY <1>2, <2>1, MaxIsIn
  <2> QED BY <1>2, <1>6, <2>2, <2>3 DEF S, PresetAt
<1> HIDE DEF n, t
<1>9. \A f : f \in 1..Len(decls) => f \in 1..n /\ \A k : k \notin 1..Len(decls[f].items)
  BY <1>3, <1>4
<1>10. Listed(decls, tu)
  BY <1>3, <1>4, <1>5, <1>6 DEF Listed
<1>11. Externals(decls, tu)
  BY <1>3, <1>4, <1>5 DEF Externals, WithBody
<1>12. InTable(decls, tu, t)
  BY <1>3, <1>4, <1>5, <1>8 DEF InTable
<1>13. FromUnit(decls, tu, t)
  BY <1>3, <1>5, <1>7 DEF FromUnit
<1>14. Noted(decls, symrefs)
  BY <1>9 DEF Noted
<1>15. AllPlaced(decls, tu)
  BY <1>3, <1>4, <1>5, <1>9 DEF AllPlaced
<1>16. Accounted(decls, <<>>, 1, functions, globals, addresses)
  <2>1. functions \in [Names \cup {Memset} -> Int] /\ functions[Memset] = Builtin
    BY <1>1 DEF Builtin, None
  <2>2. \A x \in Names \cup {Memset} : functions[x] # None => x = Memset
    BY <1>1
  <2>3. \A i \in 1..Len(<<>>) : FALSE
    BY EmptySeq
  <2>4. \A x \in globals : FALSE
    BY <1>1
  <2> QED BY <2>1, <2>2, <2>3, <2>4, Zenon DEF Accounted
<1>17. Basics
  BY <1>1, <1>3, <1>5 DEF Basics
<1>18. tables[1] = t
  BY <1>1
<1>19. WhileParsed
  BY <1>1, <1>10, <1>11, <1>12, <1>13, <1>14, <1>15, <1>16, <1>18 DEF WhileParsed, Line
<1> QED BY <1>1, <1>17, <1>19 DEF Unit, AbortExplained

\* Every step keeps the unit's invariant.
LEMMA NextUnit ==
  ASSUME Inv, Inv', Scoping, Unit, [Next]_vars
  PROVE  Unit'
<1>1. ASSUME Statement PROVE Unit'
  BY <1>1, QuietSteps, MentionSteps, LocalVariableUnit DEF Statement
<1>2. ASSUME Declaration PROVE Unit'
  BY <1>2, GlobalVariableUnit, DeclareFunctionUnit, BeginFunctionUnit, EndFunctionUnit, EndTextUnit
  DEF Declaration
<1>3. ASSUME UNCHANGED vars PROVE Unit'
  <2>1. /\ phase' = phase /\ reason' = reason /\ decls' = decls /\ tables' = tables /\ depth' = depth
        /\ func' = func /\ tu' = tu /\ symrefs' = symrefs /\ open' = open
        /\ next' = next /\ addresses' = addresses /\ functions' = functions /\ globals' = globals
    BY <1>3 DEF vars, parserVars, moduleVars
  <2>2. Basics' <=> Basics
    BY <2>1 DEF Basics
  <2>3. WhileParsed' <=> WhileParsed
    BY <2>1 DEF WhileParsed, Line
  <2>4. AfterParsing' <=> AfterParsing
    BY <2>1 DEF AfterParsing
  <2>5. AbortExplained' <=> AbortExplained
    BY <2>1 DEF AbortExplained, Leaked, LeakedBy, CallsMemset
  <2> QED BY <2>1, <2>2, <2>3, <2>4, <2>5 DEF Unit
<1> QED BY <1>1, <1>2, <1>3, TranslateVarUnit, TranslateFunctionUnit DEF Next

\* The three invariants hold in every reachable state.
LEMMA UnitAlways == Spec => [](Inv /\ Scoping /\ Unit)
<1>1. Init => Unit
  BY InitUnit
<1>2. Inv /\ Inv' /\ Scoping /\ Unit /\ [Next]_vars => Unit'
  BY NextUnit
<1> QED BY <1>1, <1>2, ScopingAlways, PTL DEF Spec

\* The unit the parser hands to the translator is what its comment assumes: however
\* declarations, definitions and leaked parameters of one name follow each other, the
\* unit has no name twice, and a function without a body that is left in it is
\* external and used: dropUnusedExternalSymbols leaves no other.
THEOREM UnitIsAlwaysRegulated == Spec => []UnitIsRegulated
<1>1. Inv /\ Scoping /\ Unit => UnitIsRegulated
  <2> SUFFICES ASSUME Inv, Scoping, Unit PROVE UnitIsRegulated
    OBVIOUS
  <2>1. /\ DeclList(decls) /\ Basics /\ DOMAIN decls = 1..Len(decls) /\ Len(decls) \in Nat
        /\ tables \in Tables /\ scopes \in Tables
        /\ Bounded(tables, Len(decls)) /\ Bounded(scopes, Len(decls))
    BY DeclTypes DEF Scoping, Unit
  <2>2. ASSUME NEW t \in {tables, scopes}, NEW k \in DOMAIN t
        PROVE  DOMAIN t[k] = Names /\ \A n \in Names : t[k][n] \in 0 .. Len(decls)
    <3>1. t \in Tables /\ Bounded(t, Len(decls))
      BY <2>1
    <3>2. k \in 1..Len(t) /\ t[k] \in [Names -> Nat]
      BY <3>1, TableTypes
    <3>3. \A n \in Names : t[k][n] \in Nat /\ t[k][n] <= Len(decls)
      BY <3>1, <3>2 DEF Bounded
    <3> QED BY <2>1, <3>2, <3>3
  <2>3. ToSet(tu) \cup symrefs \cup addresses \subseteq DOMAIN decls
    <3>1. tu \in Seq(1..Len(decls)) /\ symrefs \subseteq 1..Len(decls) /\ addresses \subseteq 1..Len(decls)
      BY <2>1 DEF Basics
    <3>2. ToSet(tu) \subseteq 1..Len(decls)
      BY <3>1, LenProperties, ElementOfSeq DEF ToSet
    <3> QED BY <2>1, <3>1, <3>2
  <2>4. TypeOK
    BY <2>1, <2>2, <2>3 DEF TypeOK, Basics
  <2>5. ASSUME phase # "parse", phase # "rejected"
        PROVE  /\ \A i, j \in DOMAIN tu : i # j => decls[tu[i]].name # decls[tu[j]].name
               /\ \A i \in DOMAIN tu : decls[tu[i]].kind = "Function" /\ ~decls[tu[i]].body =>
                      decls[tu[i]].extern /\ tu[i] \in symrefs
    <3>1. AfterParsing
      BY <2>1, <2>5 DEF Unit, Basics
    <3>2. tu \in Seq(1..Len(decls)) /\ DOMAIN tu = 1..Len(tu) /\ \A i \in 1..Len(tu) : tu[i] \in 1..Len(decls)
      BY <2>1, LenProperties, ElementOfSeq DEF Basics
    <3>3. \A i, j \in 1..Len(tu) : i # j => decls[tu[i]].name # decls[tu[j]].name
      BY <3>1 DEF AfterParsing, Listed
    <3>4. ASSUME NEW i \in 1..Len(tu), Bodyless(decls[tu[i]])
          PROVE  decls[tu[i]].extern /\ tu[i] \in symrefs
      BY <3>1, <3>2, <3>4 DEF AfterParsing, Externals
    <3>5. \A i \in 1..Len(tu) : decls[tu[i]].kind = "Function" /\ ~decls[tu[i]].body =>
             decls[tu[i]].extern /\ tu[i] \in symrefs
      BY <3>4 DEF Bodyless
    <3> QED BY <3>2, <3>3, <3>5
  <2> QED BY <2>4, <2>5 DEF UnitIsRegulated
<1> QED BY <1>1, UnitAlways, PTL

\* An assertion of the translator that stops an accepted text is explained: a call of
\* a function that is defined further down, a name that a prototype's parameter took
\* over, or a function of the text's own named memset.
THEOREM AbortsAreExplained == Spec => []AbortExplained
<1>1. Unit => AbortExplained
  BY DEF Unit
<1> QED BY <1>1, UnitAlways, PTL

=============================================================================
