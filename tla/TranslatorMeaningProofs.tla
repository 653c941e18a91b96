---------------------- MODULE TranslatorMeaningProofs ----------------------
(***************************************************************************)
(* The proof that Translator preserves the meaning, for any number of      *)
(* blocks and points and any nesting.                                      *)
(*                                                                         *)
(* It is a matter of what control meets next.  To the three invariants of  *)
(* TranslatorProofs comes a fourth: it has a label for every block, the    *)
(* first point met from its start on, and says that the edges of the code  *)
(* between labels are those of the source, the ones still owed by the      *)
(* loose ends and by the handlers in progress included.                    *)
(***************************************************************************)
EXTENDS TranslatorProofs

(***************************************************************************)
(* MeaningPreserved.  Every block has a label: the first point met from    *)
(* its start on, EXIT if it returns before one, a label of its own for an  *)
(* open block (Hole: what comes there is not yet known), and 0 when it     *)
(* jumps in a circle of empty blocks for ever.  The labels D are no part   *)
(* of the state; the invariant says that there are some.                   *)
(***************************************************************************)
Outcomes  == {"any", "true", "false"}
Hole(b)   == EXIT + b

\* The instructions of a block without its terminator.
BodyOf(gr, b) == IF gr.branch[b] = NULL THEN gr.code[b] ELSE ButLast(gr.code[b])

\* Control that leaves b with outcome o meets the label l next.
Goes(gr, D, b, o, l) ==
  \/ gr.branch[b] = NULL /\ o = "any" /\ l = Hole(b)
  \/ gr.branch[b] = TERMINAL /\ o = "any" /\ l = EXIT
  \/ /\ gr.branch[b] \in Blocks /\ o = "any" /\ l = D[gr.branch[b]]
     /\ gr.branchElse[b] = NULL \/ gr.control[b] = IMMTRUE
  \/ /\ gr.branch[b] \in Blocks /\ o = "any" /\ l = D[gr.branchElse[b]]
     /\ gr.branchElse[b] # NULL /\ gr.control[b] = IMMFALSE
  \/ /\ gr.branch[b] \in Blocks
     /\ gr.branchElse[b] # NULL /\ gr.control[b] \notin {IMMTRUE, IMMFALSE}
     /\ \/ o = "true" /\ l = D[gr.branch[b]]
        \/ o = "false" /\ l = D[gr.branchElse[b]]

Labelled(gr, D) ==
  /\ D \in [Blocks -> Nat]
  /\ \A b \in Blocks :
        /\ BodyOf(gr, b) # <<>> => D[b] = BodyOf(gr, b)[1].value
        /\ BodyOf(gr, b) = <<>> => gr.branchElse[b] = NULL /\ Goes(gr, D, b, "any", D[b])
Trap(gr, T) == \A b \in T : BodyOf(gr, b) = <<>> /\ gr.branch[b] \in T
NoTrap(gr, D) == \A T \in SUBSET Blocks : Trap(gr, T) => \A b \in T : D[b] = 0
Holding(gr, b, p) == \E i \in 1 .. Len(BodyOf(gr, b)) : BodyOf(gr, b)[i].value = p
Written(gr, pts) ==
  /\ \A b \in Blocks : \A i \in 1 .. Len(BodyOf(gr, b)) : BodyOf(gr, b)[i].value \in 1 .. pts
  /\ \A p : \A a, b \in Blocks : Holding(gr, a, p) /\ Holding(gr, b, p) => a = b
Traced(gr, pts, D) == Labelled(gr, D) /\ NoTrap(gr, D) /\ Written(gr, pts)

\* In the code, the label l is met after the point p and the outcome o.
Edge(gr, D, e, p, o, l) ==
  \/ p = START /\ o = "any" /\ l = D[e]
  \/ \E b \in Blocks : \E i \in 1 .. Len(BodyOf(gr, b)) - 1 :
        p = BodyOf(gr, b)[i].value /\ o = "any" /\ l = BodyOf(gr, b)[i + 1].value
  \/ \E b \in Blocks : /\ BodyOf(gr, b) # <<>>
                       /\ p = LastOf(BodyOf(gr, b)).value /\ Goes(gr, D, b, o, l)

\* What a statement appends to the current block, and what it leaves alone.
Extended(gr, h, c, q) ==
  /\ OnlyAt(gr, h, c)
  /\ BodyOf(h, c) = Append(BodyOf(gr, c), Op(q))
  /\ \A b \in Blocks \ {c} : BodyOf(h, b) = BodyOf(gr, b)
Jumped(gr, h, c, to) == /\ Rewired(gr, h, c, NULL, to, NULL)
                        /\ \A b \in Blocks : BodyOf(h, b) = BodyOf(gr, b)

\* The label h becomes t.
Moved(D, h, t) == [b \in Blocks |-> IF D[b] = h THEN t ELSE D[b]]

\* Labels of holes are beyond all points, and different.
LEMMA HoleLabels ==
  /\ EXIT \in Nat /\ EXIT # 0 /\ START = 0
  /\ \A b \in Blocks : b \in Nat /\ Hole(b) \in Nat /\ Hole(b) > EXIT
  /\ \A b, c \in Blocks : Hole(b) = Hole(c) => b = c
BY TranslatorAssumption DEF EXIT, START, Hole

\* The body of a block is a sequence of instructions.
LEMMA BodyTypes ==
  ASSUME NEW gr, Good(gr, Blocks), NEW b \in Blocks
  PROVE  BodyOf(gr, b) \in Seq(Insts) /\ Stripped(gr, b)[b] = BodyOf(gr, b)
<1>0. gr \in Graphs /\ Edges(gr) /\ AgreesAt(gr, b)
  BY DEF Good, Edges, CodeAgrees
<1>1. gr.code[b] \in Seq(Insts) /\ gr.code \in [Blocks -> Seq(Insts)]
  BY <1>0, FieldTypes
<1>2. CASE gr.branch[b] = NULL
  BY <1>1, <1>2 DEF BodyOf, Stripped, IsIncomplete
<1>3. CASE gr.branch[b] # NULL
  <2>1. EndsIn(gr.code[b], TermOf(gr.control[b], gr.branch[b], gr.branchElse[b]))
    BY <1>0, <1>3, AgreesForm
  <2>2. FlowOK(gr.control[b], gr.branch[b], gr.branchElse[b])
    BY <1>0, NodeFlow
  <2>3. KindMatches(gr, b)
    <3>1. gr.code[b] # <<>>
          /\ LastOf(gr.code[b]) = TermOf(gr.control[b], gr.branch[b], gr.branchElse[b])
      BY <2>1 DEF EndsIn
    <3>2. CASE gr.branch[b] = TERMINAL
      <4>1. LastOf(gr.code[b]).id = "Ret"
        BY <3>1, <3>2 DEF TermOf, Ret
      <4> QED BY <3>1, <3>2, <4>1 DEF KindMatches, IsTerminal
    <3>3. CASE gr.branch[b] # TERMINAL /\ gr.branchElse[b] # NULL
      <4>1. LastOf(gr.code[b]).id = "Br" /\ LastOf(gr.code[b]).value = gr.control[b]
        BY <3>1, <3>3 DEF TermOf, CondBr
      <4>2. gr.control[b] # NULL
        BY <2>2, <3>3, CfgAssumption DEF FlowOK
      <4> QED BY <3>1, <3>3, <4>1, <4>2 DEF KindMatches, IsBranched
    <3>4. CASE gr.branch[b] # TERMINAL /\ gr.branchElse[b] = NULL
      <4>1. LastOf(gr.code[b]).id = "Br" /\ LastOf(gr.code[b]).value = NULL
        BY <3>1, <3>4 DEF TermOf, Br
      <4> QED BY <1>3, <3>1, <3>4, <4>1 DEF KindMatches, IsLinear
    <3> QED BY <3>2, <3>3, <3>4
  <2>4. BodyOf(gr, b) = ButLast(gr.code[b])
    BY <1>3 DEF BodyOf
  <2>5. gr.code[b] # <<>>
    BY <2>1 DEF EndsIn
  <2>6. ButLast(gr.code[b]) \in Seq(Insts)
    BY <1>0, <2>5, StrippedType
  <2> QED BY <1>1, <1>3, <2>3, <2>4, <2>6 DEF Stripped, IsIncomplete
<1> QED BY <1>2, <1>3

\* A terminator appended and taken away again leaves the body.
LEMMA BodyKept ==
  ASSUME NEW s \in Seq(Insts), NEW t \in Insts
  PROVE  ButLast(Append(s, t)) = s
BY AppendProperties, SubSeqProperties DEF ButLast

\* A block that gets a new terminator keeps its body; so do the others.
LEMMA RelinkedBodies ==
  ASSUME NEW gr, Good(gr, Blocks), NEW h, NEW c \in Blocks, NEW v, NEW to, NEW else,
         to # NULL, NEW t \in Insts, Relinked(h, gr, c, v, to, else, t)
  PROVE  /\ Rewired(gr, h, c, v, to, else)
         /\ \A b \in Blocks : BodyOf(h, b) = BodyOf(gr, b)
<1>0. gr \in Graphs
  BY DEF Good, Edges
<1>1. Rewired(gr, h, c, v, to, else)
  BY <1>0, RelinkedOnlyAt DEF Rewired
<1>2. Stripped(gr, c) \in [Blocks -> Seq(Insts)] /\ h.code = [Stripped(gr, c) EXCEPT ![c] = Append(@, t)]
      /\ gr.code \in [Blocks -> Seq(Insts)]
  BY <1>0, StrippedType, FieldTypes DEF Relinked, Has
<1>3. BodyOf(h, c) = BodyOf(gr, c)
  <2>1. Stripped(gr, c)[c] = BodyOf(gr, c) /\ BodyOf(gr, c) \in Seq(Insts)
    BY BodyTypes
  <2>2. h.code[c] = Append(BodyOf(gr, c), t)
    BY <1>2, <2>1
  <2>3. h.branch[c] # NULL
    BY <1>1 DEF Rewired
  <2>4. BodyOf(h, c) = ButLast(Append(BodyOf(gr, c), t))
    BY <2>2, <2>3 DEF BodyOf
  <2> QED BY <2>1, <2>4, BodyKept
<1>4. ASSUME NEW b \in Blocks \ {c}
      PROVE  BodyOf(h, b) = BodyOf(gr, b)
  <2>1. h.code[b] = gr.code[b]
    BY <1>2 DEF Stripped
  <2>2. h.branch[b] = gr.branch[b]
    BY <1>1 DEF Rewired, OnlyAt
  <2> QED BY <2>1, <2>2 DEF BodyOf
<1> QED BY <1>1, <1>3, <1>4

\* A jump keeps all bodies.
LEMMA JumpBodies ==
  ASSUME NEW gr, Good(gr, Blocks), NEW c \in Blocks, NEW to \in Blocks
  PROVE  Jumped(gr, ResetTo(gr, c, to), c, to) /\ Good(ResetTo(gr, c, to), Blocks)
<1>1. Relinked(ResetTo(gr, c, to), gr, c, NULL, to, NULL, Br(to)) /\ Br(to) \in Insts
  BY ResetToIs, InstTypes DEF Good, Edges
<1>2. to # NULL
  BY CfgAssumption
<1> QED BY <1>1, <1>2, RelinkedBodies, JumpStep DEF Jumped

\* So does a return, with the assertion around it or without.
LEMMA MarkBodies ==
  ASSUME NEW gr, Good(gr, Blocks), NEW c \in Blocks, NEW hint, MarkReturns(gr, c, hint)
  PROVE  LET k == TryMarkAsTerminal(gr, c, hint)
             h == AssertThat(k, MarkReturns(gr, c, hint))
         IN  /\ Jumped(gr, k, c, TERMINAL) /\ Good(k, Blocks)
             /\ Jumped(gr, h, c, TERMINAL)
<1> DEFINE k == TryMarkAsTerminal(gr, c, hint)
           h == AssertThat(k, MarkReturns(gr, c, hint))
<1>1. Relinked(k, gr, c, NULL, TERMINAL, NULL, Ret) /\ Ret \in Insts /\ Good(k, Blocks)
  BY MarkIs, MarkStep, InstTypes DEF Good, Edges
<1>2. TERMINAL # NULL
  BY CfgAssumption
<1> HIDE DEF k
<1>3. Jumped(gr, k, c, TERMINAL)
  BY <1>1, <1>2, RelinkedBodies DEF Jumped
<1>4. h.branch = k.branch /\ h.branchElse = k.branchElse /\ h.control = k.control
      /\ h.code = k.code
  BY <1>1 DEF AssertThat, Good, Edges, Graphs
<1> HIDE DEF h
<1>5. Jumped(gr, h, c, TERMINAL)
  BY <1>3, <1>4 DEF Jumped, Rewired, OnlyAt, BodyOf
<1> QED BY <1>1, <1>3, <1>5 DEF h, k

\* An operation extends the body.
LEMMA OpBodies ==
  ASSUME NEW gr, Good(gr, Blocks), NEW c \in Blocks, gr.branch[c] = NULL, NEW p \in Values
  PROVE  LET k == InsertInst(gr, c, Op(p))
         IN  /\ Extended(gr, k, c, p) /\ Good(k, Blocks)
             /\ k.branch[c] = NULL /\ Rewired(gr, k, c, gr.control[c], NULL, gr.branchElse[c])
<1> DEFINE k == InsertInst(gr, c, Op(p))
<1>1. gr \in Graphs /\ Good(k, Blocks)
  BY OpStep DEF Good, Edges
<1>2. k.branch = gr.branch /\ k.branchElse = gr.branchElse /\ k.control = gr.control
      /\ OnlyAt(gr, k, c)
  BY <1>1, OpOnlyAt
<1>3. k.code = [gr.code EXCEPT ![c] = Append(@, Op(p))] /\ gr.code \in [Blocks -> Seq(Insts)]
  BY <1>1, FieldTypes DEF InsertInst, Graphs
<1> HIDE DEF k
<1>4. BodyOf(k, c) = Append(BodyOf(gr, c), Op(p))
  BY <1>2, <1>3 DEF BodyOf
<1>5. \A b \in Blocks \ {c} : BodyOf(k, b) = BodyOf(gr, b)
  BY <1>2, <1>3 DEF BodyOf
<1> QED BY <1>1, <1>2, <1>4, <1>5 DEF k, Extended, Rewired, OnlyAt

\* An operation and then a terminator.
LEMMA OpThenBodies ==
  ASSUME NEW gr, NEW k, NEW c \in Blocks, NEW p, Extended(gr, k, c, p),
         NEW h, NEW v, NEW to, NEW else, Rewired(k, h, c, v, to, else),
         \A b \in Blocks : BodyOf(h, b) = BodyOf(k, b)
  PROVE  Extended(gr, h, c, p) /\ Rewired(gr, h, c, v, to, else)
<1>1. Rewired(gr, h, c, v, to, else)
  BY RewiredTwice DEF Extended
<1> QED BY <1>1 DEF Extended, Rewired

\* An operation, then a branch.
LEMMA ConditionBodies ==
  ASSUME NEW gr, Good(gr, Blocks), NEW c \in Blocks, gr.branch[c] = NULL, NEW p \in Values,
         NEW v \in Values, NEW to \in Blocks, NEW else \in Blocks, to # else
  PROVE  LET h == ResetBranch(InsertInst(gr, c, Op(p)), c, v, to, else)
         IN  Extended(gr, h, c, p) /\ Rewired(gr, h, c, v, to, else) /\ Good(h, Blocks)
<1> DEFINE k == InsertInst(gr, c, Op(p))
           h == ResetBranch(k, c, v, to, else)
<1>1. Good(k, Blocks) /\ Extended(gr, k, c, p)
  BY OpBodies
<1> HIDE DEF k
<1>2. Relinked(h, k, c, v, to, else, CondBr(v, to, else)) /\ CondBr(v, to, else) \in Insts
  BY <1>1, ResetBranchIs, InstTypes DEF Good, Edges
<1>3. to # NULL
  BY CfgAssumption
<1>4. Good(h, Blocks)
  BY <1>1, BranchStep
<1> HIDE DEF h
<1>5. Rewired(k, h, c, v, to, else) /\ \A b \in Blocks : BodyOf(h, b) = BodyOf(k, b)
  BY <1>1, <1>2, <1>3, RelinkedBodies
<1>6. Extended(gr, h, c, p) /\ Rewired(gr, h, c, v, to, else)
  BY <1>1, <1>5, OpThenBodies
<1> QED BY <1>4, <1>6 DEF h, k

\* An operation, then a jump.
LEMMA OpJumpBodies ==
  ASSUME NEW gr, Good(gr, Blocks), NEW c \in Blocks, gr.branch[c] = NULL, NEW p \in Values,
         NEW to \in Blocks
  PROVE  LET h == ResetTo(InsertInst(gr, c, Op(p)), c, to)
         IN  Extended(gr, h, c, p) /\ Rewired(gr, h, c, NULL, to, NULL) /\ Good(h, Blocks)
<1> DEFINE k == InsertInst(gr, c, Op(p))
           h == ResetTo(k, c, to)
<1>1. Good(k, Blocks) /\ Extended(gr, k, c, p)
  BY OpBodies
<1> HIDE DEF k
<1>2. Jumped(k, h, c, to) /\ Good(h, Blocks)
  BY <1>1, JumpBodies
<1> HIDE DEF h
<1>3. Extended(gr, h, c, p) /\ Rewired(gr, h, c, NULL, to, NULL)
  BY <1>1, <1>2, OpThenBodies DEF Jumped
<1> QED BY <1>2, <1>3 DEF h, k

\* An operation, then a return.
LEMMA OpMarkBodies ==
  ASSUME NEW gr, Good(gr, Blocks), NEW c \in Blocks, gr.branch[c] = NULL, NEW p \in Values
  PROVE  LET k == InsertInst(gr, c, Op(p))
             h == AssertThat(TryMarkAsTerminal(k, c, TRUE), MarkReturns(k, c, TRUE))
         IN  Extended(gr, h, c, p) /\ Rewired(gr, h, c, NULL, TERMINAL, NULL)
<1> DEFINE k == InsertInst(gr, c, Op(p))
           h == AssertThat(TryMarkAsTerminal(k, c, TRUE), MarkReturns(k, c, TRUE))
<1>1. Good(k, Blocks) /\ Extended(gr, k, c, p) /\ k.branch[c] = NULL
  BY OpBodies
<1> HIDE DEF k
<1>2. MarkReturns(k, c, TRUE)
  BY <1>1 DEF MarkReturns, IsIncomplete
<1>3. Jumped(k, h, c, TERMINAL)
  BY <1>1, <1>2, MarkBodies
<1> HIDE DEF h
<1>4. Extended(gr, h, c, p) /\ Rewired(gr, h, c, NULL, TERMINAL, NULL)
  BY <1>1, <1>3, OpThenBodies DEF Jumped
<1> QED BY <1>4 DEF h, k

\* After the label of c is moved to t, what met it meets t.
MovedLabel(l, l0, hole, t) == l = IF l0 = hole THEN t ELSE l0

\* The ways out of the other blocks change in nothing else.
LEMMA GoesMoved ==
  ASSUME NEW gr \in Graphs, NEW h, NEW c \in Blocks, NEW b \in Blocks \ {c}, OnlyAt(gr, h, c),
         NEW D \in [Blocks -> Nat], NEW t, NEW o, NEW l
  PROVE  Goes(h, Moved(D, Hole(c), t), b, o, l)
           <=> \E l0 : Goes(gr, D, b, o, l0) /\ MovedLabel(l, l0, Hole(c), t)
<1> DEFINE D2 == Moved(D, Hole(c), t)
<1>1. /\ h.branch[b] = gr.branch[b] /\ h.branchElse[b] = gr.branchElse[b]
      /\ h.control[b] = gr.control[b]
      /\ gr.branch[b] \in Blocks \cup {NULL, TERMINAL} /\ gr.branchElse[b] \in Blocks \cup {NULL}
  BY FieldTypes DEF OnlyAt
<1>2. \A x \in Blocks : D2[x] = IF D[x] = Hole(c) THEN t ELSE D[x]
  BY DEF Moved
<1>3. Hole(b) # Hole(c) /\ EXIT # Hole(c)
  BY HoleLabels
<1> HIDE DEF D2
<1>4. TERMINAL \notin Blocks /\ NULL \notin Blocks /\ NULL # TERMINAL
  BY CfgAssumption
<1> DEFINE br == gr.branch[b] el == gr.branchElse[b] co == gr.control[b]
<1> HIDE DEF br, el, co
<1>5. CASE br = NULL
  <2>1. Goes(h, D2, b, o, l) <=> o = "any" /\ l = Hole(b)
    BY <1>1, <1>4, <1>5 DEF Goes, br
  <2>2. \A l0 : Goes(gr, D, b, o, l0) <=> o = "any" /\ l0 = Hole(b)
    BY <1>4, <1>5 DEF Goes, br
  <2> QED BY <2>1, <2>2, <1>3 DEF MovedLabel, D2
<1>6. CASE br = TERMINAL
  <2>1. Goes(h, D2, b, o, l) <=> o = "any" /\ l = EXIT
    BY <1>1, <1>4, <1>6 DEF Goes, br
  <2>2. \A l0 : Goes(gr, D, b, o, l0) <=> o = "any" /\ l0 = EXIT
    BY <1>4, <1>6 DEF Goes, br
  <2> QED BY <2>1, <2>2, <1>3 DEF MovedLabel, D2
<1>7. CASE br \in Blocks /\ (el = NULL \/ (el # NULL /\ co = IMMTRUE))
  <2>0. IMMTRUE # IMMFALSE
    BY TranslatorAssumption
  <2>1. Goes(h, D2, b, o, l) <=> o = "any" /\ l = D2[br]
    BY <1>1, <1>4, <1>7, <2>0 DEF Goes, br, el, co
  <2>2. \A l0 : Goes(gr, D, b, o, l0) <=> o = "any" /\ l0 = D[br]
    BY <1>4, <1>7, <2>0 DEF Goes, br, el, co
  <2>3. D2[br] = IF D[br] = Hole(c) THEN t ELSE D[br]
    BY <1>2, <1>7
  <2> QED BY <2>1, <2>2, <2>3 DEF MovedLabel, D2
<1>8. CASE br \in Blocks /\ el # NULL /\ co = IMMFALSE
  <2>0. IMMTRUE # IMMFALSE /\ el \in Blocks
    BY TranslatorAssumption, <1>1, <1>8 DEF el
  <2>1. Goes(h, D2, b, o, l) <=> o = "any" /\ l = D2[el]
    BY <1>1, <1>4, <1>8, <2>0 DEF Goes, br, el, co
  <2>2. \A l0 : Goes(gr, D, b, o, l0) <=> o = "any" /\ l0 = D[el]
    BY <1>4, <1>8, <2>0 DEF Goes, br, el, co
  <2>3. D2[el] = IF D[el] = Hole(c) THEN t ELSE D[el]
    BY <1>2, <2>0
  <2> QED BY <2>1, <2>2, <2>3 DEF MovedLabel, D2
<1>9. CASE br \in Blocks /\ el # NULL /\ co \notin {IMMTRUE, IMMFALSE}
  <2>0. el \in Blocks
    BY <1>1, <1>9 DEF el
  <2>1. Goes(h, D2, b, o, l) <=> \/ o = "true" /\ l = D2[br]
                                 \/ o = "false" /\ l = D2[el]
    BY <1>1, <1>4, <1>9 DEF Goes, br, el, co
  <2>2. \A l0 : Goes(gr, D, b, o, l0) <=> \/ o = "true" /\ l0 = D[br]
                                          \/ o = "false" /\ l0 = D[el]
    BY <1>4, <1>9 DEF Goes, br, el, co
  <2>3. D2[el] = (IF D[el] = Hole(c) THEN t ELSE D[el])
        /\ D2[br] = (IF D[br] = Hole(c) THEN t ELSE D[br])
    BY <1>2, <2>0, <1>9
  <2> QED BY <2>1, <2>2, <2>3 DEF MovedLabel, D2
<1>10. br \in Blocks \cup {NULL, TERMINAL}
  BY <1>1 DEF br
<1> QED BY <1>5, <1>6, <1>7, <1>8, <1>9, <1>10 DEF D2

\* Moving labels keeps the type.
LEMMA MovedType ==
  ASSUME NEW D \in [Blocks -> Nat], NEW hole, NEW t \in Nat
  PROVE  /\ Moved(D, hole, t) \in [Blocks -> Nat]
         /\ \A b \in Blocks : Moved(D, hole, t)[b] = IF D[b] = hole THEN t ELSE D[b]
BY DEF Moved

\* A block waiting to be filled is its own label.
LEMMA EmptyLabel ==
  ASSUME NEW gr, NEW D, Labelled(gr, D), NEW b \in Blocks, gr.branch[b] = NULL, BodyOf(gr, b) = <<>>
  PROVE  D[b] = Hole(b)
BY CfgAssumption DEF Labelled, Goes

\* The labels after the point q is appended to the open block c: what was waiting
\* for c meets q.
LEMMA PointTraced ==
  ASSUME NEW gr, Good(gr, Blocks), NEW h, NEW c \in Blocks, gr.branch[c] = NULL,
         NEW pts \in Nat, pts < MaxPoints, NEW D, Traced(gr, pts, D),
         Extended(gr, h, c, pts + 1)
  PROVE  Traced(h, pts + 1, Moved(D, Hole(c), pts + 1))
<1> DEFINE q  == pts + 1
           D2 == Moved(D, Hole(c), q)
<1>0. gr \in Graphs /\ q \in Nat /\ q < EXIT /\ q # 0 /\ Hole(c) # 0 /\ Hole(c) > EXIT
      /\ Hole(c) \in Nat
  BY HoleLabels, TranslatorAssumption DEF Good, Edges, EXIT
<1>1. /\ Labelled(gr, D) /\ NoTrap(gr, D) /\ Written(gr, pts) /\ D \in [Blocks -> Nat]
  BY DEF Traced, Labelled
<1>2. /\ OnlyAt(gr, h, c) /\ BodyOf(h, c) = Append(BodyOf(gr, c), Op(q))
      /\ \A b \in Blocks \ {c} : BodyOf(h, b) = BodyOf(gr, b)
  BY DEF Extended
<1>3. \A b \in Blocks : BodyOf(gr, b) \in Seq(Insts)
  BY BodyTypes
<1>4. /\ D2 \in [Blocks -> Nat]
      /\ \A b \in Blocks : D2[b] = IF D[b] = Hole(c) THEN q ELSE D[b]
  BY <1>0, <1>1, MovedType
<1>5. /\ BodyOf(h, c) # <<>> /\ Len(BodyOf(h, c)) = Len(BodyOf(gr, c)) + 1
      /\ Len(BodyOf(gr, c)) \in Nat
      /\ \A i \in 1 .. Len(BodyOf(gr, c)) : BodyOf(h, c)[i] = BodyOf(gr, c)[i]
      /\ BodyOf(h, c)[Len(BodyOf(gr, c)) + 1].value = q
  <2>1. q \in Values
    BY <1>0, TranslatorAssumption DEF Points, EXIT
  <2>2. Op(q) \in Insts /\ Op(q).value = q
    BY <2>1, InstTypes DEF Op
  <2> QED BY <1>2, <1>3, <2>2, AppendProperties
<1> HIDE DEF D2, q
<1>6. Labelled(h, D2)
  <2>1. ASSUME NEW b \in Blocks, BodyOf(h, b) # <<>>
        PROVE  D2[b] = BodyOf(h, b)[1].value
    <3>1. CASE BodyOf(gr, b) # <<>>
      <4>1. D[b] = BodyOf(gr, b)[1].value /\ 1 \in 1 .. Len(BodyOf(gr, b))
        BY <1>1, <1>3, <3>1 DEF Labelled
      <4>2. D[b] <= pts /\ D[b] # Hole(c)
        BY <1>0, <1>1, <4>1, HoleLabels, TranslatorAssumption DEF Written, EXIT
      <4>3. BodyOf(h, b)[1] = BodyOf(gr, b)[1]
        BY <1>2, <1>5, <4>1
      <4> QED BY <1>4, <4>1, <4>2, <4>3
    <3>2. CASE BodyOf(gr, b) = <<>>
      <4>1. b = c
        BY <1>2, <2>1, <3>2
      <4>2. D[c] = Hole(c)
        BY <1>1, <3>2, <4>1, EmptyLabel
      <4>3. Len(BodyOf(gr, c)) = 0
        BY <3>2, <4>1
      <4> QED BY <1>4, <1>5, <4>1, <4>2, <4>3
    <3> QED BY <3>1, <3>2
  <2>2. ASSUME NEW b \in Blocks, BodyOf(h, b) = <<>>
        PROVE  h.branchElse[b] = NULL /\ Goes(h, D2, b, "any", D2[b])
    <3>1. b # c /\ BodyOf(gr, b) = <<>>
      BY <1>2, <1>5, <2>2
    <3>2. gr.branchElse[b] = NULL /\ Goes(gr, D, b, "any", D[b])
      BY <1>1, <3>1 DEF Labelled
    <3>3. h.branchElse[b] = NULL
      BY <1>2, <3>1, <3>2 DEF OnlyAt
    <3>4. MovedLabel(D2[b], D[b], Hole(c), q)
      BY <1>4 DEF MovedLabel
    <3>5. Goes(h, D2, b, "any", D2[b])
      BY <1>0, <1>1, <1>2, <3>1, <3>2, <3>4, GoesMoved DEF D2
    <3> QED BY <3>3, <3>5
  <2> QED BY <1>4, <2>1, <2>2 DEF Labelled
<1>7. NoTrap(h, D2)
  <2>1. ASSUME NEW T \in SUBSET Blocks, Trap(h, T), NEW b \in T
        PROVE  D2[b] = 0
    <3>1. c \notin T
      BY <1>5, <2>1 DEF Trap
    <3>2. Trap(gr, T)
      BY <1>2, <2>1, <3>1 DEF Trap, OnlyAt
    <3>3. D[b] = 0
      BY <1>1, <3>2 DEF NoTrap
    <3> QED BY <1>0, <1>4, <3>3
  <2> QED BY <2>1 DEF NoTrap
<1>8. Written(h, q)
  <2>1. ASSUME NEW b \in Blocks, NEW i \in 1 .. Len(BodyOf(h, b))
        PROVE  BodyOf(h, b)[i].value \in 1 .. q
    <3>1. CASE b # c
      BY <1>1, <1>2, <3>1 DEF Written, q
    <3>2. CASE b = c /\ i <= Len(BodyOf(gr, c))
      <4>1. i \in 1 .. Len(BodyOf(gr, c)) /\ BodyOf(h, b)[i] = BodyOf(gr, c)[i]
        BY <1>5, <3>2
      <4> QED BY <1>1, <4>1 DEF Written, q
    <3>3. CASE b = c /\ i = Len(BodyOf(gr, c)) + 1
      BY <1>0, <1>5, <3>3
    <3> QED BY <1>5, <3>1, <3>2, <3>3
  <2>2. ASSUME NEW b \in Blocks, NEW p, Holding(h, b, p)
        PROVE  (p # q /\ Holding(gr, b, p)) \/ (p = q /\ b = c)
    <3>1. PICK i \in 1 .. Len(BodyOf(h, b)) : BodyOf(h, b)[i].value = p
      BY <2>2 DEF Holding
    <3>2. CASE b = c /\ i = Len(BodyOf(gr, c)) + 1
      BY <1>5, <3>1, <3>2
    <3>3. CASE b # c \/ i <= Len(BodyOf(gr, c))
      <4>1. i \in 1 .. Len(BodyOf(gr, b)) /\ BodyOf(gr, b)[i].value = p
        BY <1>2, <1>5, <3>1, <3>3
      <4>2. p \in 1 .. pts
        BY <1>1, <4>1 DEF Written
      <4> QED BY <4>1, <4>2 DEF Holding, q
    <3> QED BY <1>5, <3>1, <3>2, <3>3
  <2>3. \A p : \A a, b \in Blocks : Holding(h, a, p) /\ Holding(h, b, p) => a = b
    BY <1>1, <2>2 DEF Written
  <2> QED BY <2>1, <2>3 DEF Written
<1> QED BY <1>6, <1>7, <1>8 DEF Traced, D2, q

\* What met c meets q, and from q control goes on as it leaves c.
LEMMA PointEdges ==
  ASSUME NEW gr, Good(gr, Blocks), NEW h, NEW c \in Blocks, gr.branch[c] = NULL,
         NEW pts \in Nat, pts < MaxPoints, NEW D, Traced(gr, pts, D),
         Extended(gr, h, c, pts + 1), NEW e \in Blocks, NEW p, NEW o, NEW l
  PROVE  LET q  == pts + 1
             D2 == Moved(D, Hole(c), q)
         IN  Edge(h, D2, e, p, o, l)
               <=> \/ \E l0 : Edge(gr, D, e, p, o, l0) /\ MovedLabel(l, l0, Hole(c), q)
                   \/ p = q /\ Goes(h, D2, c, o, l)
<1> DEFINE q  == pts + 1
           D2 == Moved(D, Hole(c), q)
<1>0. gr \in Graphs /\ q \in Nat /\ q < EXIT /\ q # 0 /\ Hole(c) > EXIT
      /\ Hole(c) \in Nat
  BY HoleLabels, TranslatorAssumption DEF Good, Edges, EXIT
<1>1. /\ Labelled(gr, D) /\ Written(gr, pts) /\ D \in [Blocks -> Nat]
  BY DEF Traced, Labelled
<1>2. /\ OnlyAt(gr, h, c) /\ BodyOf(h, c) = Append(BodyOf(gr, c), Op(q))
      /\ \A b \in Blocks \ {c} : BodyOf(h, b) = BodyOf(gr, b)
  BY DEF Extended
<1>3. \A b \in Blocks : BodyOf(gr, b) \in Seq(Insts)
  BY BodyTypes
<1>4. /\ D2 \in [Blocks -> Nat]
      /\ \A b \in Blocks : D2[b] = IF D[b] = Hole(c) THEN q ELSE D[b]
  BY <1>0, <1>1, MovedType
<1> DEFINE s == BodyOf(gr, c)
           n == Len(s)
<1>5. /\ BodyOf(h, c) # <<>> /\ Len(BodyOf(h, c)) = n + 1 /\ n \in Nat
      /\ \A i \in 1 .. n : BodyOf(h, c)[i] = s[i]
      /\ BodyOf(h, c)[n + 1].value = q /\ LastOf(BodyOf(h, c)).value = q
      /\ s # <<>> => n # 0 /\ LastOf(s) = s[n]
  <2>1. q \in Values
    BY <1>0, TranslatorAssumption DEF Points, EXIT
  <2>2. Op(q) \in Insts /\ Op(q).value = q
    BY <2>1, InstTypes DEF Op
  <2> QED BY <1>2, <1>3, <2>2, AppendProperties DEF LastOf
<1>6. \A b \in Blocks : \A i \in 1 .. Len(BodyOf(gr, b)) :
        BodyOf(gr, b)[i].value \in 1 .. pts /\ BodyOf(gr, b)[i].value # Hole(c)
  BY <1>0, <1>1, TranslatorAssumption DEF Written, EXIT
<1>7. \A o1, l1 : Goes(gr, D, c, o1, l1) <=> o1 = "any" /\ l1 = Hole(c)
  BY CfgAssumption DEF Goes
<1>8. \A b \in Blocks \ {c} : \A o1, l1 :
         Goes(h, D2, b, o1, l1)
           <=> \E l0 : Goes(gr, D, b, o1, l0) /\ MovedLabel(l1, l0, Hole(c), q)
  BY <1>0, <1>1, <1>2, GoesMoved
<1> DEFINE old == \E l0 : Edge(gr, D, e, p, o, l0) /\ MovedLabel(l, l0, Hole(c), q)
<1> HIDE DEF D2, q, s, n
<1>9. ASSUME Edge(h, D2, e, p, o, l)
      PROVE  old \/ (p = q /\ Goes(h, D2, c, o, l))
  <2>1. CASE p = START /\ o = "any" /\ l = D2[e]
    <3>1. Edge(gr, D, e, p, o, D[e]) /\ MovedLabel(l, D[e], Hole(c), q)
      BY <1>4, <2>1 DEF Edge, MovedLabel
    <3> QED BY <3>1
  <2>2. ASSUME NEW b \in Blocks, NEW i \in 1 .. Len(BodyOf(h, b)) - 1,
               p = BodyOf(h, b)[i].value, o = "any", l = BodyOf(h, b)[i + 1].value
        PROVE  old
    <3>1. CASE b # c \/ i < n
      <4>1. i \in 1 .. Len(BodyOf(gr, b)) - 1 /\ i + 1 \in 1 .. Len(BodyOf(gr, b))
            /\ BodyOf(h, b)[i] = BodyOf(gr, b)[i] /\ BodyOf(h, b)[i + 1] = BodyOf(gr, b)[i + 1]
        <5>1. CASE b # c
          <6>1. BodyOf(h, b) = BodyOf(gr, b) /\ Len(BodyOf(gr, b)) \in Nat
            BY <1>2, <1>3, <5>1
          <6> QED BY <6>1
        <5>2. CASE b = c /\ i < n
          BY <1>5, <5>2 DEF s, n
        <5> QED BY <3>1, <5>1, <5>2
      <4>2. Edge(gr, D, e, p, o, l)
        BY <2>2, <4>1 DEF Edge
      <4>3. MovedLabel(l, l, Hole(c), q)
        BY <1>6, <2>2, <4>1 DEF MovedLabel
      <4> QED BY <4>2, <4>3
    <3>2. CASE b = c /\ i >= n
      <4>1. i = n /\ n \in 1 .. n /\ s # <<>>
        BY <1>5, <3>2 DEF s, n
      <4>2. p = LastOf(s).value /\ l = q
        BY <1>5, <2>2, <3>2, <4>1
      <4>3. Edge(gr, D, e, p, o, Hole(c))
        BY <1>7, <2>2, <4>1, <4>2 DEF Edge, s
      <4> QED BY <4>2, <4>3 DEF MovedLabel
    <3> QED BY <1>5, <2>2, <3>1, <3>2 DEF n
  <2>3. ASSUME NEW b \in Blocks, BodyOf(h, b) # <<>>, p = LastOf(BodyOf(h, b)).value,
               Goes(h, D2, b, o, l)
        PROVE  old \/ (p = q /\ Goes(h, D2, c, o, l))
    <3>1. CASE b = c
      BY <1>5, <2>3, <3>1
    <3>2. CASE b # c
      <4>1. PICK l0 : Goes(gr, D, b, o, l0) /\ MovedLabel(l, l0, Hole(c), q)
        BY <1>8, <2>3, <3>2
      <4>2. Edge(gr, D, e, p, o, l0)
        BY <1>2, <2>3, <3>2, <4>1 DEF Edge
      <4> QED BY <4>1, <4>2
    <3> QED BY <3>1, <3>2
  <2> HIDE DEF old
  <2> QED BY <1>9, <2>1, <2>2, <2>3 DEF Edge
<1>10. ASSUME NEW l0, Edge(gr, D, e, p, o, l0), MovedLabel(l, l0, Hole(c), q)
       PROVE  Edge(h, D2, e, p, o, l)
  <2>1. CASE p = START /\ o = "any" /\ l0 = D[e]
    <3>1. l = D2[e]
      BY <1>4, <1>10, <2>1 DEF MovedLabel
    <3> QED BY <2>1, <3>1 DEF Edge
  <2>2. ASSUME NEW b \in Blocks, NEW i \in 1 .. Len(BodyOf(gr, b)) - 1,
               p = BodyOf(gr, b)[i].value, o = "any", l0 = BodyOf(gr, b)[i + 1].value
        PROVE  Edge(h, D2, e, p, o, l)
    <3>0. Len(BodyOf(gr, b)) \in Nat
      BY <1>3
    <3>1. i + 1 \in 1 .. Len(BodyOf(gr, b)) /\ i \in 1 .. Len(BodyOf(gr, b))
      BY <3>0
    <3>2. l = l0
      BY <1>6, <1>10, <2>2, <3>1 DEF MovedLabel
    <3>3. /\ i \in 1 .. Len(BodyOf(h, b)) - 1
          /\ BodyOf(h, b)[i] = BodyOf(gr, b)[i] /\ BodyOf(h, b)[i + 1] = BodyOf(gr, b)[i + 1]
      <4>1. CASE b # c
        BY <1>2, <4>1
      <4>2. CASE b = c
        BY <1>5, <3>1, <4>2 DEF s, n
      <4> QED BY <4>1, <4>2
    <3> QED BY <2>2, <3>2, <3>3 DEF Edge
  <2>3. ASSUME NEW b \in Blocks, BodyOf(gr, b) # <<>>, p = LastOf(BodyOf(gr, b)).value,
               Goes(gr, D, b, o, l0)
        PROVE  Edge(h, D2, e, p, o, l)
    <3>1. CASE b = c
      <4>1. o = "any" /\ l = q
        BY <1>7, <1>10, <2>3, <3>1 DEF MovedLabel
      <4>2. n \in 1 .. Len(BodyOf(h, c)) - 1 /\ p = s[n].value
        BY <1>5, <2>3, <3>1 DEF s
      <4>3. BodyOf(h, c)[n] = s[n]
        BY <1>5, <4>2
      <4> QED BY <1>5, <4>1, <4>2, <4>3 DEF Edge
    <3>2. CASE b # c
      <4>1. Goes(h, D2, b, o, l)
        BY <1>8, <1>10, <2>3, <3>2
      <4> QED BY <1>2, <2>3, <3>2, <4>1 DEF Edge
    <3> QED BY <3>1, <3>2
  <2> QED BY <1>10, <2>1, <2>2, <2>3 DEF Edge
<1>11. ASSUME p = q, Goes(h, D2, c, o, l)
       PROVE  Edge(h, D2, e, p, o, l)
  BY <1>5, <1>11 DEF Edge
<1> QED BY <1>9, <1>10, <1>11 DEF D2, q

\* Where a jump from the open block c to the block to lands: nowhere, when it closes
\* a circle of empty blocks.
Landing(D, c, to) == IF to = TERMINAL THEN EXIT ELSE IF D[to] = Hole(c) THEN 0 ELSE D[to]

\* What a jump does to the way out of each block.
LEMMA JumpGoes ==
  ASSUME NEW gr, Good(gr, Blocks), NEW h, NEW c \in Blocks, gr.branch[c] = NULL,
         NEW D \in [Blocks -> Nat], NEW to \in Blocks \cup {TERMINAL}, Jumped(gr, h, c, to)
  PROVE  LET t  == Landing(D, c, to)
             D2 == Moved(D, Hole(c), t)
         IN  /\ t \in Nat /\ D2 \in [Blocks -> Nat]
             /\ \A b \in Blocks : D2[b] = IF D[b] = Hole(c) THEN t ELSE D[b]
             /\ \A b \in Blocks : \A o, l :
                  Goes(h, D2, b, o, l)
                    <=> \E l0 : Goes(gr, D, b, o, l0) /\ MovedLabel(l, l0, Hole(c), t)
<1> DEFINE t  == Landing(D, c, to)
           D2 == Moved(D, Hole(c), t)
<1>0. gr \in Graphs /\ TERMINAL \notin Blocks /\ TERMINAL # NULL /\ NULL \notin Blocks
  BY CfgAssumption DEF Good, Edges
<1>1. t \in Nat
  BY HoleLabels DEF Landing
<1>2. D2 \in [Blocks -> Nat] /\ \A b \in Blocks : D2[b] = IF D[b] = Hole(c) THEN t ELSE D[b]
  BY <1>1, MovedType
<1>3. ASSUME NEW b \in Blocks \ {c}, NEW o, NEW l
      PROVE  Goes(h, D2, b, o, l)
                    <=> \E l0 : Goes(gr, D, b, o, l0) /\ MovedLabel(l, l0, Hole(c), t)
  <2>1. OnlyAt(gr, h, c)
    BY DEF Jumped, Rewired
  <2> HIDE DEF t
  <2> QED BY <1>0, <2>1, GoesMoved
<1>4. ASSUME NEW o, NEW l
      PROVE  Goes(h, D2, c, o, l)
                    <=> \E l0 : Goes(gr, D, c, o, l0) /\ MovedLabel(l, l0, Hole(c), t)
  <2>1. h.branch[c] = to /\ h.branchElse[c] = NULL
    BY DEF Jumped, Rewired
  <2>2. \A l0 : Goes(gr, D, c, o, l0) <=> o = "any" /\ l0 = Hole(c)
    BY <1>0 DEF Goes
  <2>3. Goes(h, D2, c, o, l) <=> o = "any" /\ l = t
    <3>1. CASE to = TERMINAL
      BY <1>0, <2>1, <3>1 DEF Goes, Landing
    <3>2. CASE to \in Blocks
      <4>1. D2[to] = t
        <5>1. to # TERMINAL
          BY <1>0, <3>2
        <5> HIDE DEF D2
        <5> QED BY <1>2, <3>2, <5>1 DEF Landing
      <4> HIDE DEF D2, t
      <4>2. Goes(h, D2, c, o, l) <=> o = "any" /\ l = D2[to]
        BY <1>0, <2>1, <3>2 DEF Goes
      <4> QED BY <4>1, <4>2
    <3> QED BY <3>1, <3>2
  <2> HIDE DEF D2, t
  <2> QED BY <2>2, <2>3 DEF MovedLabel
<1> QED BY <1>1, <1>2, <1>3, <1>4

\* Empty blocks that jump to each other, where c may jump anywhere.
Circle(gr, T, c) == \A x \in T : BodyOf(gr, x) = <<>> /\ (x # c => gr.branch[x] \in T)

\* Only nowhere is met in such a circle, and what c meets.
LEMMA TrapLabels ==
  ASSUME NEW gr, Good(gr, Blocks), NEW D, Labelled(gr, D), NoTrap(gr, D), NEW T \in SUBSET Blocks,
         NEW c, Circle(gr, T, c), NEW b \in T, c \in T => D[c] # D[b]
  PROVE  D[b] = 0
<1> DEFINE v == D[b]
           U == {x \in T : D[x] = v}
<1> HIDE DEF v
<1>0. \A x \in T : BodyOf(gr, x) = <<>> /\ (x # c => gr.branch[x] \in T)
  BY DEF Circle
<1>1. ASSUME NEW x \in U
      PROVE  BodyOf(gr, x) = <<>> /\ gr.branch[x] \in U
  <2>1. x \in Blocks /\ x # c /\ BodyOf(gr, x) = <<>> /\ gr.branch[x] \in T /\ D[x] = v
    BY <1>0 DEF v
  <2>2. gr.branchElse[x] = NULL /\ Goes(gr, D, x, "any", D[x]) /\ gr.branch[x] \in Blocks
    BY <2>1 DEF Labelled
  <2>3. D[gr.branch[x]] = D[x]
    BY <2>2, CfgAssumption DEF Goes
  <2> QED BY <2>1, <2>3
<1>2. Trap(gr, U) /\ U \in SUBSET Blocks /\ b \in U
  BY <1>1 DEF Trap, v
<1> QED BY <1>2 DEF NoTrap

\* The labels after a jump.
LEMMA JumpTraced ==
  ASSUME NEW gr, Good(gr, Blocks), NEW h, NEW c \in Blocks, gr.branch[c] = NULL,
         NEW pts \in 0 .. MaxPoints, NEW D, Traced(gr, pts, D),
         NEW to \in Blocks \cup {TERMINAL}, Jumped(gr, h, c, to)
  PROVE  Traced(h, pts, Moved(D, Hole(c), Landing(D, c, to)))
<1> DEFINE t  == Landing(D, c, to)
           D2 == Moved(D, Hole(c), t)
<1>0. Hole(c) > EXIT /\ Hole(c) # 0 /\ EXIT \in Nat /\ Hole(c) \in Nat /\ MaxPoints \in Nat
  BY HoleLabels, TranslatorAssumption
<1>1. /\ Labelled(gr, D) /\ NoTrap(gr, D) /\ Written(gr, pts) /\ D \in [Blocks -> Nat]
  BY DEF Traced, Labelled
<1>2. /\ OnlyAt(gr, h, c) /\ h.branch[c] = to /\ h.branchElse[c] = NULL
      /\ \A b \in Blocks : BodyOf(h, b) = BodyOf(gr, b) /\ BodyOf(gr, b) \in Seq(Insts)
  BY BodyTypes DEF Jumped, Rewired
<1>3. /\ t \in Nat /\ D2 \in [Blocks -> Nat]
      /\ \A b \in Blocks : D2[b] = IF D[b] = Hole(c) THEN t ELSE D[b]
      /\ \A b \in Blocks : \A o, l :
            Goes(h, D2, b, o, l)
              <=> \E l0 : Goes(gr, D, b, o, l0) /\ MovedLabel(l, l0, Hole(c), t)
  BY <1>1, JumpGoes
<1>4. t = IF to = TERMINAL THEN EXIT ELSE IF D[to] = Hole(c) THEN 0 ELSE D[to]
  BY DEF Landing
<1> HIDE DEF D2, t
<1>5. Labelled(h, D2)
  <2>1. ASSUME NEW b \in Blocks, BodyOf(h, b) # <<>>
        PROVE  D2[b] = BodyOf(h, b)[1].value
    <3>1. D[b] = BodyOf(gr, b)[1].value /\ 1 \in 1 .. Len(BodyOf(gr, b))
      BY <1>1, <1>2, <2>1 DEF Labelled
    <3>2. D[b] # Hole(c)
      BY <1>0, <1>1, <3>1 DEF Written, EXIT
    <3> QED BY <1>2, <1>3, <3>1, <3>2
  <2>2. ASSUME NEW b \in Blocks, BodyOf(h, b) = <<>>
        PROVE  h.branchElse[b] = NULL /\ Goes(h, D2, b, "any", D2[b])
    <3>1. gr.branchElse[b] = NULL /\ Goes(gr, D, b, "any", D[b])
      BY <1>1, <1>2, <2>2 DEF Labelled
    <3>2. MovedLabel(D2[b], D[b], Hole(c), t)
      BY <1>3 DEF MovedLabel
    <3>3. h.branchElse[b] = NULL
      BY <1>2, <3>1 DEF OnlyAt
    <3> QED BY <1>3, <3>1, <3>2, <3>3
  <2> QED BY <1>3, <2>1, <2>2 DEF Labelled
<1>6. NoTrap(h, D2)
  <2>1. ASSUME NEW T \in SUBSET Blocks, Trap(h, T), NEW b \in T
        PROVE  D2[b] = 0
    <3>1. Circle(gr, T, c) /\ \A x \in T : BodyOf(gr, x) = <<>>
      BY <1>2, <2>1 DEF Trap, OnlyAt, Circle
    <3>2. ASSUME c \in T
          PROVE  D[c] = Hole(c) /\ to \in T /\ to # TERMINAL
      <4>1. to \in T
        BY <1>2, <2>1, <3>2 DEF Trap
      <4>2. D[c] = Hole(c)
        BY <1>1, <3>1, <3>2, EmptyLabel
      <4> QED BY <4>1, <4>2, CfgAssumption
    <3>3. c \in T => t = 0
      <4>1. SUFFICES ASSUME c \in T, D[to] # Hole(c)
                     PROVE  t = 0
        BY <1>4, <3>2
      <4>2. t = D[to] /\ to \in T /\ D[c] # D[to]
        BY <1>4, <3>2, <4>1
      <4>3. ASSUME NEW a \in T, D[c] # D[a]
            PROVE  D[a] = 0
        <5>1. c \in T => D[c] # D[a]
          BY <4>3
        <5> QED BY <1>1, <2>1, <3>1, <5>1, TrapLabels
      <4> QED BY <4>2, <4>3
    <3>4. CASE D[b] = Hole(c)
      <4>1. c \in T
        <5>1. SUFFICES ASSUME c \notin T
                       PROVE  FALSE
          OBVIOUS
        <5>2. D[b] = 0
          BY <1>1, <2>1, <3>1, <5>1, TrapLabels
        <5> QED BY <1>0, <3>4, <5>2
      <4> QED BY <1>3, <3>3, <3>4, <4>1
    <3>5. CASE D[b] # Hole(c)
      <4>1. c \in T => D[c] # D[b]
        BY <3>2, <3>5
      <4>2. D[b] = 0
        BY <1>1, <2>1, <3>1, <4>1, TrapLabels
      <4> QED BY <1>3, <3>5, <4>2
    <3> QED BY <3>4, <3>5
  <2> QED BY <2>1 DEF NoTrap
<1>7. Written(h, pts)
  BY <1>1, <1>2 DEF Written, Holding
<1> QED BY <1>5, <1>6, <1>7 DEF Traced, D2, t

\* What met c meets the landing.
LEMMA JumpLabels ==
  ASSUME NEW gr, Good(gr, Blocks), NEW h, NEW c \in Blocks, gr.branch[c] = NULL,
         NEW pts \in 0 .. MaxPoints, NEW D, Traced(gr, pts, D),
         NEW to \in Blocks \cup {TERMINAL}, Jumped(gr, h, c, to),
         NEW e \in Blocks, NEW p, NEW o, NEW l
  PROVE  LET t == Landing(D, c, to)
         IN  Edge(h, Moved(D, Hole(c), t), e, p, o, l)
               <=> \E l0 : Edge(gr, D, e, p, o, l0) /\ MovedLabel(l, l0, Hole(c), t)
<1> DEFINE t  == Landing(D, c, to)
           D2 == Moved(D, Hole(c), t)
<1>0. Hole(c) > EXIT /\ EXIT \in Nat /\ MaxPoints \in Nat /\ Hole(c) \in Nat
  BY HoleLabels, TranslatorAssumption
<1>1. D \in [Blocks -> Nat] /\ Written(gr, pts)
  BY DEF Traced, Labelled
<1>2. \A b \in Blocks : BodyOf(h, b) = BodyOf(gr, b) /\ BodyOf(gr, b) \in Seq(Insts)
  BY BodyTypes DEF Jumped
<1>3. /\ t \in Nat /\ D2 \in [Blocks -> Nat]
      /\ \A b \in Blocks : D2[b] = IF D[b] = Hole(c) THEN t ELSE D[b]
      /\ \A b \in Blocks : \A o1, l1 :
            Goes(h, D2, b, o1, l1)
              <=> \E l0 : Goes(gr, D, b, o1, l0) /\ MovedLabel(l1, l0, Hole(c), t)
  BY <1>1, JumpGoes
<1> HIDE DEF D2, t
<1>4. ASSUME NEW b \in Blocks, NEW i \in 1 .. Len(BodyOf(gr, b)) - 1
      PROVE  \A l1 : MovedLabel(l1, BodyOf(gr, b)[i + 1].value, Hole(c), t)
                       <=> l1 = BodyOf(gr, b)[i + 1].value
  <2>1. i + 1 \in 1 .. Len(BodyOf(gr, b))
    BY <1>2
  <2>2. BodyOf(gr, b)[i + 1].value \in 1 .. pts
    BY <1>1, <2>1 DEF Written
  <2>3. BodyOf(gr, b)[i + 1].value # Hole(c)
    BY <1>0, <2>2 DEF EXIT
  <2> QED BY <2>3 DEF MovedLabel
<1>5. ASSUME Edge(h, D2, e, p, o, l)
      PROVE  \E l0 : Edge(gr, D, e, p, o, l0) /\ MovedLabel(l, l0, Hole(c), t)
  <2>1. CASE p = START /\ o = "any" /\ l = D2[e]
    <3>1. Edge(gr, D, e, p, o, D[e]) /\ MovedLabel(l, D[e], Hole(c), t)
      BY <1>3, <2>1 DEF Edge, MovedLabel
    <3> QED BY <3>1
  <2>2. ASSUME NEW b \in Blocks, NEW i \in 1 .. Len(BodyOf(gr, b)) - 1,
               p = BodyOf(gr, b)[i].value, o = "any", l = BodyOf(gr, b)[i + 1].value
        PROVE  Edge(gr, D, e, p, o, l) /\ MovedLabel(l, l, Hole(c), t)
    BY <1>4, <2>2 DEF Edge
  <2>3. ASSUME NEW b \in Blocks, BodyOf(gr, b) # <<>>, p = LastOf(BodyOf(gr, b)).value,
               Goes(h, D2, b, o, l)
        PROVE  \E l0 : Edge(gr, D, e, p, o, l0) /\ MovedLabel(l, l0, Hole(c), t)
    <3>1. PICK l0 : Goes(gr, D, b, o, l0) /\ MovedLabel(l, l0, Hole(c), t)
      BY <1>3, <2>3
    <3> QED BY <2>3, <3>1 DEF Edge
  <2>4. \/ p = START /\ o = "any" /\ l = D2[e]
        \/ \E b \in Blocks : \E i \in 1 .. Len(BodyOf(gr, b)) - 1 :
              p = BodyOf(gr, b)[i].value /\ o = "any" /\ l = BodyOf(gr, b)[i + 1].value
        \/ \E b \in Blocks : /\ BodyOf(gr, b) # <<>>
                             /\ p = LastOf(BodyOf(gr, b)).value /\ Goes(h, D2, b, o, l)
    BY <1>2, <1>5 DEF Edge
  <2> QED BY <2>1, <2>2, <2>3, <2>4
<1>6. ASSUME NEW l0, Edge(gr, D, e, p, o, l0), MovedLabel(l, l0, Hole(c), t)
      PROVE  Edge(h, D2, e, p, o, l)
  <2>1. CASE p = START /\ o = "any" /\ l0 = D[e]
    <3>1. l = D2[e]
      BY <1>3, <1>6, <2>1 DEF MovedLabel
    <3> QED BY <2>1, <3>1 DEF Edge
  <2>2. ASSUME NEW b \in Blocks, NEW i \in 1 .. Len(BodyOf(gr, b)) - 1,
               p = BodyOf(gr, b)[i].value, o = "any", l0 = BodyOf(gr, b)[i + 1].value
        PROVE  Edge(h, D2, e, p, o, l)
    <3>1. l = l0
      BY <1>4, <1>6, <2>2
    <3> QED BY <1>2, <2>2, <3>1 DEF Edge
  <2>3. ASSUME NEW b \in Blocks, BodyOf(gr, b) # <<>>, p = LastOf(BodyOf(gr, b)).value,
               Goes(gr, D, b, o, l0)
        PROVE  Edge(h, D2, e, p, o, l)
    <3>1. Goes(h, D2, b, o, l)
      BY <1>3, <1>6, <2>3
    <3> QED BY <1>2, <2>3, <3>1 DEF Edge
  <2> QED BY <1>6, <2>1, <2>2, <2>3 DEF Edge
<1> QED BY <1>5, <1>6 DEF D2, t

\* The source: after the point p and the outcome o comes l.  What is loose comes to
\* the current block, what a handler keeps comes to its exit, or to the body of an if
\* with an else.
OwesAt(f, p, o, l) == \/ <<p, o>> \in f.atExit /\ l = Hole(f.exit)
                      \/ f.kind = "else" /\ <<p, o>> \in f.atBody /\ l = Hole(f.body)
Owes(fs, p, o, l)  == \E i \in 1 .. Len(fs) : OwesAt(fs[i], p, o, l)
Comes(more, lo, cur, fs, p, o, l) == \/ <<p, o, l>> \in more
                                     \/ <<p, o>> \in lo /\ l = Hole(cur)
                                     \/ Owes(fs, p, o, l)

\* For the points of V the code and the source say the same.
Agree(V, gr, D, e, fl, lo, cur, fs) ==
  \A p \in V, l \in Nat \ {0} : \A o : Edge(gr, D, e, p, o, l) <=> Comes(fl, lo, cur, fs, p, o, l)

\* A point of V flows to what is translated now, or is kept by a handler above the ith.
Fed(V, from)   == \E p \in V : \E o : <<p, o>> \in from
FedAt(V, f)    == Fed(V, f.atExit) \/ (f.kind = "else" /\ Fed(V, f.atBody))
FedIn(V, lo, fs, i) == Fed(V, lo) \/ \E j \in i + 1 .. Len(fs) : FedAt(V, fs[j])

\* The start of a loop meets its first point; or the current block, when there is no
\* point yet; or the loop cannot be reached any more.
HeadKnown(V, D, pts, lo, cur, fs, i) ==
  \/ ~ FedIn(V, lo, fs, i)
  \/ fs[i].first <= pts /\ fs[i].first \in V /\ D[fs[i].head] = fs[i].first
  \/ fs[i].first = pts + 1 /\ D[fs[i].head] = Hole(cur)
Heads(V, D, pts, lo, cur, fs) ==
  \A i \in 1 .. Len(fs) : fs[i].kind \in LoopKinds => HeadKnown(V, D, pts, lo, cur, fs, i)

\* A loop without a point yet holds only loops without a point, and nothing has left one.
YoungAt(pts, f) == /\ f.first = pts + 1 /\ f.kind \in LoopKinds \ {"while"}
                   /\ f.atExit = {} /\ f.atBody = {}
Young(pts, fs) == \A i \in 1 .. Len(fs) :
                     /\ fs[i].first \in Nat /\ fs[i].first <= pts + 1
                     /\ fs[i].first = pts + 1 => \A j \in i .. Len(fs) : YoungAt(pts, fs[j])
\* Nothing has left a statement whose condition or first part is not translated.
BareKinds == {"else", "do", "doCond", "whileCond", "forCond"}
Bare(fs)  == \A i \in 1 .. Len(fs) : fs[i].kind \in BareKinds => fs[i].atExit = {}

\* Flow starts at points there are, and V is closed under it.
Below(pts, from)   == \A p, o : <<p, o>> \in from => p \in Nat /\ p <= pts
Numbered(V, pts, fl, lo, fs) ==
  /\ V \subseteq 0 .. pts \cup {EXIT} /\ START \in V /\ EXIT \in V
  /\ \A p, o, l : <<p, o, l>> \in fl => p \in Nat /\ p <= pts /\ (p \in V => l \in V)
  /\ Below(pts, lo)
  /\ \A i \in 1 .. Len(fs) : Below(pts, fs[i].atExit) /\ Below(pts, fs[i].atBody)

Meaning(D, V, gr, e, cur, fs, pts, fl, lo) ==
  /\ Traced(gr, pts, D)
  /\ Agree(V, gr, D, e, fl, lo, cur, fs)
  /\ Numbered(V, pts, fl, lo, fs)
  /\ Heads(V, D, pts, lo, cur, fs) /\ Young(pts, fs) /\ Bare(fs)

\* The handlers come back to blocks that are not current.
Apart(cur, fs) == \A i \in 1 .. Len(fs) :
                     /\ fs[i].exit \in Blocks \ {cur}
                     /\ fs[i].kind = "else" => fs[i].body \in Blocks \ {cur}
                     /\ fs[i].kind \in LoopKinds => fs[i].head \in Blocks

\* V with the point q, when flow of V comes to it.
Reaching(V, lo, q) == IF Fed(V, lo) THEN V \cup {q} ELSE V

\* Joining is pointwise.
LEMMA JoinIs ==
  ASSUME NEW from \in SUBSET Leaving, NEW q, NEW p, NEW o, NEW l
  PROVE  <<p, o, l>> \in Join(from, q) <=> <<p, o>> \in from /\ l = q
<1>1. \A x \in from : x = <<x[1], x[2]>>
  BY DEF Leaving
<1>2. ASSUME <<p, o, l>> \in Join(from, q)
      PROVE  <<p, o>> \in from /\ l = q
  <2>1. PICK x \in from : <<p, o, l>> = <<x[1], x[2], q>>
    BY <1>2 DEF Join
  <2>2. p = x[1] /\ o = x[2] /\ l = q
    BY <2>1
  <2> QED BY <1>1, <2>2
<1>3. ASSUME <<p, o>> \in from, l = q
      PROVE  <<p, o, l>> \in Join(from, q)
  BY <1>3 DEF Join
<1> QED BY <1>2, <1>3

\* Only what is loose comes to the current block.
LEMMA NoneToCurrent ==
  ASSUME NEW cur \in Blocks, NEW fs, Apart(cur, fs), NEW fl \in SUBSET Flows, NEW p, NEW o
  PROVE  ~ Owes(fs, p, o, Hole(cur)) /\ <<p, o, Hole(cur)>> \notin fl
<1>1. ~ Owes(fs, p, o, Hole(cur))
  BY HoleLabels DEF Apart, Owes, OwesAt
<1>2. <<p, o, Hole(cur)>> \notin fl
  <2>1. Hole(cur) \notin 1 .. MaxPoints + 1
    BY HoleLabels, TranslatorAssumption DEF EXIT
  <2>2. ASSUME <<p, o, Hole(cur)>> \in fl
        PROVE  FALSE
    <3>1. <<p, o, Hole(cur)>> \in Flows
      BY <2>2
    <3> QED BY <2>1, <3>1 DEF Flows
  <2> QED BY <2>2
<1> QED BY <1>1, <1>2

\* What comes elsewhere: all but what is loose.
LEMMA ComesElsewhere ==
  ASSUME NEW cur, NEW fs, NEW fl, NEW lo, NEW p, NEW o, NEW l, l # Hole(cur)
  PROVE  Comes(fl, lo, cur, fs, p, o, l) <=> <<p, o, l>> \in fl \/ Owes(fs, p, o, l)
BY DEF Comes

\* What a statement that evaluates q adds to the source is how control leaves cur after q.
Turns(V, q, fs, h, D2, cur, more, lo2, cur2, fs2) ==
  \A p, o, l : p \in V /\ l # 0 =>
    (Comes(more, lo2, cur2, fs2, p, o, l)
       <=> Owes(fs, p, o, l) \/ (p = q /\ Goes(h, D2, cur, o, l)))

\* The agreement after a step that evaluates the point q at the end of the current block.
LEMMA PointAgrees ==
  ASSUME NEW gr, Good(gr, Blocks), NEW h, NEW cur \in Blocks, gr.branch[cur] = NULL,
         NEW pts \in Nat, pts < MaxPoints, NEW D, NEW V, NEW e \in Blocks,
         NEW fs, NEW fl \in SUBSET Flows, NEW lo \in SUBSET Leaving,
         Meaning(D, V, gr, e, cur, fs, pts, fl, lo), Apart(cur, fs),
         Extended(gr, h, cur, pts + 1),
         NEW more, NEW lo2, NEW cur2, NEW fs2,
         Turns(Reaching(V, lo, pts + 1), pts + 1, fs, h, Moved(D, Hole(cur), pts + 1), cur,
               more, lo2, cur2, fs2)
  PROVE  Agree(Reaching(V, lo, pts + 1), h, Moved(D, Hole(cur), pts + 1), e,
               fl \cup Join(lo, pts + 1) \cup more, lo2, cur2, fs2)
<1> DEFINE q   == pts + 1
           D2  == Moved(D, Hole(cur), q)
           fl2 == fl \cup Join(lo, q) \cup more
           V2  == Reaching(V, lo, q)
<1>0. q \in Nat /\ q < EXIT /\ q # 0 /\ Hole(cur) \in Nat /\ Hole(cur) > EXIT /\ EXIT \in Nat
      /\ Hole(cur) # 0
  BY HoleLabels, TranslatorAssumption DEF EXIT
<1>1. /\ Traced(gr, pts, D) /\ Agree(V, gr, D, e, fl, lo, cur, fs)
      /\ Numbered(V, pts, fl, lo, fs)
  BY DEF Meaning
<1>2. q \notin V /\ (\A o, l : <<q, o, l>> \notin fl) /\ (\A o : <<q, o>> \notin lo)
  BY <1>0, <1>1 DEF Numbered, Below
<1>3. \A o, l : ~ Owes(fs, q, o, l)
  <2>1. \A i \in 1 .. Len(fs) : \A o : <<q, o>> \notin fs[i].atExit /\ <<q, o>> \notin fs[i].atBody
    BY <1>0, <1>1 DEF Numbered, Below
  <2> QED BY <2>1 DEF Owes, OwesAt
<1>4. \A o, l : ~ Edge(gr, D, e, q, o, l)
  <2>1. SUFFICES ASSUME NEW o, NEW l, Edge(gr, D, e, q, o, l)
                 PROVE  FALSE
    OBVIOUS
  <2>2. \A b \in Blocks : BodyOf(gr, b) \in Seq(Insts)
                          /\ \A i \in 1 .. Len(BodyOf(gr, b)) : BodyOf(gr, b)[i].value # q
    <3>1. \A b \in Blocks : BodyOf(gr, b) \in Seq(Insts)
      BY BodyTypes
    <3>2. \A b \in Blocks : \A i \in 1 .. Len(BodyOf(gr, b)) :
             BodyOf(gr, b)[i].value \in 1 .. pts
      BY <1>1 DEF Traced, Written
    <3>3. q \notin 1 .. pts
      OBVIOUS
    <3> QED BY <3>1, <3>2, <3>3
  <2>3. q # START
    BY <1>0 DEF START
  <2>4. PICK b \in Blocks : \/ \E i \in 1 .. Len(BodyOf(gr, b)) - 1 : q = BodyOf(gr, b)[i].value
                            \/ BodyOf(gr, b) # <<>> /\ q = LastOf(BodyOf(gr, b)).value
    BY <2>1, <2>3 DEF Edge
  <2>5. BodyOf(gr, b) # <<>> => LastOf(BodyOf(gr, b)).value # q
    <3>1. BodyOf(gr, b) # <<>> => Len(BodyOf(gr, b)) \in 1 .. Len(BodyOf(gr, b))
      BY <2>2
    <3> QED BY <2>2, <3>1 DEF LastOf
  <2>6. PICK i \in 1 .. Len(BodyOf(gr, b)) - 1 : q = BodyOf(gr, b)[i].value
    BY <2>4, <2>5
  <2>7. i \in 1 .. Len(BodyOf(gr, b))
    BY <2>2, <2>6
  <2> QED BY <2>2, <2>6, <2>7
<1>5. \A p, o, l : <<p, o, l>> \in fl2
                     <=> <<p, o, l>> \in fl \/ (<<p, o>> \in lo /\ l = q) \/ <<p, o, l>> \in more
  <2> SUFFICES ASSUME NEW p, NEW o, NEW l
               PROVE  <<p, o, l>> \in fl2
                     <=> \/ <<p, o, l>> \in fl \/ (<<p, o>> \in lo /\ l = q)
                         \/ <<p, o, l>> \in more
    OBVIOUS
  <2>1. <<p, o, l>> \in Join(lo, q) <=> <<p, o>> \in lo /\ l = q
    BY JoinIs
  <2> QED BY <2>1
<1>6. \A p, o, l : Edge(h, D2, e, p, o, l)
                     <=> \/ \E l0 : Edge(gr, D, e, p, o, l0) /\ MovedLabel(l, l0, Hole(cur), q)
                         \/ p = q /\ Goes(h, D2, cur, o, l)
  <2> SUFFICES ASSUME NEW p, NEW o, NEW l
               PROVE  Edge(h, D2, e, p, o, l)
                     <=> \/ \E l0 : Edge(gr, D, e, p, o, l0) /\ MovedLabel(l, l0, Hole(cur), q)
                         \/ p = q /\ Goes(h, D2, cur, o, l)
    OBVIOUS
  <2> QED BY <1>1, PointEdges
<1> HIDE DEF q, D2, fl2, V2
<1>7. \A p, o, l : p \in V2 /\ l # 0 =>
           (Comes(more, lo2, cur2, fs2, p, o, l)
             <=> Owes(fs, p, o, l) \/ (p = q /\ Goes(h, D2, cur, o, l)))
  BY DEF q, D2, V2, Turns
<1>10. V \subseteq V2 /\ V2 \subseteq V \cup {q}
  BY DEF Reaching, V2
<1>8. ASSUME NEW p \in V, NEW l \in Nat \ {0}, NEW o
      PROVE  Edge(h, D2, e, p, o, l) <=> Comes(fl2, lo2, cur2, fs2, p, o, l)
  <2>1. Edge(h, D2, e, p, o, l)
           <=> \E l0 : Edge(gr, D, e, p, o, l0) /\ MovedLabel(l, l0, Hole(cur), q)
    BY <1>2, <1>6
  <2>2. (\E l0 : Edge(gr, D, e, p, o, l0) /\ MovedLabel(l, l0, Hole(cur), q))
           <=> \/ l # Hole(cur) /\ Edge(gr, D, e, p, o, l)
               \/ l = q /\ Edge(gr, D, e, p, o, Hole(cur))
    BY DEF MovedLabel
  <2>3. Edge(gr, D, e, p, o, Hole(cur)) <=> <<p, o>> \in lo
    <3>1. Hole(cur) \in Nat \ {0}
      BY <1>0
    <3>2. Edge(gr, D, e, p, o, Hole(cur)) <=> Comes(fl, lo, cur, fs, p, o, Hole(cur))
      BY <1>1, <3>1 DEF Agree
    <3>3. ~ Owes(fs, p, o, Hole(cur)) /\ <<p, o, Hole(cur)>> \notin fl
      BY NoneToCurrent
    <3> QED BY <3>2, <3>3 DEF Comes
  <2>4. l # Hole(cur) =>
          (Edge(gr, D, e, p, o, l) <=> <<p, o, l>> \in fl \/ Owes(fs, p, o, l))
    BY <1>1, ComesElsewhere DEF Agree
  <2>5. l = Hole(cur) => <<p, o, l>> \notin fl /\ ~ Owes(fs, p, o, l)
    BY NoneToCurrent
  <2>6. Edge(h, D2, e, p, o, l)
           <=> <<p, o, l>> \in fl \/ Owes(fs, p, o, l) \/ (l = q /\ <<p, o>> \in lo)
    BY <2>1, <2>2, <2>3, <2>4, <2>5
  <2>7. Comes(more, lo2, cur2, fs2, p, o, l) <=> Owes(fs, p, o, l)
    BY <1>2, <1>7, <1>10
  <2>8. Comes(fl2, lo2, cur2, fs2, p, o, l)
          <=> <<p, o, l>> \in fl \/ (<<p, o>> \in lo /\ l = q)
              \/ Comes(more, lo2, cur2, fs2, p, o, l)
    BY <1>5 DEF Comes
  <2> QED BY <2>6, <2>7, <2>8
<1>9. ASSUME q \in V2, NEW l \in Nat \ {0}, NEW o
      PROVE  Edge(h, D2, e, q, o, l) <=> Comes(fl2, lo2, cur2, fs2, q, o, l)
  <2>1. Edge(h, D2, e, q, o, l) <=> Goes(h, D2, cur, o, l)
    BY <1>4, <1>6
  <2>2. Comes(more, lo2, cur2, fs2, q, o, l) <=> Goes(h, D2, cur, o, l)
    BY <1>3, <1>7, <1>9
  <2>3. Comes(fl2, lo2, cur2, fs2, q, o, l) <=> Comes(more, lo2, cur2, fs2, q, o, l)
    BY <1>2, <1>5 DEF Comes
  <2> QED BY <2>1, <2>2, <2>3
<1> QED BY <1>8, <1>9, <1>10 DEF Agree, q, D2, fl2, V2

\* What a statement that jumps adds to the source is that what is loose comes to t.
Leaps(V, fs, lo, t, more, lo2, cur2, fs2) ==
  \A p, o, l : p \in V /\ l # 0 =>
    (Comes(more, lo2, cur2, fs2, p, o, l) <=> Owes(fs, p, o, l) \/ (<<p, o>> \in lo /\ l = t))

\* The agreement after a jump at the end of the current block.
LEMMA JumpAgrees ==
  ASSUME NEW gr, Good(gr, Blocks), NEW h, NEW cur \in Blocks, gr.branch[cur] = NULL,
         NEW to \in Blocks \cup {TERMINAL},
         NEW pts \in 0 .. MaxPoints, NEW D, NEW V, NEW e \in Blocks,
         NEW fs, NEW fl \in SUBSET Flows, NEW lo \in SUBSET Leaving,
         Meaning(D, V, gr, e, cur, fs, pts, fl, lo), Apart(cur, fs),
         Jumped(gr, h, cur, to),
         NEW more, NEW lo2, NEW cur2, NEW fs2,
         Leaps(V, fs, lo, Landing(D, cur, to), more, lo2, cur2, fs2)
  PROVE  Agree(V, h, Moved(D, Hole(cur), Landing(D, cur, to)), e, fl \cup more, lo2, cur2, fs2)
<1> DEFINE t   == Landing(D, cur, to)
           D2  == Moved(D, Hole(cur), t)
           fl2 == fl \cup more
<1>0. Hole(cur) \in Nat \ {0}
  BY HoleLabels
<1>1. Traced(gr, pts, D) /\ Agree(V, gr, D, e, fl, lo, cur, fs)
  BY DEF Meaning
<1>2. ASSUME NEW p, NEW o, NEW l
      PROVE  Edge(h, D2, e, p, o, l)
               <=> \E l0 : Edge(gr, D, e, p, o, l0) /\ MovedLabel(l, l0, Hole(cur), t)
  BY <1>1, JumpLabels
<1> HIDE DEF t, D2
<1>3. ASSUME NEW p \in V, NEW l \in Nat \ {0}, NEW o
      PROVE  Edge(h, D2, e, p, o, l) <=> Comes(fl2, lo2, cur2, fs2, p, o, l)
  <2>1. Edge(h, D2, e, p, o, l)
           <=> \E l0 : Edge(gr, D, e, p, o, l0) /\ MovedLabel(l, l0, Hole(cur), t)
    BY <1>2
  <2>2. (\E l0 : Edge(gr, D, e, p, o, l0) /\ MovedLabel(l, l0, Hole(cur), t))
           <=> \/ l # Hole(cur) /\ Edge(gr, D, e, p, o, l)
               \/ l = t /\ Edge(gr, D, e, p, o, Hole(cur))
    BY DEF MovedLabel
  <2>3. ~ Owes(fs, p, o, Hole(cur)) /\ <<p, o, Hole(cur)>> \notin fl
    BY NoneToCurrent
  <2>4. Edge(gr, D, e, p, o, Hole(cur)) <=> <<p, o>> \in lo
    <3>1. Edge(gr, D, e, p, o, Hole(cur)) <=> Comes(fl, lo, cur, fs, p, o, Hole(cur))
      BY <1>0, <1>1 DEF Agree
    <3> QED BY <2>3, <3>1 DEF Comes
  <2>5. l # Hole(cur) =>
          (Edge(gr, D, e, p, o, l) <=> <<p, o, l>> \in fl \/ Owes(fs, p, o, l))
    BY <1>1, ComesElsewhere DEF Agree
  <2>6. Edge(h, D2, e, p, o, l)
           <=> <<p, o, l>> \in fl \/ Owes(fs, p, o, l) \/ (l = t /\ <<p, o>> \in lo)
    BY <2>1, <2>2, <2>3, <2>4, <2>5
  <2>7. Comes(more, lo2, cur2, fs2, p, o, l) <=> Owes(fs, p, o, l) \/ (<<p, o>> \in lo /\ l = t)
    BY DEF Leaps, t
  <2>8. Comes(fl2, lo2, cur2, fs2, p, o, l)
          <=> <<p, o, l>> \in fl \/ Comes(more, lo2, cur2, fs2, p, o, l)
    BY DEF Comes
  <2> QED BY <2>6, <2>7, <2>8
<1> QED BY <1>3 DEF Agree, t, D2

\* What a step may do to the flow: its points are there, and it stays in V.
AddsFlow(V, pts, more) ==
  \A p, o, l : <<p, o, l>> \in more => p \in Nat /\ p <= pts /\ (p \in V => l \in V)
KeepsBelow(pts, fs) == \A i \in 1 .. Len(fs) : Below(pts, fs[i].atExit) /\ Below(pts, fs[i].atBody)

\* A frame of a loop that stays, and what the handlers above it keep.
Stays(fs, fs2, i) == /\ i \in 1 .. Len(fs) /\ fs[i].kind \in LoopKinds
                     /\ fs2[i].head = fs[i].head /\ fs2[i].first = fs[i].first

\* The invariant after a step that evaluates a point.
LEMMA PointMeaning ==
  ASSUME NEW gr, Good(gr, Blocks), NEW h, NEW cur \in Blocks, gr.branch[cur] = NULL,
         NEW pts \in Nat, pts < MaxPoints, NEW D, NEW V, NEW e \in Blocks,
         NEW fs, NEW fl \in SUBSET Flows, NEW lo \in SUBSET Leaving,
         Meaning(D, V, gr, e, cur, fs, pts, fl, lo), Apart(cur, fs),
         Extended(gr, h, cur, pts + 1),
         NEW more, NEW lo2, NEW cur2, NEW fs2,
         Turns(Reaching(V, lo, pts + 1), pts + 1, fs, h, Moved(D, Hole(cur), pts + 1), cur,
               more, lo2, cur2, fs2),
         AddsFlow(Reaching(V, lo, pts + 1), pts + 1, more), Below(pts + 1, lo2),
         KeepsBelow(pts + 1, fs2), Bare(fs2),
         \A i \in 1 .. Len(fs2) : fs2[i].first \in Nat /\ fs2[i].first <= pts + 1,
         \A i \in 1 .. Len(fs2) : fs2[i].kind \in LoopKinds =>
            /\ Stays(fs, fs2, i)
            /\ \A W : pts + 1 \notin W /\ FedIn(W, lo2, fs2, i) => FedIn(W, lo, fs, i)
  PROVE  Meaning(Moved(D, Hole(cur), pts + 1), Reaching(V, lo, pts + 1), h, e, cur2, fs2, pts + 1,
                 fl \cup Join(lo, pts + 1) \cup more, lo2)
<1> DEFINE q   == pts + 1
           D2  == Moved(D, Hole(cur), q)
           fl2 == fl \cup Join(lo, q) \cup more
           V2  == Reaching(V, lo, q)
<1>0. q \in Nat /\ q < EXIT /\ Hole(cur) > EXIT /\ EXIT \in Nat /\ Hole(cur) \in Nat
  BY HoleLabels, TranslatorAssumption DEF EXIT
<1>1. /\ Traced(gr, pts, D) /\ D \in [Blocks -> Nat]
      /\ Numbered(V, pts, fl, lo, fs)
      /\ Heads(V, D, pts, lo, cur, fs) /\ Young(pts, fs)
  BY DEF Meaning, Traced, Labelled
<1>2. Traced(h, q, D2)
  BY <1>1, PointTraced
<1>3. Agree(V2, h, D2, e, fl2, lo2, cur2, fs2)
  BY PointAgrees
<1>4. Young(q, fs2)
  <2>1. \A i \in 1 .. Len(fs2) : fs2[i].first \in Nat /\ fs2[i].first <= q
    OBVIOUS
  <2> HIDE DEF q
  <2>2. ASSUME NEW i \in 1 .. Len(fs2)
        PROVE  fs2[i].first \in Nat /\ fs2[i].first <= q + 1 /\ fs2[i].first # q + 1
    BY <1>0, <2>1
  <2> QED BY <2>2 DEF Young
<1>5. /\ V \subseteq V2 /\ V2 \subseteq V \cup {q} /\ q \notin V
      /\ Fed(V, lo) <=> q \in V2
      /\ V2 = V \/ Fed(V, lo)
  <2>1. q \notin V
    BY <1>0, <1>1 DEF Numbered
  <2> QED BY <2>1 DEF Reaching
<1>6. Numbered(V2, q, fl2, lo2, fs2)
  <2>1. V2 \subseteq 0 .. q \cup {EXIT} /\ START \in V2 /\ EXIT \in V2
    <3>1. V \subseteq 0 .. pts \cup {EXIT} /\ START \in V /\ EXIT \in V
      BY <1>1 DEF Numbered
    <3>2. 0 .. pts \subseteq 0 .. q /\ q \in 0 .. q
      BY <1>0
    <3> HIDE DEF V2, q
    <3> QED BY <1>5, <3>1, <3>2
  <2>2. ASSUME NEW p, NEW o, NEW l, <<p, o, l>> \in fl2
        PROVE  p \in Nat /\ p <= q /\ (p \in V2 => l \in V2)
    <3>1. CASE <<p, o, l>> \in fl
      <4>1. p \in Nat /\ p <= pts /\ (p \in V => l \in V)
        BY <1>1, <3>1 DEF Numbered
      <4>2. p # q
        BY <4>1
      <4> QED BY <1>5, <4>1, <4>2
    <3>2. CASE <<p, o, l>> \in Join(lo, q)
      <4>1. <<p, o>> \in lo /\ l = q
        BY <3>2, JoinIs
      <4>2. p \in Nat /\ p <= pts
        BY <1>1, <4>1 DEF Numbered, Below
      <4>3. p # q
        BY <4>2
      <4>4. p \in V => Fed(V, lo)
        BY <4>1 DEF Fed
      <4> QED BY <1>5, <4>1, <4>2, <4>3, <4>4
    <3>3. CASE <<p, o, l>> \in more
      <4>1. AddsFlow(V2, q, more)
        OBVIOUS
      <4> HIDE DEF V2, q
      <4> QED BY <3>3, <4>1 DEF AddsFlow
    <3>4. <<p, o, l>> \in fl \/ <<p, o, l>> \in Join(lo, q) \/ <<p, o, l>> \in more
      BY <2>2
    <3> HIDE DEF V2, fl2, q
    <3> QED BY <3>1, <3>2, <3>3, <3>4
  <2> HIDE DEF V2, fl2, q
  <2>3. Below(q, lo2) /\ KeepsBelow(q, fs2)
    BY DEF q
  <2> QED BY <2>1, <2>2, <2>3 DEF Numbered, KeepsBelow
<1>7. ASSUME NEW i \in 1 .. Len(fs2), fs2[i].kind \in LoopKinds
      PROVE  HeadKnown(V2, D2, q, lo2, cur2, fs2, i)
  <2>1. /\ i \in 1 .. Len(fs) /\ fs[i].kind \in LoopKinds
        /\ fs2[i].head = fs[i].head /\ fs2[i].first = fs[i].first
        /\ \A W : q \notin W /\ FedIn(W, lo2, fs2, i) => FedIn(W, lo, fs, i)
    BY <1>7 DEF Stays
  <2>2. HeadKnown(V, D, pts, lo, cur, fs, i)
    BY <1>1, <2>1 DEF Heads
  <2>3. fs[i].first \in Nat
    BY <1>1, <2>1 DEF Young
  <2>4. CASE ~ FedIn(V, lo, fs, i)
    <3>1. ~ Fed(V, lo)
      BY <2>4 DEF FedIn
    <3>2. V2 = V
      BY <1>5, <3>1
    <3>3. ~ FedIn(V, lo2, fs2, i)
      BY <1>5, <2>1, <2>4
    <3> QED BY <3>2, <3>3 DEF HeadKnown
  <2>5. CASE fs[i].first <= pts /\ fs[i].first \in V /\ D[fs[i].head] = fs[i].first
    <3>1. fs[i].first <= q /\ fs[i].first # Hole(cur)
      BY <1>0, <2>3, <2>5
    <3>2. D2[fs[i].head] = fs[i].first
      <4>1. fs[i].head \in Blocks
        BY <2>1 DEF Apart
      <4> QED BY <1>0, <1>1, <2>5, <3>1, <4>1, MovedType
    <3> HIDE DEF D2, V2, q
    <3> QED BY <1>5, <2>1, <2>5, <3>1, <3>2 DEF HeadKnown
  <2>6. CASE fs[i].first = pts + 1 /\ D[fs[i].head] = Hole(cur)
    <3>1. D2[fs[i].head] = q
      <4>1. fs[i].head \in Blocks
        BY <2>1 DEF Apart
      <4> QED BY <1>0, <1>1, <2>6, <4>1, MovedType
    <3>2. CASE q \in V2
      BY <1>0, <2>1, <2>6, <3>1, <3>2 DEF HeadKnown
    <3>3. CASE q \notin V2
      <4>1. ~ Fed(V, lo) /\ V2 = V
        BY <1>5, <3>3
      <4>2. \A j \in i .. Len(fs) : fs[j].atExit = {} /\ fs[j].kind # "else"
        BY <1>1, <2>1, <2>6 DEF Young, YoungAt, LoopKinds
      <4>3. ~ FedIn(V, lo, fs, i)
        <5>1. i \in Int
          OBVIOUS
        <5>2. \A j \in i + 1 .. Len(fs) : j \in i .. Len(fs)
          BY <5>1
        <5> QED BY <4>1, <4>2, <5>2 DEF FedIn, FedAt, Fed
      <4>4. ~ FedIn(V, lo2, fs2, i)
        BY <1>5, <2>1, <4>3
      <4> QED BY <4>1, <4>4 DEF HeadKnown
    <3> QED BY <3>2, <3>3
  <2> QED BY <2>2, <2>4, <2>5, <2>6 DEF HeadKnown
<1>8. Heads(V2, D2, q, lo2, cur2, fs2)
  BY <1>7 DEF Heads
<1> QED BY <1>2, <1>3, <1>4, <1>6, <1>8 DEF Meaning

\* The start of a loop that stays, after a jump.
LEMMA HeadStays ==
  ASSUME NEW cur \in Blocks, NEW D \in [Blocks -> Nat], NEW V, NEW pts \in 0 .. MaxPoints,
         NEW fs, NEW lo, NEW fs2, NEW lo2, NEW cur2, NEW t \in Nat, NEW i,
         HeadKnown(V, D, pts, lo, cur, fs, i), fs[i].head \in Blocks, fs[i].first \in Nat,
         Stays(fs, fs2, i), FedIn(V, lo2, fs2, i) => FedIn(V, lo, fs, i),
         fs[i].first = pts + 1 => t = Hole(cur2) \/ ~ FedIn(V, lo2, fs2, i)
  PROVE  HeadKnown(V, Moved(D, Hole(cur), t), pts, lo2, cur2, fs2, i)
<1> DEFINE D2 == Moved(D, Hole(cur), t)
<1>1. \A b \in Blocks : D2[b] = IF D[b] = Hole(cur) THEN t ELSE D[b]
  BY MovedType
<1>2. fs2[i].head = fs[i].head /\ fs2[i].first = fs[i].first
  BY DEF Stays
<1>3. Hole(cur) > EXIT /\ Hole(cur) \in Nat /\ EXIT = MaxPoints + 1 /\ MaxPoints \in Nat
  BY HoleLabels, TranslatorAssumption DEF EXIT
<1> HIDE DEF D2
<1>4. CASE ~ FedIn(V, lo, fs, i)
  BY <1>4 DEF HeadKnown
<1>5. CASE fs[i].first <= pts /\ fs[i].first \in V /\ D[fs[i].head] = fs[i].first
  <2>1. D2[fs[i].head] = fs[i].first
    <3>1. fs[i].first # Hole(cur)
      BY <1>3, <1>5
    <3> QED BY <1>1, <1>5, <3>1
  <2> QED BY <1>2, <1>5, <2>1 DEF HeadKnown, D2
<1>6. CASE fs[i].first = pts + 1 /\ D[fs[i].head] = Hole(cur)
  <2>1. D2[fs[i].head] = t
    BY <1>1, <1>6
  <2> QED BY <1>2, <1>6, <2>1 DEF HeadKnown, D2
<1> QED BY <1>4, <1>5, <1>6 DEF HeadKnown

\* The invariant after a jump.
LEMMA JumpMeaning ==
  ASSUME NEW gr, Good(gr, Blocks), NEW h, NEW cur \in Blocks, gr.branch[cur] = NULL,
         NEW to \in Blocks \cup {TERMINAL},
         NEW pts \in 0 .. MaxPoints, NEW D, NEW V, NEW e \in Blocks,
         NEW fs, NEW fl \in SUBSET Flows, NEW lo \in SUBSET Leaving,
         Meaning(D, V, gr, e, cur, fs, pts, fl, lo), Apart(cur, fs),
         Jumped(gr, h, cur, to),
         NEW more, NEW lo2, NEW cur2, NEW fs2,
         Leaps(V, fs, lo, Landing(D, cur, to), more, lo2, cur2, fs2),
         AddsFlow(V, pts, more), Below(pts, lo2), KeepsBelow(pts, fs2), Bare(fs2), Young(pts, fs2),
         Heads(V, Moved(D, Hole(cur), Landing(D, cur, to)), pts, lo2, cur2, fs2)
  PROVE  Meaning(Moved(D, Hole(cur), Landing(D, cur, to)), V, h, e, cur2, fs2, pts,
                 fl \cup more, lo2)
<1> DEFINE t   == Landing(D, cur, to)
           D2  == Moved(D, Hole(cur), t)
           fl2 == fl \cup more
<1>1. Traced(gr, pts, D) /\ Numbered(V, pts, fl, lo, fs)
  BY DEF Meaning
<1>2. Traced(h, pts, D2)
  BY <1>1, JumpTraced
<1>3. Agree(V, h, D2, e, fl2, lo2, cur2, fs2)
  BY JumpAgrees
<1>4. Numbered(V, pts, fl2, lo2, fs2)
  <2>1. ASSUME NEW p, NEW o, NEW l, <<p, o, l>> \in fl2
        PROVE  p \in Nat /\ p <= pts /\ (p \in V => l \in V)
    <3>1. <<p, o, l>> \in fl \/ <<p, o, l>> \in more
      BY <2>1
    <3>2. CASE <<p, o, l>> \in fl
      BY <1>1, <3>2 DEF Numbered
    <3>3. CASE <<p, o, l>> \in more
      BY <3>3 DEF AddsFlow
    <3> QED BY <3>1, <3>2, <3>3
  <2>2. V \subseteq 0 .. pts \cup {EXIT} /\ START \in V /\ EXIT \in V
    BY <1>1 DEF Numbered
  <2> HIDE DEF fl2
  <2> QED BY <2>1, <2>2 DEF Numbered, KeepsBelow
<1> HIDE DEF D2, fl2
<1> QED BY <1>2, <1>3, <1>4 DEF Meaning, D2, fl2, t

\* What a frame pushed, taken off or replaced adds to what the handlers keep.
LEMMA PushedOwes ==
  ASSUME NEW fs \in Seq(Frames), NEW f \in Frames
  PROVE  /\ \A p, o, l : Owes(Append(fs, f), p, o, l) <=> Owes(fs, p, o, l) \/ OwesAt(f, p, o, l)
         /\ \A W, lo : \A i \in 1 .. Len(fs) :
               FedIn(W, lo, Append(fs, f), i) <=> FedIn(W, lo, fs, i) \/ FedAt(W, f)
         /\ \A W, lo : FedIn(W, lo, Append(fs, f), Len(fs) + 1) <=> Fed(W, lo)
<1>1. /\ Len(fs) \in Nat /\ Len(Append(fs, f)) = Len(fs) + 1
      /\ \A i \in 1 .. Len(fs) : Append(fs, f)[i] = fs[i]
      /\ Append(fs, f)[Len(fs) + 1] = f
  BY AppendProperties
<1> DEFINE n == Len(fs)
           fs2 == Append(fs, f)
<1> HIDE DEF n, fs2
<1>2. ASSUME NEW p, NEW o, NEW l
      PROVE  Owes(fs2, p, o, l) <=> Owes(fs, p, o, l) \/ OwesAt(f, p, o, l)
  <2>1. ASSUME Owes(fs2, p, o, l)
        PROVE  Owes(fs, p, o, l) \/ OwesAt(f, p, o, l)
    <3>1. PICK i \in 1 .. n + 1 : OwesAt(fs2[i], p, o, l)
      BY <1>1, <2>1 DEF Owes, n, fs2
    <3>2. CASE i = n + 1
      BY <1>1, <3>1, <3>2 DEF n, fs2
    <3>3. CASE i \in 1 .. n
      BY <1>1, <3>1, <3>3 DEF Owes, n, fs2
    <3> QED BY <1>1, <3>1, <3>2, <3>3 DEF n
  <2>2. ASSUME Owes(fs, p, o, l)
        PROVE  Owes(fs2, p, o, l)
    <3>1. PICK i \in 1 .. n : OwesAt(fs[i], p, o, l)
      BY <2>2 DEF Owes, n
    <3>2. i \in 1 .. n + 1 /\ OwesAt(fs2[i], p, o, l)
      BY <1>1, <3>1 DEF n, fs2
    <3> QED BY <1>1, <3>2 DEF Owes, n, fs2
  <2>3. ASSUME OwesAt(f, p, o, l)
        PROVE  Owes(fs2, p, o, l)
    <3>1. n + 1 \in 1 .. n + 1 /\ OwesAt(fs2[n + 1], p, o, l)
      BY <1>1, <2>3 DEF n, fs2
    <3> QED BY <1>1, <3>1 DEF Owes, n, fs2
  <2> QED BY <2>1, <2>2, <2>3
<1>3. ASSUME NEW W, NEW lo, NEW i \in 1 .. n
      PROVE  FedIn(W, lo, fs2, i) <=> FedIn(W, lo, fs, i) \/ FedAt(W, f)
  <2>1. ASSUME FedIn(W, lo, fs2, i)
        PROVE  FedIn(W, lo, fs, i) \/ FedAt(W, f)
    <3>1. CASE Fed(W, lo)
      BY <3>1 DEF FedIn
    <3>2. ASSUME NEW j \in i + 1 .. n + 1, FedAt(W, fs2[j])
          PROVE  FedIn(W, lo, fs, i) \/ FedAt(W, f)
      <4>1. CASE j = n + 1
        BY <1>1, <3>2, <4>1 DEF n, fs2
      <4>2. CASE j # n + 1
        <5>1. j \in i + 1 .. n /\ j \in 1 .. n
          BY <1>1, <3>2, <4>2 DEF n
        <5> QED BY <1>1, <3>2, <5>1 DEF n, fs2, FedIn
      <4> QED BY <4>1, <4>2
    <3> QED BY <1>1, <2>1, <3>1, <3>2 DEF FedIn, n, fs2
  <2>2. ASSUME FedIn(W, lo, fs, i)
        PROVE  FedIn(W, lo, fs2, i)
    <3>1. CASE Fed(W, lo)
      BY <3>1 DEF FedIn
    <3>2. ASSUME NEW j \in i + 1 .. n, FedAt(W, fs[j])
          PROVE  FedIn(W, lo, fs2, i)
      <4>1. j \in i + 1 .. n + 1 /\ j \in 1 .. n
        BY <1>1, <3>2 DEF n
      <4> QED BY <1>1, <3>2, <4>1 DEF n, fs2, FedIn
    <3> QED BY <1>1, <2>2, <3>1, <3>2 DEF FedIn, n
  <2>3. ASSUME FedAt(W, f)
        PROVE  FedIn(W, lo, fs2, i)
    <3>1. n + 1 \in i + 1 .. n + 1
      BY <1>1 DEF n
    <3> QED BY <1>1, <2>3, <3>1 DEF FedIn, n, fs2
  <2> QED BY <2>1, <2>2, <2>3
<1>4. ASSUME NEW W, NEW lo
      PROVE  FedIn(W, lo, fs2, n + 1) <=> Fed(W, lo)
  <2>1. \A j \in n + 1 + 1 .. n + 1 : FALSE
    BY <1>1 DEF n
  <2> QED BY <1>1, <2>1 DEF FedIn, n, fs2
<1> QED BY <1>2, <1>3, <1>4 DEF n, fs2

\* The frames are those below and the innermost.
LEMMA FrontAndTop ==
  ASSUME NEW fs \in Seq(Frames), fs # <<>>
  PROVE  fs = Append(Front(fs), fs[Len(fs)])
<1>1. /\ Len(fs) \in Nat \ {0} /\ Front(fs) \in Seq(Frames) /\ Len(Front(fs)) = Len(fs) - 1
      /\ \A i \in 1 .. Len(fs) - 1 : Front(fs)[i] = fs[i]
  BY FrontFrames
<1>2. fs[Len(fs)] \in Frames
  BY <1>1
<1> DEFINE t == Append(Front(fs), fs[Len(fs)])
<1>3. /\ t \in Seq(Frames) /\ Len(t) = Len(fs)
      /\ \A i \in 1 .. Len(fs) - 1 : t[i] = fs[i]
      /\ t[Len(fs)] = fs[Len(fs)]
  BY <1>1, <1>2, AppendProperties
<1> HIDE DEF t
<1>4. \A i \in 1 .. Len(fs) : t[i] = fs[i]
  BY <1>1, <1>3
<1> QED BY <1>3, <1>4, SeqEqual DEF t

\* What a frame knows about the source.
FrameMeans(pts, f) == /\ Below(pts, f.atExit) /\ Below(pts, f.atBody)
                      /\ f.kind \in BareKinds => f.atExit = {}
                      /\ f.first \in Nat /\ f.first <= pts + 1
FramesMean(pts, fs) == \A i \in 1 .. Len(fs) : FrameMeans(pts, fs[i])

\* All of it starts at q.
FromPoint(q, from) == \A p, o : <<p, o>> \in from => p = q

\* The frames of the invariant know it.
LEMMA MeaningFrames ==
  ASSUME NEW D, NEW V, NEW gr, NEW e, NEW cur, NEW fs, NEW pts, NEW fl, NEW lo,
         Meaning(D, V, gr, e, cur, fs, pts, fl, lo)
  PROVE  /\ FramesMean(pts, fs) /\ Below(pts, lo)
         /\ \A i \in 1 .. Len(fs) : fs[i].first <= pts + 1
BY DEF Meaning, Numbered, Young, Bare, FramesMean, FrameMeans

\* It stays true when there are more points.
LEMMA FrameMeansMore ==
  ASSUME NEW pts \in Nat, NEW f, FrameMeans(pts, f)
  PROVE  FrameMeans(pts + 1, f)
BY DEF FrameMeans, Below

\* What the frames know, part by part.
LEMMA FramesMeanIs ==
  ASSUME NEW pts \in Nat, NEW fs
  PROVE  FramesMean(pts, fs) <=>
           /\ KeepsBelow(pts, fs) /\ Bare(fs)
           /\ \A i \in 1 .. Len(fs) : fs[i].first \in Nat /\ fs[i].first <= pts + 1
BY DEF FramesMean, FrameMeans, KeepsBelow, Bare

\* A frame added, taken off, or replaced.
LEMMA FramesMeanPushed ==
  ASSUME NEW pts, NEW fs \in Seq(Frames), NEW f \in Frames
  PROVE  FramesMean(pts, Append(fs, f)) <=> FramesMean(pts, fs) /\ FrameMeans(pts, f)
<1>1. /\ Len(fs) \in Nat /\ Len(Append(fs, f)) = Len(fs) + 1
      /\ \A i \in 1 .. Len(fs) : Append(fs, f)[i] = fs[i]
      /\ Append(fs, f)[Len(fs) + 1] = f
  BY AppendProperties
<1> DEFINE fs2 == Append(fs, f)
           n == Len(fs)
<1>2. 1 .. n + 1 = 1 .. n \cup {n + 1}
  BY <1>1
<1> HIDE DEF fs2, n
<1> QED BY <1>1, <1>2 DEF FramesMean, fs2, n

\* What is fed by the point q alone is not fed by the points of W.
LEMMA NotFed ==
  ASSUME NEW W, NEW q, q \notin W, NEW from, FromPoint(q, from)
  PROVE  ~ Fed(W, from)
BY DEF Fed, FromPoint

\* Where what is loose does not matter.
LEMMA FedAbove ==
  ASSUME NEW W, NEW lo, NEW lo2, NEW fs, NEW i, FedIn(W, lo2, fs, i), ~ Fed(W, lo2)
  PROVE  FedIn(W, lo, fs, i)
BY DEF FedIn

\* The frames below the innermost.
LEMMA PoppedOwes ==
  ASSUME NEW fs \in Seq(Frames), fs # <<>>
  PROVE  LET t == fs[Len(fs)]
             b == Front(fs)
         IN  /\ b \in Seq(Frames) /\ t \in Frames /\ fs = Append(b, t) /\ Len(fs) = Len(b) + 1
             /\ Len(b) \in Nat /\ \A i \in 1 .. Len(b) : b[i] = fs[i]
             /\ \A p, o, l : Owes(fs, p, o, l) <=> Owes(b, p, o, l) \/ OwesAt(t, p, o, l)
             /\ \A W, lo : \A i \in 1 .. Len(b) :
                   FedIn(W, lo, fs, i) <=> FedIn(W, lo, b, i) \/ FedAt(W, t)
             /\ \A W, lo : FedIn(W, lo, fs, Len(fs)) <=> Fed(W, lo)
             /\ \A pts : FramesMean(pts, fs) => FramesMean(pts, b) /\ FrameMeans(pts, t)
<1> DEFINE t == fs[Len(fs)]
           b == Front(fs)
<1>1. /\ Len(fs) \in Nat \ {0} /\ b \in Seq(Frames) /\ Len(b) = Len(fs) - 1
      /\ \A i \in 1 .. Len(fs) - 1 : b[i] = fs[i]
  BY FrontFrames
<1>2. t \in Frames
  BY <1>1
<1>3. fs = Append(b, t)
  BY FrontAndTop
<1> HIDE DEF t, b
<1>4. Len(fs) = Len(b) + 1 /\ Len(b) \in Nat
  BY <1>1
<1>5. /\ \A p, o, l : Owes(fs, p, o, l) <=> Owes(b, p, o, l) \/ OwesAt(t, p, o, l)
      /\ \A W, lo : \A i \in 1 .. Len(b) :
            FedIn(W, lo, fs, i) <=> FedIn(W, lo, b, i) \/ FedAt(W, t)
      /\ \A W, lo : FedIn(W, lo, fs, Len(b) + 1) <=> Fed(W, lo)
  BY <1>1, <1>2, <1>3, PushedOwes
<1>6. \A pts : FramesMean(pts, fs) => FramesMean(pts, b) /\ FrameMeans(pts, t)
  BY <1>1, <1>2, <1>3, FramesMeanPushed
<1> QED BY <1>1, <1>2, <1>3, <1>4, <1>5, <1>6 DEF t, b

\* What a statement may assume.
Working(D, V, gr, e, cur, fs, pts, fl, lo) ==
  /\ Good(gr, Blocks) /\ cur \in Blocks /\ gr.branch[cur] = NULL /\ e \in Blocks
  /\ pts \in 0 .. MaxPoints /\ fs \in Seq(Frames) /\ fl \in SUBSET Flows /\ lo \in SUBSET Leaving
  /\ Meaning(D, V, gr, e, cur, fs, pts, fl, lo) /\ Apart(cur, fs)

MeaningOf(gr, e, cur, fs, pts, fl, lo) == \E D, V : Meaning(D, V, gr, e, cur, fs, pts, fl, lo)

\* After the point q control goes on to cur2, or to where f keeps it.
Splits(q, h, D2, cur, lo2, cur2, f) ==
  \A o, l : (<<q, o>> \in lo2 /\ l = Hole(cur2)) \/ OwesAt(f, q, o, l) <=> Goes(h, D2, cur, o, l)

\* What starts at a point is below it.
LEMMA FromPointBelow ==
  ASSUME NEW q \in Nat, NEW from, FromPoint(q, from)
  PROVE  Below(q, from)
BY DEF FromPoint, Below

\* A point, and a new handler that is no loop.
LEMMA PointPush ==
  ASSUME NEW D, NEW V, NEW gr, NEW e, NEW cur, NEW fs, NEW pts, NEW fl, NEW lo,
         Working(D, V, gr, e, cur, fs, pts, fl, lo), pts < MaxPoints,
         NEW h, Extended(gr, h, cur, pts + 1), NEW lo2, NEW cur2, NEW f \in Frames,
         f.kind \notin LoopKinds, FrameMeans(pts + 1, f), f.first = pts + 1,
         FromPoint(pts + 1, lo2), FromPoint(pts + 1, f.atExit), FromPoint(pts + 1, f.atBody),
         Splits(pts + 1, h, Moved(D, Hole(cur), pts + 1), cur, lo2, cur2, f)
  PROVE  MeaningOf(h, e, cur2, Append(fs, f), pts + 1, fl \cup Join(lo, pts + 1) \cup {}, lo2)
<1> DEFINE q   == pts + 1
           D2  == Moved(D, Hole(cur), q)
           fs2 == Append(fs, f)
           V2  == Reaching(V, lo, q)
<1>0. /\ Good(gr, Blocks) /\ cur \in Blocks /\ gr.branch[cur] = NULL /\ e \in Blocks
      /\ pts \in Nat /\ q \in Nat /\ fs \in Seq(Frames)
      /\ fl \in SUBSET Flows /\ lo \in SUBSET Leaving
      /\ Meaning(D, V, gr, e, cur, fs, pts, fl, lo) /\ Apart(cur, fs)
  BY DEF Working
<1>1. FramesMean(pts, fs) /\ \A i \in 1 .. Len(fs) : fs[i].first <= pts + 1
  BY <1>0, MeaningFrames
<1>2. /\ Len(fs) \in Nat /\ Len(fs2) = Len(fs) + 1
      /\ \A i \in 1 .. Len(fs) : fs2[i] = fs[i]
      /\ fs2[Len(fs) + 1] = f
  BY <1>0, AppendProperties
<1>3. FramesMean(q, fs2)
  <2>1. FramesMean(q, fs)
    <3>1. ASSUME NEW i \in 1 .. Len(fs)
          PROVE  FrameMeans(q, fs[i])
      BY <1>0, <1>1, FrameMeansMore DEF FramesMean
    <3> QED BY <3>1 DEF FramesMean
  <2> QED BY <1>0, <2>1, FramesMeanPushed
<1>4. \A i \in 1 .. Len(fs2) : fs2[i].first \in Nat /\ fs2[i].first <= pts + 1
  <2>1. SUFFICES ASSUME NEW i \in 1 .. Len(fs2)
                 PROVE  fs2[i].first \in Nat /\ fs2[i].first <= pts + 1
    OBVIOUS
  <2>2. CASE i \in 1 .. Len(fs)
    BY <1>1, <1>2, <2>2 DEF FramesMean, FrameMeans
  <2>3. CASE i = Len(fs) + 1
    BY <1>0, <1>2, <2>3
  <2> HIDE DEF fs2
  <2> QED BY <1>2, <2>2, <2>3
<1>5. KeepsBelow(q, fs2) /\ Bare(fs2)
  BY <1>0, <1>3, FramesMeanIs
<1>6. Below(q, lo2)
  BY <1>0, FromPointBelow
<1>7. Turns(V2, q, fs, h, D2, cur, {}, lo2, cur2, fs2)
  <2>1. SUFFICES ASSUME NEW p, NEW o, NEW l
                 PROVE  Comes({}, lo2, cur2, fs2, p, o, l)
                          <=> Owes(fs, p, o, l) \/ (p = q /\ Goes(h, D2, cur, o, l))
    BY DEF Turns
  <2>2. Owes(fs2, p, o, l) <=> Owes(fs, p, o, l) \/ OwesAt(f, p, o, l)
    BY <1>0, PushedOwes
  <2>3. p # q => <<p, o>> \notin lo2 /\ ~ OwesAt(f, p, o, l)
    BY DEF FromPoint, OwesAt
  <2>4. (<<q, o>> \in lo2 /\ l = Hole(cur2)) \/ OwesAt(f, q, o, l) <=> Goes(h, D2, cur, o, l)
    BY DEF Splits
  <2> HIDE DEF q, D2, fs2
  <2> QED BY <2>2, <2>3, <2>4 DEF Comes
<1>8. AddsFlow(V2, q, {})
  BY DEF AddsFlow
<1>9. \A i \in 1 .. Len(fs2) : fs2[i].kind \in LoopKinds =>
         /\ Stays(fs, fs2, i)
         /\ \A W : pts + 1 \notin W /\ FedIn(W, lo2, fs2, i) => FedIn(W, lo, fs, i)
  <2>1. SUFFICES ASSUME NEW i \in 1 .. Len(fs2), fs2[i].kind \in LoopKinds
                 PROVE  /\ Stays(fs, fs2, i)
                        /\ \A W : q \notin W /\ FedIn(W, lo2, fs2, i) => FedIn(W, lo, fs, i)
    OBVIOUS
  <2>2. i \in 1 .. Len(fs) /\ fs2[i] = fs[i]
    <3> HIDE DEF fs2
    <3>1. i = Len(fs) + 1 \/ i \in 1 .. Len(fs)
      BY <1>2
    <3> QED BY <1>2, <2>1, <3>1
  <2>3. Stays(fs, fs2, i)
    <3> HIDE DEF fs2
    <3> QED BY <2>1, <2>2 DEF Stays
  <2>4. ASSUME NEW W, q \notin W, FedIn(W, lo2, fs2, i)
        PROVE  FedIn(W, lo, fs, i)
    <3>1. FedIn(W, lo2, fs, i) \/ FedAt(W, f)
      BY <1>0, <2>2, <2>4, PushedOwes
    <3>2. ~ FedAt(W, f) /\ ~ Fed(W, lo2)
      <4>1. ~ Fed(W, f.atExit) /\ ~ Fed(W, f.atBody) /\ ~ Fed(W, lo2)
        BY <2>4, NotFed
      <4> QED BY <4>1 DEF FedAt
    <3> QED BY <3>1, <3>2, FedAbove
  <2> QED BY <2>3, <2>4
<1> HIDE DEF fs2
<1>10. Meaning(D2, V2, h, e, cur2, fs2, pts + 1, fl \cup Join(lo, pts + 1) \cup {}, lo2)
  BY <1>0, <1>4, <1>5, <1>6, <1>7, <1>8, <1>9, PointMeaning
<1> QED BY <1>10 DEF MeaningOf, fs2

\* What a statement may assume, part by part.
LEMMA WorkingIs ==
  ASSUME NEW D, NEW V, NEW gr, NEW e, NEW cur, NEW fs, NEW pts, NEW fl, NEW lo,
         Working(D, V, gr, e, cur, fs, pts, fl, lo)
  PROVE  /\ Good(gr, Blocks) /\ cur \in Blocks /\ gr.branch[cur] = NULL /\ e \in Blocks
         /\ pts \in 0 .. MaxPoints /\ pts \in Nat /\ pts + 1 \in Nat /\ fs \in Seq(Frames)
         /\ fl \in SUBSET Flows /\ lo \in SUBSET Leaving
         /\ Meaning(D, V, gr, e, cur, fs, pts, fl, lo) /\ Apart(cur, fs)
         /\ FramesMean(pts, fs) /\ Below(pts, lo)
         /\ FramesMean(pts + 1, fs)
         /\ \A i \in 1 .. Len(fs) : fs[i].first \in Nat /\ fs[i].first <= pts + 1
<1>1. /\ Good(gr, Blocks) /\ cur \in Blocks /\ gr.branch[cur] = NULL /\ e \in Blocks
      /\ pts \in 0 .. MaxPoints /\ pts \in Nat /\ pts + 1 \in Nat /\ fs \in Seq(Frames)
      /\ fl \in SUBSET Flows /\ lo \in SUBSET Leaving
      /\ Meaning(D, V, gr, e, cur, fs, pts, fl, lo) /\ Apart(cur, fs)
  BY DEF Working
<1>2. /\ FramesMean(pts, fs) /\ Below(pts, lo)
      /\ \A i \in 1 .. Len(fs) : fs[i].first <= pts + 1
  BY <1>1, MeaningFrames
<1>3. FramesMean(pts + 1, fs)
  <2>1. ASSUME NEW i \in 1 .. Len(fs)
        PROVE  FrameMeans(pts + 1, fs[i])
    BY <1>1, <1>2, FrameMeansMore DEF FramesMean
  <2> QED BY <2>1 DEF FramesMean
<1>4. \A i \in 1 .. Len(fs) : fs[i].first \in Nat
  BY <1>2 DEF FramesMean, FrameMeans
<1> QED BY <1>1, <1>2, <1>3, <1>4

\* After the point q the flow in more is taken, or control goes on to cur2.
Yields(V, q, h, D2, cur, more, lo2, cur2) ==
  \A p, o, l : p \in V /\ l # 0 =>
    (<<p, o, l>> \in more \/ (<<p, o>> \in lo2 /\ l = Hole(cur2)) <=> p = q /\ Goes(h, D2, cur, o, l))

\* A point, and the handlers stay.
LEMMA PointStay ==
  ASSUME NEW D, NEW V, NEW gr, NEW e, NEW cur, NEW fs, NEW pts, NEW fl, NEW lo,
         Working(D, V, gr, e, cur, fs, pts, fl, lo), pts < MaxPoints,
         NEW h, Extended(gr, h, cur, pts + 1), NEW more, NEW lo2, NEW cur2,
         FromPoint(pts + 1, lo2), AddsFlow(Reaching(V, lo, pts + 1), pts + 1, more),
         Yields(Reaching(V, lo, pts + 1), pts + 1, h, Moved(D, Hole(cur), pts + 1), cur,
                more, lo2, cur2)
  PROVE  MeaningOf(h, e, cur2, fs, pts + 1, fl \cup Join(lo, pts + 1) \cup more, lo2)
<1> DEFINE q   == pts + 1
           D2  == Moved(D, Hole(cur), q)
           V2  == Reaching(V, lo, q)
<1>0. /\ Good(gr, Blocks) /\ cur \in Blocks /\ gr.branch[cur] = NULL /\ e \in Blocks
      /\ pts \in Nat /\ q \in Nat /\ fs \in Seq(Frames)
      /\ fl \in SUBSET Flows /\ lo \in SUBSET Leaving
      /\ Meaning(D, V, gr, e, cur, fs, pts, fl, lo) /\ Apart(cur, fs)
      /\ FramesMean(q, fs)
      /\ \A i \in 1 .. Len(fs) : fs[i].first \in Nat /\ fs[i].first <= pts + 1
  BY WorkingIs
<1>5. KeepsBelow(q, fs) /\ Bare(fs)
  BY <1>0, FramesMeanIs
<1>6. Below(q, lo2)
  BY <1>0, FromPointBelow
<1>7. Turns(V2, q, fs, h, D2, cur, more, lo2, cur2, fs)
  BY DEF Turns, Yields, Comes
<1>9. \A i \in 1 .. Len(fs) : fs[i].kind \in LoopKinds =>
         /\ Stays(fs, fs, i)
         /\ \A W : pts + 1 \notin W /\ FedIn(W, lo2, fs, i) => FedIn(W, lo, fs, i)
  <2>1. SUFFICES ASSUME NEW i \in 1 .. Len(fs), fs[i].kind \in LoopKinds,
                        NEW W, q \notin W, FedIn(W, lo2, fs, i)
                 PROVE  FedIn(W, lo, fs, i)
    BY DEF Stays
  <2> QED BY <2>1, NotFed, FedAbove
<1>10. Meaning(D2, V2, h, e, cur2, fs, pts + 1, fl \cup Join(lo, pts + 1) \cup more, lo2)
  BY <1>0, <1>5, <1>6, <1>7, <1>9, PointMeaning
<1> QED BY <1>10 DEF MeaningOf

\* After the point q, or where the frame t has kept it, the flow in more is taken, or
\* control goes on to cur2.
Merges(V, q, h, D2, cur, more, lo2, cur2, t) ==
  \A p, o, l : p \in V /\ l # 0 =>
    (<<p, o, l>> \in more \/ (<<p, o>> \in lo2 /\ l = Hole(cur2))
       <=> OwesAt(t, p, o, l) \/ (p = q /\ Goes(h, D2, cur, o, l)))

\* A point, and the innermost handler ends.
LEMMA PointPop ==
  ASSUME NEW D, NEW V, NEW gr, NEW e, NEW cur, NEW fs, NEW pts, NEW fl, NEW lo,
         Working(D, V, gr, e, cur, fs, pts, fl, lo), pts < MaxPoints, fs # <<>>,
         NEW h, Extended(gr, h, cur, pts + 1), NEW more, NEW lo2, NEW cur2,
         Below(pts + 1, lo2), AddsFlow(Reaching(V, lo, pts + 1), pts + 1, more),
         \A W : pts + 1 \notin W /\ Fed(W, lo2) => FedAt(W, fs[Len(fs)]),
         Merges(Reaching(V, lo, pts + 1), pts + 1, h, Moved(D, Hole(cur), pts + 1), cur,
                more, lo2, cur2, fs[Len(fs)])
  PROVE  MeaningOf(h, e, cur2, Front(fs), pts + 1, fl \cup Join(lo, pts + 1) \cup more, lo2)
<1> DEFINE q   == pts + 1
           D2  == Moved(D, Hole(cur), q)
           V2  == Reaching(V, lo, q)
           fs2 == Front(fs)
           t   == fs[Len(fs)]
<1>0. /\ Good(gr, Blocks) /\ cur \in Blocks /\ gr.branch[cur] = NULL /\ e \in Blocks
      /\ pts \in Nat /\ q \in Nat /\ fs \in Seq(Frames)
      /\ fl \in SUBSET Flows /\ lo \in SUBSET Leaving
      /\ Meaning(D, V, gr, e, cur, fs, pts, fl, lo) /\ Apart(cur, fs)
      /\ FramesMean(q, fs)
      /\ \A i \in 1 .. Len(fs) : fs[i].first \in Nat /\ fs[i].first <= pts + 1
  BY WorkingIs
<1>1. /\ fs2 \in Seq(Frames) /\ t \in Frames /\ Len(fs) = Len(fs2) + 1
      /\ Len(fs2) \in Nat /\ \A i \in 1 .. Len(fs2) : fs2[i] = fs[i]
      /\ \A p, o, l : Owes(fs, p, o, l) <=> Owes(fs2, p, o, l) \/ OwesAt(t, p, o, l)
      /\ \A W, lo3 : \A i \in 1 .. Len(fs2) :
             FedIn(W, lo3, fs, i) <=> FedIn(W, lo3, fs2, i) \/ FedAt(W, t)
      /\ FramesMean(q, fs2)
  BY <1>0, PoppedOwes
<1> HIDE DEF fs2, t
<1>2. \A i \in 1 .. Len(fs2) : i \in 1 .. Len(fs)
  BY <1>1
<1>4. \A i \in 1 .. Len(fs2) : fs2[i].first \in Nat /\ fs2[i].first <= pts + 1
  BY <1>0, <1>1, <1>2
<1>5. KeepsBelow(q, fs2) /\ Bare(fs2)
  BY <1>0, <1>1, FramesMeanIs
<1>7. Turns(V2, q, fs, h, D2, cur, more, lo2, cur2, fs2)
  BY <1>1 DEF Turns, Merges, Comes, t
<1>9. \A i \in 1 .. Len(fs2) : fs2[i].kind \in LoopKinds =>
         /\ Stays(fs, fs2, i)
         /\ \A W : pts + 1 \notin W /\ FedIn(W, lo2, fs2, i) => FedIn(W, lo, fs, i)
  <2>1. SUFFICES ASSUME NEW i \in 1 .. Len(fs2), fs2[i].kind \in LoopKinds
                 PROVE  /\ Stays(fs, fs2, i)
                        /\ \A W : q \notin W /\ FedIn(W, lo2, fs2, i) => FedIn(W, lo, fs, i)
    OBVIOUS
  <2>2. Stays(fs, fs2, i)
    BY <1>1, <1>2, <2>1 DEF Stays
  <2>3. ASSUME NEW W, q \notin W, FedIn(W, lo2, fs2, i)
        PROVE  FedIn(W, lo, fs, i)
    <3>1. CASE Fed(W, lo2)
      BY <1>1, <2>3, <3>1 DEF t
    <3>2. CASE ~ Fed(W, lo2)
      <4>1. FedIn(W, lo, fs2, i)
        BY <2>3, <3>2, FedAbove
      <4> QED BY <1>1, <4>1
    <3> QED BY <3>1, <3>2
  <2> QED BY <2>2, <2>3
<1>10. Meaning(D2, V2, h, e, cur2, fs2, pts + 1, fl \cup Join(lo, pts + 1) \cup more, lo2)
  BY <1>0, <1>4, <1>5, <1>7, <1>9, PointMeaning
<1> QED BY <1>10 DEF MeaningOf, fs2

\* A point, and the loop whose condition it is goes on.
LEMMA PointReplace ==
  ASSUME NEW D, NEW V, NEW gr, NEW e, NEW cur, NEW fs, NEW pts, NEW fl, NEW lo,
         Working(D, V, gr, e, cur, fs, pts, fl, lo), pts < MaxPoints, fs # <<>>,
         NEW h, Extended(gr, h, cur, pts + 1), NEW lo2, NEW cur2, NEW f \in Frames,
         fs[Len(fs)].kind \in {"whileCond", "forCond"}, f.kind \in {"while", "for"},
         f.head = fs[Len(fs)].head, f.first = fs[Len(fs)].first, f.atBody = fs[Len(fs)].atBody,
         FromPoint(pts + 1, lo2), FromPoint(pts + 1, f.atExit),
         Splits(pts + 1, h, Moved(D, Hole(cur), pts + 1), cur, lo2, cur2, f)
  PROVE  MeaningOf(h, e, cur2, Append(Front(fs), f), pts + 1,
                   fl \cup Join(lo, pts + 1) \cup {}, lo2)
<1> DEFINE q   == pts + 1
           D2  == Moved(D, Hole(cur), q)
           V2  == Reaching(V, lo, q)
           b   == Front(fs)
           t   == fs[Len(fs)]
           fs2 == Append(b, f)
<1>0. /\ Good(gr, Blocks) /\ cur \in Blocks /\ gr.branch[cur] = NULL /\ e \in Blocks
      /\ pts \in Nat /\ q \in Nat /\ fs \in Seq(Frames)
      /\ fl \in SUBSET Flows /\ lo \in SUBSET Leaving
      /\ Meaning(D, V, gr, e, cur, fs, pts, fl, lo) /\ Apart(cur, fs)
      /\ FramesMean(q, fs)
      /\ \A i \in 1 .. Len(fs) : fs[i].first \in Nat /\ fs[i].first <= pts + 1
  BY WorkingIs
<1>1. /\ b \in Seq(Frames) /\ t \in Frames /\ Len(fs) = Len(b) + 1
      /\ Len(b) \in Nat /\ \A i \in 1 .. Len(b) : b[i] = fs[i]
      /\ \A p, o, l : Owes(fs, p, o, l) <=> Owes(b, p, o, l) \/ OwesAt(t, p, o, l)
      /\ \A W, lo3 : \A i \in 1 .. Len(b) :
             FedIn(W, lo3, fs, i) <=> FedIn(W, lo3, b, i) \/ FedAt(W, t)
      /\ \A W, lo3 : FedIn(W, lo3, fs, Len(fs)) <=> Fed(W, lo3)
      /\ FramesMean(q, b) /\ FrameMeans(q, t)
  BY <1>0, PoppedOwes
<1>2. /\ t.kind \in {"whileCond", "forCond"} /\ f.head = t.head /\ f.first = t.first
      /\ f.atBody = t.atBody
  OBVIOUS
<1> HIDE DEF b, t
<1>3. /\ Len(fs2) = Len(fs) /\ \A i \in 1 .. Len(b) : fs2[i] = fs[i] /\ i \in 1 .. Len(fs)
      /\ fs2[Len(fs)] = f /\ Len(fs) \in 1 .. Len(fs) /\ fs[Len(fs)] = t
      /\ \A i \in 1 .. Len(fs2) : i \in 1 .. Len(b) \/ i = Len(fs)
  <2>1. /\ Len(fs2) = Len(b) + 1 /\ \A i \in 1 .. Len(b) : fs2[i] = b[i]
        /\ fs2[Len(b) + 1] = f
    BY <1>1, AppendProperties
  <2>2. fs[Len(fs)] = t
    BY DEF t
  <2> HIDE DEF fs2
  <2>3. \A i \in 1 .. Len(fs2) : i \in 1 .. Len(b) \/ i = Len(fs)
    BY <1>1, <2>1
  <2>4. \A i \in 1 .. Len(b) : i \in 1 .. Len(fs)
    BY <1>1
  <2>5. Len(fs) \in 1 .. Len(fs)
    BY <1>1
  <2> QED BY <1>1, <2>1, <2>2, <2>3, <2>4, <2>5
<1>4. FramesMean(q, fs2)
  <2>1. FrameMeans(q, f)
    <3>1. f.first \in Nat /\ f.first <= q + 1
      BY <1>1, <1>2 DEF FrameMeans
    <3>2. Below(q, f.atExit) /\ Below(q, f.atBody)
      BY <1>0, <1>1, <1>2, FromPointBelow DEF FrameMeans
    <3>3. f.kind \notin BareKinds
      BY DEF BareKinds
    <3> QED BY <3>1, <3>2, <3>3 DEF FrameMeans
  <2> QED BY <1>1, <2>1, FramesMeanPushed
<1>5. \A i \in 1 .. Len(fs2) : fs2[i].first \in Nat /\ fs2[i].first <= pts + 1
  <2> HIDE DEF fs2
  <2> QED BY <1>0, <1>2, <1>3
<1>6. KeepsBelow(q, fs2) /\ Bare(fs2)
  BY <1>0, <1>4, FramesMeanIs
<1>7. Below(q, lo2)
  BY <1>0, FromPointBelow
<1>8. Turns(V2, q, fs, h, D2, cur, {}, lo2, cur2, fs2)
  <2>1. SUFFICES ASSUME NEW p, NEW o, NEW l
                 PROVE  Comes({}, lo2, cur2, fs2, p, o, l)
                          <=> Owes(fs, p, o, l) \/ (p = q /\ Goes(h, D2, cur, o, l))
    BY DEF Turns
  <2>2. Owes(fs2, p, o, l) <=> Owes(b, p, o, l) \/ OwesAt(f, p, o, l)
    BY <1>1, PushedOwes
  <2>3. p # q => <<p, o>> \notin lo2 /\ ~ OwesAt(f, p, o, l)
    BY DEF FromPoint, OwesAt
  <2>4. (<<q, o>> \in lo2 /\ l = Hole(cur2)) \/ OwesAt(f, q, o, l) <=> Goes(h, D2, cur, o, l)
    BY DEF Splits
  <2>5. ~ OwesAt(t, p, o, l)
    BY <1>1, <1>2 DEF OwesAt, FrameMeans, BareKinds
  <2> HIDE DEF q, D2, fs2
  <2> QED BY <1>1, <2>2, <2>3, <2>4, <2>5 DEF Comes
<1>9. AddsFlow(V2, q, {})
  BY DEF AddsFlow
<1>10. \A i \in 1 .. Len(fs2) : fs2[i].kind \in LoopKinds =>
         /\ Stays(fs, fs2, i)
         /\ \A W : pts + 1 \notin W /\ FedIn(W, lo2, fs2, i) => FedIn(W, lo, fs, i)
  <2>1. SUFFICES ASSUME NEW i \in 1 .. Len(fs2), fs2[i].kind \in LoopKinds
                 PROVE  /\ Stays(fs, fs2, i)
                        /\ \A W : q \notin W /\ FedIn(W, lo2, fs2, i) => FedIn(W, lo, fs, i)
    OBVIOUS
  <2>2. Stays(fs, fs2, i)
    <3>1. t.kind \in LoopKinds
      BY <1>2 DEF LoopKinds
    <3> HIDE DEF fs2
    <3> QED BY <1>2, <1>3, <2>1, <3>1 DEF Stays
  <2>3. ASSUME NEW W, q \notin W, FedIn(W, lo2, fs2, i)
        PROVE  FedIn(W, lo, fs, i)
    <3>1. ~ Fed(W, lo2) /\ ~ FedAt(W, f)
      <4>1. ~ Fed(W, lo2) /\ ~ Fed(W, f.atExit) /\ f.kind # "else"
        BY <2>3, NotFed
      <4> QED BY <4>1 DEF FedAt
    <3>2. i \in 1 .. Len(b)
      <4>1. CASE i = Len(fs)
        <5>1. FedIn(W, lo2, fs2, Len(b) + 1) <=> Fed(W, lo2)
          BY <1>1, PushedOwes
        <5> QED BY <1>1, <2>3, <3>1, <4>1, <5>1
      <4> HIDE DEF fs2
      <4> QED BY <1>3, <4>1
    <3>3. FedIn(W, lo2, b, i) \/ FedAt(W, f)
      BY <1>1, <2>3, <3>2, PushedOwes
    <3>4. FedIn(W, lo, b, i)
      BY <3>1, <3>3, FedAbove
    <3> QED BY <1>1, <3>2, <3>4
  <2> QED BY <2>2, <2>3
<1> HIDE DEF fs2
<1>11. Meaning(D2, V2, h, e, cur2, fs2, pts + 1, fl \cup Join(lo, pts + 1) \cup {}, lo2)
  BY <1>0, <1>5, <1>6, <1>7, <1>8, <1>9, <1>10, PointMeaning
<1> QED BY <1>11 DEF MeaningOf, fs2, b

\* Loops without a point are the innermost ones.
LEMMA YoungAbove ==
  ASSUME NEW pts, NEW fs \in Seq(Frames), Young(pts, fs), NEW i \in 1 .. Len(fs),
         fs[i].first = pts + 1
  PROVE  /\ \A j \in i .. Len(fs) : YoungAt(pts, fs[j])
         /\ YoungAt(pts, fs[Len(fs)])
         /\ \A W : ~ FedIn(W, {}, fs, i)
<1>1. \A j \in i .. Len(fs) : YoungAt(pts, fs[j])
  BY DEF Young
<1>2. Len(fs) \in Nat /\ Len(fs) \in i .. Len(fs) /\ \A j \in i + 1 .. Len(fs) : j \in i .. Len(fs)
  OBVIOUS
<1>3. ASSUME NEW W, FedIn(W, {}, fs, i)
      PROVE  FALSE
  <2>1. ~ Fed(W, {})
    BY DEF Fed
  <2>2. PICK j \in i + 1 .. Len(fs) : FedAt(W, fs[j])
    BY <1>3, <2>1 DEF FedIn
  <2>3. YoungAt(pts, fs[j])
    BY <1>1, <1>2, <2>2
  <2> QED BY <2>1, <2>2, <2>3 DEF FedAt, YoungAt, LoopKinds
<1> QED BY <1>1, <1>2, <1>3

\* The loops that stay know their starts after a jump.
LEMMA HeadsStay ==
  ASSUME NEW D, NEW V, NEW gr, NEW e, NEW cur, NEW fs, NEW pts, NEW fl, NEW lo,
         Working(D, V, gr, e, cur, fs, pts, fl, lo), NEW t \in Nat, NEW lo2, NEW cur2, NEW fs2,
         NEW i, i \in 1 .. Len(fs), fs[i].kind \in LoopKinds,
         fs2[i].head = fs[i].head, fs2[i].first = fs[i].first,
         FedIn(V, lo2, fs2, i) => FedIn(V, lo, fs, i),
         fs[i].first = pts + 1 => t = Hole(cur2) \/ ~ FedIn(V, lo2, fs2, i)
  PROVE  HeadKnown(V, Moved(D, Hole(cur), t), pts, lo2, cur2, fs2, i)
<1>1. /\ cur \in Blocks /\ pts \in 0 .. MaxPoints
      /\ Meaning(D, V, gr, e, cur, fs, pts, fl, lo) /\ Apart(cur, fs)
      /\ fs[i].first \in Nat
  BY WorkingIs
<1>2. D \in [Blocks -> Nat] /\ Heads(V, D, pts, lo, cur, fs)
  BY <1>1 DEF Meaning, Traced, Labelled
<1>3. HeadKnown(V, D, pts, lo, cur, fs, i)
  BY <1>2 DEF Heads
<1>4. fs[i].head \in Blocks
  BY <1>1 DEF Apart
<1>5. Stays(fs, fs2, i)
  BY DEF Stays
<1> QED BY <1>1, <1>2, <1>3, <1>4, <1>5, HeadStays

\* Where a jump lands is a label.
LEMMA LandingType ==
  ASSUME NEW D \in [Blocks -> Nat], NEW c \in Blocks, NEW to \in Blocks \cup {TERMINAL}
  PROVE  Landing(D, c, to) \in Nat
BY HoleLabels DEF Landing

\* The labels and the frames of the invariant.
LEMMA WorkingParts ==
  ASSUME NEW D, NEW V, NEW gr, NEW e, NEW cur, NEW fs, NEW pts, NEW fl, NEW lo,
         Working(D, V, gr, e, cur, fs, pts, fl, lo)
  PROVE  D \in [Blocks -> Nat] /\ Young(pts, fs) /\ Labelled(gr, D)
BY WorkingIs DEF Meaning, Traced, Labelled

\* What is loose comes to t: it is taken by more, or it is loose.
Passes(V, lo, t, more, lo2, cur2) ==
  \A p, o, l : p \in V /\ l # 0 =>
    (<<p, o, l>> \in more \/ (<<p, o>> \in lo2 /\ l = Hole(cur2)) <=> <<p, o>> \in lo /\ l = t)

\* A jump, and the handlers stay.
LEMMA JumpStay ==
  ASSUME NEW D, NEW V, NEW gr, NEW e, NEW cur, NEW fs, NEW pts, NEW fl, NEW lo,
         Working(D, V, gr, e, cur, fs, pts, fl, lo), NEW to \in Blocks \cup {TERMINAL},
         NEW h, Jumped(gr, h, cur, to), NEW more, NEW lo2, NEW cur2,
         Passes(V, lo, Landing(D, cur, to), more, lo2, cur2),
         AddsFlow(V, pts, more),
         lo2 = {} \/ (lo2 = lo /\ Landing(D, cur, to) = Hole(cur2))
  PROVE  Meaning(Moved(D, Hole(cur), Landing(D, cur, to)), V, h, e, cur2, fs, pts,
                 fl \cup more, lo2)
<1> DEFINE t   == Landing(D, cur, to)
           D2  == Moved(D, Hole(cur), t)
<1>0. /\ Good(gr, Blocks) /\ cur \in Blocks /\ gr.branch[cur] = NULL /\ e \in Blocks
      /\ pts \in 0 .. MaxPoints /\ pts \in Nat /\ fs \in Seq(Frames)
      /\ fl \in SUBSET Flows /\ lo \in SUBSET Leaving
      /\ Meaning(D, V, gr, e, cur, fs, pts, fl, lo) /\ Apart(cur, fs)
      /\ FramesMean(pts, fs) /\ Below(pts, lo)
      /\ \A i \in 1 .. Len(fs) : fs[i].first \in Nat
  BY WorkingIs
<1>1. D \in [Blocks -> Nat] /\ Young(pts, fs) /\ t \in Nat
  BY <1>0, WorkingParts, LandingType
<1>2. Below(pts, lo2) /\ KeepsBelow(pts, fs) /\ Bare(fs)
  BY <1>0, FramesMeanIs DEF Below
<1>3. Leaps(V, fs, lo, t, more, lo2, cur2, fs)
  BY DEF Leaps, Passes, Comes
<1>4. ASSUME NEW i \in 1 .. Len(fs), fs[i].kind \in LoopKinds
      PROVE  HeadKnown(V, D2, pts, lo2, cur2, fs, i)
  <2>1. FedIn(V, lo2, fs, i) => FedIn(V, lo, fs, i)
    BY DEF FedIn, Fed
  <2>2. fs[i].first = pts + 1 => t = Hole(cur2) \/ ~ FedIn(V, lo2, fs, i)
    BY <1>0, <1>1, <1>4, YoungAbove
  <2> QED BY <1>1, <1>4, <2>1, <2>2, HeadsStay
<1>5. Heads(V, D2, pts, lo2, cur2, fs)
  BY <1>4 DEF Heads
<1> QED BY <1>0, <1>1, <1>2, <1>3, <1>5, JumpMeaning

\* A jump to a new loop.
LEMMA JumpPush ==
  ASSUME NEW D, NEW V, NEW gr, NEW e, NEW cur, NEW fs, NEW pts, NEW fl, NEW lo,
         Working(D, V, gr, e, cur, fs, pts, fl, lo), NEW to \in Blocks,
         NEW h, Jumped(gr, h, cur, to), Landing(D, cur, to) = Hole(to),
         NEW f \in Frames, YoungAt(pts, f),
         Moved(D, Hole(cur), Hole(to))[f.head] = Hole(to)
  PROVE  MeaningOf(h, e, to, Append(fs, f), pts, fl \cup {}, lo)
<1> DEFINE t   == Landing(D, cur, to)
           D2  == Moved(D, Hole(cur), t)
           fs2 == Append(fs, f)
<1>0. /\ Good(gr, Blocks) /\ cur \in Blocks /\ gr.branch[cur] = NULL /\ e \in Blocks
      /\ pts \in 0 .. MaxPoints /\ pts \in Nat /\ fs \in Seq(Frames)
      /\ fl \in SUBSET Flows /\ lo \in SUBSET Leaving
      /\ Meaning(D, V, gr, e, cur, fs, pts, fl, lo) /\ Apart(cur, fs)
      /\ FramesMean(pts, fs) /\ Below(pts, lo)
      /\ \A i \in 1 .. Len(fs) : fs[i].first \in Nat
  BY WorkingIs
<1>1. D \in [Blocks -> Nat] /\ Young(pts, fs) /\ t \in Nat
  BY <1>0, WorkingParts, LandingType
<1>2. /\ Len(fs) \in Nat /\ Len(fs2) = Len(fs) + 1
      /\ \A i \in 1 .. Len(fs) : fs2[i] = fs[i]
      /\ fs2[Len(fs) + 1] = f
  BY <1>0, AppendProperties
<1> HIDE DEF t, fs2
<1>3. \A i \in 1 .. Len(fs2) : i \in 1 .. Len(fs) \/ i = Len(fs) + 1
  BY <1>2
<1>4. f.first = pts + 1 /\ f.atExit = {} /\ f.atBody = {} /\ f.kind \in LoopKinds
  BY DEF YoungAt
<1>5. KeepsBelow(pts, fs2) /\ Bare(fs2)
  <2>1. FrameMeans(pts, f)
    BY <1>0, <1>4 DEF FrameMeans, Below
  <2>2. FramesMean(pts, fs2)
    BY <1>0, <2>1, FramesMeanPushed DEF fs2
  <2> QED BY <1>0, <2>2, FramesMeanIs
<1>6. Young(pts, fs2)
  <2>1. ASSUME NEW i \in 1 .. Len(fs2)
        PROVE  /\ fs2[i].first \in Nat /\ fs2[i].first <= pts + 1
               /\ fs2[i].first = pts + 1 => \A j \in i .. Len(fs2) : YoungAt(pts, fs2[j])
    <3>1. CASE i = Len(fs) + 1
      <4>1. \A j \in i .. Len(fs2) : j = Len(fs) + 1
        BY <1>2, <3>1
      <4> QED BY <1>0, <1>2, <1>4, <3>1, <4>1
    <3>2. CASE i \in 1 .. Len(fs)
      <4>1. \A j \in i .. Len(fs2) : j = Len(fs) + 1 \/ (j \in i .. Len(fs) /\ j \in 1 .. Len(fs))
        BY <1>2, <3>2
      <4> QED BY <1>1, <1>2, <3>2, <4>1 DEF Young
    <3> QED BY <1>3, <3>1, <3>2
  <2> QED BY <2>1 DEF Young
<1>7. Leaps(V, fs, lo, t, {}, lo, to, fs2)
  <2>1. SUFFICES ASSUME NEW p, NEW o, NEW l
                 PROVE  Comes({}, lo, to, fs2, p, o, l) <=> Owes(fs, p, o, l) \/ (<<p, o>> \in lo /\ l = t)
    BY DEF Leaps
  <2>2. Owes(fs2, p, o, l) <=> Owes(fs, p, o, l) \/ OwesAt(f, p, o, l)
    BY <1>0, PushedOwes DEF fs2
  <2>3. ~ OwesAt(f, p, o, l)
    BY <1>4 DEF OwesAt
  <2> QED BY <2>2, <2>3 DEF Comes, t
<1>8. ASSUME NEW i \in 1 .. Len(fs2), fs2[i].kind \in LoopKinds
      PROVE  HeadKnown(V, D2, pts, lo, to, fs2, i)
  <2>1. CASE i = Len(fs) + 1
    BY <1>2, <1>4, <2>1 DEF HeadKnown, t
  <2>2. CASE i \in 1 .. Len(fs)
    <3>1. FedIn(V, lo, fs2, i) => FedIn(V, lo, fs, i)
      <4>1. FedIn(V, lo, fs2, i) <=> FedIn(V, lo, fs, i) \/ FedAt(V, f)
        BY <1>0, <2>2, PushedOwes DEF fs2
      <4>2. ~ FedAt(V, f)
        BY <1>4 DEF FedAt, Fed
      <4> QED BY <4>1, <4>2
    <3>2. t = Hole(to)
      BY DEF t
    <3> QED BY <1>1, <1>2, <1>8, <2>2, <3>1, <3>2, HeadsStay
  <2> QED BY <1>3, <2>1, <2>2
<1>9. Heads(V, D2, pts, lo, to, fs2)
  BY <1>8 DEF Heads
<1>10. AddsFlow(V, pts, {})
  BY DEF AddsFlow
<1>11. Meaning(D2, V, h, e, to, fs2, pts, fl \cup {}, lo)
  BY <1>0, <1>1, <1>5, <1>6, <1>7, <1>9, <1>10, JumpMeaning DEF t
<1> QED BY <1>11 DEF MeaningOf, fs2

\* What is loose comes to t, and what the frame k keeps is joined: they are taken by
\* more, or loose, or kept by the frame f.
Pours(V, lo, t, more, lo2, cur2, k) ==
  \A p, o, l : p \in V /\ l # 0 =>
    (<<p, o, l>> \in more \/ (<<p, o>> \in lo2 /\ l = Hole(cur2))
       <=> OwesAt(k, p, o, l) \/ (<<p, o>> \in lo /\ l = t))
PoursInto(V, lo, t, lo2, cur2, k, f) ==
  \A p, o, l : p \in V /\ l # 0 =>
    ((<<p, o>> \in lo2 /\ l = Hole(cur2)) \/ OwesAt(f, p, o, l)
       <=> OwesAt(k, p, o, l) \/ (<<p, o>> \in lo /\ l = t))

\* A jump, and the innermost handler ends.
LEMMA JumpPop ==
  ASSUME NEW D, NEW V, NEW gr, NEW e, NEW cur, NEW fs, NEW pts, NEW fl, NEW lo,
         Working(D, V, gr, e, cur, fs, pts, fl, lo), NEW to \in Blocks \cup {TERMINAL},
         fs # <<>>, NEW h, Jumped(gr, h, cur, to), NEW more, NEW lo2, NEW cur2,
         Pours(V, lo, Landing(D, cur, to), more, lo2, cur2, fs[Len(fs)]),
         AddsFlow(V, pts, more), Below(pts, lo2),
         Fed(V, lo2) => Fed(V, lo) \/ FedAt(V, fs[Len(fs)]),
         YoungAt(pts, fs[Len(fs)]) => lo2 = {}
  PROVE  MeaningOf(h, e, cur2, Front(fs), pts, fl \cup more, lo2)
<1> DEFINE t   == Landing(D, cur, to)
           D2  == Moved(D, Hole(cur), t)
           fs2 == Front(fs)
           k   == fs[Len(fs)]
<1>0. /\ Good(gr, Blocks) /\ cur \in Blocks /\ gr.branch[cur] = NULL /\ e \in Blocks
      /\ pts \in 0 .. MaxPoints /\ pts \in Nat /\ fs \in Seq(Frames)
      /\ fl \in SUBSET Flows /\ lo \in SUBSET Leaving
      /\ Meaning(D, V, gr, e, cur, fs, pts, fl, lo) /\ Apart(cur, fs)
      /\ FramesMean(pts, fs)
      /\ \A i \in 1 .. Len(fs) : fs[i].first \in Nat
  BY WorkingIs
<1>1. D \in [Blocks -> Nat] /\ Young(pts, fs) /\ t \in Nat
  BY <1>0, WorkingParts, LandingType
<1>2. /\ fs2 \in Seq(Frames) /\ k \in Frames /\ Len(fs) = Len(fs2) + 1
      /\ Len(fs2) \in Nat /\ \A i \in 1 .. Len(fs2) : fs2[i] = fs[i]
      /\ \A p, o, l : Owes(fs, p, o, l) <=> Owes(fs2, p, o, l) \/ OwesAt(k, p, o, l)
      /\ \A W, lo3 : \A i \in 1 .. Len(fs2) :
             FedIn(W, lo3, fs, i) <=> FedIn(W, lo3, fs2, i) \/ FedAt(W, k)
      /\ FramesMean(pts, fs2)
  BY <1>0, PoppedOwes
<1>3. \A i \in 1 .. Len(fs) : fs[i].first = pts + 1 => lo2 = {}
  BY <1>0, <1>1, YoungAbove
<1>4. Fed(V, lo2) => Fed(V, lo) \/ FedAt(V, k)
  OBVIOUS
<1>5. Leaps(V, fs, lo, t, more, lo2, cur2, fs2)
  BY <1>2 DEF Leaps, Pours, Comes
<1> HIDE DEF fs2, k, t
<1>6. \A i \in 1 .. Len(fs2) : i \in 1 .. Len(fs)
  BY <1>2
<1>7. KeepsBelow(pts, fs2) /\ Bare(fs2)
  BY <1>0, <1>2, FramesMeanIs
<1>8. Young(pts, fs2)
  <2>1. \A i \in 1 .. Len(fs2) : \A j \in i .. Len(fs2) : j \in i .. Len(fs) /\ j \in 1 .. Len(fs2)
    BY <1>2
  <2> QED BY <1>1, <1>2, <1>6, <2>1 DEF Young
<1>9. ASSUME NEW i \in 1 .. Len(fs2), fs2[i].kind \in LoopKinds
      PROVE  HeadKnown(V, D2, pts, lo2, cur2, fs2, i)
  <2>1. FedIn(V, lo2, fs2, i) => FedIn(V, lo, fs, i)
    <3>1. CASE Fed(V, lo2)
      <4>1. Fed(V, lo) => FedIn(V, lo, fs, i)
        BY DEF FedIn
      <4> QED BY <1>2, <1>4, <3>1, <4>1
    <3>2. CASE ~ Fed(V, lo2)
      BY <1>2, <3>2, FedAbove
    <3> QED BY <3>1, <3>2
  <2>2. fs[i].first = pts + 1 => ~ FedIn(V, lo2, fs2, i)
    <3>1. SUFFICES ASSUME fs[i].first = pts + 1, FedIn(V, lo2, fs2, i)
                   PROVE  FALSE
      OBVIOUS
    <3>2. lo2 = {}
      BY <1>3, <1>6, <3>1
    <3>3. FedIn(V, {}, fs, i)
      BY <1>2, <3>1, <3>2
    <3> QED BY <1>0, <1>1, <1>6, <3>1, <3>3, YoungAbove
  <2> QED BY <1>1, <1>2, <1>6, <1>9, <2>1, <2>2, HeadsStay
<1>10. Heads(V, D2, pts, lo2, cur2, fs2)
  BY <1>9 DEF Heads
<1>11. Meaning(D2, V, h, e, cur2, fs2, pts, fl \cup more, lo2)
  BY <1>0, <1>5, <1>7, <1>8, <1>10, JumpMeaning DEF t
<1> QED BY <1>11 DEF MeaningOf, fs2

\* A jump, and the innermost handler goes on.
LEMMA JumpReplace ==
  ASSUME NEW D, NEW V, NEW gr, NEW e, NEW cur, NEW fs, NEW pts, NEW fl, NEW lo,
         Working(D, V, gr, e, cur, fs, pts, fl, lo), NEW to \in Blocks \cup {TERMINAL},
         fs # <<>>, NEW h, Jumped(gr, h, cur, to), NEW lo2, NEW cur2, NEW f \in Frames,
         PoursInto(V, lo, Landing(D, cur, to), lo2, cur2, fs[Len(fs)], f),
         Below(pts, lo2), FrameMeans(pts, f), f.first = fs[Len(fs)].first,
         f.kind \in LoopKinds => /\ fs[Len(fs)].kind \in LoopKinds
                                 /\ f.head = fs[Len(fs)].head
                                 /\ Fed(V, lo2) => Fed(V, lo),
         Fed(V, lo2) \/ FedAt(V, f) => Fed(V, lo) \/ FedAt(V, fs[Len(fs)]),
         YoungAt(pts, fs[Len(fs)]) => YoungAt(pts, f) /\ Landing(D, cur, to) = Hole(cur2)
  PROVE  MeaningOf(h, e, cur2, Append(Front(fs), f), pts, fl \cup {}, lo2)
<1> DEFINE t   == Landing(D, cur, to)
           D2  == Moved(D, Hole(cur), t)
           b   == Front(fs)
           k   == fs[Len(fs)]
           fs2 == Append(b, f)
<1>0. /\ Good(gr, Blocks) /\ cur \in Blocks /\ gr.branch[cur] = NULL /\ e \in Blocks
      /\ pts \in 0 .. MaxPoints /\ pts \in Nat /\ fs \in Seq(Frames)
      /\ fl \in SUBSET Flows /\ lo \in SUBSET Leaving
      /\ Meaning(D, V, gr, e, cur, fs, pts, fl, lo) /\ Apart(cur, fs)
      /\ FramesMean(pts, fs)
      /\ \A i \in 1 .. Len(fs) : fs[i].first \in Nat
  BY WorkingIs
<1>1. D \in [Blocks -> Nat] /\ Young(pts, fs) /\ t \in Nat
  BY <1>0, WorkingParts, LandingType
<1>2. /\ b \in Seq(Frames) /\ k \in Frames /\ Len(fs) = Len(b) + 1
      /\ Len(b) \in Nat /\ \A i \in 1 .. Len(b) : b[i] = fs[i]
      /\ \A p, o, l : Owes(fs, p, o, l) <=> Owes(b, p, o, l) \/ OwesAt(k, p, o, l)
      /\ \A W, lo3 : \A i \in 1 .. Len(b) :
             FedIn(W, lo3, fs, i) <=> FedIn(W, lo3, b, i) \/ FedAt(W, k)
      /\ \A W, lo3 : FedIn(W, lo3, fs, Len(fs)) <=> Fed(W, lo3)
      /\ FramesMean(pts, b)
  BY <1>0, PoppedOwes
<1>3. \A i \in 1 .. Len(fs) : fs[i].first = pts + 1 => YoungAt(pts, f) /\ t = Hole(cur2)
  BY <1>0, <1>1, YoungAbove
<1>4. /\ Fed(V, lo2) \/ FedAt(V, f) => Fed(V, lo) \/ FedAt(V, k)
      /\ f.kind \in LoopKinds => k.kind \in LoopKinds /\ f.head = k.head
                                 /\ (Fed(V, lo2) => Fed(V, lo))
      /\ f.first = k.first
      /\ PoursInto(V, lo, t, lo2, cur2, k, f)
  OBVIOUS
<1>5. /\ Len(fs2) = Len(fs) /\ \A i \in 1 .. Len(b) : fs2[i] = fs[i] /\ i \in 1 .. Len(fs)
      /\ fs2[Len(fs)] = f /\ Len(fs) \in 1 .. Len(fs) /\ fs[Len(fs)] = k
      /\ \A i \in 1 .. Len(fs2) : i \in 1 .. Len(b) \/ i = Len(fs)
  <2>1. /\ Len(fs2) = Len(b) + 1 /\ \A i \in 1 .. Len(b) : fs2[i] = b[i]
        /\ fs2[Len(b) + 1] = f
    BY <1>2, AppendProperties
  <2>2. fs[Len(fs)] = k
    OBVIOUS
  <2> HIDE DEF fs2, b, k
  <2>3. \A i \in 1 .. Len(fs2) : i \in 1 .. Len(b) \/ i = Len(fs)
    BY <1>2, <2>1
  <2>4. \A i \in 1 .. Len(b) : i \in 1 .. Len(fs)
    BY <1>2
  <2>5. Len(fs) \in 1 .. Len(fs)
    BY <1>2
  <2> QED BY <1>2, <2>1, <2>2, <2>3, <2>4, <2>5
<1> HIDE DEF fs2, b, k, t
<1>6. KeepsBelow(pts, fs2) /\ Bare(fs2)
  <2>1. FramesMean(pts, fs2)
    BY <1>2, FramesMeanPushed DEF fs2
  <2> QED BY <1>0, <2>1, FramesMeanIs
<1>7. Leaps(V, fs, lo, t, {}, lo2, cur2, fs2)
  <2>1. SUFFICES ASSUME NEW p, NEW o, NEW l, p \in V, l # 0
                 PROVE  Comes({}, lo2, cur2, fs2, p, o, l)
                          <=> Owes(fs, p, o, l) \/ (<<p, o>> \in lo /\ l = t)
    BY DEF Leaps
  <2>2. Owes(fs2, p, o, l) <=> Owes(b, p, o, l) \/ OwesAt(f, p, o, l)
    BY <1>2, PushedOwes DEF fs2
  <2>3. (<<p, o>> \in lo2 /\ l = Hole(cur2)) \/ OwesAt(f, p, o, l)
           <=> OwesAt(k, p, o, l) \/ (<<p, o>> \in lo /\ l = t)
    BY <1>4, <2>1 DEF PoursInto
  <2> QED BY <1>2, <2>2, <2>3 DEF Comes
<1>8. Young(pts, fs2)
  <2>1. ASSUME NEW i \in 1 .. Len(fs2)
        PROVE  /\ fs2[i].first = fs[i].first /\ i \in 1 .. Len(fs)
               /\ fs2[i].first = pts + 1 => \A j \in i .. Len(fs2) : YoungAt(pts, fs2[j])
    <3>1. fs2[i].first = fs[i].first /\ i \in 1 .. Len(fs)
      BY <1>4, <1>5
    <3>2. ASSUME fs2[i].first = pts + 1, NEW j \in i .. Len(fs2)
          PROVE  YoungAt(pts, fs2[j])
      <4>1. j \in i .. Len(fs) /\ j \in 1 .. Len(fs2)
        BY <1>2, <1>5, <3>2
      <4>2. YoungAt(pts, fs[j]) /\ YoungAt(pts, f)
        BY <1>1, <1>3, <3>1, <3>2, <4>1 DEF Young
      <4> QED BY <1>5, <4>1, <4>2
    <3> QED BY <3>1, <3>2
  <2> QED BY <1>1, <2>1 DEF Young
<1>9. ASSUME NEW i \in 1 .. Len(fs2), fs2[i].kind \in LoopKinds
      PROVE  HeadKnown(V, D2, pts, lo2, cur2, fs2, i)
  <2>1. /\ i \in 1 .. Len(fs) /\ fs[i].kind \in LoopKinds
        /\ fs2[i].head = fs[i].head /\ fs2[i].first = fs[i].first
    BY <1>4, <1>5, <1>9
  <2>2. FedIn(V, lo2, fs2, i) => FedIn(V, lo, fs, i)
    <3>1. CASE i = Len(fs)
      <4>1. FedIn(V, lo2, fs2, Len(b) + 1) <=> Fed(V, lo2)
        BY <1>2, PushedOwes DEF fs2
      <4> QED BY <1>2, <1>4, <1>5, <1>9, <3>1, <4>1
    <3>2. CASE i \in 1 .. Len(b)
      <4>1. FedIn(V, lo2, fs2, i) <=> FedIn(V, lo2, b, i) \/ FedAt(V, f)
        BY <1>2, <3>2, PushedOwes DEF fs2
      <4>2. Fed(V, lo) => FedIn(V, lo, fs, i)
        BY DEF FedIn
      <4>3. CASE Fed(V, lo2) \/ FedAt(V, f)
        BY <1>2, <1>4, <3>2, <4>2, <4>3
      <4>4. CASE ~ Fed(V, lo2) /\ ~ FedAt(V, f)
        <5>1. FedIn(V, lo2, b, i) => FedIn(V, lo, b, i)
          BY <4>4, FedAbove
        <5> QED BY <1>2, <3>2, <4>1, <4>4, <5>1
      <4> QED BY <4>3, <4>4
    <3> QED BY <1>5, <3>1, <3>2
  <2>3. fs[i].first = pts + 1 => t = Hole(cur2)
    BY <1>3, <2>1
  <2> QED BY <1>1, <2>1, <2>2, <2>3, HeadsStay
<1>10. Heads(V, D2, pts, lo2, cur2, fs2)
  BY <1>9 DEF Heads
<1>11. AddsFlow(V, pts, {})
  BY DEF AddsFlow
<1>12. Meaning(D2, V, h, e, cur2, fs2, pts, fl \cup {}, lo2)
  BY <1>0, <1>6, <1>7, <1>8, <1>10, <1>11, JumpMeaning DEF t
<1> QED BY <1>12 DEF MeaningOf, fs2, b

\* The frame k notes that what is loose comes to its exit.
Notes(fs, fs2, k, lo) ==
  /\ Len(fs2) = Len(fs)
  /\ \A j \in 1 .. Len(fs) : j # k => fs2[j] = fs[j]
  /\ fs2[k].kind = fs[k].kind /\ fs2[k].head = fs[k].head /\ fs2[k].body = fs[k].body
  /\ fs2[k].exit = fs[k].exit /\ fs2[k].first = fs[k].first /\ fs2[k].atBody = fs[k].atBody
  /\ fs2[k].atExit = fs[k].atExit \cup lo

\* A jump to the exit of a while loop, which notes it.
LEMMA JumpNote ==
  ASSUME NEW D, NEW V, NEW gr, NEW e, NEW cur, NEW fs, NEW pts, NEW fl, NEW lo,
         Working(D, V, gr, e, cur, fs, pts, fl, lo), NEW k \in 1 .. Len(fs),
         fs[k].kind = "while", NEW to \in Blocks, to = fs[k].exit,
         NEW h, Jumped(gr, h, cur, to), Landing(D, cur, to) = Hole(to),
         NEW fs2, Notes(fs, fs2, k, lo), NEW cur2
  PROVE  MeaningOf(h, e, cur2, fs2, pts, fl \cup {}, {})
<1> DEFINE t   == Landing(D, cur, to)
           D2  == Moved(D, Hole(cur), t)
<1>0. /\ Good(gr, Blocks) /\ cur \in Blocks /\ gr.branch[cur] = NULL /\ e \in Blocks
      /\ pts \in 0 .. MaxPoints /\ pts \in Nat /\ fs \in Seq(Frames)
      /\ fl \in SUBSET Flows /\ lo \in SUBSET Leaving
      /\ Meaning(D, V, gr, e, cur, fs, pts, fl, lo) /\ Apart(cur, fs)
      /\ FramesMean(pts, fs) /\ Below(pts, lo)
      /\ \A i \in 1 .. Len(fs) : fs[i].first \in Nat /\ fs[i].first <= pts + 1
  BY WorkingIs
<1>1. D \in [Blocks -> Nat] /\ Young(pts, fs) /\ t \in Nat
  BY <1>0, WorkingParts, LandingType
<1>2. /\ Len(fs2) = Len(fs)
      /\ \A j \in 1 .. Len(fs) : /\ fs2[j].kind = fs[j].kind /\ fs2[j].head = fs[j].head
                                 /\ fs2[j].body = fs[j].body /\ fs2[j].exit = fs[j].exit
                                 /\ fs2[j].first = fs[j].first /\ fs2[j].atBody = fs[j].atBody
                                 /\ j # k => fs2[j] = fs[j]
      /\ fs2[k].atExit = fs[k].atExit \cup lo
  BY DEF Notes
<1> HIDE DEF t
<1>3. FramesMean(pts, fs2)
  <2>1. ASSUME NEW j \in 1 .. Len(fs)
        PROVE  FrameMeans(pts, fs2[j])
    <3>1. FrameMeans(pts, fs[j])
      BY <1>0 DEF FramesMean
    <3>2. CASE j # k
      BY <1>2, <3>1, <3>2
    <3>3. CASE j = k
      <4>1. Below(pts, fs2[k].atExit)
        BY <1>0, <1>2, <3>1, <3>3 DEF Below, FrameMeans
      <4>2. fs2[k].kind \notin BareKinds
        BY <1>2 DEF BareKinds
      <4> QED BY <1>2, <3>1, <3>3, <4>1, <4>2 DEF FrameMeans
    <3> QED BY <3>2, <3>3
  <2> QED BY <1>2, <2>1 DEF FramesMean
<1>4. KeepsBelow(pts, fs2) /\ Bare(fs2)
  BY <1>0, <1>3, FramesMeanIs
\* A young loop stands above the while loop.
<1>5. ASSUME NEW i \in 1 .. Len(fs), fs[i].first = pts + 1
      PROVE  \A j \in i .. Len(fs) : j # k /\ j \in 1 .. Len(fs) /\ fs2[j] = fs[j] /\ YoungAt(pts, fs[j])
  <2>1. \A j \in i .. Len(fs) : YoungAt(pts, fs[j])
    BY <1>0, <1>1, <1>5, YoungAbove
  <2>2. \A j \in i .. Len(fs) : j # k
    BY <2>1 DEF YoungAt
  <2>3. \A j \in i .. Len(fs) : j \in 1 .. Len(fs)
    BY <1>0
  <2> QED BY <1>2, <2>1, <2>2, <2>3
<1>6. Young(pts, fs2)
  <2>1. ASSUME NEW i \in 1 .. Len(fs2)
        PROVE  /\ fs2[i].first \in Nat /\ fs2[i].first <= pts + 1
               /\ fs2[i].first = pts + 1 => \A j \in i .. Len(fs2) : YoungAt(pts, fs2[j])
    BY <1>0, <1>2, <1>5
  <2> QED BY <2>1 DEF Young
<1>7. Leaps(V, fs, lo, t, {}, {}, cur2, fs2)
  <2>1. SUFFICES ASSUME NEW p, NEW o, NEW l
                 PROVE  Comes({}, {}, cur2, fs2, p, o, l)
                          <=> Owes(fs, p, o, l) \/ (<<p, o>> \in lo /\ l = t)
    BY DEF Leaps
  <2>2. \A j \in 1 .. Len(fs) : j # k => (OwesAt(fs2[j], p, o, l) <=> OwesAt(fs[j], p, o, l))
    BY <1>2
  <2>3. OwesAt(fs2[k], p, o, l) <=> OwesAt(fs[k], p, o, l) \/ (<<p, o>> \in lo /\ l = t)
    BY <1>2 DEF OwesAt, t
  <2>4. Owes(fs2, p, o, l) <=> Owes(fs, p, o, l) \/ (<<p, o>> \in lo /\ l = t)
    BY <1>2, <2>2, <2>3 DEF Owes
  <2> QED BY <2>4 DEF Comes
<1>8. ASSUME NEW i \in 1 .. Len(fs2), fs2[i].kind \in LoopKinds
      PROVE  HeadKnown(V, D2, pts, {}, cur2, fs2, i)
  <2>1. FedIn(V, {}, fs2, i) => FedIn(V, lo, fs, i)
    <3>1. SUFFICES ASSUME FedIn(V, {}, fs2, i)
                   PROVE  FedIn(V, lo, fs, i)
      OBVIOUS
    <3>2. PICK j \in i + 1 .. Len(fs) : FedAt(V, fs2[j])
      BY <1>2, <3>1 DEF FedIn, Fed
    <3>3. j \in 1 .. Len(fs)
      BY <1>0, <1>2, <1>8, <3>2
    <3>4. CASE j # k
      BY <1>2, <3>2, <3>3, <3>4 DEF FedIn
    <3>5. CASE j = k
      <4>1. FedAt(V, fs[j]) \/ Fed(V, lo)
        BY <1>2, <3>2, <3>5 DEF FedAt, Fed
      <4> QED BY <3>2, <4>1 DEF FedIn
    <3> QED BY <3>4, <3>5
  <2>2. fs[i].first = pts + 1 => ~ FedIn(V, {}, fs2, i)
    <3>1. SUFFICES ASSUME fs[i].first = pts + 1, FedIn(V, {}, fs2, i)
                   PROVE  FALSE
      OBVIOUS
    <3>2. PICK j \in i + 1 .. Len(fs) : FedAt(V, fs2[j])
      BY <1>2, <3>1 DEF FedIn, Fed
    <3>3. j \in i .. Len(fs) /\ i \in 1 .. Len(fs)
      BY <1>0, <1>2, <1>8, <3>2
    <3>4. FedAt(V, fs[j])
      BY <1>5, <3>1, <3>2, <3>3
    <3>5. FedIn(V, {}, fs, i)
      BY <3>2, <3>4 DEF FedIn
    <3> QED BY <1>0, <1>1, <3>1, <3>3, <3>5, YoungAbove
  <2> QED BY <1>1, <1>2, <1>8, <2>1, <2>2, HeadsStay
<1>9. Heads(V, D2, pts, {}, cur2, fs2)
  BY <1>8 DEF Heads
<1>10. AddsFlow(V, pts, {}) /\ Below(pts, {})
  BY DEF AddsFlow, Below
<1>11. Meaning(D2, V, h, e, cur2, fs2, pts, fl \cup {}, {})
  <2>1. {} \in SUBSET Leaving
    OBVIOUS
  <2> QED BY <1>0, <1>4, <1>6, <1>7, <1>9, <1>10, JumpMeaning DEF t
<1> QED BY <1>11 DEF MeaningOf

\* What the statements keep.
MeaningNow(D, V) == Meaning(D, V, g, order[1], current, frames, points, flow, loose)
WorkingNow(D, V) == Working(D, V, g, order[1], current, frames, points, flow, loose)
MeaningNext      == MeaningOf(g', order[1], current', frames', points', flow', loose')

\* A statement may assume it.
LEMMA MeaningState ==
  ASSUME Inv, phase = "body", OrderedNow, NEW D, NEW V, MeaningNow(D, V)
  PROVE  /\ WorkingNow(D, V) /\ D \in [Blocks -> Nat] /\ Labelled(g, D)
         /\ Meaning(D, V, g, order[1], current, frames, points, flow, loose)
         /\ flow \in SUBSET Flows /\ frames \in Seq(Frames)
<1>1. /\ Building(g, order, created, current, frames)
      /\ Good(g, Blocks) /\ g.branch[current] = NULL /\ current \in Blocks
      /\ Source(points, flow, loose, loops)
      /\ points \in 0 .. MaxPoints /\ loose \in SUBSET Leaving
  BY BodyState
<1>2. flow \in SUBSET Flows /\ frames \in Seq(Frames) /\ order \in Seq(Blocks) /\ order # <<>>
  BY <1>1 DEF Source, Building, Waiting, Listed, OrderedNow, Ordered
<1>3. order[1] \in Blocks
  <2>1. 1 \in 1 .. Len(order)
    BY <1>2
  <2> QED BY <1>2, <2>1, ElementOfSeq
<1>4. Apart(current, frames)
  <2>1. ASSUME NEW i \in 1 .. Len(frames)
        PROVE  /\ frames[i].exit \in Blocks \ {current}
               /\ frames[i].kind = "else" => frames[i].body \in Blocks \ {current}
               /\ frames[i].kind \in LoopKinds => frames[i].head \in Blocks
    <3>1. Shaped(frames[i]) /\ current \notin Waits(frames[i])
      BY <1>1, WaitsAreListed DEF Building, Waiting
    <3> QED BY <3>1 DEF Shaped, Waits, LoopKinds, Frames
  <2> QED BY <2>1 DEF Apart
<1>5. WorkingNow(D, V)
  BY <1>1, <1>2, <1>3, <1>4 DEF WorkingNow, Working, MeaningNow
<1> QED BY <1>2, <1>5, WorkingParts DEF WorkingNow, MeaningNow

\* A block that waits is its own label, also after the labels have moved.
LEMMA HoleAhead ==
  ASSUME NEW gr, NEW D \in [Blocks -> Nat], Labelled(gr, D), NEW b \in Blocks, NEW c \in Blocks,
         b # c, Untouched(gr, b), NEW t \in Nat
  PROVE  /\ D[b] = Hole(b) /\ Moved(D, Hole(c), t)[b] = Hole(b)
         /\ Landing(D, c, b) = Hole(b)
<1>1. BodyOf(gr, b) = <<>> /\ gr.branch[b] = NULL
  BY DEF Untouched, BodyOf
<1>2. D[b] = Hole(b)
  BY <1>1, EmptyLabel
<1>3. Hole(b) # Hole(c)
  BY HoleLabels
<1>4. Moved(D, Hole(c), t)[b] = IF D[b] = Hole(c) THEN t ELSE D[b]
  BY MovedType
<1> QED BY <1>2, <1>3, <1>4, CfgAssumption DEF Landing

\* New blocks are their own labels.
LEMMA FreshHole ==
  ASSUME Inv, phase = "body", OrderedNow, NEW D, NEW V, MeaningNow(D, V),
         NEW k \in Nat, created + k \in Blocks, NEW b \in created + 1 .. created + k, NEW t \in Nat
  PROVE  /\ b \in Blocks /\ b # current /\ Untouched(g, b)
         /\ D[b] = Hole(b) /\ Moved(D, Hole(current), t)[b] = Hole(b)
         /\ Landing(D, current, b) = Hole(b)
<1>1. /\ created \in Nat /\ current \in 1 .. created /\ b \in Blocks /\ b > created
      /\ Listed(g, order, created)
  BY BodyState, FreshOpen, TranslatorAssumption DEF Building
<1>2. Untouched(g, b) /\ b # current
  BY <1>1 DEF Listed
<1> QED BY <1>1, <1>2, MeaningState, HoleAhead, BodyState

\* The blocks the handlers come back to, too.
LEMMA WaitsHole ==
  ASSUME Inv, phase = "body", OrderedNow, NEW D, NEW V, MeaningNow(D, V),
         NEW i \in 1 .. Len(frames), NEW b \in Waits(frames[i]), NEW t \in Nat
  PROVE  /\ b \in Blocks /\ b # current
         /\ D[b] = Hole(b) /\ Moved(D, Hole(current), t)[b] = Hole(b)
         /\ Landing(D, current, b) = Hole(b)
<1>1. b \in Blocks /\ b # current /\ Untouched(g, b)
  BY BodyState DEF Building, Waiting, Ready, Waits
<1> QED BY <1>1, MeaningState, HoleAhead, BodyState

\* Where control goes after a jump, a branch on a condition, a return, or from an open block.
LEMMA JumpWays ==
  ASSUME NEW gr, NEW h, NEW c \in Blocks, NEW to \in Blocks, Rewired(gr, h, c, NULL, to, NULL),
         NEW D, NEW o, NEW l
  PROVE  Goes(h, D, c, o, l) <=> o = "any" /\ l = D[to]
BY CfgAssumption DEF Goes, Rewired

\* A return.
LEMMA ReturnWays ==
  ASSUME NEW gr, NEW h, NEW c \in Blocks, Rewired(gr, h, c, NULL, TERMINAL, NULL),
         NEW D, NEW o, NEW l
  PROVE  Goes(h, D, c, o, l) <=> o = "any" /\ l = EXIT
BY CfgAssumption DEF Goes, Rewired

\* An open block.
LEMMA OpenWays ==
  ASSUME NEW h, NEW c \in Blocks, h.branch[c] = NULL, NEW D, NEW o, NEW l
  PROVE  Goes(h, D, c, o, l) <=> o = "any" /\ l = Hole(c)
BY CfgAssumption DEF Goes

\* A branch on a condition: a constant is no point.
LEMMA BranchWays ==
  ASSUME NEW gr, NEW h, NEW c \in Blocks, NEW q \in Points, NEW v \in Conditions(q),
         NEW to \in Blocks, NEW else \in Blocks, Rewired(gr, h, c, v, to, else),
         NEW D, NEW o, NEW l
  PROVE  Goes(h, D, c, o, l) <=> \/ <<q, o>> \in Holds(q, v) /\ l = D[to]
                                 \/ <<q, o>> \in Fails(q, v) /\ l = D[else]
<1>1. IMMTRUE # IMMFALSE /\ q # IMMTRUE /\ q # IMMFALSE
  BY TranslatorAssumption
<1>2. /\ h.branch[c] = to /\ h.branchElse[c] = else /\ h.control[c] = v
      /\ to # NULL /\ to # TERMINAL /\ else # NULL
  BY CfgAssumption DEF Rewired
<1>3. CASE v = q
  BY <1>1, <1>2, <1>3 DEF Goes, Holds, Fails
<1>4. CASE v = IMMTRUE
  BY <1>1, <1>2, <1>4 DEF Goes, Holds, Fails
<1>5. CASE v = IMMFALSE
  BY <1>1, <1>2, <1>5 DEF Goes, Holds, Fails
<1> QED BY <1>3, <1>4, <1>5 DEF Conditions

\* The outcomes of a condition start at its point.
LEMMA OutcomesFrom ==
  ASSUME NEW q, NEW v
  PROVE  /\ FromPoint(q, Holds(q, v)) /\ FromPoint(q, Fails(q, v))
         /\ FromPoint(q, {<<q, "any">>}) /\ FromPoint(q, {})
BY DEF FromPoint, Holds, Fails

\* What evaluating a point does to the source.
LEMMA Evaluated ==
  ASSUME Inv, phase = "body", points < MaxPoints, NEW more, NEW leaving, Evaluate(more, leaving)
  PROVE  /\ points' = points + 1 /\ flow' = flow \cup Join(loose, points + 1) \cup more
         /\ loose' = leaving /\ points \in 0 .. MaxPoints
         /\ NextPoint = points + 1 /\ NextPoint \in Points /\ NextPoint \in Nat
         /\ NextPoint \in Values
BY BodyState, NextPointType, TranslatorAssumption DEF Evaluate, NextPoint, Points

\* A frame that starts with q.
LEMMA NewFrameMeans ==
  ASSUME NEW pts \in Nat, NEW f, FromPoint(pts + 1, f.atExit), FromPoint(pts + 1, f.atBody),
         f.first = pts + 1, f.kind \in BareKinds => f.atExit = {}
  PROVE  FrameMeans(pts + 1, f)
BY DEF FrameMeans, FromPoint, Below

\* An expression.
LEMMA ExpressionMeaning ==
  ASSUME Inv, OrderedNow, NEW D, NEW V, MeaningNow(D, V), Expression
  PROVE  MeaningNext
<1> DEFINE q == points + 1
           lo2 == {<<q, "any">>}
<1>1. /\ phase = "body" /\ current' = current /\ frames' = frames
      /\ g' = InsertInst(g, current, Op(NextPoint)) /\ points < MaxPoints
      /\ Evaluate({}, {<<NextPoint, "any">>})
  BY DEF Expression, InStatements, In, Evaluate, WithOp
<1>2. /\ points' = q /\ flow' = flow \cup Join(loose, q) \cup {}
      /\ loose' = lo2 /\ NextPoint = q /\ q \in Values
  BY <1>1, Evaluated
<1>3. WorkingNow(D, V)
  BY <1>1, MeaningState
<1>4. Extended(g, g', current, q) /\ g'.branch[current] = NULL
  BY <1>1, <1>2, BodyState, OpBodies
<1>5. FromPoint(q, lo2)
  BY OutcomesFrom
<1>6. AddsFlow(Reaching(V, loose, q), q, {})
  BY DEF AddsFlow
<1>7. Yields(Reaching(V, loose, q), q, g', Moved(D, Hole(current), q), current, {}, lo2, current)
  <2>1. \A o, l : Goes(g', Moved(D, Hole(current), q), current, o, l) <=> o = "any" /\ l = Hole(current)
    <3> DEFINE h == g'
               D2 == Moved(D, Hole(current), q)
    <3>1. h.branch[current] = NULL /\ current \in Blocks
      BY <1>1, <1>4, BodyState
    <3> HIDE DEF h, D2
    <3>2. \A o, l : Goes(h, D2, current, o, l) <=> o = "any" /\ l = Hole(current)
      BY <3>1, OpenWays
    <3> QED BY <3>2 DEF h, D2
  <2> QED BY <2>1 DEF Yields
<1> HIDE DEF lo2
<1>8. MeaningOf(g', order[1], current, frames, q, flow \cup Join(loose, q) \cup {}, lo2)
  <2> DEFINE h == g'
  <2>1. /\ Extended(g, h, current, q)
        /\ Yields(Reaching(V, loose, q), q, h, Moved(D, Hole(current), q), current, {}, lo2, current)
    BY <1>4, <1>7
  <2> HIDE DEF h
  <2>2. MeaningOf(h, order[1], current, frames, q, flow \cup Join(loose, q) \cup {}, lo2)
    BY <1>1, <1>3, <1>5, <1>6, <2>1, PointStay DEF WorkingNow
  <2> QED BY <2>2 DEF h
<1> QED BY <1>1, <1>2, <1>8 DEF MeaningNext

\* return with a value.
LEMMA ReturnValueMeaning ==
  ASSUME Inv, OrderedNow, NEW D, NEW V, MeaningNow(D, V), ReturnValue
  PROVE  MeaningNext
<1> DEFINE q == points + 1
           k == InsertInst(g, current, Op(q))
           h == AssertThat(TryMarkAsTerminal(k, current, TRUE), MarkReturns(k, current, TRUE))
           more == {<<q, "any", EXIT>>}
           D2 == Moved(D, Hole(current), q)
           V2 == Reaching(V, loose, q)
<1>1. /\ phase = "body" /\ frames' = frames
      /\ points < MaxPoints /\ Evaluate({<<NextPoint, "any", EXIT>>}, {})
      /\ g' = h
  BY DEF ReturnValue, InStatements, In, Evaluate, WithOp, Leave, NextPoint
<1>2. /\ points' = q /\ flow' = flow \cup Join(loose, q) \cup more
      /\ loose' = {} /\ q \in Values /\ q \in Nat
  BY <1>1, Evaluated
<1>3. WorkingNow(D, V)
  BY <1>1, MeaningState
<1>4. Extended(g, h, current, q) /\ Rewired(g, h, current, NULL, TERMINAL, NULL)
  BY <1>1, <1>2, BodyState, OpMarkBodies
<1>5. FromPoint(q, {})
  BY OutcomesFrom
<1>6. AddsFlow(V2, q, more)
  <2>1. EXIT \in V
    BY <1>1, MeaningState DEF Meaning, Numbered
  <2>2. EXIT \in V2
    BY <2>1 DEF Reaching
  <2> QED BY <1>2, <2>2 DEF AddsFlow
<1> HIDE DEF h, D2
<1>7. Yields(V2, q, h, D2, current, more, {}, current')
  <2>1. \A o, l : Goes(h, D2, current, o, l) <=> o = "any" /\ l = EXIT
    BY <1>1, <1>4, BodyState, ReturnWays
  <2> QED BY <2>1 DEF Yields
<1>8. MeaningOf(h, order[1], current', frames, q, flow \cup Join(loose, q) \cup more, {})
  <2> DEFINE c == current'
  <2>1. Yields(V2, q, h, D2, current, more, {}, c)
    BY <1>7
  <2> HIDE DEF more, c
  <2> QED BY <1>1, <1>3, <1>4, <1>5, <1>6, <2>1, PointStay DEF WorkingNow, D2, c
<1> QED BY <1>1, <1>2, <1>8 DEF MeaningNext

\* The right operand of && and ||.
LEMMA LogicRightMeaning ==
  ASSUME Inv, OrderedNow, NEW D, NEW V, MeaningNow(D, V), LogicRight
  PROVE  MeaningNext
<1> DEFINE q == points + 1
           exit == Top.exit
           lo2 == {<<q, "any">>} \cup Top.atExit
           h == ResetTo(InsertInst(g, current, Op(q)), current, exit)
           D2 == Moved(D, Hole(current), q)
           V2 == Reaching(V, loose, q)
<1>1. /\ phase = "body" /\ frames # <<>> /\ Top.kind = "rhs"
      /\ g' = h /\ current' = exit
      /\ points < MaxPoints /\ Evaluate({}, {<<NextPoint, "any">>} \cup Top.atExit)
      /\ frames' = Front(frames)
  BY DEF LogicRight, In, Pop, Evaluate, WithOp, NextPoint
<1>2. /\ points' = q /\ flow' = flow \cup Join(loose, q) \cup {}
      /\ loose' = lo2 /\ q \in Values /\ q \in Nat
  BY <1>1, Evaluated
<1>3. WorkingNow(D, V) /\ frames \in Seq(Frames)
  BY <1>1, MeaningState
<1>4. exit \in Blocks /\ exit \in Waits(Top) /\ Len(frames) \in 1 .. Len(frames)
  BY <1>1, <1>3, TopFrame
<1>5. D2[exit] = Hole(exit)
  BY <1>1, <1>2, <1>4, WaitsHole DEF Top
<1>6. FrameMeans(q, Top)
  <2>1. FramesMean(q, frames)
    BY <1>3, WorkingIs DEF WorkingNow
  <2> QED BY <1>4, <2>1 DEF FramesMean, Top
<1>7. Extended(g, h, current, q) /\ Rewired(g, h, current, NULL, exit, NULL)
  <2> HIDE DEF exit
  <2> QED BY <1>1, <1>2, <1>4, BodyState, OpJumpBodies
<1>8. Below(q, lo2)
  BY <1>2, <1>6 DEF Below, FrameMeans
<1>9. AddsFlow(V2, q, {})
  BY DEF AddsFlow
<1>10. \A W : q \notin W /\ Fed(W, lo2) => FedAt(W, Top)
  BY DEF Fed, FedAt
<1> HIDE DEF h, D2
<1>11. Merges(V2, q, h, D2, current, {}, lo2, exit, Top)
  <2>1. \A o, l : Goes(h, D2, current, o, l) <=> o = "any" /\ l = Hole(exit)
    <3> HIDE DEF exit
    <3> QED BY <1>1, <1>4, <1>5, <1>7, BodyState, JumpWays
  <2> QED BY <1>1, <2>1 DEF Merges, OwesAt
<1> HIDE DEF lo2, exit
<1>12. MeaningOf(h, order[1], exit, Front(frames), q, flow \cup Join(loose, q) \cup {}, lo2)
  BY <1>1, <1>3, <1>7, <1>8, <1>9, <1>10, <1>11, PointPop DEF WorkingNow, D2, Top
<1> QED BY <1>1, <1>2, <1>12 DEF MeaningNext

\* An if without an else.
LEMMA IfMeaning ==
  ASSUME NEW v \in Conditions(NextPoint), Inv, OrderedNow, NEW D, NEW V, MeaningNow(D, V), If(v)
  PROVE  MeaningNext
<1> DEFINE q == points + 1
           branchIf == Fresh(1)
           exit == Fresh(2)
           f == Frame("if", NULL, NULL, exit, Fails(NextPoint, v), {})
           h == ResetBranch(InsertInst(g, current, Op(q)), current, v, branchIf, exit)
           D2 == Moved(D, Hole(current), q)
<1>1. /\ phase = "body" /\ New(2) /\ current' = branchIf
      /\ frames' = Append(frames, f) /\ points < MaxPoints /\ g' = h
      /\ Evaluate({}, Holds(NextPoint, v))
  BY DEF If, InStatements, In, Push, Evaluate, WithOp, NextPoint
<1>2. /\ points' = q /\ flow' = flow \cup Join(loose, q) \cup {}
      /\ loose' = Holds(q, v) /\ q \in Values /\ q \in Nat /\ q \in Points /\ NextPoint = q
  BY <1>1, Evaluated
<1>3. /\ branchIf \in Blocks /\ exit \in Blocks
      /\ branchIf # exit /\ exit # NULL
      /\ {branchIf, exit} \subseteq created + 1 .. created + 2
      /\ created + 2 \in Blocks /\ 2 \in Nat
  BY <1>1, NewBlocks
<1>4. WorkingNow(D, V)
  BY <1>1, MeaningState
<1> HIDE DEF branchIf, exit
<1>5. D2[branchIf] = Hole(branchIf) /\ D2[exit] = Hole(exit)
  BY <1>1, <1>2, <1>3, FreshHole
<1>6. v \in Conditions(q) /\ v \in Values
  BY <1>1, <1>2, BodyState, NextPointType
<1>7. Extended(g, h, current, q) /\ Rewired(g, h, current, v, branchIf, exit)
  BY <1>1, <1>2, <1>3, <1>6, BodyState, ConditionBodies
<1>8. /\ f \in Frames /\ f.exit = exit /\ f.kind = "if" /\ f.first = q
      /\ f.atExit = Fails(q, v) /\ f.atBody = {}
  <2>1. /\ points \in 0 .. MaxPoints /\ NULL \in Optional /\ {} \in SUBSET Leaving
        /\ Fails(NextPoint, v) \in SUBSET Leaving
    BY <1>1, BodyState, NextPointType, OutcomeTypes DEF Optional
  <2> QED BY <1>2, <1>3, <2>1, FrameTypes
<1> HIDE DEF f, h, D2
<1>9. FromPoint(q, Holds(q, v)) /\ FromPoint(q, f.atExit) /\ FromPoint(q, f.atBody)
  BY <1>8, OutcomesFrom
<1>10. FrameMeans(q, f)
  <2>1. points \in Nat
    BY <1>1, BodyState
  <2> QED BY <1>8, <1>9, <2>1, NewFrameMeans DEF BareKinds
<1>11. Splits(q, h, D2, current, Holds(q, v), branchIf, f)
  <2>1. \A o, l : Goes(h, D2, current, o, l) <=> \/ <<q, o>> \in Holds(q, v) /\ l = Hole(branchIf)
                                                 \/ <<q, o>> \in Fails(q, v) /\ l = Hole(exit)
    <3>1. current \in Blocks
      BY <1>1, BodyState
    <3> HIDE DEF q
    <3>2. \A o, l : Goes(h, D2, current, o, l)
                     <=> \/ <<q, o>> \in Holds(q, v) /\ l = D2[branchIf]
                         \/ <<q, o>> \in Fails(q, v) /\ l = D2[exit]
      BY <1>2, <1>3, <1>6, <1>7, <3>1, BranchWays
    <3> QED BY <1>5, <3>2
  <2> QED BY <1>8, <2>1 DEF Splits, OwesAt
<1>12. MeaningOf(h, order[1], branchIf, Append(frames, f), q, flow \cup Join(loose, q) \cup {},
                 Holds(q, v))
  <2>1. f.kind \notin LoopKinds
    BY <1>8 DEF LoopKinds
  <2> QED BY <1>1, <1>4, <1>7, <1>8, <1>9, <1>10, <1>11, <2>1, PointPush DEF WorkingNow, D2
<1> QED BY <1>1, <1>2, <1>12 DEF MeaningNext

\* An if with an else.
LEMMA IfElseMeaning ==
  ASSUME NEW v \in Conditions(NextPoint), Inv, OrderedNow, NEW D, NEW V, MeaningNow(D, V), IfElse(v)
  PROVE  MeaningNext
<1> DEFINE q == points + 1
           branchIf == Fresh(1)
           exit == Fresh(2)
           branchElse == Fresh(3)
           f == Frame("else", NULL, branchIf, exit, {}, Holds(NextPoint, v))
           h == ResetBranch(InsertInst(g, current, Op(q)), current, v, branchIf, branchElse)
           D2 == Moved(D, Hole(current), q)
<1>1. /\ phase = "body" /\ New(3) /\ current' = branchElse
      /\ frames' = Append(frames, f) /\ points < MaxPoints /\ g' = h
      /\ Evaluate({}, Fails(NextPoint, v))
  BY DEF IfElse, InStatements, In, Push, Evaluate, WithOp, NextPoint
<1>2. /\ points' = q /\ flow' = flow \cup Join(loose, q) \cup {}
      /\ loose' = Fails(q, v) /\ q \in Values /\ q \in Nat /\ q \in Points /\ NextPoint = q
  BY <1>1, Evaluated
<1>3. /\ branchIf \in Blocks /\ exit \in Blocks /\ branchElse \in Blocks
      /\ branchIf # branchElse /\ branchIf # exit /\ exit # NULL
      /\ {branchIf, branchElse, exit} \subseteq created + 1 .. created + 3
      /\ created + 3 \in Blocks /\ 3 \in Nat
  BY <1>1, NewBlocks
<1>4. WorkingNow(D, V)
  BY <1>1, MeaningState
<1> HIDE DEF branchIf, exit, branchElse
<1>5. D2[branchIf] = Hole(branchIf) /\ D2[branchElse] = Hole(branchElse)
  BY <1>1, <1>2, <1>3, FreshHole
<1>6. v \in Conditions(q) /\ v \in Values
  BY <1>1, <1>2, BodyState, NextPointType
<1>7. Extended(g, h, current, q) /\ Rewired(g, h, current, v, branchIf, branchElse)
  BY <1>1, <1>2, <1>3, <1>6, BodyState, ConditionBodies
<1>8. /\ f \in Frames /\ f.exit = exit /\ f.body = branchIf /\ f.kind = "else" /\ f.first = q
      /\ f.atExit = {} /\ f.atBody = Holds(q, v)
  <2>1. /\ points \in 0 .. MaxPoints /\ NULL \in Optional /\ {} \in SUBSET Leaving
        /\ Holds(NextPoint, v) \in SUBSET Leaving /\ branchIf \in Optional
    BY <1>1, <1>3, BodyState, NextPointType, OutcomeTypes DEF Optional
  <2> QED BY <1>2, <1>3, <2>1, FrameTypes
<1> HIDE DEF f, h, D2
<1>9. FromPoint(q, Fails(q, v)) /\ FromPoint(q, f.atExit) /\ FromPoint(q, f.atBody)
  BY <1>8, OutcomesFrom
<1>10. FrameMeans(q, f)
  <2>1. points \in Nat
    BY <1>1, BodyState
  <2> QED BY <1>8, <1>9, <2>1, NewFrameMeans
<1>11. Splits(q, h, D2, current, Fails(q, v), branchElse, f)
  <2>1. \A o, l : Goes(h, D2, current, o, l) <=> \/ <<q, o>> \in Holds(q, v) /\ l = Hole(branchIf)
                                                 \/ <<q, o>> \in Fails(q, v) /\ l = Hole(branchElse)
    <3>1. /\ current \in Blocks /\ q \in Points /\ v \in Conditions(q)
          /\ branchIf \in Blocks /\ branchElse \in Blocks
      BY <1>1, <1>2, <1>3, <1>6, BodyState
    <3> HIDE DEF q
    <3>2. \A o, l : Goes(h, D2, current, o, l)
                     <=> \/ <<q, o>> \in Holds(q, v) /\ l = D2[branchIf]
                         \/ <<q, o>> \in Fails(q, v) /\ l = D2[branchElse]
      BY <1>7, <3>1, BranchWays
    <3> QED BY <1>5, <3>2
  <2> QED BY <1>8, <2>1 DEF Splits, OwesAt
<1>12. MeaningOf(h, order[1], branchElse, Append(frames, f), q, flow \cup Join(loose, q) \cup {},
                 Fails(q, v))
  <2>1. f.kind \notin LoopKinds
    BY <1>8 DEF LoopKinds
  <2> QED BY <1>1, <1>4, <1>7, <1>8, <1>9, <1>10, <1>11, <2>1, PointPush DEF WorkingNow, D2
<1> QED BY <1>1, <1>2, <1>12 DEF MeaningNext

\* The left operand of && and ||.
LEMMA LogicLeftMeaning ==
  ASSUME NEW v \in Conditions(NextPoint), NEW isAnd \in BOOLEAN, Inv, OrderedNow,
         NEW D, NEW V, MeaningNow(D, V), LogicLeft(isAnd, v)
  PROVE  MeaningNext
<1> DEFINE q == points + 1
           next == Fresh(1)
           exit == Fresh(2)
           a == IF isAnd THEN next ELSE exit
           b == IF isAnd THEN exit ELSE next
           on == IF isAnd THEN Holds(NextPoint, v) ELSE Fails(NextPoint, v)
           off == IF isAnd THEN Fails(NextPoint, v) ELSE Holds(NextPoint, v)
           f == Frame("rhs", NULL, NULL, exit, off, {})
           h == ResetBranch(InsertInst(g, current, Op(q)), current, v, a, b)
           D2 == Moved(D, Hole(current), q)
<1>1. /\ phase = "body" /\ New(2) /\ current' = next
      /\ frames' = Append(frames, f) /\ points < MaxPoints /\ g' = h
      /\ Evaluate({}, on)
  BY DEF LogicLeft, InExpression, InStatements, In, Push, Evaluate, WithOp, NextPoint
<1>2. /\ points' = q /\ flow' = flow \cup Join(loose, q) \cup {}
      /\ loose' = on /\ q \in Values /\ q \in Nat /\ q \in Points /\ NextPoint = q
  BY <1>1, Evaluated
<1>3. /\ next \in Blocks /\ exit \in Blocks
      /\ next # exit /\ exit # NULL
      /\ {next, exit} \subseteq created + 1 .. created + 2
      /\ created + 2 \in Blocks /\ 2 \in Nat
  BY <1>1, NewBlocks
<1>4. WorkingNow(D, V)
  BY <1>1, MeaningState
<1> HIDE DEF next, exit
<1>5. D2[next] = Hole(next) /\ D2[exit] = Hole(exit)
  BY <1>1, <1>2, <1>3, FreshHole
<1>6. v \in Conditions(q) /\ v \in Values
  BY <1>1, <1>2, BodyState, NextPointType
<1>7. /\ a \in Blocks /\ b \in Blocks /\ a # b
      /\ D2[a] = Hole(a) /\ D2[b] = Hole(b)
  BY <1>3, <1>5
<1>8. /\ on = IF isAnd THEN Holds(q, v) ELSE Fails(q, v)
      /\ off = IF isAnd THEN Fails(q, v) ELSE Holds(q, v)
      /\ on \in SUBSET Leaving /\ off \in SUBSET Leaving
  <2>1. Holds(NextPoint, v) \in SUBSET Leaving /\ Fails(NextPoint, v) \in SUBSET Leaving
    BY <1>1, BodyState, NextPointType, OutcomeTypes
  <2> QED BY <1>2, <2>1
<1> HIDE DEF on, off
<1>9. Extended(g, h, current, q) /\ Rewired(g, h, current, v, a, b)
  <2> HIDE DEF a, b
  <2> QED BY <1>1, <1>2, <1>6, <1>7, BodyState, ConditionBodies
<1>10. /\ f \in Frames /\ f.exit = exit /\ f.kind = "rhs" /\ f.first = q
       /\ f.atExit = off /\ f.atBody = {}
  <2>1. points \in 0 .. MaxPoints /\ NULL \in Optional /\ {} \in SUBSET Leaving
    BY <1>1, BodyState DEF Optional
  <2> QED BY <1>3, <1>8, <2>1, FrameTypes
<1> HIDE DEF f, h, D2
<1>11. FromPoint(q, on) /\ FromPoint(q, f.atExit) /\ FromPoint(q, f.atBody)
  <2> HIDE DEF a, b, q
  <2>1. CASE isAnd
    BY <1>8, <1>10, <2>1, OutcomesFrom, ZenonT(40)
  <2>2. CASE ~ isAnd
    <3>1. on = Fails(q, v) /\ f.atExit = Holds(q, v) /\ f.atBody = {}
      BY <1>8, <1>10, <2>2
    <3> QED BY <3>1, OutcomesFrom
  <2> QED BY <2>1, <2>2
<1>12. FrameMeans(q, f)
  <2>1. points \in Nat
    BY <1>1, BodyState
  <2> QED BY <1>10, <1>11, <2>1, NewFrameMeans DEF BareKinds
<1>13. Splits(q, h, D2, current, on, next, f)
  <2>1. \A o, l : Goes(h, D2, current, o, l) <=> \/ <<q, o>> \in Holds(q, v) /\ l = Hole(a)
                                                 \/ <<q, o>> \in Fails(q, v) /\ l = Hole(b)
    <3>1. current \in Blocks
      BY <1>1, BodyState
    <3> HIDE DEF a, b, q
    <3> QED BY <1>2, <1>6, <1>7, <1>9, <3>1, BranchWays, SMTT(30)
  <2>2. \A o, l : Goes(h, D2, current, o, l) <=> \/ <<q, o>> \in on /\ l = Hole(next)
                                                 \/ <<q, o>> \in off /\ l = Hole(exit)
    <3>1. CASE isAnd
      BY <1>8, <2>1, <3>1
    <3>2. CASE ~ isAnd
      BY <1>8, <2>1, <3>2
    <3> QED BY <3>1, <3>2
  <2> QED BY <1>10, <2>2 DEF Splits, OwesAt
<1>14. MeaningOf(h, order[1], next, Append(frames, f), q, flow \cup Join(loose, q) \cup {}, on)
  <2>1. f.kind \notin LoopKinds
    BY <1>10 DEF LoopKinds
  <2> HIDE DEF a, b
  <2> QED BY <1>1, <1>4, <1>9, <1>10, <1>11, <1>12, <1>13, <2>1, PointPush DEF WorkingNow, D2
<1> QED BY <1>1, <1>2, <1>14 DEF MeaningNext

\* What the handler of the innermost statement knows.
LEMMA TopKnows ==
  ASSUME Inv, phase = "body", frames # <<>>, OrderedNow, NEW D, NEW V, MeaningNow(D, V)
  PROVE  /\ Len(frames) \in 1 .. Len(frames) /\ frames[Len(frames)] = Top
         /\ Top.kind \in BareKinds => Top.atExit = {}
         /\ Top.kind \in LoopKinds => HeadKnown(V, D, points, loose, current, frames, Len(frames))
         /\ FedIn(V, loose, frames, Len(frames)) <=> Fed(V, loose)
         /\ points \in Nat /\ V \subseteq 0 .. points \cup {EXIT}
         /\ FramesMean(points, frames) /\ FrameMeans(points, Top) /\ Below(points, loose)
<1>1. /\ Working(D, V, g, order[1], current, frames, points, flow, loose)
      /\ Meaning(D, V, g, order[1], current, frames, points, flow, loose)
      /\ frames \in Seq(Frames)
  BY MeaningState DEF WorkingNow
<1>2. Len(frames) \in 1 .. Len(frames) /\ frames[Len(frames)] = Top
  BY <1>1 DEF Top
<1>3. points \in Nat /\ FramesMean(points, frames) /\ Below(points, loose)
  BY <1>1, WorkingIs
<1>4. FrameMeans(points, Top)
  BY <1>2, <1>3 DEF FramesMean
<1>5. FedIn(V, loose, frames, Len(frames)) <=> Fed(V, loose)
  BY <1>1, PoppedOwes
<1>6. /\ Top.kind \in LoopKinds => HeadKnown(V, D, points, loose, current, frames, Len(frames))
      /\ V \subseteq 0 .. points \cup {EXIT}
  BY <1>1, <1>2 DEF Meaning, Heads, Numbered
<1> QED BY <1>2, <1>3, <1>4, <1>5, <1>6 DEF FrameMeans

\* The condition of a do loop: where its head is.
LEMMA BackToHead ==
  ASSUME Inv, phase = "body", frames # <<>>, OrderedNow, NEW D, NEW V, MeaningNow(D, V),
         points < MaxPoints, Top.kind \in LoopKinds,
         points + 1 \in Reaching(V, loose, points + 1)
  PROVE  /\ Moved(D, Hole(current), points + 1)[Top.head] = Top.first
         /\ Top.first \in Reaching(V, loose, points + 1)
<1> DEFINE q == points + 1
<1>1. /\ Len(frames) \in 1 .. Len(frames) /\ frames[Len(frames)] = Top
      /\ HeadKnown(V, D, points, loose, current, frames, Len(frames))
      /\ FedIn(V, loose, frames, Len(frames)) <=> Fed(V, loose)
      /\ points \in Nat /\ V \subseteq 0 .. points \cup {EXIT}
  BY TopKnows
<1>2. q \notin V
  BY <1>1, TranslatorAssumption DEF EXIT
<1>3. Fed(V, loose) /\ Reaching(V, loose, q) = V \cup {q}
  BY <1>2 DEF Reaching
<1>4. \/ Top.first <= points /\ Top.first \in V /\ D[Top.head] = Top.first
      \/ Top.first = q /\ D[Top.head] = Hole(current)
  BY <1>1, <1>3 DEF HeadKnown
<1>5. Top.head \in Blocks /\ D \in [Blocks -> Nat] /\ current \in Blocks /\ q \in Nat
  BY <1>1, MeaningState, TopFrame, BodyState DEF Shaped, LoopKinds
<1>6. Moved(D, Hole(current), q)[Top.head] = IF D[Top.head] = Hole(current) THEN q ELSE D[Top.head]
  BY <1>5, MovedType
<1>7. Hole(current) > MaxPoints + 1 /\ Top.first \in 1 .. MaxPoints + 1
  BY <1>5, HoleLabels, TopFrame, TranslatorAssumption DEF EXIT
<1>8. CASE Top.first <= points /\ Top.first \in V /\ D[Top.head] = Top.first
  <2>1. Top.first # Hole(current)
    BY <1>7, TranslatorAssumption
  <2> QED BY <1>3, <1>6, <1>8, <2>1
<1>9. CASE Top.first = q /\ D[Top.head] = Hole(current)
  BY <1>3, <1>6, <1>9
<1> QED BY <1>4, <1>8, <1>9

\* The condition of a do loop.
LEMMA DoTestMeaning ==
  ASSUME NEW v \in Conditions(NextPoint), Inv, OrderedNow, NEW D, NEW V, MeaningNow(D, V), DoTest(v)
  PROVE  MeaningNext
<1> DEFINE q == points + 1
           head == Top.head
           exit == Top.exit
           first == Top.first
           more == Join(Holds(NextPoint, v), first)
           lo2 == Fails(NextPoint, v)
           h == ResetBranch(InsertInst(g, current, Op(q)), current, v, head, exit)
           D2 == Moved(D, Hole(current), q)
           V2 == Reaching(V, loose, q)
<1>1. /\ phase = "body" /\ frames # <<>> /\ Top.kind = "doCond"
      /\ g' = h /\ current' = exit
      /\ points < MaxPoints /\ Evaluate(more, lo2)
      /\ frames' = Front(frames)
  BY DEF DoTest, In, Pop, Evaluate, WithOp, NextPoint
<1> HIDE DEF more, lo2
<1>2. /\ points' = q /\ flow' = flow \cup Join(loose, q) \cup more
      /\ loose' = lo2 /\ q \in Values /\ q \in Nat /\ q \in Points /\ NextPoint = q
  BY <1>1, Evaluated
<1>3. WorkingNow(D, V)
  BY <1>1, MeaningState
<1>4. /\ exit \in Blocks /\ exit \in Waits(Top) /\ head \in Blocks /\ head # exit
      /\ Len(frames) \in 1 .. Len(frames) /\ frames[Len(frames)] = Top
      /\ Top.atExit = {}
  BY <1>1, TopFrame, TopKnows DEF Shaped, BareKinds
<1> HIDE DEF h, D2, V2
<1>5. D2[exit] = Hole(exit)
  BY <1>1, <1>2, <1>4, WaitsHole DEF D2
<1>6. v \in Conditions(q) /\ v \in Values /\ current \in Blocks
  BY <1>1, <1>2, BodyState, NextPointType
<1>7. Extended(g, h, current, q) /\ Rewired(g, h, current, v, head, exit)
  <2> HIDE DEF head, exit
  <2> QED BY <1>1, <1>2, <1>4, <1>6, BodyState, ConditionBodies DEF h
<1>8. q \in V2 => D2[head] = first /\ first \in V2
  <2>1. Top.kind \in LoopKinds
    BY <1>1 DEF LoopKinds
  <2> QED BY <1>1, <2>1, BackToHead DEF V2, D2
<1> HIDE DEF head, exit, first
<1>9. \A o, l : Goes(h, D2, current, o, l) <=> \/ <<q, o>> \in Holds(q, v) /\ l = D2[head]
                                               \/ <<q, o>> \in lo2 /\ l = Hole(exit)
  <2>1. /\ q \in Points /\ v \in Conditions(q) /\ lo2 = Fails(q, v) /\ current \in Blocks
        /\ head \in Blocks /\ exit \in Blocks /\ Rewired(g, h, current, v, head, exit)
    BY <1>2, <1>4, <1>6, <1>7 DEF lo2, exit, head
  <2> HIDE DEF q
  <2>2. \A o, l : Goes(h, D2, current, o, l)
                     <=> \/ <<q, o>> \in Holds(q, v) /\ l = D2[head]
                         \/ <<q, o>> \in Fails(q, v) /\ l = D2[exit]
    BY <2>1, BranchWays
  <2> QED BY <1>5, <2>1, <2>2
<1>10. \A p, o, l : <<p, o, l>> \in more <=> <<p, o>> \in Holds(q, v) /\ l = first
  <2>1. Holds(q, v) \in SUBSET Leaving /\ more = Join(Holds(q, v), first)
    BY <1>1, <1>2, BodyState, NextPointType, OutcomeTypes DEF more
  <2> QED BY <2>1, JoinIs
<1>11. FromPoint(q, lo2) /\ FromPoint(q, Holds(q, v))
  BY <1>2, OutcomesFrom DEF lo2
<1>12. Below(q, lo2)
  BY <1>2, <1>11, FromPointBelow
<1>13. AddsFlow(V2, q, more)
  <2>1. ASSUME NEW p, NEW o, NEW l, <<p, o, l>> \in more
        PROVE  p \in Nat /\ p <= q /\ (p \in V2 => l \in V2)
    <3>1. p = q /\ l = first
      <4>1. <<p, o>> \in Holds(q, v) /\ l = first
        BY <1>10, <2>1
      <4> HIDE DEF q
      <4> QED BY <1>11, <4>1 DEF FromPoint
    <3> QED BY <1>2, <1>8, <3>1
  <2> QED BY <2>1 DEF AddsFlow
<1>14. \A W : q \notin W /\ Fed(W, lo2) => FedAt(W, Top)
  BY <1>11, NotFed
<1>15. Merges(V2, q, h, D2, current, more, lo2, exit, Top)
  <2>1. SUFFICES ASSUME NEW p, NEW o, NEW l, p \in V2
                 PROVE  <<p, o, l>> \in more \/ (<<p, o>> \in lo2 /\ l = Hole(exit))
                          <=> OwesAt(Top, p, o, l) \/ (p = q /\ Goes(h, D2, current, o, l))
    BY DEF Merges
  <2>2. ~ OwesAt(Top, p, o, l)
    BY <1>1, <1>4 DEF OwesAt
  <2>3. <<p, o, l>> \in more <=> <<p, o>> \in Holds(q, v) /\ l = first
    BY <1>10
  <2> HIDE DEF q
  <2>4. CASE p = q
    <3>1. D2[head] = first
      BY <1>8, <2>1, <2>4
    <3> QED BY <1>9, <2>2, <2>3, <2>4, <3>1
  <2>5. CASE p # q
    <3>1. <<p, o>> \notin Holds(q, v) /\ <<p, o>> \notin lo2
      BY <1>11, <2>5 DEF FromPoint
    <3> QED BY <2>2, <2>3, <2>5, <3>1
  <2> QED BY <2>4, <2>5
<1>16. MeaningOf(h, order[1], exit, Front(frames), q, flow \cup Join(loose, q) \cup more, lo2)
  BY <1>1, <1>3, <1>7, <1>12, <1>13, <1>14, <1>15, PointPop DEF WorkingNow, D2, V2, Top
<1> QED BY <1>1, <1>2, <1>16 DEF MeaningNext

\* The condition of a while or for loop.
LEMMA LoopTestMeaning ==
  ASSUME NEW v \in Conditions(NextPoint), NEW kind, NEW cond,
         <<kind, cond>> \in {<<"while", "whileCond">>, <<"for", "forCond">>},
         Inv, OrderedNow, NEW D, NEW V, MeaningNow(D, V), LoopTest(v, kind, cond)
  PROVE  MeaningNext
<1> DEFINE q == points + 1
           body == Top.body
           exit == Top.exit
           f == [Top EXCEPT !.kind = kind, !.atExit = Fails(NextPoint, v), !.body = NULL]
           lo2 == Holds(NextPoint, v)
           h == ResetBranch(InsertInst(g, current, Op(q)), current, v, body, exit)
           D2 == Moved(D, Hole(current), q)
<1>1. /\ phase = "body" /\ frames # <<>> /\ Top.kind = cond
      /\ g' = h /\ current' = body
      /\ points < MaxPoints /\ Evaluate({}, lo2)
      /\ frames' = Append(Front(frames), f)
  BY DEF LoopTest, In, Replace, Evaluate, WithOp, NextPoint
<1>2. /\ points' = q /\ flow' = flow \cup Join(loose, q) \cup {}
      /\ loose' = lo2 /\ q \in Values /\ q \in Nat /\ q \in Points /\ NextPoint = q
  BY <1>1, Evaluated
<1>3. WorkingNow(D, V)
  BY <1>1, MeaningState
<1>4. kind \in {"while", "for"} /\ cond \in {"whileCond", "forCond"}
  OBVIOUS
<1>5. /\ exit \in Blocks /\ exit \in Waits(Top) /\ body \in Blocks /\ body \in Waits(Top)
      /\ body # exit /\ Top.head \in Blocks
      /\ Len(frames) \in 1 .. Len(frames) /\ frames[Len(frames)] = Top
      /\ Shaped(Top) /\ Top \in Frames
  BY <1>1, <1>4, TopFrame, TopKnows DEF Shaped
<1> HIDE DEF h, D2
<1>6. D2[exit] = Hole(exit) /\ D2[body] = Hole(body)
  BY <1>1, <1>2, <1>5, WaitsHole DEF D2
<1>7. v \in Conditions(q) /\ v \in Values /\ current \in Blocks
  BY <1>1, <1>2, BodyState, NextPointType
<1>8. Extended(g, h, current, q) /\ Rewired(g, h, current, v, body, exit)
  <2> HIDE DEF body, exit
  <2> QED BY <1>1, <1>2, <1>5, <1>7, BodyState, ConditionBodies DEF h
<1>9. /\ f \in Frames /\ f.kind = kind /\ f.head = Top.head /\ f.first = Top.first
      /\ f.atBody = Top.atBody /\ f.atExit = Fails(q, v) /\ f.exit = exit
  <2>1. Fails(NextPoint, v) \in SUBSET Leaving
    BY <1>1, BodyState, NextPointType, OutcomeTypes
  <2>2. f \in Frames
    BY <1>4, <1>5, <2>1, ReplacedFrame DEF Shaped
  <2> QED BY <1>2, <1>5, <2>2 DEF Frames
<1> HIDE DEF f, body, exit
<1>10. FromPoint(q, lo2) /\ FromPoint(q, f.atExit)
  <2>1. lo2 = Holds(q, v) /\ f.atExit = Fails(q, v)
    BY <1>2, <1>9
  <2> HIDE DEF q, lo2
  <2> QED BY <2>1, OutcomesFrom
<1>11. Splits(q, h, D2, current, lo2, body, f)
  <2>1. /\ q \in Points /\ v \in Conditions(q) /\ lo2 = Holds(q, v) /\ current \in Blocks
        /\ body \in Blocks /\ exit \in Blocks /\ Rewired(g, h, current, v, body, exit)
    BY <1>2, <1>5, <1>7, <1>8 DEF exit, body
  <2>2. \A o, l : Goes(h, D2, current, o, l)
                     <=> \/ <<q, o>> \in lo2 /\ l = Hole(body)
                         \/ <<q, o>> \in Fails(q, v) /\ l = Hole(exit)
    <3> HIDE DEF q, lo2
    <3>1. \A o, l : Goes(h, D2, current, o, l)
                     <=> \/ <<q, o>> \in Holds(q, v) /\ l = D2[body]
                         \/ <<q, o>> \in Fails(q, v) /\ l = D2[exit]
      BY <2>1, BranchWays
    <3> QED BY <1>6, <2>1, <3>1
  <2> HIDE DEF q, lo2
  <2> QED BY <1>4, <1>9, <2>2 DEF Splits, OwesAt
<1> HIDE DEF lo2
<1>12. MeaningOf(h, order[1], body, Append(Front(frames), f), q,
                 flow \cup Join(loose, q) \cup {}, lo2)
  BY <1>1, <1>3, <1>4, <1>5, <1>8, <1>9, <1>10, <1>11, PointReplace DEF WorkingNow, D2
<1> QED BY <1>1, <1>2, <1>12 DEF MeaningNext

\* What a statement without a point does to the source.
LEMMA Unevaluated ==
  ASSUME NEW more, NEW leaving, NoPoint(more, leaving)
  PROVE  points' = points /\ flow' = flow \cup more /\ loose' = leaving
BY DEF NoPoint

\* The end of an else branch.
LEMMA EndElseMeaning ==
  ASSUME Inv, OrderedNow, NEW D, NEW V, MeaningNow(D, V), EndElse
  PROVE  MeaningNext
<1> DEFINE body == Top.body
           exit == Top.exit
           f == [Top EXCEPT !.kind = "if", !.atExit = loose, !.body = NULL]
           h == ResetTo(g, current, exit)
<1>1. /\ phase = "body" /\ frames # <<>> /\ Top.kind = "else"
      /\ g' = h /\ current' = body /\ frames' = Append(Front(frames), f)
      /\ points' = points /\ flow' = flow \cup {} /\ loose' = Top.atBody
  BY Unevaluated DEF EndElse, In, Replace
<1>2. WorkingNow(D, V) /\ loose \in SUBSET Leaving /\ current \in Blocks
  BY <1>1, MeaningState, BodyState
<1>3. /\ exit \in Blocks /\ exit \in Waits(Top) /\ frames[Len(frames)] = Top
      /\ Len(frames) \in 1 .. Len(frames)
      /\ Shaped(Top) /\ Top \in Frames /\ Top.atExit = {}
      /\ FrameMeans(points, Top) /\ Below(points, loose)
  BY <1>1, TopFrame, TopKnows DEF BareKinds
<1>4. Landing(D, current, exit) = Hole(exit)
  <2>1. 0 \in Nat
    OBVIOUS
  <2> QED BY <1>1, <1>3, <2>1, WaitsHole
<1>5. Jumped(g, h, current, exit)
  BY <1>1, <1>2, <1>3, BodyState, JumpBodies
<1>6. /\ f \in Frames /\ f.kind = "if" /\ f.first = Top.first /\ f.atExit = loose
      /\ f.atBody = Top.atBody /\ f.exit = exit
  <2>1. f \in Frames
    BY <1>2, <1>3, ReplacedFrame DEF Shaped
  <2> QED BY <1>3, <2>1 DEF Frames
<1> HIDE DEF f, h, exit
<1>7. PoursInto(V, loose, Hole(exit), Top.atBody, body, Top, f)
  BY <1>1, <1>3, <1>6 DEF PoursInto, OwesAt, exit
<1>8. FrameMeans(points, f) /\ Below(points, Top.atBody)
  BY <1>3, <1>6 DEF FrameMeans, BareKinds
<1>9. /\ f.kind \notin LoopKinds /\ ~ YoungAt(points, Top)
      /\ Fed(V, Top.atBody) \/ FedAt(V, f) => Fed(V, loose) \/ FedAt(V, Top)
  BY <1>1, <1>6 DEF LoopKinds, YoungAt, FedAt
<1>10. MeaningOf(h, order[1], body, Append(Front(frames), f), points, flow \cup {}, Top.atBody)
  BY <1>1, <1>2, <1>3, <1>4, <1>5, <1>6, <1>7, <1>8, <1>9, JumpReplace DEF WorkingNow
<1> QED BY <1>1, <1>10 DEF MeaningNext

\* The end of the body of a do loop.
LEMMA EndDoBodyMeaning ==
  ASSUME Inv, OrderedNow, NEW D, NEW V, MeaningNow(D, V), EndDoBody
  PROVE  MeaningNext
<1> DEFINE body == Top.body
           f == [Top EXCEPT !.kind = "doCond", !.body = NULL]
           h == ResetTo(g, current, body)
<1>1. /\ phase = "body" /\ frames # <<>> /\ Top.kind = "do"
      /\ g' = h /\ current' = body /\ frames' = Append(Front(frames), f)
      /\ points' = points /\ flow' = flow /\ loose' = loose
  BY DEF EndDoBody, In, Replace
<1>2. WorkingNow(D, V) /\ loose \in SUBSET Leaving /\ current \in Blocks
  BY <1>1, MeaningState, BodyState
<1>3. /\ body \in Blocks /\ body \in Waits(Top) /\ frames[Len(frames)] = Top
      /\ Len(frames) \in 1 .. Len(frames)
      /\ Shaped(Top) /\ Top \in Frames /\ Top.atExit \in SUBSET Leaving
      /\ FrameMeans(points, Top) /\ Below(points, loose) /\ Top.atExit = {}
  BY <1>1, TopFrame, TopKnows DEF BareKinds, Shaped
<1>4. Landing(D, current, body) = Hole(body)
  <2>1. 0 \in Nat
    OBVIOUS
  <2> QED BY <1>1, <1>3, <2>1, WaitsHole
<1>5. Jumped(g, h, current, body)
  BY <1>1, <1>2, <1>3, BodyState, JumpBodies
<1>6. /\ f \in Frames /\ f.kind = "doCond" /\ f.first = Top.first /\ f.atExit = Top.atExit
      /\ f.atBody = Top.atBody /\ f.exit = Top.exit /\ f.head = Top.head
  BY <1>3, CfgAssumption DEF Frames, Optional
<1> HIDE DEF f, h
<1>7. PoursInto(V, loose, Hole(body), loose, body, Top, f)
  BY <1>1, <1>6 DEF PoursInto, OwesAt
<1>8. FrameMeans(points, f)
  BY <1>3, <1>6 DEF FrameMeans, BareKinds
<1>9. /\ Top.kind \in LoopKinds
      /\ Fed(V, loose) \/ FedAt(V, f) => Fed(V, loose) \/ FedAt(V, Top)
      /\ YoungAt(points, Top) => YoungAt(points, f)
  BY <1>1, <1>6 DEF LoopKinds, YoungAt, FedAt
<1> HIDE DEF body
<1>10. MeaningOf(h, order[1], body, Append(Front(frames), f), points, flow \cup {}, loose)
  BY <1>1, <1>2, <1>3, <1>4, <1>5, <1>6, <1>7, <1>8, <1>9, JumpReplace DEF WorkingNow
<1>11. flow \cup {} = flow
  OBVIOUS
<1> QED BY <1>1, <1>10, <1>11 DEF MeaningNext

\* The end of an if.
LEMMA EndIfMeaning ==
  ASSUME Inv, OrderedNow, NEW D, NEW V, MeaningNow(D, V), EndIf
  PROVE  MeaningNext
<1> DEFINE exit == Top.exit
           h == ResetTo(g, current, exit)
           lo2 == loose \cup Top.atExit
<1>1. /\ phase = "body" /\ frames # <<>> /\ Top.kind = "if"
      /\ g' = h /\ current' = exit /\ frames' = Front(frames)
      /\ points' = points /\ flow' = flow \cup {} /\ loose' = lo2
  BY Unevaluated DEF EndIf, In, Pop
<1>2. WorkingNow(D, V) /\ current \in Blocks
  BY <1>1, MeaningState, BodyState
<1>3. /\ exit \in Blocks /\ exit \in Waits(Top) /\ frames[Len(frames)] = Top
      /\ Len(frames) \in 1 .. Len(frames)
      /\ FrameMeans(points, Top) /\ Below(points, loose)
  BY <1>1, TopFrame, TopKnows
<1>4. Landing(D, current, exit) = Hole(exit)
  <2>1. 0 \in Nat
    OBVIOUS
  <2> QED BY <1>1, <1>3, <2>1, WaitsHole
<1>5. Jumped(g, h, current, exit)
  BY <1>1, <1>2, <1>3, BodyState, JumpBodies
<1> HIDE DEF h, exit
<1>6. Pours(V, loose, Hole(exit), {}, lo2, exit, Top)
  BY <1>1 DEF Pours, OwesAt, exit
<1>7. Below(points, lo2)
  BY <1>3 DEF FrameMeans, Below
<1>8. /\ ~ YoungAt(points, Top) /\ AddsFlow(V, points, {})
      /\ Fed(V, lo2) => Fed(V, loose) \/ FedAt(V, Top)
  BY <1>1 DEF LoopKinds, YoungAt, FedAt, AddsFlow, Fed
<1> HIDE DEF lo2
<1>9. MeaningOf(h, order[1], exit, Front(frames), points, flow \cup {}, lo2)
  BY <1>1, <1>2, <1>3, <1>4, <1>5, <1>6, <1>7, <1>8, JumpPop DEF WorkingNow
<1> QED BY <1>1, <1>9 DEF MeaningNext

\* Where the jump back to the head of a loop leads.
LEMMA LoopsBack ==
  ASSUME Inv, phase = "body", OrderedNow, NEW D, NEW V, MeaningNow(D, V),
         NEW k \in 1 .. Len(frames), frames[k].kind \in LoopKinds
  PROVE  LET t == Landing(D, current, frames[k].head)
         IN  /\ \A p, o, l : p \in V /\ l # 0 =>
                   (<<p, o, l>> \in LoopBack(frames[k], loose) <=> <<p, o>> \in loose /\ l = t)
             /\ AddsFlow(V, points, LoopBack(frames[k], loose))
<1> DEFINE f == frames[k]
           t == Landing(D, current, f.head)
           back == LoopBack(f, loose)
<1>1. /\ Working(D, V, g, order[1], current, frames, points, flow, loose)
      /\ Meaning(D, V, g, order[1], current, frames, points, flow, loose)
      /\ frames \in Seq(Frames) /\ D \in [Blocks -> Nat]
  BY MeaningState DEF WorkingNow
<1>2. /\ HeadKnown(V, D, points, loose, current, frames, k) /\ Below(points, loose)
      /\ points \in 0 .. MaxPoints /\ loose \in SUBSET Leaving /\ current \in Blocks
      /\ Apart(current, frames)
  BY <1>1, WorkingIs DEF Meaning, Heads
<1>3. f \in Frames /\ f.head \in Blocks
  BY <1>1, <1>2 DEF Apart
<1>4. f.first \in 1 .. MaxPoints + 1 /\ f.head # TERMINAL
  BY <1>3, CfgAssumption DEF Frames
<1>5. t = IF D[f.head] = Hole(current) THEN 0 ELSE D[f.head]
  BY <1>4 DEF Landing
<1>6. \A p, o, l : <<p, o, l>> \in back
         <=> f.first <= points /\ <<p, o>> \in loose /\ l = f.first
  <2>1. \A p, o, l : <<p, o, l>> \in Join(loose, f.first) <=> <<p, o>> \in loose /\ l = f.first
    BY <1>2, JoinIs
  <2>2. back = IF f.first <= points THEN Join(loose, f.first) ELSE {}
    BY DEF LoopBack
  <2> HIDE DEF f, back
  <2>3. CASE f.first <= points
    <3>1. back = Join(loose, f.first)
      BY <2>2, <2>3
    <3>2. ASSUME NEW p, NEW o, NEW l
          PROVE  <<p, o, l>> \in back <=> f.first <= points /\ <<p, o>> \in loose /\ l = f.first
      <4> DEFINE joined == Join(loose, f.first)
      <4>1. <<p, o, l>> \in joined <=> <<p, o>> \in loose /\ l = f.first
        BY <2>1
      <4>2. back = joined
        BY <3>1
      <4> HIDE DEF joined
      <4> QED BY <2>3, <4>1, <4>2
    <3> QED BY <3>2
  <2>4. CASE ~ (f.first <= points)
    BY <2>2, <2>4
  <2> QED BY <2>3, <2>4
<1> DEFINE Goal1 == \A p, o, l : p \in V /\ l # 0 => (<<p, o, l>> \in back <=> <<p, o>> \in loose /\ l = t)
           Goal2 == AddsFlow(V, points, back)
<1> HIDE DEF back, t
<1>7. ASSUME ~ FedIn(V, loose, frames, k)
      PROVE  Goal1 /\ Goal2
  <2>1. \A p, o : <<p, o>> \in loose => p \notin V
    BY <1>7 DEF FedIn, Fed
  <2> HIDE DEF f
  <2> QED BY <1>2, <1>6, <2>1 DEF AddsFlow, Below
<1>8. ASSUME f.first <= points, f.first \in V, D[f.head] = f.first
      PROVE  Goal1 /\ Goal2
  <2>1. t = f.first
    BY <1>2, <1>4, <1>5, <1>8, HoleLabels, TranslatorAssumption DEF EXIT
  <2> HIDE DEF f
  <2>2. Goal1
    BY <1>6, <1>8, <2>1
  <2>3. ASSUME NEW p, NEW o, NEW l, <<p, o, l>> \in back
        PROVE  p \in Nat /\ p <= points /\ (p \in V => l \in V)
    <3>1. <<p, o>> \in loose /\ l = f.first
      BY <1>6, <2>3
    <3> QED BY <1>2, <1>8, <3>1 DEF Below
  <2> QED BY <2>2, <2>3 DEF AddsFlow
<1>9. ASSUME f.first = points + 1, D[f.head] = Hole(current)
      PROVE  Goal1 /\ Goal2
  <2>1. t = 0 /\ ~ (f.first <= points)
    BY <1>2, <1>5, <1>9
  <2> HIDE DEF f
  <2> QED BY <1>6, <2>1 DEF AddsFlow
<1>10. Goal1 /\ Goal2
  BY <1>2, <1>7, <1>8, <1>9 DEF HeadKnown
<1> QED BY <1>10 DEF back, t

\* The end of the body of a while or for loop.
LEMMA EndLoopMeaning ==
  ASSUME Inv, OrderedNow, NEW D, NEW V, MeaningNow(D, V), EndLoop
  PROVE  MeaningNext
<1> DEFINE exit == Top.exit
           head == Top.head
           h == ResetTo(g, current, head)
           t == Landing(D, current, head)
           more == LoopBack(Top, loose)
           lo2 == Top.atExit
<1>1. /\ phase = "body" /\ frames # <<>> /\ Top.kind \in {"while", "for"}
      /\ g' = h /\ current' = exit /\ frames' = Front(frames)
      /\ points' = points /\ flow' = flow \cup more /\ loose' = lo2
  BY Unevaluated DEF EndLoop, In, Pop
<1>2. WorkingNow(D, V) /\ current \in Blocks
  BY <1>1, MeaningState, BodyState
<1>3. /\ head \in Blocks /\ frames[Len(frames)] = Top
      /\ Len(frames) \in 1 .. Len(frames)
      /\ FrameMeans(points, Top)
  BY <1>1, TopFrame, TopKnows DEF Shaped
<1>4. Jumped(g, h, current, head)
  BY <1>1, <1>2, <1>3, BodyState, JumpBodies
<1>5. /\ \A p, o, l : p \in V /\ l # 0 => (<<p, o, l>> \in more <=> <<p, o>> \in loose /\ l = t)
      /\ AddsFlow(V, points, more)
  <2>1. Top.kind \in LoopKinds
    BY <1>1 DEF LoopKinds
  <2> QED BY <1>1, <1>3, <2>1, LoopsBack
<1> HIDE DEF h, exit, head, more, t
<1>6. Pours(V, loose, t, more, lo2, exit, Top)
  BY <1>1, <1>5 DEF Pours, OwesAt, exit
<1>7. Below(points, lo2)
  BY <1>3 DEF FrameMeans
<1>8. /\ YoungAt(points, Top) => lo2 = {}
      /\ Fed(V, lo2) => Fed(V, loose) \/ FedAt(V, Top)
  BY DEF YoungAt, FedAt
<1> HIDE DEF lo2
<1>9. MeaningOf(h, order[1], exit, Front(frames), points, flow \cup more, lo2)
  BY <1>1, <1>2, <1>3, <1>4, <1>5, <1>6, <1>7, <1>8, JumpPop DEF WorkingNow, t
<1> QED BY <1>1, <1>9 DEF MeaningNext

\* A loop that starts with a body.
LEMMA DoMeaning ==
  ASSUME Inv, OrderedNow, NEW D, NEW V, MeaningNow(D, V), Do
  PROVE  MeaningNext
<1> DEFINE cond == Fresh(1)
           exit == Fresh(2)
           loop == Fresh(3)
           f == Frame("do", loop, cond, exit, {}, {})
           h == ResetTo(g, current, loop)
<1>1. /\ phase = "body" /\ New(3) /\ current' = loop /\ g' = h
      /\ frames' = Append(frames, f)
      /\ points' = points /\ flow' = flow /\ loose' = loose
  BY DEF Do, InStatements, In, Push
<1>2. /\ cond \in Blocks /\ exit \in Blocks /\ loop \in Blocks
      /\ loop \in created + 1 .. created + 3
      /\ created + 3 \in Blocks /\ 3 \in Nat
  BY <1>1, NewBlocks
<1>3. WorkingNow(D, V) /\ current \in Blocks
  BY <1>1, MeaningState, BodyState
<1> HIDE DEF cond, exit, loop
<1>4. Hole(loop) \in Nat
  BY <1>2, HoleLabels
<1>5. /\ Landing(D, current, loop) = Hole(loop)
      /\ Moved(D, Hole(current), Hole(loop))[loop] = Hole(loop)
  BY <1>1, <1>2, <1>4, FreshHole
<1>6. Jumped(g, h, current, loop)
  BY <1>1, <1>2, <1>3, BodyState, JumpBodies
<1>7. /\ f \in Frames /\ f.head = loop /\ YoungAt(points, f)
  <2>1. /\ points \in 0 .. MaxPoints /\ {} \in SUBSET Leaving
        /\ loop \in Optional /\ cond \in Optional
    BY <1>1, <1>2, BodyState DEF Optional
  <2> QED BY <1>2, <2>1, FrameTypes DEF YoungAt, LoopKinds
<1> HIDE DEF f, h
<1>8. MeaningOf(h, order[1], loop, Append(frames, f), points, flow \cup {}, loose)
  BY <1>2, <1>3, <1>5, <1>6, <1>7, JumpPush DEF WorkingNow
<1>9. flow \cup {} = flow
  OBVIOUS
<1> QED BY <1>1, <1>8, <1>9 DEF MeaningNext

\* A loop that starts with a condition.
LEMMA LoopMeaning ==
  ASSUME Inv, OrderedNow, NEW D, NEW V, MeaningNow(D, V),
         NEW kind \in {"whileCond", "forCond"}, Loop(kind)
  PROVE  MeaningNext
<1> DEFINE cond == Fresh(1)
           loop == Fresh(2)
           exit == Fresh(3)
           f == Frame(kind, cond, loop, exit, {}, {})
           h == ResetTo(g, current, cond)
<1>1. /\ phase = "body" /\ New(3) /\ current' = cond /\ g' = h
      /\ frames' = Append(frames, f)
      /\ points' = points /\ flow' = flow /\ loose' = loose
  BY DEF Loop, InStatements, In, Push
<1>2. /\ cond \in Blocks /\ exit \in Blocks /\ loop \in Blocks
      /\ cond \in created + 1 .. created + 3
      /\ created + 3 \in Blocks /\ 3 \in Nat
  BY <1>1, NewBlocks
<1>3. WorkingNow(D, V) /\ current \in Blocks
  BY <1>1, MeaningState, BodyState
<1> HIDE DEF cond, exit, loop
<1>4. Hole(cond) \in Nat
  BY <1>2, HoleLabels
<1>5. /\ Landing(D, current, cond) = Hole(cond)
      /\ Moved(D, Hole(current), Hole(cond))[cond] = Hole(cond)
  BY <1>1, <1>2, <1>4, FreshHole
<1>6. Jumped(g, h, current, cond)
  BY <1>1, <1>2, <1>3, BodyState, JumpBodies
<1>7. /\ f \in Frames /\ f.head = cond /\ YoungAt(points, f)
  <2>1. /\ points \in 0 .. MaxPoints /\ {} \in SUBSET Leaving
        /\ loop \in Optional /\ cond \in Optional
    BY <1>1, <1>2, BodyState DEF Optional
  <2> QED BY <1>2, <2>1, FrameTypes DEF YoungAt, LoopKinds
<1> HIDE DEF f, h
<1>8. MeaningOf(h, order[1], cond, Append(frames, f), points, flow \cup {}, loose)
  BY <1>2, <1>3, <1>5, <1>6, <1>7, JumpPush DEF WorkingNow
<1>9. flow \cup {} = flow
  OBVIOUS
<1> QED BY <1>1, <1>8, <1>9 DEF MeaningNext

\* A for loop without a condition.
LEMMA EndlessForMeaning ==
  ASSUME Inv, OrderedNow, NEW D, NEW V, MeaningNow(D, V), EndlessFor
  PROVE  MeaningNext
<1> DEFINE cond == Fresh(1)
           loop == Fresh(2)
           exit == Fresh(3)
           f == Frame("for", cond, NULL, exit, {}, {})
           k == ResetTo(g, current, cond)
           h == ResetTo(k, cond, loop)
           D1 == Moved(D, Hole(current), Hole(cond))
<1>1. /\ phase = "body" /\ New(3) /\ current' = loop /\ g' = h
      /\ frames' = Append(frames, f)
      /\ points' = points /\ flow' = flow /\ loose' = loose
  BY DEF EndlessFor, InStatements, In, Push
<1>2. /\ cond \in Blocks /\ exit \in Blocks /\ loop \in Blocks
      /\ cond \in created + 1 .. created + 3 /\ loop \in created + 1 .. created + 3
      /\ created + 3 \in Blocks /\ 3 \in Nat /\ loop # cond
  BY <1>1, NewBlocks
<1>3. /\ WorkingNow(D, V) /\ current \in Blocks /\ D \in [Blocks -> Nat]
      /\ Working(D, V, g, order[1], current, frames, points, flow, loose)
  BY <1>1, MeaningState, BodyState DEF WorkingNow
<1> HIDE DEF cond, exit, loop
<1>4. Hole(cond) \in Nat /\ Hole(loop) \in Nat /\ Hole(loop) # Hole(cond)
  BY <1>2, HoleLabels
<1>5. /\ Landing(D, current, cond) = Hole(cond) /\ D1[cond] = Hole(cond)
      /\ D1[loop] = Hole(loop) /\ Untouched(g, cond) /\ cond # current
  BY <1>1, <1>2, <1>4, FreshHole
<1>6. Jumped(g, k, current, cond) /\ Good(k, Blocks)
  BY <1>1, <1>2, <1>3, BodyState, JumpBodies
<1> HIDE DEF k
<1>7. Jumped(k, h, cond, loop)
  BY <1>2, <1>6, JumpBodies
<1>8. /\ f \in Frames /\ f.head = cond /\ YoungAt(points, f)
  <2>1. /\ points \in 0 .. MaxPoints /\ {} \in SUBSET Leaving
        /\ NULL \in Optional /\ cond \in Optional
    BY <1>1, <1>2, BodyState DEF Optional
  <2> QED BY <1>2, <2>1, FrameTypes DEF YoungAt, LoopKinds
<1> HIDE DEF f, h
<1>9. Meaning(D1, V, k, order[1], cond, frames, points, flow \cup {}, loose)
  <2>1. Passes(V, loose, Hole(cond), {}, loose, cond) /\ AddsFlow(V, points, {})
    BY DEF Passes, AddsFlow
  <2> QED BY <1>2, <1>3, <1>5, <1>6, <2>1, JumpStay
<1>10. flow \cup {} = flow
  OBVIOUS
<1>11. k.branch[cond] = NULL
  BY <1>2, <1>5, <1>6 DEF Jumped, Rewired, OnlyAt, Untouched
<1>12. Apart(cond, frames)
  <2>1. /\ created \in Nat /\ Apart(current, frames)
        /\ Building(g, order, created, current, frames)
    BY <1>1, <1>3, BodyState, TranslatorAssumption DEF Working
  <2>2. ASSUME NEW i \in 1 .. Len(frames)
        PROVE  /\ frames[i].exit # cond
               /\ frames[i].kind = "else" => frames[i].body # cond
    <3>1. Waits(frames[i]) \subseteq 1 .. created
      BY <2>1, WaitsAreListed DEF Building
    <3>2. /\ frames[i].exit \in Waits(frames[i])
          /\ frames[i].kind = "else" => frames[i].body \in Waits(frames[i])
      BY <2>1 DEF Apart, Waits
    <3> QED BY <1>2, <2>1, <3>1, <3>2
  <2> QED BY <2>1, <2>2 DEF Apart
<1> HIDE DEF D1
<1>13. Working(D1, V, k, order[1], cond, frames, points, flow, loose)
  BY <1>2, <1>3, <1>6, <1>9, <1>10, <1>11, <1>12 DEF Working
<1>14. /\ Landing(D1, cond, loop) = Hole(loop)
       /\ Moved(D1, Hole(cond), Hole(loop))[cond] = Hole(loop)
  BY <1>2, <1>3, <1>4, <1>5, MovedType, CfgAssumption DEF Landing, D1
<1>15. MeaningOf(h, order[1], loop, Append(frames, f), points, flow \cup {}, loose)
  BY <1>2, <1>7, <1>8, <1>13, <1>14, JumpPush
<1> QED BY <1>1, <1>10, <1>15 DEF MeaningNext

\* break.
LEMMA BreakMeaning ==
  ASSUME Inv, OrderedNow, NEW D, NEW V, MeaningNow(D, V), Break
  PROVE  MeaningNext
<1> DEFINE i == InnerLoop
           exit == frames[i].exit
           h == ResetTo(g, current, exit)
           gs == [frames EXCEPT ![i].atExit = @ \cup loose]
<1>1. /\ phase = "body" /\ LoopFrames # {} /\ g' = h /\ frames' = gs
      /\ points' = points /\ flow' = flow \cup {} /\ loose' = {}
      /\ frames[i].kind = "while"
  BY Unevaluated DEF Break, InWhile, InStatements, In, SweepState, Leave
<1>2. /\ i \in 1 .. Len(frames) /\ exit \in Blocks /\ exit \in Waits(frames[i])
      /\ frames[i] \in Frames
  BY <1>1, InnerLoopIs, CfgAssumption DEF Frames, Waits
<1>3. WorkingNow(D, V) /\ current \in Blocks /\ frames \in Seq(Frames)
  BY <1>1, MeaningState, BodyState
<1> HIDE DEF i
<1>4. Notes(frames, gs, i, loose)
  <2> DEFINE f == [frames[i] EXCEPT !.atExit = frames[i].atExit \cup loose]
             hs == [frames EXCEPT ![i] = f]
  <2>1. f \in Frames /\ f.kind = frames[i].kind /\ f.head = frames[i].head /\ f.body = frames[i].body
        /\ f.exit = frames[i].exit /\ f.atExit = frames[i].atExit \cup loose
        /\ f.atBody = frames[i].atBody /\ f.first = frames[i].first
    BY <1>1, <1>2, <1>3, BodyState DEF Frames
  <2>2. gs = hs
    OBVIOUS
  <2> HIDE DEF f
  <2>3. Len(hs) = Len(frames) /\ \A j \in 1 .. Len(frames) : hs[j] = IF j = i THEN f ELSE frames[j]
    BY <1>2, <1>3, <2>1, ExceptSeq
  <2> HIDE DEF gs, hs
  <2> QED BY <1>2, <2>1, <2>2, <2>3 DEF Notes
<1>5. Landing(D, current, exit) = Hole(exit)
  <2>1. 0 \in Nat
    OBVIOUS
  <2> QED BY <1>1, <1>2, <2>1, WaitsHole
<1>6. Jumped(g, h, current, exit)
  BY <1>1, <1>2, <1>3, BodyState, JumpBodies
<1> HIDE DEF h, gs
<1>7. \A cur2 : MeaningOf(h, order[1], cur2, gs, points, flow \cup {}, {})
  <2> SUFFICES ASSUME NEW cur2 PROVE MeaningOf(h, order[1], cur2, gs, points, flow \cup {}, {})
    OBVIOUS
  <2> QED BY <1>1, <1>2, <1>3, <1>4, <1>5, <1>6, JumpNote DEF WorkingNow
<1> QED BY <1>1, <1>7 DEF MeaningNext

\* continue.
LEMMA ContinueMeaning ==
  ASSUME Inv, OrderedNow, NEW D, NEW V, MeaningNow(D, V), Continue
  PROVE  MeaningNext
<1> DEFINE i == InnerLoop
           head == frames[i].head
           h == ResetTo(g, current, head)
           more == LoopBack(frames[i], loose)
           t == Landing(D, current, head)
<1>1. /\ phase = "body" /\ LoopFrames # {} /\ g' = h /\ frames' = frames
      /\ points' = points /\ flow' = flow \cup more /\ loose' = {}
      /\ frames[i].kind = "while"
  BY Unevaluated DEF Continue, InWhile, InStatements, In, SweepState, Leave
<1>2. i \in 1 .. Len(frames) /\ head \in Blocks
  BY <1>1, InnerLoopIs DEF Shaped
<1>3. WorkingNow(D, V) /\ current \in Blocks
  BY <1>1, MeaningState, BodyState
<1> HIDE DEF i
<1>4. /\ \A p, o, l : p \in V /\ l # 0 => (<<p, o, l>> \in more <=> <<p, o>> \in loose /\ l = t)
      /\ AddsFlow(V, points, more)
  BY <1>1, <1>2, LoopsBack DEF LoopKinds
<1>5. Jumped(g, h, current, head)
  BY <1>1, <1>2, <1>3, BodyState, JumpBodies
<1> HIDE DEF h, head, more, t
<1>6. \A cur2 : MeaningOf(h, order[1], cur2, frames, points, flow \cup more, {})
  <2> SUFFICES ASSUME NEW cur2 PROVE MeaningOf(h, order[1], cur2, frames, points, flow \cup more, {})
    OBVIOUS
  <2>1. Passes(V, loose, t, more, {}, cur2)
    BY <1>4 DEF Passes
  <2>2. Meaning(Moved(D, Hole(current), t), V, h, order[1], cur2, frames, points, flow \cup more, {})
    BY <1>2, <1>3, <1>4, <1>5, <2>1, JumpStay DEF WorkingNow, t
  <2> QED BY <2>2 DEF MeaningOf
<1> QED BY <1>1, <1>6 DEF MeaningNext

\* return without a value.
LEMMA ReturnVoidMeaning ==
  ASSUME Inv, OrderedNow, NEW D, NEW V, MeaningNow(D, V), ReturnVoid
  PROVE  MeaningNext
<1> DEFINE h == AssertThat(TryMarkAsTerminal(g, current, FALSE), MarkReturns(g, current, FALSE))
           more == Join(loose, EXIT)
<1>1. /\ phase = "body" /\ g' = h /\ frames' = frames /\ g.void
      /\ points' = points /\ flow' = flow \cup more /\ loose' = {}
  BY Unevaluated DEF ReturnVoid, InStatements, In, SweepState, Leave
<1>2. MarkReturns(g, current, FALSE)
  BY <1>1, BodyState DEF MarkReturns, IsIncomplete
<1>3. /\ WorkingNow(D, V) /\ current \in Blocks
      /\ Working(D, V, g, order[1], current, frames, points, flow, loose)
  BY <1>1, MeaningState, BodyState DEF WorkingNow
<1>4. Below(points, loose) /\ EXIT \in V /\ loose \in SUBSET Leaving
  BY <1>3, WorkingIs DEF Meaning, Numbered
<1>5. Jumped(g, h, current, TERMINAL)
  BY <1>1, <1>2, <1>3, BodyState, MarkBodies
<1>6. Landing(D, current, TERMINAL) = EXIT
  BY DEF Landing
<1>7. \A p, o, l : <<p, o, l>> \in more <=> <<p, o>> \in loose /\ l = EXIT
  BY <1>4, JoinIs
<1> HIDE DEF h, more
<1>8. AddsFlow(V, points, more)
  BY <1>4, <1>7 DEF AddsFlow, Below
<1>9. \A cur2 : MeaningOf(h, order[1], cur2, frames, points, flow \cup more, {})
  <2> SUFFICES ASSUME NEW cur2 PROVE MeaningOf(h, order[1], cur2, frames, points, flow \cup more, {})
    OBVIOUS
  <2>1. Passes(V, loose, EXIT, more, {}, cur2)
    BY <1>7 DEF Passes
  <2>2. Meaning(Moved(D, Hole(current), Landing(D, current, TERMINAL)), V, h, order[1], cur2,
                frames, points, flow \cup more, {})
    BY <1>3, <1>5, <1>6, <1>8, <2>1, JumpStay
  <2> QED BY <2>2 DEF MeaningOf
<1> QED BY <1>1, <1>9 DEF MeaningNext

\* While the body is translated no block is taken off the list.
LoopsListed == phase = "body" => loops \subseteq ToSet(order)

\* The statements keep this, and the first block.
ListKept == order'[1] = order[1] /\ loops' \subseteq ToSet(order')

\* New blocks are put on the list.
LEMMA NewListed ==
  ASSUME Inv, phase = "body", OrderedNow, LoopsListed, NEW news \in Seq(Blocks), news # <<>>,
         PutAfter(current, news), loops' \subseteq loops \cup ToSet(news)
  PROVE  ListKept
<1>1. /\ order \in Seq(Blocks) /\ current \in ToSet(order) /\ Distinct(order)
      /\ loops \subseteq ToSet(order)
  BY BodyState DEF Building, Listed, Open, OrderedNow, Ordered, LoopsListed
<1>2. order'[1] = order[1] /\ ToSet(order') = ToSet(order) \cup ToSet(news)
  BY <1>1, PutAfterIs, PutAfterEnds
<1> QED BY <1>1, <1>2 DEF ListKept

\* One, two or three of them.
LEMMA Listed1 ==
  ASSUME Inv, phase = "body", OrderedNow, LoopsListed, New(1), PutAfter(current, <<Fresh(1)>>),
         loops' = loops
  PROVE  ListKept
<1> DEFINE news == <<Fresh(1)>>
<1>1. news \in Seq(Blocks) /\ news # <<>>
  BY NewBlocks
<1>2. PutAfter(current, news)
  OBVIOUS
<1> HIDE DEF news
<1> QED BY <1>1, <1>2, NewListed

\* Two.
LEMMA Listed2 ==
  ASSUME Inv, phase = "body", OrderedNow, LoopsListed, New(2),
         PutAfter(current, <<Fresh(1), Fresh(2)>>), loops' = loops
  PROVE  ListKept
<1> DEFINE news == <<Fresh(1), Fresh(2)>>
<1>1. Fresh(1) \in Blocks /\ Fresh(2) \in Blocks
  BY NewBlocks
<1>2. news \in Seq(Blocks) /\ news # <<>>
  BY <1>1
<1>3. PutAfter(current, news)
  OBVIOUS
<1> HIDE DEF news
<1> QED BY <1>2, <1>3, NewListed

\* Three, of which a loop may start at the first.
LEMMA Listed3 ==
  ASSUME Inv, phase = "body", OrderedNow, LoopsListed, New(3), NEW x, NEW y, NEW z,
         {x, y, z} = {Fresh(1), Fresh(2), Fresh(3)},
         PutAfter(current, <<x, y, z>>), loops' = loops \/ loops' = loops \cup {x}
  PROVE  ListKept
<1> DEFINE news == <<x, y, z>>
<1>1. Fresh(1) \in Blocks /\ Fresh(2) \in Blocks /\ Fresh(3) \in Blocks
  BY NewBlocks
<1>2. x \in Blocks /\ y \in Blocks /\ z \in Blocks
  BY <1>1
<1>3. news \in Seq(Blocks) /\ news # <<>> /\ x \in ToSet(news)
  BY <1>2, Elements3
<1>4. PutAfter(current, news)
  OBVIOUS
<1> HIDE DEF news
<1> QED BY <1>3, <1>4, NewListed

\* Most statements leave the list alone.
LEMMA ListedStays ==
  ASSUME phase = "body", LoopsListed, order' = order, loops' = loops
  PROVE  ListKept
BY DEF LoopsListed, ListKept

\* Every statement keeps the list.
LEMMA StatementListed ==
  ASSUME Inv, phase = "body", OrderedNow, LoopsListed, Statement
  PROVE  ListKept
<1>1. ASSUME NEW v \in Conditions(NextPoint),
             \/ If(v) \/ IfElse(v) \/ DoTest(v) \/ WhileTest(v) \/ ForTest(v)
             \/ \E isAnd \in BOOLEAN : LogicLeft(isAnd, v)
      PROVE  ListKept
  <2>1. CASE If(v)
    <3>1. New(2) /\ PutAfter(current, <<Fresh(1), Fresh(2)>>) /\ loops' = loops
      BY <2>1 DEF If, SweepState
    <3> QED BY <3>1, Listed2
  <2>2. CASE IfElse(v)
    <3>1. New(3) /\ PutAfter(current, <<Fresh(1), Fresh(3), Fresh(2)>>) /\ loops' = loops
      BY <2>2 DEF IfElse, SweepState
    <3> QED BY <3>1, Listed3
  <2>3. CASE DoTest(v) \/ WhileTest(v) \/ ForTest(v)
    BY <2>3, ListedStays DEF DoTest, WhileTest, ForTest, LoopTest, SweepState
  <2>4. CASE \E isAnd \in BOOLEAN : LogicLeft(isAnd, v)
    <3>1. New(2) /\ PutAfter(current, <<Fresh(1), Fresh(2)>>) /\ loops' = loops
      BY <2>4 DEF LogicLeft, SweepState
    <3> QED BY <3>1, Listed2
  <2> QED BY <1>1, <2>1, <2>2, <2>3, <2>4
<1>2. CASE Do
  <2>1. /\ New(3) /\ PutAfter(current, <<Fresh(3), Fresh(1), Fresh(2)>>)
        /\ loops' = loops \cup {Fresh(3)}
    BY <1>2 DEF Do
  <2> QED BY <2>1, Listed3
<1>3. CASE While \/ For
  <2>1. /\ New(3) /\ PutAfter(current, <<Fresh(1), Fresh(2), Fresh(3)>>)
        /\ loops' = loops \cup {Fresh(1)}
    BY <1>3 DEF While, For, Loop
  <2> QED BY <2>1, Listed3
<1>4. CASE EndlessFor
  <2>1. /\ New(3) /\ PutAfter(current, <<Fresh(1), Fresh(2), Fresh(3)>>)
        /\ loops' = loops \cup {Fresh(1)}
    BY <1>4 DEF EndlessFor
  <2> QED BY <2>1, Listed3
<1>5. CASE Break \/ Continue \/ ReturnValue \/ ReturnVoid
  <2>1. New(1) /\ PutAfter(current, <<Fresh(1)>>) /\ loops' = loops
    BY <1>5 DEF Break, Continue, ReturnValue, ReturnVoid, Leave, SweepState
  <2> QED BY <2>1, Listed1
<1>6. CASE Expression \/ LogicRight \/ EndElse \/ EndIf \/ EndDoBody \/ EndLoop \/ EndFunction
  BY <1>6, ListedStays
     DEF Expression, LogicRight, EndElse, EndIf, EndDoBody, EndLoop, EndFunction, SweepState
<1> QED BY <1>1, <1>2, <1>3, <1>4, <1>5, <1>6 DEF Statement

\* Every statement keeps the meaning.
LEMMA StatementMeaning ==
  ASSUME Inv, OrderedNow, phase = "body", phase' = "body", Next, NEW D, NEW V, MeaningNow(D, V)
  PROVE  MeaningNext
<1>1. ASSUME NEW v \in Conditions(NextPoint),
             \/ If(v) \/ IfElse(v) \/ DoTest(v) \/ WhileTest(v) \/ ForTest(v)
             \/ \E isAnd \in BOOLEAN : LogicLeft(isAnd, v)
      PROVE  MeaningNext
  <2>1. CASE If(v)
    BY <2>1, IfMeaning
  <2>2. CASE IfElse(v)
    BY <2>2, IfElseMeaning
  <2>3. CASE DoTest(v)
    BY <2>3, DoTestMeaning
  <2>4. CASE WhileTest(v)
    BY <2>4, LoopTestMeaning DEF WhileTest
  <2>5. CASE ForTest(v)
    BY <2>5, LoopTestMeaning DEF ForTest
  <2>6. CASE \E isAnd \in BOOLEAN : LogicLeft(isAnd, v)
    BY <2>6, LogicLeftMeaning
  <2> QED BY <1>1, <2>1, <2>2, <2>3, <2>4, <2>5, <2>6
<1>2. CASE While \/ For
  BY <1>2, LoopMeaning DEF While, For
<1>3. CASE Expression \/ LogicRight \/ EndElse \/ EndIf \/ Do \/ EndDoBody
  BY <1>3, ExpressionMeaning, LogicRightMeaning, EndElseMeaning, EndIfMeaning,
     DoMeaning, EndDoBodyMeaning
<1>4. CASE EndlessFor \/ EndLoop \/ Break \/ Continue
  BY <1>4, EndlessForMeaning, EndLoopMeaning, BreakMeaning, ContinueMeaning
<1>5. CASE ReturnValue \/ ReturnVoid
  BY <1>5, ReturnValueMeaning, ReturnVoidMeaning
<1>6. ~ EndFunction /\ ~ Sweep
  BY DEF EndFunction, Sweep, SweepRemove, SweepFold, SweepTerminate, SweepSkip
<1> QED BY <1>1, <1>2, <1>3, <1>4, <1>5, <1>6 DEF Next, Statement

(***************************************************************************)
(* The pass keeps the meaning.  L are the points that can be reached; a    *)
(* hole ends the function.                                                 *)
(***************************************************************************)
Settle(l) == IF l > EXIT THEN EXIT ELSE l

\* From the points of L the code continues where the source does.
Meets(gr, D, e, p, o, x) == \E l \in Nat \ {0} : Edge(gr, D, e, p, o, l) /\ x = Settle(l)
Matches(L, gr, D, e, fl) ==
  \A p \in L : \A o, x : <<p, o, x>> \in fl <=> Meets(gr, D, e, p, o, x)

\* Control can be in every block that holds one of them.
Homes(L, gr, S)   == \A p \in L, b \in Blocks : Holding(gr, b, p) => b \in S
Housed(L, gr, e)  == \A S \in SUBSET Blocks : e \in S /\ Closed(S, gr) => Homes(L, gr, S)
OnList(gr, ord)   == \A a \in Blocks : Succ(gr, a) \subseteq ToSet(ord)

Completing(L, D, gr, ord, pts, fl) ==
  /\ Traced(gr, pts, D) /\ Matches(L, gr, D, ord[1], fl)
  /\ Housed(L, gr, ord[1]) /\ OnList(gr, ord)

\* Where the code continues depends on the bodies and the ways out.
LEMMA SameEdges ==
  ASSUME NEW gr, NEW h, \A b \in Blocks : BodyOf(h, b) = BodyOf(gr, b), NEW D, NEW D2,
         NEW e, D2[e] = D[e], NEW p, NEW o, NEW l,
         \A b \in Blocks : BodyOf(gr, b) # <<>> /\ p = LastOf(BodyOf(gr, b)).value
                           => (Goes(h, D2, b, o, l) <=> Goes(gr, D, b, o, l))
  PROVE  Edge(h, D2, e, p, o, l) <=> Edge(gr, D, e, p, o, l)
BY DEF Edge

\* The way out of a block depends on its targets.
LEMMA SameGoes ==
  ASSUME NEW gr \in Graphs, NEW h, NEW D, NEW D2, NEW b \in Blocks, h.branch[b] = gr.branch[b],
         h.branchElse[b] = gr.branchElse[b], h.control[b] = gr.control[b],
         \A x \in Succ(gr, b) : D2[x] = D[x], NEW o, NEW l
  PROVE  Goes(h, D2, b, o, l) <=> Goes(gr, D, b, o, l)
<1>1. gr.branchElse[b] \in Blocks \cup {NULL}
  BY FieldTypes
<1>2. /\ gr.branch[b] \in Blocks => D2[gr.branch[b]] = D[gr.branch[b]]
      /\ gr.branchElse[b] # NULL => D2[gr.branchElse[b]] = D[gr.branchElse[b]]
  BY <1>1 DEF Succ
<1> QED BY <1>2 DEF Goes

\* Code that continues at the same points matches as well.
LEMMA SameMatches ==
  ASSUME NEW L, NEW gr, NEW D, NEW e, NEW fl, Matches(L, gr, D, e, fl), NEW h, NEW D2,
         \A p \in L : \A o, x : Meets(h, D2, e, p, o, x) <=> Meets(gr, D, e, p, o, x)
  PROVE  Matches(L, h, D2, e, fl)
BY Zenon DEF Matches

\* Folding a constant branch.
LEMMA FoldKeeps ==
  ASSUME NEW gr, Good(gr, Blocks), NEW L, NEW D, NEW ord, NEW pts, NEW fl,
         Completing(L, D, gr, ord, pts, fl), NEW b \in Blocks, gr.branchElse[b] # NULL,
         gr.control[b] \in {IMMTRUE, IMMFALSE}, NEW to,
         to = IF gr.control[b] = IMMTRUE THEN gr.branch[b] ELSE gr.branchElse[b],
         NEW h, Jumped(gr, h, b, to)
  PROVE  Completing(L, D, h, ord, pts, fl)
<1>0. /\ gr \in Graphs /\ WellShaped(gr)
      /\ gr.branch[b] \in Blocks /\ gr.branchElse[b] \in Blocks /\ to \in Blocks
  <2>1. gr \in Graphs /\ WellShaped(gr)
    BY DEF Good, Edges
  <2>2. gr.branch[b] \in Blocks /\ gr.branchElse[b] \in Blocks
    BY <2>1, FieldTypes DEF WellShaped
  <2> QED BY <2>1, <2>2
<1>1. /\ Labelled(gr, D) /\ NoTrap(gr, D) /\ Written(gr, pts) /\ Matches(L, gr, D, ord[1], fl)
      /\ Housed(L, gr, ord[1]) /\ OnList(gr, ord)
  BY DEF Completing, Traced
<1>2. /\ OnlyAt(gr, h, b) /\ h.branch[b] = to /\ h.branchElse[b] = NULL /\ h.control[b] = NULL
      /\ \A a \in Blocks : BodyOf(h, a) = BodyOf(gr, a)
  BY DEF Jumped, Rewired
<1>3. NULL \notin Blocks /\ TERMINAL \notin Blocks /\ IMMTRUE # IMMFALSE
  BY CfgAssumption, TranslatorAssumption
<1>4. ASSUME NEW a \in Blocks, NEW o, NEW l
      PROVE  Goes(h, D, a, o, l) <=> Goes(gr, D, a, o, l)
  <2>1. CASE a # b
    BY <1>0, <1>2, <2>1, SameGoes DEF OnlyAt
  <2>2. CASE a = b
    <3>1. Goes(h, D, b, o, l) <=> o = "any" /\ l = D[to]
      BY <1>0, <1>2, <1>3 DEF Goes
    <3>2. Goes(gr, D, b, o, l) <=> o = "any" /\ l = D[to]
      BY <1>0, <1>3 DEF Goes
    <3> QED BY <2>2, <3>1, <3>2
  <2> QED BY <2>1, <2>2
<1>5. BodyOf(gr, b) # <<>>
  BY <1>1 DEF Labelled
<1>6. Labelled(h, D)
  BY <1>1, <1>2, <1>4, <1>5 DEF Labelled, OnlyAt
<1>7. NoTrap(h, D)
  <2>1. ASSUME NEW T \in SUBSET Blocks, Trap(h, T) PROVE Trap(gr, T)
    BY <1>2, <1>5, <2>1 DEF Trap, OnlyAt
  <2> QED BY <1>1, <2>1 DEF NoTrap
<1>8. Written(h, pts)
  <2>1. \A a \in Blocks : \A p : Holding(h, a, p) <=> Holding(gr, a, p)
    BY <1>2 DEF Holding
  <2> QED BY <1>1, <1>2, <2>1 DEF Written
<1>9. Matches(L, h, D, ord[1], fl)
  <2>1. \A p, o, l : Edge(h, D, ord[1], p, o, l) <=> Edge(gr, D, ord[1], p, o, l)
    BY <1>2, <1>4, SameEdges
  <2>2. \A p, o, x : Meets(h, D, ord[1], p, o, x) <=> Meets(gr, D, ord[1], p, o, x)
    BY <2>1 DEF Meets
  <2> QED BY <1>1, <2>2, SameMatches
<1>10. \A a \in Blocks : Leads(h, a) = Leads(gr, a) /\ Succ(h, a) \subseteq Succ(gr, a)
  <2>1. Leads(h, b) = Leads(gr, b) /\ Succ(h, b) \subseteq Succ(gr, b)
    BY <1>0, <1>2, <1>3 DEF Leads, Succ
  <2> QED BY <1>2, <2>1 DEF Leads, Succ, OnlyAt
<1>11. Housed(L, h, ord[1])
  <2> SUFFICES ASSUME NEW S \in SUBSET Blocks, ord[1] \in S, Closed(S, h)
               PROVE  Homes(L, h, S)
    BY DEF Housed
  <2>1. Closed(S, gr)
    BY <1>10 DEF Closed
  <2>2. Homes(L, gr, S)
    BY <1>1, <2>1 DEF Housed
  <2> QED BY <1>2, <2>2 DEF Homes, Holding
<1>12. OnList(h, ord)
  BY <1>1, <1>10 DEF OnList
<1> QED BY <1>6, <1>7, <1>8, <1>9, <1>11, <1>12 DEF Completing, Traced

\* Ending an open block with a return.
LEMMA ReturnKeeps ==
  ASSUME NEW gr, Good(gr, Blocks), NEW L, NEW D, NEW ord, ord[1] \in Blocks,
         NEW pts \in 0 .. MaxPoints, NEW fl,
         Completing(L, D, gr, ord, pts, fl), NEW b \in Blocks, gr.branch[b] = NULL,
         NEW h, Jumped(gr, h, b, TERMINAL)
  PROVE  \E D2 : Completing(L, D2, h, ord, pts, fl)
<1> DEFINE D2 == Moved(D, Hole(b), EXIT)
<1>1. /\ Traced(gr, pts, D) /\ Matches(L, gr, D, ord[1], fl)
      /\ Housed(L, gr, ord[1]) /\ OnList(gr, ord)
  BY DEF Completing
<1>2. /\ OnlyAt(gr, h, b) /\ h.branch[b] = TERMINAL /\ h.branchElse[b] = NULL
      /\ \A a \in Blocks : BodyOf(h, a) = BodyOf(gr, a)
  BY DEF Jumped, Rewired
<1>3. Landing(D, b, TERMINAL) = EXIT /\ TERMINAL \in Blocks \cup {TERMINAL}
  BY DEF Landing
<1>4. Traced(h, pts, D2)
  BY <1>1, <1>3, JumpTraced
<1>5. \A p, o, l : Edge(h, D2, ord[1], p, o, l)
                     <=> \E l0 : Edge(gr, D, ord[1], p, o, l0) /\ MovedLabel(l, l0, Hole(b), EXIT)
  BY <1>1, <1>3, JumpLabels
<1> HIDE DEF D2
<1>6. Matches(L, h, D2, ord[1], fl)
  <2> SUFFICES ASSUME NEW p \in L, NEW o, NEW x
               PROVE  Meets(h, D2, ord[1], p, o, x) <=> Meets(gr, D, ord[1], p, o, x)
    BY <1>1, SameMatches
  <2>0. EXIT \in Nat \ {0} /\ Hole(b) \in Nat \ {0} /\ Settle(EXIT) = EXIT /\ Settle(Hole(b)) = EXIT
    BY HoleLabels DEF Settle
  <2>1. ASSUME NEW l0 \in Nat \ {0}, Edge(gr, D, ord[1], p, o, l0), x = Settle(l0)
        PROVE  \E l \in Nat \ {0} : Edge(h, D2, ord[1], p, o, l) /\ x = Settle(l)
    <3>1. CASE l0 = Hole(b)
      <4>1. Edge(h, D2, ord[1], p, o, EXIT)
        BY <1>5, <2>1, <3>1 DEF MovedLabel
      <4> QED BY <2>0, <2>1, <3>1, <4>1
    <3>2. CASE l0 # Hole(b)
      <4>1. Edge(h, D2, ord[1], p, o, l0)
        BY <1>5, <2>1, <3>2 DEF MovedLabel
      <4> QED BY <2>1, <4>1
    <3> QED BY <3>1, <3>2
  <2>2. ASSUME NEW l \in Nat \ {0}, Edge(h, D2, ord[1], p, o, l), x = Settle(l)
        PROVE  \E l0 \in Nat \ {0} : Edge(gr, D, ord[1], p, o, l0) /\ x = Settle(l0)
    <3>1. PICK l0 : Edge(gr, D, ord[1], p, o, l0) /\ MovedLabel(l, l0, Hole(b), EXIT)
      BY <1>5, <2>2
    <3>2. CASE l0 = Hole(b)
      <4>1. x = Settle(Hole(b))
        BY <2>0, <2>2, <3>1, <3>2 DEF MovedLabel
      <4> QED BY <2>0, <3>1, <3>2, <4>1
    <3>3. CASE l0 # Hole(b)
      BY <2>2, <3>1, <3>3 DEF MovedLabel
    <3> QED BY <3>2, <3>3
  <2> QED BY <2>1, <2>2 DEF Meets
<1>7. \A a \in Blocks : Leads(h, a) = Leads(gr, a) /\ Succ(h, a) \subseteq Succ(gr, a)
  <2>1. Leads(gr, b) = {} /\ Leads(h, b) = {} /\ Succ(h, b) = {}
    <3>1. Leads(gr, b) = {}
      BY OpenLeads DEF Good, Edges
    <3> QED BY <1>2, <3>1, CfgAssumption DEF Leads, Succ
  <2> QED BY <1>2, <2>1 DEF Leads, Succ, OnlyAt
<1>8. Housed(L, h, ord[1])
  <2> SUFFICES ASSUME NEW S \in SUBSET Blocks, ord[1] \in S, Closed(S, h)
               PROVE  Homes(L, h, S)
    BY DEF Housed
  <2>1. Closed(S, gr)
    BY <1>7 DEF Closed
  <2>2. Homes(L, gr, S)
    BY <1>1, <2>1 DEF Housed
  <2> QED BY <1>2, <2>2 DEF Homes, Holding
<1>9. OnList(h, ord)
  BY <1>1, <1>7 DEF OnList
<1> QED BY <1>4, <1>6, <1>8, <1>9 DEF Completing

\* Control takes an edge.
LEMMA LeadsAreEdges ==
  ASSUME NEW gr \in Graphs, WellShaped(gr), NEW a \in Blocks
  PROVE  Leads(gr, a) \subseteq Succ(gr, a)
<1>1. gr.branchElse[a] \in Blocks \cup {NULL}
  BY FieldTypes
<1>2. gr.branchElse[a] # NULL => gr.branch[a] \in Blocks
  BY DEF WellShaped
<1> QED BY <1>1, <1>2 DEF Leads, Succ

\* Removing a block nobody jumps to.
LEMMA RemoveKeeps ==
  ASSUME NEW gr, Good(gr, Blocks), NEW L, NEW D, NEW ord, ord[1] \in Blocks, NEW pts, NEW fl,
         Completing(L, D, gr, ord, pts, fl), NEW b \in Blocks, gr.in[b] = {}, b # ord[1],
         NEW h, h = Reset(gr, b), NEW ord2, ord2[1] = ord[1], ToSet(ord2) = ToSet(ord) \ {b}
  PROVE  \E D2 : Completing(L, D2, h, ord2, pts, fl)
<1> DEFINE e  == ord[1]
           D2 == [x \in Blocks |-> IF x = b /\ BodyOf(gr, b) = <<>> THEN Hole(b) ELSE D[x]]
<1>0. /\ gr \in Graphs /\ Edges(gr) /\ WellShaped(gr) /\ InBlocksAreExact(gr)
      /\ NULL \notin Blocks /\ Hole(b) \in Nat
  BY HoleLabels, CfgAssumption DEF Good, Edges
<1>1. /\ Labelled(gr, D) /\ NoTrap(gr, D) /\ Written(gr, pts) /\ Matches(L, gr, D, e, fl)
      /\ Housed(L, gr, e) /\ OnList(gr, ord) /\ D \in [Blocks -> Nat]
  BY DEF Completing, Traced, Labelled
<1>2. /\ OnlyAt(gr, h, b) /\ h.branch[b] = NULL /\ h.branchElse[b] = NULL /\ h.control[b] = NULL
      /\ \A a \in Blocks : BodyOf(h, a) = BodyOf(gr, a)
  <2>1. /\ h.branch = [gr.branch EXCEPT ![b] = NULL] /\ h.control = [gr.control EXCEPT ![b] = NULL]
        /\ h.branchElse = [gr.branchElse EXCEPT ![b] = NULL] /\ h.code = Stripped(gr, b)
    BY <1>0, ResetIs DEF Has
  <2>2. Stripped(gr, b) \in [Blocks -> Seq(Insts)] /\ gr.code \in [Blocks -> Seq(Insts)]
        /\ Stripped(gr, b)[b] = BodyOf(gr, b)
    BY <1>0, StrippedType, FieldTypes, BodyTypes
  <2>3. \A a \in Blocks \ {b} : Stripped(gr, b)[a] = gr.code[a]
    BY <2>2 DEF Stripped
  <2>4. OnlyAt(gr, h, b) /\ h.branch[b] = NULL /\ h.branchElse[b] = NULL /\ h.control[b] = NULL
    BY <1>0, <2>1, FieldTypes DEF OnlyAt
  <2>5. BodyOf(h, b) = BodyOf(gr, b)
    BY <2>1, <2>2, <2>4 DEF BodyOf
  <2>6. \A a \in Blocks \ {b} : BodyOf(h, a) = BodyOf(gr, a)
    BY <2>1, <2>3, <2>4, ZenonT(40) DEF BodyOf, OnlyAt
  <2> QED BY <2>4, <2>5, <2>6
<1>3. \A a \in Blocks : b \notin Succ(gr, a) /\ b \notin Leads(gr, a)
  BY <1>0, LeadsAreEdges DEF InBlocksAreExact
<1>4. /\ D2 \in [Blocks -> Nat] /\ \A x \in Blocks \ {b} : D2[x] = D[x]
      /\ D2[b] = IF BodyOf(gr, b) = <<>> THEN Hole(b) ELSE D[b]
  BY <1>0, <1>1
<1>5. e \in Blocks /\ e # b
  OBVIOUS
<1> HIDE DEF D2, e
<1>6. ASSUME NEW a \in Blocks \ {b}, NEW o, NEW l
      PROVE  Goes(h, D2, a, o, l) <=> Goes(gr, D, a, o, l)
  <2>1. \A x \in Succ(gr, a) : D2[x] = D[x]
    BY <1>3, <1>4 DEF Succ
  <2> QED BY <1>0, <1>2, <2>1, SameGoes DEF OnlyAt
<1>7. Labelled(h, D2)
  <2>1. ASSUME NEW a \in Blocks, BodyOf(h, a) # <<>> PROVE D2[a] = BodyOf(h, a)[1].value
    BY <1>1, <1>2, <1>4, <2>1 DEF Labelled
  <2>2. ASSUME NEW a \in Blocks, BodyOf(h, a) = <<>>
        PROVE  h.branchElse[a] = NULL /\ Goes(h, D2, a, "any", D2[a])
    <3>1. CASE a = b
      BY <1>2, <1>4, <2>2, <3>1 DEF Goes
    <3>2. CASE a # b
      BY <1>1, <1>2, <1>4, <1>6, <2>2, <3>2 DEF Labelled, OnlyAt
    <3> QED BY <3>1, <3>2
  <2> QED BY <1>4, <2>1, <2>2 DEF Labelled
<1>8. NoTrap(h, D2)
  <2> SUFFICES ASSUME NEW T \in SUBSET Blocks, Trap(h, T), NEW c \in T PROVE D2[c] = 0
    BY DEF NoTrap
  <2>1. b \notin T
    BY <1>0, <1>2 DEF Trap
  <2>2. Trap(gr, T)
    BY <1>2, <2>1 DEF Trap, OnlyAt
  <2> QED BY <1>1, <1>4, <2>1, <2>2 DEF NoTrap
<1>9. Written(h, pts)
  <2>1. \A a \in Blocks : \A p : Holding(h, a, p) <=> Holding(gr, a, p)
    BY <1>2 DEF Holding
  <2> QED BY <1>1, <1>2, <2>1 DEF Written
<1>10. \A p \in L : ~ Holding(gr, b, p)
  <2>1. ASSUME NEW a \in Blocks PROVE Leads(gr, a) \subseteq Blocks \ {b}
    <3>1. Leads(gr, a) \subseteq Succ(gr, a)
      BY <1>0, LeadsAreEdges
    <3>2. Succ(gr, a) \subseteq Blocks
      BY DEF Succ
    <3> QED BY <1>3, <3>1, <3>2
  <2>2. Closed(Blocks \ {b}, gr)
    BY <2>1 DEF Closed
  <2>3. Homes(L, gr, Blocks \ {b})
    BY <1>1, <1>5, <2>2 DEF Housed
  <2> QED BY <2>3 DEF Homes
<1>11. Matches(L, h, D2, e, fl)
  <2> SUFFICES ASSUME NEW p \in L, NEW o, NEW x
               PROVE  Meets(h, D2, e, p, o, x) <=> Meets(gr, D, e, p, o, x)
    BY <1>1, SameMatches
  <2>1. BodyOf(gr, b) # <<>> => p # LastOf(BodyOf(gr, b)).value
    <3>1. SUFFICES ASSUME BodyOf(gr, b) # <<>>, p = LastOf(BodyOf(gr, b)).value PROVE FALSE
      OBVIOUS
    <3>2. BodyOf(gr, b) \in Seq(Insts)
      BY BodyTypes
    <3>3. Len(BodyOf(gr, b)) \in 1 .. Len(BodyOf(gr, b))
      BY <3>1, <3>2, EmptySeq
    <3>4. Holding(gr, b, p)
      BY <3>1, <3>3 DEF Holding, LastOf
    <3> QED BY <1>10, <3>4
  <2>2. \A a \in Blocks : \A l : BodyOf(gr, a) # <<>> /\ p = LastOf(BodyOf(gr, a)).value
                             => (Goes(h, D2, a, o, l) <=> Goes(gr, D, a, o, l))
    BY <1>6, <2>1
  <2>3. D2[e] = D[e]
    BY <1>4, <1>5
  <2>4. \A l : Edge(h, D2, e, p, o, l) <=> Edge(gr, D, e, p, o, l)
    BY <1>2, <2>2, <2>3, SameEdges
  <2> QED BY <2>4 DEF Meets
<1>12. \A a \in Blocks \ {b} : Leads(h, a) = Leads(gr, a) /\ Succ(h, a) = Succ(gr, a)
  BY <1>2 DEF Leads, Succ, OnlyAt
<1>13. Housed(L, h, e)
  <2> SUFFICES ASSUME NEW S \in SUBSET Blocks, e \in S, Closed(S, h)
               PROVE  Homes(L, h, S)
    BY DEF Housed
  <2>1. Closed(S \ {b}, gr)
    BY <1>3, <1>12 DEF Closed
  <2>2. Homes(L, gr, S \ {b})
    BY <1>1, <1>5, <2>1 DEF Housed
  <2> QED BY <1>2, <2>2 DEF Homes, Holding
<1>14. OnList(h, ord2)
  <2>1. Succ(h, b) = {}
    BY <1>0, <1>2 DEF Succ
  <2> QED BY <1>1, <1>3, <1>12, <2>1 DEF OnList
<1>15. Traced(h, pts, D2)
  BY <1>7, <1>8, <1>9 DEF Traced
<1>16. ord2[1] = e
  BY DEF e
<1> QED BY <1>11, <1>13, <1>14, <1>15, <1>16 DEF Completing

\* Blocks without instructions lead to one that has some, or ends, or is open.
LEMMA Arrives ==
  ASSUME NEW gr, NEW D, Labelled(gr, D), NoTrap(gr, D), NEW S \in SUBSET Blocks,
         \A x \in S : BodyOf(gr, x) = <<>> /\ gr.branch[x] \in Blocks => gr.branch[x] \in S,
         NEW b \in S, D[b] # 0
  PROVE  \E x \in S : D[x] = D[b] /\ (BodyOf(gr, x) # <<>> \/ gr.branch[x] \notin Blocks)
<1> DEFINE v == D[b]
           U == {x \in S : D[x] = v}
<1> SUFFICES ASSUME \A x \in S : D[x] = v => BodyOf(gr, x) = <<>> /\ gr.branch[x] \in Blocks
             PROVE  FALSE
  OBVIOUS
<1> HIDE DEF v
<1>1. ASSUME NEW x \in U
      PROVE  BodyOf(gr, x) = <<>> /\ gr.branch[x] \in U
  <2>1. x \in Blocks /\ D[x] = v /\ BodyOf(gr, x) = <<>> /\ gr.branch[x] \in S /\ gr.branch[x] \in Blocks
    OBVIOUS
  <2>2. gr.branchElse[x] = NULL /\ Goes(gr, D, x, "any", D[x])
    BY <2>1 DEF Labelled
  <2>3. D[gr.branch[x]] = D[x]
    BY <2>1, <2>2, CfgAssumption DEF Goes
  <2> QED BY <2>1, <2>3
<1>2. Trap(gr, U) /\ U \in SUBSET Blocks /\ b \in U
  BY <1>1 DEF Trap, v
<1>3. D[b] = 0
  BY <1>2 DEF NoTrap
<1> QED BY <1>3

\* An empty block that does not jump has the label of an end.
LEMMA EndLabel ==
  ASSUME NEW gr, NEW D, Labelled(gr, D), NEW b \in Blocks, BodyOf(gr, b) = <<>>,
         gr.branch[b] \notin Blocks
  PROVE  D[b] = Hole(b) \/ (gr.branch[b] = TERMINAL /\ D[b] = EXIT)
BY DEF Labelled, Goes

\* Control goes on to the label of a block it is led to.
LEMMA GoesLeads ==
  ASSUME NEW gr \in Graphs, WellShaped(gr), NEW D, NEW b \in Blocks, NEW o, NEW l,
         Goes(gr, D, b, o, l)
  PROVE  l = Hole(b) \/ l = EXIT \/ \E c \in Leads(gr, b) : l = D[c]
<1>1. gr.branchElse[b] \in Blocks \cup {NULL} /\ IMMTRUE # IMMFALSE
      /\ TERMINAL \notin Blocks /\ NULL \notin Blocks
  BY FieldTypes, TranslatorAssumption, CfgAssumption
<1>2. CASE gr.branch[b] \notin Blocks
  BY <1>2 DEF Goes
<1>3. CASE gr.branch[b] \in Blocks /\ gr.branchElse[b] = NULL
  <2>1. l = D[gr.branch[b]] /\ gr.branch[b] \in Leads(gr, b)
    BY <1>1, <1>3 DEF Goes, Leads, Succ
  <2> QED BY <2>1
<1>4. CASE gr.branch[b] \in Blocks /\ gr.branchElse[b] # NULL /\ gr.control[b] = IMMTRUE
  <2>1. l = D[gr.branch[b]] /\ gr.branch[b] \in Leads(gr, b)
    BY <1>1, <1>4 DEF Goes, Leads, Succ
  <2> QED BY <2>1
<1>5. CASE gr.branch[b] \in Blocks /\ gr.branchElse[b] # NULL /\ gr.control[b] = IMMFALSE
  <2>1. l = D[gr.branchElse[b]] /\ gr.branchElse[b] \in Leads(gr, b)
    BY <1>1, <1>5 DEF Goes, Leads, Succ
  <2> QED BY <2>1
<1>6. CASE gr.branch[b] \in Blocks /\ gr.branchElse[b] # NULL
           /\ gr.control[b] \notin {IMMTRUE, IMMFALSE}
  <2>1. l = D[gr.branch[b]] \/ l = D[gr.branchElse[b]]
    BY <1>1, <1>6 DEF Goes
  <2>2. gr.branch[b] \in Leads(gr, b) /\ gr.branchElse[b] \in Leads(gr, b)
    BY <1>1, <1>6 DEF Leads, Succ
  <2> QED BY <2>1, <2>2
<1> QED BY <1>2, <1>3, <1>4, <1>5, <1>6

\* The block that holds the label of a block of S is in S.
LEMMA LandsInside ==
  ASSUME NEW gr, Good(gr, Blocks), NEW pts \in 0 .. MaxPoints, NEW D, Traced(gr, pts, D),
         NEW S \in SUBSET Blocks, Closed(S, gr), NEW c \in S,
         NEW a \in Blocks, Holding(gr, a, D[c])
  PROVE  a \in S
<1>1. /\ gr \in Graphs /\ WellShaped(gr)
      /\ Labelled(gr, D) /\ NoTrap(gr, D) /\ Written(gr, pts)
  BY DEF Good, Edges, Traced
<1>2. D[c] \in 1 .. pts /\ pts \in Nat
  <2>1. D[c] \in 1 .. pts
    BY <1>1 DEF Holding, Written
  <2> QED BY <2>1, TranslatorAssumption
<1>3. ASSUME NEW x \in S, BodyOf(gr, x) = <<>>, gr.branch[x] \in Blocks PROVE gr.branch[x] \in S
  <2>1. gr.branchElse[x] = NULL
    BY <1>1, <1>3 DEF Labelled
  <2>2. gr.branch[x] \in Leads(gr, x)
    BY <1>3, <2>1 DEF Leads, Succ
  <2> QED BY <2>2 DEF Closed
<1>4. D[c] # 0
  BY <1>2
<1>5. PICK x \in S : D[x] = D[c] /\ (BodyOf(gr, x) # <<>> \/ gr.branch[x] \notin Blocks)
  BY <1>1, <1>3, <1>4, Arrives
<1>6. BodyOf(gr, x) # <<>>
  <2> SUFFICES ASSUME BodyOf(gr, x) = <<>> PROVE FALSE
    OBVIOUS
  <2>1. D[x] = Hole(x) \/ D[x] = EXIT
    BY <1>1, <1>5, EndLabel
  <2> QED BY <1>2, <1>5, <2>1, HoleLabels, TranslatorAssumption DEF EXIT
<1>7. Holding(gr, x, D[c])
  <2>1. D[x] = BodyOf(gr, x)[1].value /\ BodyOf(gr, x) \in Seq(Insts)
    BY <1>1, <1>6, BodyTypes DEF Labelled
  <2>2. 1 \in 1 .. Len(BodyOf(gr, x))
    BY <1>6, <2>1, EmptySeq
  <2> QED BY <1>5, <2>1, <2>2 DEF Holding
<1> QED BY <1>1, <1>7 DEF Written

\* Where the code continues inside S it stays inside S.
LEMMA StaysInside ==
  ASSUME NEW gr, Good(gr, Blocks), NEW pts \in 0 .. MaxPoints, NEW D, Traced(gr, pts, D),
         NEW S \in SUBSET Blocks, Closed(S, gr), NEW e \in S, NEW p, NEW o, NEW l,
         Edge(gr, D, e, p, o, l), \A b \in Blocks : Holding(gr, b, p) => b \in S,
         NEW a \in Blocks, Holding(gr, a, l)
  PROVE  a \in S
<1>1. /\ gr \in Graphs /\ WellShaped(gr) /\ Written(gr, pts)
      /\ \A b \in Blocks : BodyOf(gr, b) \in Seq(Insts)
  BY BodyTypes DEF Good, Edges, Traced
<1>2. l \in 1 .. pts /\ l < EXIT
  <2>1. l \in 1 .. pts
    BY <1>1 DEF Holding, Written
  <2> QED BY <2>1, TranslatorAssumption DEF EXIT
<1>3. CASE p = START /\ o = "any" /\ l = D[e]
  BY <1>3, LandsInside
<1>4. ASSUME NEW b \in Blocks, NEW i \in 1 .. Len(BodyOf(gr, b)) - 1,
             p = BodyOf(gr, b)[i].value, l = BodyOf(gr, b)[i + 1].value
      PROVE  a \in S
  <2>0. Len(BodyOf(gr, b)) \in Nat
    BY <1>1
  <2>1. i \in 1 .. Len(BodyOf(gr, b)) /\ i + 1 \in 1 .. Len(BodyOf(gr, b))
    BY <2>0
  <2>2. Holding(gr, b, p) /\ Holding(gr, b, l)
    BY <1>4, <2>1 DEF Holding
  <2> QED BY <1>1, <2>2 DEF Written
<1>5. ASSUME NEW b \in Blocks, BodyOf(gr, b) # <<>>, p = LastOf(BodyOf(gr, b)).value,
             Goes(gr, D, b, o, l)
      PROVE  a \in S
  <2>1. Len(BodyOf(gr, b)) \in 1 .. Len(BodyOf(gr, b))
    BY <1>1, <1>5, EmptySeq
  <2>2. b \in S
    BY <1>5, <2>1 DEF Holding, LastOf
  <2>3. PICK c \in Leads(gr, b) : l = D[c]
    <3>1. l # Hole(b) /\ l # EXIT
      BY <1>2, HoleLabels
    <3> QED BY <1>1, <1>5, <3>1, GoesLeads
  <2>4. c \in S
    BY <2>2, <2>3 DEF Closed
  <2> QED BY <2>3, <2>4, LandsInside
<1> QED BY <1>3, <1>4, <1>5 DEF Edge

\* At the end of the body what is loose ends.
LEMMA EndMatches ==
  ASSUME NEW D, NEW V, NEW gr, NEW e, NEW cur \in Blocks, NEW fs, Len(fs) = 0, NEW fl \in SUBSET Flows,
         NEW lo \in SUBSET Leaving, Agree(V, gr, D, e, fl, lo, cur, fs)
  PROVE  Matches(V, gr, D, e, fl \cup Join(lo, EXIT))
<1> DEFINE fl2 == fl \cup Join(lo, EXIT)
<1>0. EXIT \in Nat \ {0} /\ Hole(cur) \in Nat \ {0} /\ Settle(Hole(cur)) = EXIT
  BY HoleLabels DEF Settle
<1>1. ASSUME NEW p, NEW o, NEW x, <<p, o, x>> \in fl PROVE x \in Nat \ {0} /\ Settle(x) = x
  <2>1. x \in 1 .. MaxPoints + 1
    BY <1>1 DEF Flows
  <2> QED BY <2>1, TranslatorAssumption DEF Settle, EXIT
<1>2. ASSUME NEW p \in V, NEW o, NEW x
      PROVE  <<p, o, x>> \in fl2 <=> Meets(gr, D, e, p, o, x)
  <2>1. <<p, o, x>> \in fl2 <=> <<p, o, x>> \in fl \/ (<<p, o>> \in lo /\ x = EXIT)
    BY JoinIs
  <2>2. ASSUME NEW l \in Nat \ {0}
        PROVE  Edge(gr, D, e, p, o, l) <=> <<p, o, l>> \in fl \/ (<<p, o>> \in lo /\ l = Hole(cur))
    <3>1. Edge(gr, D, e, p, o, l) <=> Comes(fl, lo, cur, fs, p, o, l)
      BY DEF Agree
    <3>2. ~ Owes(fs, p, o, l)
      BY DEF Owes
    <3> QED BY <3>1, <3>2 DEF Comes
  <2> HIDE DEF fl2
  <2>3. ASSUME <<p, o, x>> \in fl PROVE Meets(gr, D, e, p, o, x)
    BY <1>1, <2>2, <2>3 DEF Meets
  <2>4. ASSUME <<p, o>> \in lo, x = EXIT PROVE Meets(gr, D, e, p, o, x)
    BY <1>0, <2>2, <2>4 DEF Meets
  <2>5. ASSUME Meets(gr, D, e, p, o, x)
        PROVE  <<p, o, x>> \in fl \/ (<<p, o>> \in lo /\ x = EXIT)
    <3>1. PICK l \in Nat \ {0} : Edge(gr, D, e, p, o, l) /\ x = Settle(l)
      BY <2>5 DEF Meets
    <3>2. CASE <<p, o, l>> \in fl
      BY <1>1, <3>1, <3>2
    <3>3. CASE <<p, o>> \in lo /\ l = Hole(cur)
      BY <1>0, <3>1, <3>3
    <3> QED BY <2>2, <3>1, <3>2, <3>3
  <2> QED BY <2>1, <2>3, <2>4, <2>5
<1> HIDE DEF fl2
<1>3. Matches(V, gr, D, e, fl2)
  BY <1>2, Zenon DEF Matches
<1> QED BY <1>3 DEF fl2

\* The points that can be reached are in V.
LEMMA LiveInside ==
  ASSUME NEW V, NEW pts \in 0 .. MaxPoints, NEW fs, NEW fl \in SUBSET Flows,
         NEW lo \in SUBSET Leaving, Numbered(V, pts, fl, lo, fs)
  PROVE  LET fl2 == fl \cup Join(lo, EXIT)
         IN  /\ fl2 \in SUBSET Flows /\ V \in SUBSET AllPoints /\ START \in V
             /\ \A p \in V : After(fl2, p) \subseteq V
             /\ LiveIn(fl2) \subseteq V
<1> DEFINE fl2 == fl \cup Join(lo, EXIT)
<1>1. fl2 \in SUBSET Flows
  <2>1. Join(lo, EXIT) \subseteq Flows
    BY JoinType, TranslatorAssumption DEF EXIT
  <2> QED BY <2>1
<1>2. V \in SUBSET AllPoints /\ START \in V /\ EXIT \in V
  BY TranslatorAssumption DEF Numbered, AllPoints, EXIT
<1>3. ASSUME NEW p \in V, NEW x \in After(fl2, p) PROVE x \in V
  <2>1. PICK y \in fl2 : y[1] = p /\ x = y[3]
    BY <1>3 DEF After
  <2>2. y = <<y[1], y[2], y[3]>>
    BY <1>1, <2>1 DEF Flows
  <2>3. CASE y \in fl
    <3>1. <<p, y[2], x>> \in fl
      BY <2>1, <2>2, <2>3
    <3> QED BY <3>1 DEF Numbered
  <2>4. CASE y \in Join(lo, EXIT)
    <3>1. x = EXIT
      BY <2>1, <2>4 DEF Join
    <3> QED BY <1>2, <3>1
  <2> QED BY <2>1, <2>3, <2>4
<1> HIDE DEF fl2
<1>4. LiveIn(fl2) \subseteq V
  BY <1>1, <1>2, <1>3, LiveIsClosed
<1> QED BY <1>1, <1>2, <1>3, <1>4 DEF fl2

\* Control can be in the blocks of those points.
LEMMA EndHoused ==
  ASSUME NEW gr, Good(gr, Blocks), NEW pts \in 0 .. MaxPoints, NEW D, Traced(gr, pts, D),
         NEW e \in Blocks, NEW V \in SUBSET AllPoints, START \in V, NEW fl \in SUBSET Flows,
         Matches(V, gr, D, e, fl), \A p \in V : After(fl, p) \subseteq V
  PROVE  Housed(LiveIn(fl), gr, e)
<1> SUFFICES ASSUME NEW S \in SUBSET Blocks, e \in S, Closed(S, gr)
             PROVE  Homes(LiveIn(fl), gr, S)
  BY DEF Housed
<1> DEFINE Home(p) == \A b \in Blocks : Holding(gr, b, p) => b \in S
           T == {p \in V : Home(p)}
<1>1. START \in T
  <2>1. ASSUME NEW b \in Blocks, Holding(gr, b, START) PROVE FALSE
    <3>1. START \in 1 .. pts
      BY <2>1 DEF Traced, Written, Holding
    <3> QED BY <3>1 DEF START
  <2> QED BY <2>1
<1>2. ASSUME NEW p \in T, NEW x \in After(fl, p) PROVE x \in T
  <2>1. PICK y \in fl : y[1] = p /\ x = y[3]
    BY <1>2 DEF After
  <2> DEFINE o == y[2]
  <2>2. <<p, o, x>> \in fl
    BY <2>1 DEF Flows
  <2>3. x \in V /\ p \in V /\ Home(p)
    OBVIOUS
  <2> HIDE DEF o, T
  <2>4. Meets(gr, D, e, p, o, x)
    BY <2>2, <2>3, Zenon DEF Matches
  <2>5. PICK l \in Nat \ {0} : Edge(gr, D, e, p, o, l) /\ x = Settle(l)
    BY <2>4 DEF Meets
  <2>6. ASSUME NEW a \in Blocks, Holding(gr, a, x) PROVE a \in S
    <3>1. x \in 1 .. pts
      BY <2>6 DEF Traced, Written, Holding
    <3>2. x = l
      BY <2>5, <3>1, TranslatorAssumption DEF Settle, EXIT
    <3> QED BY <2>3, <2>5, <2>6, <3>2, StaysInside
  <2> QED BY <2>3, <2>6 DEF T
<1>3. LiveIn(fl) \subseteq T
  <2>1. T \in SUBSET AllPoints
    OBVIOUS
  <2> HIDE DEF T
  <2> QED BY <1>1, <1>2, <2>1, LiveIsClosed
<1> QED BY <1>3 DEF Homes

\* Every edge leads to a block on the list.
LEMMA EdgesOnList ==
  ASSUME NEW gr, NEW ord \in Seq(Blocks), NEW ls, Flowing(gr, ord, ls), ls \subseteq ToSet(ord)
  PROVE  OnList(gr, ord)
<1> SUFFICES ASSUME NEW a \in Blocks, NEW b \in Succ(gr, a) PROVE b \in ToSet(ord)
  BY DEF OnList
<1>1. b \in Blocks
  BY DEF Succ
<1>2. b \in ls \/ Precedes(ord, a, b)
  BY <1>1 DEF Flowing
<1> QED BY <1>2, ElementsOf DEF Precedes

\* The invariant of the pass.
CompletingNow(D) == Completing(LiveIn(flow), D, g, order, points, flow)

\* It holds when the body ends.
LEMMA EndFunctionMeaning ==
  ASSUME Inv, InOrder, LoopsListed, NEW D, NEW V, MeaningNow(D, V), EndFunction
  PROVE  \E E : Completing(LiveIn(flow'), E, g', order', points', flow')
<1>1. /\ phase = "body" /\ Len(frames) = 0 /\ flow' = flow \cup Join(loose, EXIT)
      /\ g' = g /\ order' = order /\ points' = points
  BY DEF EndFunction
<1>2. OrderedNow /\ Flowing(g, order, loops) /\ order \in Seq(Blocks)
  BY <1>1, BodyState DEF InOrder, OrderedNow, Ordered, Building, Listed
<1>3. WorkingNow(D, V)
  BY <1>1, <1>2, MeaningState
<1> DEFINE e == order[1]
           fl2 == flow \cup Join(loose, EXIT)
<1>4. /\ Good(g, Blocks) /\ current \in Blocks /\ e \in Blocks /\ points \in 0 .. MaxPoints
      /\ flow \in SUBSET Flows /\ loose \in SUBSET Leaving
      /\ Meaning(D, V, g, e, current, frames, points, flow, loose)
  BY <1>3 DEF WorkingNow, Working
<1>5. /\ Traced(g, points, D) /\ Agree(V, g, D, e, flow, loose, current, frames)
      /\ Numbered(V, points, flow, loose, frames)
  BY <1>4 DEF Meaning
<1> HIDE DEF e
<1>6. Matches(V, g, D, e, fl2)
  BY <1>1, <1>4, <1>5, EndMatches
<1>7. /\ fl2 \in SUBSET Flows /\ V \in SUBSET AllPoints /\ START \in V
      /\ \A p \in V : After(fl2, p) \subseteq V
      /\ LiveIn(fl2) \subseteq V
  BY <1>4, <1>5, LiveInside
<1> HIDE DEF fl2
<1>8. Housed(LiveIn(fl2), g, e)
  BY <1>4, <1>5, <1>6, <1>7, EndHoused
<1>9. Matches(LiveIn(fl2), g, D, e, fl2)
  BY <1>6, <1>7, Zenon DEF Matches
<1>10. OnList(g, order)
  BY <1>1, <1>2, EdgesOnList DEF LoopsListed
<1>11. Completing(LiveIn(fl2), D, g, order, points, fl2)
  BY <1>5, <1>8, <1>9, <1>10 DEF Completing, e
<1>12. flow' = fl2
  BY <1>1 DEF fl2
<1> QED BY <1>1, <1>11, <1>12

CompletingNext == \E D : Completing(LiveIn(flow'), D, g', order', points', flow')

\* A visit changes the graph and the list.
LEMMA VisitCompletes ==
  ASSUME NEW gr, NEW ord, NEW ph, Visit(gr, ord, ph), NEW D,
         Completing(LiveIn(flow), D, gr, ord, points, flow)
  PROVE  CompletingNext
<1>1. g' = gr /\ order' = ord /\ points' = points /\ flow' = flow
  BY DEF Visit
<1> QED BY <1>1 DEF CompletingNext

\* What the pass may assume.
LEMMA CompletingState ==
  ASSUME Inv, InOrder, phase \in {"sweep", "done"}
  PROVE  Good(g, Blocks) /\ order[1] \in Blocks /\ points \in 0 .. MaxPoints
<1>1. Good(g, Blocks) /\ order \in Seq(Blocks) /\ order # <<>> /\ points \in 0 .. MaxPoints
  BY DEF Inv, InOrder, Source
<1>2. 1 \in 1 .. Len(order)
  BY <1>1, EmptySeq
<1> QED BY <1>1, <1>2, ElementOfSeq

\* The pass removes a block,
LEMMA SweepRemoveMeaning ==
  ASSUME Inv, InOrder, NEW D, CompletingNow(D), SweepRemove
  PROVE  CompletingNext
<1> DEFINE b == Head(rest)
           h == Reset(g, b)
           ord == RemoveFirst(order, b)
<1>1. phase = "sweep" /\ g.in[b] = {} /\ b # order[1] /\ Visit(h, ord, "sweep")
  BY DEF SweepRemove, Unused, RemoveBlock
<1>2. b \in Blocks /\ Good(g, Blocks) /\ order[1] \in Blocks
  BY <1>1, VisitedState, CompletingState
<1>3. ord[1] = order[1] /\ ToSet(ord) = ToSet(order) \ {b}
  <2>1. PICK p \in Seq(Blocks) : order = p \o rest
    BY <1>1, VisitedState DEF Swept
  <2>2. p # <<>> /\ p[1] = order[1]
    BY <1>1, <2>1, VisitedState, HeadIsNext
  <2>3. /\ ord = p \o Tail(rest) /\ (p \o Tail(rest))[1] = p[1]
        /\ ToSet(p \o Tail(rest)) = ToSet(order) \ {b}
    BY <1>1, <2>1, <2>2, VisitedState, WithoutHead
  <2> QED BY <2>2, <2>3
<1>4. h = Reset(g, b)
  OBVIOUS
<1> DEFINE L == LiveIn(flow)
<1>5. Completing(L, D, g, order, points, flow)
  BY DEF CompletingNow
<1> HIDE DEF h, ord, b, L
<1>6. \E D2 : Completing(L, D2, h, ord, points, flow)
  BY <1>1, <1>2, <1>3, <1>4, <1>5, RemoveKeeps
<1> QED BY <1>1, <1>6, VisitCompletes DEF L

\* ... folds a constant branch,
LEMMA SweepFoldMeaning ==
  ASSUME Inv, InOrder, NEW D, CompletingNow(D), SweepFold
  PROVE  CompletingNext
<1> DEFINE b == Head(rest)
           to == IF g.control[b] = IMMTRUE THEN g.branch[b] ELSE g.branchElse[b]
           h == ResetTo(g, b, to)
<1>1. /\ phase = "sweep" /\ g.branchElse[b] # NULL /\ g.control[b] \in {IMMTRUE, IMMFALSE}
      /\ Visit(h, order, "sweep")
  BY DEF SweepFold, Constant, IsBranched
<1>2. b \in Blocks /\ g \in Graphs /\ Edges(g) /\ Good(g, Blocks)
  BY <1>1, VisitedState
<1>3. to \in Blocks
  <2>1. g.branch[b] \in Blocks /\ g.branchElse[b] \in Blocks
    BY <1>1, <1>2, FieldTypes DEF Edges, WellShaped
  <2> QED BY <2>1
<1>4. to = IF g.control[b] = IMMTRUE THEN g.branch[b] ELSE g.branchElse[b]
  OBVIOUS
<1>5. Jumped(g, h, b, to)
  <2> HIDE DEF b, to
  <2> QED BY <1>2, <1>3, JumpBodies
<1> DEFINE L == LiveIn(flow)
<1>6. Completing(L, D, g, order, points, flow)
  BY DEF CompletingNow
<1> HIDE DEF h, to, b, L
<1>7. Completing(L, D, h, order, points, flow)
  BY <1>1, <1>2, <1>4, <1>5, <1>6, FoldKeeps
<1> QED BY <1>1, <1>7, VisitCompletes DEF L

\* ... ends an open block,
LEMMA SweepTerminateMeaning ==
  ASSUME Inv, InOrder, NEW D, CompletingNow(D), SweepTerminate, phase' # "aborted"
  PROVE  CompletingNext
<1> DEFINE b == Head(rest)
           h == TryMarkAsTerminal(g, b, FALSE)
<1>1. phase = "sweep" /\ g.branch[b] = NULL
  BY DEF SweepTerminate, IsIncomplete
<1>2. MarkReturns(g, b, FALSE) /\ Visit(h, order, "sweep")
  BY DEF SweepTerminate, Visit
<1>3. b \in Blocks /\ Good(g, Blocks) /\ order[1] \in Blocks /\ points \in 0 .. MaxPoints
  BY <1>1, VisitedState, CompletingState
<1>4. Jumped(g, h, b, TERMINAL)
  <2> HIDE DEF b
  <2> QED BY <1>2, <1>3, MarkBodies
<1> DEFINE L == LiveIn(flow)
<1>5. Completing(L, D, g, order, points, flow)
  BY DEF CompletingNow
<1> HIDE DEF h, b, L
<1>6. \E D2 : Completing(L, D2, h, order, points, flow)
  BY <1>1, <1>3, <1>4, <1>5, ReturnKeeps
<1> QED BY <1>2, <1>6, VisitCompletes DEF L

\* ... or passes over a block.
LEMMA SweepSkipMeaning ==
  ASSUME NEW D, CompletingNow(D), SweepSkip
  PROVE  CompletingNext
BY VisitCompletes DEF SweepSkip, CompletingNow

\* The invariant: labels explain the blocks while the body is translated and while the
\* pass runs.
Meant == /\ phase = "body" => LoopsListed /\ \E D, V : MeaningNow(D, V)
         /\ phase \in {"sweep", "done"} => \E D : CompletingNow(D)

\* Every step keeps it.
LEMMA NextMeant ==
  ASSUME Inv, InOrder, Meant, [Next]_vars
  PROVE  Meant'
<1>1. CASE UNCHANGED vars
  BY <1>1 DEF Meant, LoopsListed, MeaningNow, CompletingNow, vars
<1>2. CASE Sweep
  <2>1. phase = "sweep" /\ phase' \in {"sweep", "done", "aborted"}
    BY <1>2 DEF Sweep, SweepRemove, SweepFold, SweepTerminate, SweepSkip, Visit
  <2>2. PICK D : CompletingNow(D)
    BY <2>1 DEF Meant
  <2>3. phase' # "aborted" => CompletingNext
    BY <1>2, <2>2, SweepRemoveMeaning, SweepFoldMeaning, SweepTerminateMeaning, SweepSkipMeaning
       DEF Sweep
  <2> QED BY <2>1, <2>3 DEF Meant, CompletingNext, CompletingNow
<1>3. CASE EndFunction
  <2>1. phase = "body" /\ phase' = "sweep"
    BY <1>3 DEF EndFunction
  <2>2. PICK D, V : MeaningNow(D, V)
    BY <2>1 DEF Meant
  <2>3. LoopsListed
    BY <2>1 DEF Meant
  <2>4. CompletingNext
    BY <1>3, <2>2, <2>3, EndFunctionMeaning DEF CompletingNext
  <2> QED BY <2>1, <2>4 DEF Meant, CompletingNext, CompletingNow
<1>4. CASE Next /\ ~ Sweep /\ ~ EndFunction
  <2>1. phase = "body" /\ phase' = "body"
    <3>1. CASE \E v \in Conditions(NextPoint) :
                 \/ If(v) \/ IfElse(v) \/ DoTest(v) \/ WhileTest(v) \/ ForTest(v)
                 \/ \E isAnd \in BOOLEAN : LogicLeft(isAnd, v)
      BY <3>1 DEF If, IfElse, DoTest, WhileTest, ForTest, LoopTest, LogicLeft, InExpression,
                  InStatements, In, SweepState
    <3>2. CASE While \/ For \/ EndlessFor
      BY <3>2 DEF While, For, Loop, EndlessFor, InStatements, In
    <3>3. CASE Expression \/ LogicRight \/ EndElse \/ EndIf \/ Do \/ EndDoBody
      BY <3>3 DEF Expression, LogicRight, EndElse, EndIf, Do, EndDoBody, InStatements, In, SweepState
    <3>4. CASE EndLoop \/ Break \/ Continue \/ ReturnValue \/ ReturnVoid
      BY <3>4 DEF EndLoop, Break, Continue, ReturnValue, ReturnVoid, InWhile, InStatements, In, SweepState
    <3> QED BY <1>4, <3>1, <3>2, <3>3, <3>4 DEF Next, Statement
  <2>2. PICK D, V : MeaningNow(D, V)
    BY <2>1 DEF Meant
  <2>3. LoopsListed /\ OrderedNow
    BY <2>1 DEF Meant, InOrder, OrderedNow, Ordered
  <2>4. MeaningNext
    BY <1>4, <2>1, <2>2, <2>3, StatementMeaning
  <2>5. ListKept
    BY <1>4, <2>1, <2>3, StatementListed DEF Next
  <2>6. \E D2, V2 : Meaning(D2, V2, g', order'[1], current', frames', points', flow', loose')
    BY <2>4, <2>5 DEF MeaningNext, MeaningOf, ListKept
  <2>7. (LoopsListed /\ \E D2, V2 : MeaningNow(D2, V2))'
    BY <2>5, <2>6 DEF ListKept, LoopsListed, MeaningNow
  <2> QED BY <2>1, <2>7 DEF Meant
<1> QED BY <1>1, <1>2, <1>3, <1>4

\* A new function.
LEMMA InitMeant ==
  ASSUME Init
  PROVE  Meant
<1> DEFINE D == [b \in Blocks |-> Hole(b)]
           V == {START, EXIT}
<1>1. /\ order = <<1>> /\ current = 1 /\ frames = <<>> /\ phase = "body" /\ points = 0
      /\ flow = {} /\ loose = {<<START, "any">>} /\ loops = {}
      /\ \A b \in Blocks : g.branch[b] = NULL /\ g.branchElse[b] = NULL /\ BodyOf(g, b) = <<>>
  BY DEF Init, EmptyGraph, BodyOf
<1>2. order[1] = 1 /\ 1 \in Blocks /\ Len(frames) = 0 /\ EXIT \in Nat /\ EXIT # 0 /\ START = 0
  BY <1>1, TranslatorAssumption, HoleLabels
<1>3. /\ D \in [Blocks -> Nat] /\ \A b \in Blocks : D[b] = Hole(b)
  BY HoleLabels
<1> HIDE DEF D
<1>4. Labelled(g, D)
  BY <1>1, <1>3 DEF Labelled, Goes
<1>5. NoTrap(g, D)
  <2> SUFFICES ASSUME NEW T \in SUBSET Blocks, Trap(g, T), NEW b \in T PROVE FALSE
    BY DEF NoTrap
  <2> QED BY <1>1, CfgAssumption DEF Trap
<1>0. \A b \in Blocks : Len(BodyOf(g, b)) = 0
  <2>1. Len(<<>>) = 0
    OBVIOUS
  <2> SUFFICES ASSUME NEW b \in Blocks PROVE Len(BodyOf(g, b)) = 0
    OBVIOUS
  <2>2. BodyOf(g, b) = <<>>
    BY <1>1
  <2> QED BY <2>1, <2>2, Zenon
<1>6. Written(g, points)
  BY <1>0 DEF Written, Holding
<1>7. Agree(V, g, D, order[1], flow, loose, current, frames)
  <2> SUFFICES ASSUME NEW p \in V, NEW l \in Nat \ {0}, NEW o
               PROVE  Edge(g, D, order[1], p, o, l) <=> Comes(flow, loose, current, frames, p, o, l)
    BY DEF Agree
  <2>1. Edge(g, D, order[1], p, o, l) <=> p = START /\ o = "any" /\ l = Hole(1)
    <3>1. \A b \in Blocks : BodyOf(g, b) = <<>>
      BY <1>1
    <3> QED BY <1>0, <1>2, <1>3, <3>1 DEF Edge
  <2>2. Comes(flow, loose, current, frames, p, o, l) <=> <<p, o>> = <<START, "any">> /\ l = Hole(1)
    BY <1>1, <1>2 DEF Comes, Owes
  <2>3. <<p, o>> = <<START, "any">> <=> p = START /\ o = "any"
    OBVIOUS
  <2> QED BY <2>1, <2>2, <2>3
<1>8. Numbered(V, points, flow, loose, frames)
  BY <1>1, <1>2 DEF Numbered, Below
<1>9. Heads(V, D, points, loose, current, frames) /\ Young(points, frames) /\ Bare(frames)
  BY <1>2 DEF Heads, Young, Bare
<1>10. MeaningNow(D, V)
  BY <1>4, <1>5, <1>6, <1>7, <1>8, <1>9 DEF MeaningNow, Meaning, Traced
<1> QED BY <1>1, <1>10 DEF Meant, LoopsListed

(***************************************************************************)
(* The flow of the finished code, read off the labels.                     *)
(***************************************************************************)
\* The points of a block are those of its body.
LEMMA PointsOfBody ==
  ASSUME Good(g, Blocks), NEW b \in Blocks
  PROVE  LET s == BodyOf(g, b)
         IN  /\ s \in Seq(Insts) /\ Len(s) \in Nat
             /\ PointsOf(b) = <<>> <=> s = <<>>
             /\ Len(PointsOf(b)) = Len(s)
             /\ \A i \in 1 .. Len(s) : PointsOf(b)[i] = s[i].value
             /\ s # <<>> => Last(PointsOf(b)) = LastOf(s).value /\ Len(s) \in 1 .. Len(s)
<1> DEFINE s == BodyOf(g, b)
           ps == [i \in 1 .. Len(s) |-> s[i].value]
<1>1. s \in Seq(Insts) /\ Len(s) \in Nat /\ DOMAIN s = 1 .. Len(s)
  BY BodyTypes
<1>2. s = IF IsIncomplete(g, b) THEN g.code[b] ELSE ButLast(g.code[b])
  BY DEF BodyOf, IsIncomplete
<1>3. PointsOf(b) = [i \in DOMAIN s |-> s[i].value]
  BY <1>2 DEF PointsOf
<1> HIDE DEF s
<1>4. PointsOf(b) = ps
  BY <1>1, <1>3
<1>5. \A i \in 1 .. Len(s) : s[i] \in Insts /\ s[i].value \in {s[j].value : j \in 1 .. Len(s)}
  BY <1>1, ElementOfSeq
<1>6. Len(ps) = Len(s) /\ ps \in Seq({s[j].value : j \in 1 .. Len(s)})
  BY <1>1
<1>7. \A i \in 1 .. Len(s) : ps[i] = s[i].value
  OBVIOUS
<1> HIDE DEF ps
<1>8. s = <<>> <=> Len(s) = 0
  BY <1>1, EmptySeq
<1>9. ps = <<>> <=> Len(ps) = 0
  BY <1>6, EmptySeq
<1>10. s # <<>> => Len(s) \in 1 .. Len(s) /\ Last(ps) = LastOf(s).value
  BY <1>1, <1>6, <1>7, <1>8 DEF Last, LastOf
<1> QED BY <1>1, <1>4, <1>6, <1>7, <1>8, <1>9, <1>10 DEF s

\* From a block without points control goes on.
Through(x) == IF PointsOf(x) = <<>> THEN Succ(g, x) ELSE {}
Empties(b) == Closure({b}, LAMBDA x : Through(x), Cardinality(Blocks))

\* Empties(b) is the least set that has b and what its empty members jump to.
LEMMA EmptiesAreClosed ==
  ASSUME NEW b \in Blocks
  PROVE  /\ b \in Empties(b) /\ Empties(b) \subseteq Blocks
         /\ \A x \in Empties(b) : Through(x) \subseteq Empties(b)
         /\ \A T \in SUBSET Blocks :
              b \in T /\ (\A x \in T : Through(x) \subseteq T) => Empties(b) \subseteq T
<1> DEFINE n == Cardinality(Blocks)
           base == {b}
           next == [s \in SUBSET Blocks |-> s \cup UNION {Through(x) : x \in s}]
<1>1. n \in Nat /\ IsFiniteSet(Blocks) /\ n = Cardinality(Blocks)
  <2>1. Blocks = 1 .. n /\ n \in Nat
    BY TranslatorAssumption
  <2>2. IsFiniteSet(1 .. n)
    BY <2>1, FS_Interval
  <2> QED BY <2>1, <2>2
<1>2. Adds(next, base, Blocks)
  BY <1>1 DEF Adds, Through, Succ
<1>3. \A s \in SUBSET Blocks : next[s] = s \cup UNION {Through(x) : x \in s}
  OBVIOUS
<1>4. PICK f : Rounds(f, next, base, n)
  BY <1>1, RoundsExist
<1> HIDE DEF next
<1>5. base \in SUBSET Blocks /\ base # {} /\ base = {b}
  OBVIOUS
<1>10. Empties(b) = Closure({b}, LAMBDA x : Through(x), n)
  BY DEF Empties
<1> HIDE DEF n, base
<1> DEFINE S == f[n]
<1>6. /\ base \subseteq S /\ S \in SUBSET Blocks /\ next[S] = S
      /\ \A T \in SUBSET Blocks :
           base \subseteq T /\ (\A s \in SUBSET T : next[s] \subseteq T) => S \subseteq T
  <2>1. Settled(f[n], next, base, Blocks)
    BY <1>1, <1>2, <1>4, RoundsClose
  <2> QED BY <2>1 DEF Settled
<1>7. Empties(b) = S
  <2> DEFINE Rec(c) == c = [i \in 0 .. n |-> IF i = 0 THEN {b}
                                             ELSE c[i - 1] \cup UNION {Through(x) : x \in c[i - 1]}]
  <2>1. Rec(f)
    <3>1. f[0] = base /\ \A i \in Nat : i + 1 <= n => f[i + 1] = next[f[i]]
      BY <1>4 DEF Rounds
    <3>2. \A i \in Nat : i <= n => f[i] \in SUBSET Blocks
      <4> DEFINE T == {i \in Nat : i <= n => f[i] \in SUBSET Blocks}
      <4>1. 0 \in T
        BY <1>5, <3>1
      <4>2. ASSUME NEW i \in Nat, i \in T PROVE i + 1 \in T
        <5>1. i + 1 <= n => i <= n
          BY <1>1
        <5> QED BY <1>2, <3>1, <4>2, <5>1 DEF Adds
      <4>3. Nat \subseteq T
        <5> HIDE DEF T
        <5> QED BY <4>1, <4>2, AllNumbers
      <4> QED BY <4>3
    <3>3. ASSUME NEW i \in 0 .. n
          PROVE  f[i] = IF i = 0 THEN {b} ELSE f[i - 1] \cup UNION {Through(x) : x \in f[i - 1]}
      <4>1. CASE i = 0
        BY <1>5, <3>1, <4>1
      <4>2. CASE i # 0
        <5>1. i - 1 \in Nat /\ (i - 1) + 1 = i /\ i <= n /\ i - 1 <= n
          BY <1>1, <4>2
        <5>2. f[i] = next[f[i - 1]] /\ f[i - 1] \in SUBSET Blocks
          BY <3>1, <3>2, <5>1
        <5> QED BY <1>3, <4>2, <5>2
      <4> QED BY <4>1, <4>2
    <3>4. f = [i \in 0 .. n |-> f[i]]
      BY <1>4 DEF Rounds
    <3> QED BY <3>3, <3>4, Zenon
  <2>2. \E c : Rec(c) /\ Empties(b) = c[n]
    BY <1>10, <2>1, Zenon DEF Closure
  <2>3. PICK c : Rec(c) /\ Empties(b) = c[n]
    BY <2>2
  <2>4. ASSUME NEW i \in 0 .. n
        PROVE  c[i] = IF i = 0 THEN {b} ELSE c[i - 1] \cup UNION {Through(x) : x \in c[i - 1]}
    BY <2>3, Zenon
  <2> HIDE DEF Rec
  <2>5. 0 \in 0 .. n
    BY <1>1
  <2>6. c[0] = base
    BY <1>5, <2>4, <2>5
  <2>7. ASSUME NEW i \in Nat, i + 1 <= n, c[i] \in SUBSET Blocks PROVE c[i + 1] = next[c[i]]
    <3>1. i + 1 \in 0 .. n /\ i + 1 # 0 /\ (i + 1) - 1 = i
      BY <1>1, <2>7
    <3>2. c[i + 1] = c[i] \cup UNION {Through(x) : x \in c[i]}
      BY <2>4, <3>1
    <3> QED BY <1>3, <2>7, <3>2
  <2>8. c[n] = f[n]
    <3>1. n \in Nat /\ base \in SUBSET Blocks
      BY <1>1, <1>5
    <3>2. \A i \in Nat : i + 1 <= n /\ c[i] \in SUBSET Blocks => c[i + 1] = next[c[i]]
      BY <2>7
    <3> QED BY <1>2, <1>4, <2>6, <3>1, <3>2, RoundsAgree
  <2> QED BY <2>3, <2>8
<1> HIDE DEF S
<1>8. \A x \in S : Through(x) \subseteq S
  BY <1>3, <1>6
<1>9. ASSUME NEW T \in SUBSET Blocks, b \in T, \A x \in T : Through(x) \subseteq T
      PROVE  S \subseteq T
  <2>1. \A s \in SUBSET T : next[s] \subseteq T
    BY <1>3, <1>9
  <2> QED BY <1>5, <1>6, <1>9, <2>1
<1> QED BY <1>5, <1>6, <1>7, <1>8, <1>9

\* The first points of a block, of the blocks control passes through.
LEMMA FirstsOfEmpties ==
  ASSUME NEW b
  PROVE  FirstPoints(b) = {PointsOf(x)[1] : x \in {y \in Empties(b) : PointsOf(y) # <<>>}}
                          \cup {EXIT : x \in {y \in Empties(b) : PointsOf(y) = <<>> /\ IsTerminal(g, y)}}
BY Zenon DEF FirstPoints, Empties, Through

\* When the pass is over.
LEMMA Completed ==
  ASSUME Inv, InOrder, phase = "done", NEW D, CompletingNow(D)
  PROVE  /\ Good(g, Blocks) /\ g \in Graphs /\ WellShaped(g)
         /\ ToSet(order) \subseteq Blocks /\ order[1] \in ToSet(order)
         /\ points \in 0 .. MaxPoints /\ points \in Nat /\ points < EXIT /\ EXIT \in Nat /\ EXIT # 0
         /\ \A b \in ToSet(order) : Finished(g, b) /\ Succ(g, b) \subseteq ToSet(order)
         /\ Traced(g, points, D) /\ Labelled(g, D) /\ NoTrap(g, D) /\ Written(g, points)
         /\ D \in [Blocks -> Nat]
         /\ \A b \in Blocks : BodyOf(g, b) \in Seq(Insts)
<1>1. Good(g, Blocks) /\ order[1] \in Blocks /\ points \in 0 .. MaxPoints
  BY CompletingState
<1>2. g \in Graphs /\ WellShaped(g) /\ \A b \in Blocks : BodyOf(g, b) \in Seq(Insts)
  BY <1>1, BodyTypes DEF Good, Edges
<1>3. order \in Seq(Blocks) /\ order # <<>>
  BY DEF Inv, InOrder
<1>4. ToSet(order) \subseteq Blocks /\ order[1] \in ToSet(order)
  <2>1. 1 \in 1 .. Len(order)
    BY <1>3, EmptySeq
  <2> QED BY <1>3, <2>1, ElementsOf
<1>5. points \in Nat /\ points < EXIT /\ EXIT \in Nat /\ EXIT # 0
  BY <1>1, TranslatorAssumption DEF EXIT
<1>6. \A b \in ToSet(order) : Finished(g, b)
  <2>1. PICK p \in Seq(Blocks) :
           /\ order = p \o <<>>
           /\ \A b \in ToSet(p) : Finished(g, b) /\ Kept(g, order, p, loops, b)
    BY DEF InOrder, Swept
  <2>2. p = order
    BY <2>1, ConcatEmptySeq
  <2> QED BY <2>1, <2>2
<1>7. Traced(g, points, D) /\ OnList(g, order)
  BY DEF CompletingNow, Completing
<1>8. Labelled(g, D) /\ NoTrap(g, D) /\ Written(g, points) /\ D \in [Blocks -> Nat]
  BY <1>7 DEF Traced, Labelled
<1> QED BY <1>1, <1>2, <1>4, <1>5, <1>6, <1>7, <1>8 DEF OnList

\* What comes first from a block on is its label.
LEMMA FirstIsTheLabel ==
  ASSUME Inv, InOrder, phase = "done", NEW D, CompletingNow(D), NEW c \in ToSet(order)
  PROVE  /\ FirstPoints(c) = IF D[c] = 0 THEN {} ELSE {D[c]}
         /\ D[c] \in Nat /\ Settle(D[c]) = D[c]
<1> DEFINE S == Empties(c)
           v == D[c]
           T == {x \in ToSet(order) : D[x] = v}
<1>0. /\ Good(g, Blocks) /\ g \in Graphs /\ ToSet(order) \subseteq Blocks /\ c \in Blocks
      /\ points \in Nat /\ points < EXIT /\ EXIT \in Nat /\ EXIT # 0
      /\ \A b \in ToSet(order) : Finished(g, b) /\ Succ(g, b) \subseteq ToSet(order)
      /\ Labelled(g, D) /\ NoTrap(g, D) /\ Written(g, points) /\ D \in [Blocks -> Nat]
  BY Completed
<1>1. /\ c \in S /\ S \subseteq Blocks /\ \A x \in S : Through(x) \subseteq S
      /\ \A U \in SUBSET Blocks : c \in U /\ (\A x \in U : Through(x) \subseteq U) => S \subseteq U
  BY <1>0, EmptiesAreClosed
<1>2. ASSUME NEW x \in Blocks
      PROVE  /\ PointsOf(x) = <<>> <=> BodyOf(g, x) = <<>>
             /\ BodyOf(g, x) # <<>> => /\ PointsOf(x)[1] = BodyOf(g, x)[1].value
                                       /\ BodyOf(g, x)[1].value \in 1 .. points
  <2> DEFINE s == BodyOf(g, x)
  <2>1. /\ s \in Seq(Insts) /\ Len(s) \in Nat
        /\ PointsOf(x) = <<>> <=> s = <<>>
        /\ \A i \in 1 .. Len(s) : PointsOf(x)[i] = s[i].value
    BY <1>0, PointsOfBody
  <2>2. \A i \in 1 .. Len(s) : s[i].value \in 1 .. points
    BY <1>0 DEF Written
  <2> HIDE DEF s
  <2>3. s # <<>> => 1 \in 1 .. Len(s)
    BY <2>1, EmptySeq
  <2>4. /\ PointsOf(x) = <<>> <=> s = <<>>
        /\ s # <<>> => PointsOf(x)[1] = s[1].value /\ s[1].value \in 1 .. points
    BY <2>1, <2>2, <2>3
  <2> QED BY <2>4 DEF s
<1> HIDE DEF S, v
<1>3. ASSUME NEW x \in T, PointsOf(x) = <<>>, NEW y \in Succ(g, x)
      PROVE  y \in T
  <2>1. x \in ToSet(order) /\ x \in Blocks /\ D[x] = v /\ y \in ToSet(order)
    BY <1>0, <1>3
  <2>2. g.branchElse[x] = NULL /\ Goes(g, D, x, "any", D[x])
    BY <1>0, <1>2, <1>3, <2>1 DEF Labelled
  <2>3. y = g.branch[x] /\ y \in Blocks
    BY <1>0, <1>3, <2>1, <2>2, CfgAssumption DEF Succ
  <2>4. D[y] = D[x]
    BY <2>2, <2>3, CfgAssumption DEF Goes
  <2> QED BY <2>1, <2>4
<1>4. S \subseteq T
  <2>1. T \in SUBSET Blocks /\ c \in T
    BY <1>0 DEF v
  <2>2. \A x \in T : Through(x) \subseteq T
    <3> HIDE DEF T
    <3> QED BY <1>3 DEF Through
  <2> HIDE DEF T
  <2> QED BY <1>1, <2>1, <2>2
<1>5. ASSUME NEW x \in S, PointsOf(x) # <<>> PROVE PointsOf(x)[1] = v /\ v \in 1 .. points
  <2>1. x \in Blocks /\ D[x] = v
    BY <1>0, <1>4
  <2>2. BodyOf(g, x) # <<>> /\ PointsOf(x)[1] = BodyOf(g, x)[1].value
        /\ BodyOf(g, x)[1].value \in 1 .. points
    BY <1>2, <1>5, <2>1
  <2>3. D[x] = BodyOf(g, x)[1].value
    BY <1>0, <2>1, <2>2 DEF Labelled
  <2> QED BY <2>1, <2>2, <2>3
<1>6. ASSUME NEW x \in S, PointsOf(x) = <<>>, IsTerminal(g, x) PROVE v = EXIT
  <2>1. x \in Blocks /\ D[x] = v /\ BodyOf(g, x) = <<>> /\ g.branch[x] = TERMINAL
    BY <1>0, <1>2, <1>4, <1>6 DEF IsTerminal
  <2>2. Goes(g, D, x, "any", D[x])
    BY <1>0, <2>1 DEF Labelled
  <2> QED BY <2>1, <2>2, CfgAssumption DEF Goes
<1>7. v # 0 => \E x \in S : PointsOf(x) # <<>> \/ IsTerminal(g, x)
  <2> SUFFICES ASSUME v # 0 PROVE \E x \in S : PointsOf(x) # <<>> \/ IsTerminal(g, x)
    OBVIOUS
  <2>1. \A x \in S : BodyOf(g, x) = <<>> /\ g.branch[x] \in Blocks => g.branch[x] \in S
    <3> SUFFICES ASSUME NEW x \in S, BodyOf(g, x) = <<>>, g.branch[x] \in Blocks
                 PROVE  g.branch[x] \in S
      OBVIOUS
    <3>1. x \in Blocks /\ PointsOf(x) = <<>> /\ g.branchElse[x] = NULL
      BY <1>0, <1>1, <1>2 DEF Labelled
    <3>2. g.branch[x] \in Through(x)
      BY <3>1 DEF Through, Succ
    <3> QED BY <1>1, <3>2
  <2>2. D[c] # 0 /\ S \in SUBSET Blocks
    BY <1>1 DEF v
  <2>3. PICK x \in S : BodyOf(g, x) # <<>> \/ g.branch[x] \notin Blocks
    BY <1>0, <1>1, <2>1, <2>2, Arrives
  <2>4. x \in Blocks /\ x \in ToSet(order)
    BY <1>0, <1>4
  <2>5. g.branch[x] # NULL /\ g.branch[x] \in Blocks \cup {NULL, TERMINAL}
    BY <1>0, <2>4, FieldTypes DEF Finished
  <2> QED BY <1>2, <2>3, <2>4, <2>5 DEF IsTerminal
<1>8. v \in Nat /\ v <= EXIT
  <2>1. v \in Nat
    BY <1>0 DEF v
  <2> QED BY <1>0, <1>5, <1>6, <1>7, <2>1
<1> DEFINE F == {PointsOf(x)[1] : x \in {y \in S : PointsOf(y) # <<>>}}
           E == {EXIT : x \in {y \in S : PointsOf(y) = <<>> /\ IsTerminal(g, y)}}
<1>9. FirstPoints(c) = F \cup E
  BY FirstsOfEmpties DEF S
<1>10. \A q \in F \cup E : q = v /\ v # 0
  BY <1>0, <1>5, <1>6
<1>11. v # 0 => v \in F \cup E
  BY <1>5, <1>6, <1>7
<1> HIDE DEF F, E
<1>12. FirstPoints(c) = IF v = 0 THEN {} ELSE {v}
  BY <1>9, <1>10, <1>11
<1> QED BY <1>0, <1>8, <1>12 DEF v, Settle

\* The flow of one block: along its points, and out of its last one.
Towards(b, o, c) == {<<Last(PointsOf(b)), o, q>> : q \in FirstPoints(c)}
FlowOut(b)     == IF PointsOf(b) = <<>> THEN {}
                  ELSE IF IsTerminal(g, b) THEN {<<Last(PointsOf(b)), "any", EXIT>>}
                  ELSE IF IsBranched(g, b)
                  THEN Towards(b, "true", g.branch[b]) \cup Towards(b, "false", g.branchElse[b])
                  ELSE Towards(b, "any", g.branch[b])
FlowAlong(b)   == {<<PointsOf(b)[i], "any", PointsOf(b)[i + 1]>> : i \in 1 .. Len(PointsOf(b)) - 1}
FlowIn(e)      == {<<START, "any", q>> : q \in FirstPoints(e)}

\* The flow of the code, block by block.
LEMMA FlowByBlocks ==
  CodeFlow = FlowIn(order[1]) \cup UNION {FlowAlong(b) \cup FlowOut(b) : b \in ToSet(order)}
BY Zenon DEF CodeFlow, FlowIn, FlowAlong, FlowOut, Towards

Exits(D, b, o, x) == \E l \in Nat \ {0} : Goes(g, D, b, o, l) /\ x = Settle(l)

\* The flow out of the last point of a block leads where control goes.
LEMMA ExitsAreKnown ==
  ASSUME Inv, InOrder, phase = "done", NEW D, CompletingNow(D), NEW b \in ToSet(order), NEW o, NEW x
  PROVE  Exits(D, b, o, x) <=>
           \/ IsTerminal(g, b) /\ o = "any" /\ x = EXIT
           \/ /\ ~ IsTerminal(g, b) /\ IsBranched(g, b)
              /\ \/ o = "true"  /\ x \in FirstPoints(g.branch[b])
                 \/ o = "false" /\ x \in FirstPoints(g.branchElse[b])
           \/ ~ IsTerminal(g, b) /\ ~ IsBranched(g, b) /\ o = "any" /\ x \in FirstPoints(g.branch[b])
<1>0. /\ g \in Graphs /\ WellShaped(g) /\ b \in Blocks /\ Finished(g, b)
      /\ Succ(g, b) \subseteq ToSet(order) /\ EXIT \in Nat /\ EXIT # 0
  BY Completed
<1>1. /\ g.branch[b] \in Blocks \cup {TERMINAL} /\ g.branchElse[b] \in Blocks \cup {NULL}
      /\ TERMINAL \notin Blocks /\ NULL \notin Blocks /\ NULL # TERMINAL
      /\ g.branchElse[b] # NULL => g.branch[b] \in Blocks /\ g.control[b] \notin {IMMTRUE, IMMFALSE}
  BY <1>0, FieldTypes, CfgAssumption DEF Finished, WellShaped
<1>2. Settle(EXIT) = EXIT
  BY <1>0 DEF Settle
<1>3. ASSUME NEW c \in Succ(g, b)
      PROVE  /\ D[c] \in Nat /\ Settle(D[c]) = D[c]
             /\ x \in FirstPoints(c) <=> D[c] # 0 /\ x = D[c]
  <2>1. c \in ToSet(order)
    BY <1>0
  <2>2. /\ FirstPoints(c) = IF D[c] = 0 THEN {} ELSE {D[c]}
        /\ D[c] \in Nat /\ Settle(D[c]) = D[c]
    BY <2>1, FirstIsTheLabel
  <2> QED BY <2>2
<1>4. CASE IsTerminal(g, b)
  <2>1. \A l : Goes(g, D, b, o, l) <=> o = "any" /\ l = EXIT
    BY <1>1, <1>4 DEF Goes, IsTerminal
  <2> QED BY <1>0, <1>2, <1>4, <2>1 DEF Exits
<1>5. CASE ~ IsTerminal(g, b) /\ IsBranched(g, b)
  <2>1. /\ g.branch[b] \in Blocks /\ g.branchElse[b] \in Blocks
        /\ g.branchElse[b] # NULL /\ g.control[b] \notin {IMMTRUE, IMMFALSE}
    BY <1>1, <1>5 DEF IsBranched
  <2>2. \A l : Goes(g, D, b, o, l) <=> \/ o = "true" /\ l = D[g.branch[b]]
                                       \/ o = "false" /\ l = D[g.branchElse[b]]
    BY <1>1, <2>1 DEF Goes
  <2>3. g.branch[b] \in Succ(g, b) /\ g.branchElse[b] \in Succ(g, b)
    BY <2>1 DEF Succ
  <2>4. /\ x \in FirstPoints(g.branch[b]) <=> D[g.branch[b]] # 0 /\ x = D[g.branch[b]]
        /\ x \in FirstPoints(g.branchElse[b]) <=> D[g.branchElse[b]] # 0 /\ x = D[g.branchElse[b]]
        /\ D[g.branch[b]] \in Nat /\ Settle(D[g.branch[b]]) = D[g.branch[b]]
        /\ D[g.branchElse[b]] \in Nat /\ Settle(D[g.branchElse[b]]) = D[g.branchElse[b]]
    BY <1>3, <2>3
  <2> QED BY <1>5, <2>2, <2>4 DEF Exits
<1>6. CASE ~ IsTerminal(g, b) /\ ~ IsBranched(g, b)
  <2>1. g.branch[b] \in Blocks /\ g.branchElse[b] = NULL
    BY <1>1, <1>6 DEF IsBranched, IsTerminal
  <2>2. \A l : Goes(g, D, b, o, l) <=> o = "any" /\ l = D[g.branch[b]]
    BY <1>1, <2>1 DEF Goes
  <2>3. g.branch[b] \in Succ(g, b)
    BY <2>1 DEF Succ
  <2>4. /\ x \in FirstPoints(g.branch[b]) <=> D[g.branch[b]] # 0 /\ x = D[g.branch[b]]
        /\ D[g.branch[b]] \in Nat /\ Settle(D[g.branch[b]]) = D[g.branch[b]]
    BY <1>3, <2>3
  <2> QED BY <1>6, <2>2, <2>4 DEF Exits
<1> QED BY <1>4, <1>5, <1>6

Along(b, p, o, x) == \E i \in 1 .. Len(BodyOf(g, b)) - 1 :
                       p = BodyOf(g, b)[i].value /\ o = "any" /\ x = BodyOf(g, b)[i + 1].value
OutOf(D, b, p, o, x) == BodyOf(g, b) # <<>> /\ p = LastOf(BodyOf(g, b)).value /\ Exits(D, b, o, x)

\* What a block contributes along its points, as edges of the code between labels.
LEMMA AlongIsFlow ==
  ASSUME Good(g, Blocks), NEW b \in Blocks, NEW p, NEW o, NEW x
  PROVE  <<p, o, x>> \in FlowAlong(b) <=> Along(b, p, o, x)
<1> DEFINE s == BodyOf(g, b)
<1>1. /\ Len(s) \in Nat /\ Len(PointsOf(b)) = Len(s)
      /\ \A i \in 1 .. Len(s) : PointsOf(b)[i] = s[i].value
  BY PointsOfBody
<1>2. Along(b, p, o, x) <=> \E i \in 1 .. Len(s) - 1 : p = s[i].value /\ o = "any" /\ x = s[i + 1].value
  BY DEF Along
<1> HIDE DEF s
<1>3. \A i \in 1 .. Len(s) - 1 : PointsOf(b)[i] = s[i].value /\ PointsOf(b)[i + 1] = s[i + 1].value
  BY <1>1
<1>4. <<p, o, x>> \in FlowAlong(b) <=>
        \E i \in 1 .. Len(s) - 1 : <<p, o, x>> = <<PointsOf(b)[i], "any", PointsOf(b)[i + 1]>>
  BY <1>1 DEF FlowAlong
<1> QED BY <1>2, <1>3, <1>4

\* ... and out of its last point.
LEMMA OutIsFlow ==
  ASSUME Inv, InOrder, phase = "done", NEW D, CompletingNow(D), NEW b \in ToSet(order),
         NEW p, NEW o, NEW x
  PROVE  <<p, o, x>> \in FlowOut(b) <=> OutOf(D, b, p, o, x)
<1> DEFINE s == BodyOf(g, b)
           la == Last(PointsOf(b))
<1>0. Good(g, Blocks) /\ b \in Blocks
  BY Completed
<1>1. /\ PointsOf(b) = <<>> <=> s = <<>>
      /\ s # <<>> => la = LastOf(s).value
  BY <1>0, PointsOfBody
<1>2. OutOf(D, b, p, o, x) <=> s # <<>> /\ p = LastOf(s).value /\ Exits(D, b, o, x)
  BY DEF OutOf
<1>3. ASSUME NEW w, NEW c
      PROVE  <<p, o, x>> \in Towards(b, w, c) <=> p = la /\ o = w /\ x \in FirstPoints(c)
  BY DEF Towards
<1> HIDE DEF s
<1>4. <<p, o, x>> \in FlowOut(b) <=>
        /\ PointsOf(b) # <<>>
        /\ \/ IsTerminal(g, b) /\ <<p, o, x>> = <<la, "any", EXIT>>
           \/ /\ ~ IsTerminal(g, b) /\ IsBranched(g, b)
              /\ \/ <<p, o, x>> \in Towards(b, "true", g.branch[b])
                 \/ <<p, o, x>> \in Towards(b, "false", g.branchElse[b])
           \/ ~ IsTerminal(g, b) /\ ~ IsBranched(g, b) /\ <<p, o, x>> \in Towards(b, "any", g.branch[b])
  BY DEF FlowOut
<1> HIDE DEF la
<1>5. <<p, o, x>> \in FlowOut(b) <=>
        /\ PointsOf(b) # <<>> /\ p = la
        /\ \/ IsTerminal(g, b) /\ o = "any" /\ x = EXIT
           \/ /\ ~ IsTerminal(g, b) /\ IsBranched(g, b)
              /\ \/ o = "true"  /\ x \in FirstPoints(g.branch[b])
                 \/ o = "false" /\ x \in FirstPoints(g.branchElse[b])
           \/ ~ IsTerminal(g, b) /\ ~ IsBranched(g, b) /\ o = "any" /\ x \in FirstPoints(g.branch[b])
  BY <1>3, <1>4
<1>6. <<p, o, x>> \in FlowOut(b) <=> PointsOf(b) # <<>> /\ p = la /\ Exits(D, b, o, x)
  BY <1>5, ExitsAreKnown
<1> QED BY <1>1, <1>2, <1>6

\* Where the edges of the code lead, block by block.
LEMMA MeetsByBlocks ==
  ASSUME Inv, InOrder, phase = "done", NEW D, CompletingNow(D), NEW p, NEW o, NEW x
  PROVE  Meets(g, D, order[1], p, o, x) <=>
           \/ p = START /\ o = "any" /\ x \in FirstPoints(order[1])
           \/ \E b \in Blocks : Along(b, p, o, x) \/ OutOf(D, b, p, o, x)
<1> DEFINE e == order[1]
<1>0. /\ e \in ToSet(order) /\ points \in Nat /\ points < EXIT /\ EXIT \in Nat
      /\ Written(g, points) /\ \A b \in Blocks : BodyOf(g, b) \in Seq(Insts)
  BY Completed
<1>1. x \in FirstPoints(e) <=> \E l \in Nat \ {0} : l = D[e] /\ x = Settle(l)
  <2>1. /\ FirstPoints(e) = IF D[e] = 0 THEN {} ELSE {D[e]}
        /\ D[e] \in Nat /\ Settle(D[e]) = D[e]
    BY <1>0, FirstIsTheLabel
  <2> HIDE DEF e
  <2> QED BY <2>1
<1>2. ASSUME NEW b \in Blocks
      PROVE  Along(b, p, o, x) <=>
               \E l \in Nat \ {0} :
                 /\ \E i \in 1 .. Len(BodyOf(g, b)) - 1 :
                      p = BodyOf(g, b)[i].value /\ o = "any" /\ l = BodyOf(g, b)[i + 1].value
                 /\ x = Settle(l)
  <2> DEFINE s == BodyOf(g, b)
  <2>1. Len(s) \in Nat /\ \A i \in 1 .. Len(s) : s[i].value \in 1 .. points
    BY <1>0 DEF Written
  <2>2. Along(b, p, o, x) <=> \E i \in 1 .. Len(s) - 1 : p = s[i].value /\ o = "any" /\ x = s[i + 1].value
    BY DEF Along
  <2> HIDE DEF s
  <2>3. \A i \in 1 .. Len(s) - 1 : i + 1 \in 1 .. Len(s)
    BY <2>1
  <2>4. \A i \in 1 .. Len(s) - 1 : s[i + 1].value \in Nat \ {0} /\ Settle(s[i + 1].value) = s[i + 1].value
    <3> SUFFICES ASSUME NEW i \in 1 .. Len(s) - 1
                 PROVE  s[i + 1].value \in Nat \ {0} /\ Settle(s[i + 1].value) = s[i + 1].value
      OBVIOUS
    <3>1. s[i + 1].value \in 1 .. points
      BY <2>1, <2>3
    <3> QED BY <1>0, <3>1 DEF Settle
  <2>5. Along(b, p, o, x) <=>
               \E l \in Nat \ {0} :
                 /\ \E i \in 1 .. Len(s) - 1 : p = s[i].value /\ o = "any" /\ l = s[i + 1].value
                 /\ x = Settle(l)
    BY <2>2, <2>4
  <2> QED BY <2>5 DEF s
<1>3. ASSUME NEW b \in Blocks
      PROVE  OutOf(D, b, p, o, x) <=>
               \E l \in Nat \ {0} :
                 /\ BodyOf(g, b) # <<>> /\ p = LastOf(BodyOf(g, b)).value /\ Goes(g, D, b, o, l)
                 /\ x = Settle(l)
  BY DEF OutOf, Exits
<1> DEFINE A(b, l) == \E i \in 1 .. Len(BodyOf(g, b)) - 1 :
                        p = BodyOf(g, b)[i].value /\ o = "any" /\ l = BodyOf(g, b)[i + 1].value
           G(b, l) == /\ BodyOf(g, b) # <<>>
                      /\ p = LastOf(BodyOf(g, b)).value /\ Goes(g, D, b, o, l)
<1>4. \A l : Edge(g, D, e, p, o, l) <=> \/ p = START /\ o = "any" /\ l = D[e]
                                        \/ \E b \in Blocks : A(b, l)
                                        \/ \E b \in Blocks : G(b, l)
  BY DEF Edge
<1>5. \A b \in Blocks : Along(b, p, o, x) <=> \E l \in Nat \ {0} : A(b, l) /\ x = Settle(l)
  BY <1>2
<1>6. \A b \in Blocks : OutOf(D, b, p, o, x) <=> \E l \in Nat \ {0} : G(b, l) /\ x = Settle(l)
  BY <1>3
<1>7. Meets(g, D, e, p, o, x) <=> \E l \in Nat \ {0} : Edge(g, D, e, p, o, l) /\ x = Settle(l)
  BY DEF Meets
<1> HIDE DEF A, G, e
<1>8. Meets(g, D, e, p, o, x) <=>
        \/ p = START /\ o = "any" /\ x \in FirstPoints(e)
        \/ \E b \in Blocks : Along(b, p, o, x) \/ OutOf(D, b, p, o, x)
  BY <1>1, <1>4, <1>5, <1>6, <1>7
<1> QED BY <1>8 DEF e

\* The flow of the code from the points that can be reached: the blocks off the list hold
\* none of them.
LEMMA CodeFlowMeets ==
  ASSUME Inv, InOrder, phase = "done", NEW D, CompletingNow(D), NEW p \in Live, NEW o, NEW x
  PROVE  <<p, o, x>> \in CodeFlow <=> Meets(g, D, order[1], p, o, x)
<1>0. /\ Good(g, Blocks) /\ g \in Graphs /\ WellShaped(g) /\ ToSet(order) \subseteq Blocks
      /\ order[1] \in ToSet(order) /\ \A b \in Blocks : BodyOf(g, b) \in Seq(Insts)
      /\ \A b \in ToSet(order) : Succ(g, b) \subseteq ToSet(order)
  BY Completed
<1>1. p \in LiveIn(flow)
  BY DEF Live, LiveIn, After
<1>2. \A b \in Blocks : Holding(g, b, p) => b \in ToSet(order)
  <2>1. Housed(LiveIn(flow), g, order[1])
    BY DEF CompletingNow, Completing
  <2>2. Closed(ToSet(order), g)
    BY <1>0, LeadsAreEdges DEF Closed
  <2>3. Homes(LiveIn(flow), g, ToSet(order))
    BY <1>0, <2>1, <2>2 DEF Housed
  <2> QED BY <1>1, <2>3 DEF Homes
<1>3. ASSUME NEW b \in Blocks, Along(b, p, o, x) \/ OutOf(D, b, p, o, x)
      PROVE  b \in ToSet(order)
  <2> DEFINE s == BodyOf(g, b)
  <2>1. s \in Seq(Insts) /\ Len(s) \in Nat
    BY <1>0
  <2>2. Holding(g, b, p) <=> \E i \in 1 .. Len(s) : s[i].value = p
    BY DEF Holding
  <2>3. \/ \E i \in 1 .. Len(s) - 1 : p = s[i].value
        \/ s # <<>> /\ p = s[Len(s)].value
    BY <1>3 DEF Along, OutOf, LastOf
  <2> HIDE DEF s
  <2>4. s # <<>> => Len(s) \in 1 .. Len(s)
    BY <2>1, EmptySeq
  <2>5. \E i \in 1 .. Len(s) : s[i].value = p
    BY <2>1, <2>3, <2>4
  <2> QED BY <1>2, <2>2, <2>5
<1>4. <<p, o, x>> \in CodeFlow <=>
        \/ <<p, o, x>> \in FlowIn(order[1])
        \/ \E b \in ToSet(order) : <<p, o, x>> \in FlowAlong(b) \/ <<p, o, x>> \in FlowOut(b)
  BY FlowByBlocks
<1>5. <<p, o, x>> \in FlowIn(order[1]) <=> p = START /\ o = "any" /\ x \in FirstPoints(order[1])
  BY DEF FlowIn
<1>6. \A b \in ToSet(order) : /\ <<p, o, x>> \in FlowAlong(b) <=> Along(b, p, o, x)
                              /\ <<p, o, x>> \in FlowOut(b) <=> OutOf(D, b, p, o, x)
  BY <1>0, AlongIsFlow, OutIsFlow
<1> QED BY <1>0, <1>3, <1>4, <1>5, <1>6, MeetsByBlocks

\* The flow of the code is a set of triples.
LEMMA CodeFlowTriples ==
  \A y \in CodeFlow : y = <<y[1], y[2], y[3]>>
<1>1. \A y \in FlowIn(order[1]) : y = <<y[1], y[2], y[3]>>
  BY DEF FlowIn
<1>2. \A b : \A y \in FlowAlong(b) : y = <<y[1], y[2], y[3]>>
  BY DEF FlowAlong
<1>3. \A b, o, c : \A y \in Towards(b, o, c) : y = <<y[1], y[2], y[3]>>
  BY DEF Towards
<1>4. \A b : \A y \in FlowOut(b) : y = <<y[1], y[2], y[3]>>
  BY <1>3 DEF FlowOut
<1> QED BY <1>1, <1>2, <1>4, FlowByBlocks

\* What Meant says of the finished code.
LEMMA MeantIsPreserved ==
  ASSUME Inv, InOrder, Meant
  PROVE  MeaningPreserved
<1> SUFFICES ASSUME phase = "done"
             PROVE  {y \in CodeFlow : y[1] \in Live} = {y \in flow : y[1] \in Live}
  BY DEF MeaningPreserved
<1>1. PICK D : CompletingNow(D)
  BY DEF Meant
<1>2. \A y \in flow : y = <<y[1], y[2], y[3]>>
  BY DEF Inv, Source, Flows
<1>3. ASSUME NEW p \in Live, NEW o, NEW x
      PROVE  <<p, o, x>> \in CodeFlow <=> <<p, o, x>> \in flow
  <2>1. <<p, o, x>> \in CodeFlow <=> Meets(g, D, order[1], p, o, x)
    BY <1>1, CodeFlowMeets
  <2>2. p \in LiveIn(flow)
    BY DEF Live, LiveIn, After
  <2>3. Matches(LiveIn(flow), g, D, order[1], flow)
    BY <1>1 DEF CompletingNow, Completing
  <2>4. <<p, o, x>> \in flow <=> Meets(g, D, order[1], p, o, x)
    BY <2>2, <2>3, Zenon DEF Matches
  <2> QED BY <2>1, <2>4
<1>4. ASSUME NEW y, y[1] \in Live, y = <<y[1], y[2], y[3]>>
      PROVE  y \in CodeFlow <=> y \in flow
  <2>1. <<y[1], y[2], y[3]>> \in CodeFlow <=> <<y[1], y[2], y[3]>> \in flow
    BY <1>3, <1>4
  <2> QED BY <1>4, <2>1, Zenon
<1>5. ASSUME NEW y
      PROVE  y \in CodeFlow /\ y[1] \in Live <=> y \in flow /\ y[1] \in Live
  BY <1>2, <1>4, CodeFlowTriples
<1> QED BY <1>5

\* For any bounds: from every point of the source that can be reached, the code of the
\* finished function continues at exactly the points where the statements continue, with
\* the outcomes of conditions the right way round, through whatever blocks without
\* instructions lie between, and across the folding and removing of the last pass.
THEOREM MeaningIsPreserved == Spec => []MeaningPreserved
<1>1. Init => Inv /\ InOrder /\ Meant
  BY InitInv, InitOrder, InitMeant
<1>2. Inv /\ InOrder /\ Meant /\ [Next]_vars => (Inv /\ InOrder /\ Meant)'
  BY NextInv, NextOrder, NextMeant
<1>3. Inv /\ InOrder /\ Meant => MeaningPreserved
  BY MeantIsPreserved
<1> QED BY <1>1, <1>2, <1>3, PTL DEF Spec
=============================================================================
