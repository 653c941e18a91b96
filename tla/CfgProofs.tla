----------------------------- MODULE CfgProofs -----------------------------
(***************************************************************************)
(* The control flow graph, for any set of blocks and values.               *)
(*                                                                         *)
(* First, lemmas about the operations of CfgNode on any graph whose edges  *)
(* are in order; the proofs about Simplify and Translator, which have a    *)
(* graph of their own, use them as well.  Every member function first      *)
(* takes a block out of the graph (reset) and then gives it new edges.     *)
(* Clean describes the first in one step, and is what reset computes       *)
(* whenever the edges are consistent: unlinkFrom then finds both edges, in *)
(* either order.  The Link lemmas are the second.                          *)
(*                                                                         *)
(* Then the theorems about Cfg.  Its invariant is that the graph is Good,  *)
(* and every action is one of those operations, or composed of them.       *)
(***************************************************************************)
EXTENDS Cfg, SequenceTheorems, TLAPS

\* The edges of a graph are in order.  Nothing is said of the code.
Edges(gr) == gr \in Graphs /\ InBlocksAreExact(gr) /\ WellShaped(gr) /\ gr.ok

\* inBlocks_ of every block without b, and the graph without the edges of b.
Without(gr, b) == [c \in Blocks |-> gr.in[c] \ {b}]
Clean(gr, b) == [gr EXCEPT !.in = Without(gr, b),
                           !.control[b] = NULL, !.branch[b] = NULL,
                           !.branchElse[b] = NULL]

\* Edges are followed by unlinkFrom in both directions: both assertions hold
\* and b is gone from every edge set.
LEMMA UnlinkBothIs ==
  ASSUME NEW gr, Edges(gr), NEW b \in Blocks
  PROVE  UnlinkBoth(gr, b) = [gr EXCEPT !.in = Without(gr, b)]
<1> DEFINE to == gr.branch[b]
           els == gr.branchElse[b]
           one == UnlinkFrom(gr, els, b)
<1>1. /\ \A c \in Blocks : b \in gr.in[c] <=> c \in {to, els}
      /\ els # NULL => to \in Blocks /\ to # els
      /\ to \in Blocks \cup {NULL, TERMINAL} /\ els \in Blocks \cup {NULL}
      /\ gr.ok = TRUE
      /\ gr.in \in [Blocks -> SUBSET Blocks]
  BY DEF Edges, Graphs, InBlocksAreExact, WellShaped, Succ
<1>2. gr = [code |-> gr.code, control |-> gr.control, branch |-> gr.branch,
            branchElse |-> gr.branchElse, in |-> gr.in, void |-> gr.void, ok |-> gr.ok]
  BY DEF Edges, Graphs
<1>3. one = [gr EXCEPT !.in = [c \in Blocks |-> IF c = els THEN gr.in[c] \ {b}
                                                ELSE gr.in[c]]]
  <2>1. CASE els = NULL
    <3>1. [c \in Blocks |-> IF c = els THEN gr.in[c] \ {b} ELSE gr.in[c]] = gr.in
      BY <2>1, <1>1, CfgAssumption
    <3> QED BY <3>1, <2>1, <1>2 DEF UnlinkFrom
  <2>2. CASE els # NULL
    <3>1. els \in Blocks /\ els \notin {TERMINAL, NULL} /\ b \in gr.in[els]
      BY <2>2, <1>1, CfgAssumption
    <3>2. [gr.in EXCEPT ![els] = @ \ {b}]
            = [c \in Blocks |-> IF c = els THEN gr.in[c] \ {b} ELSE gr.in[c]]
      BY <1>1
    <3>3. one = [gr EXCEPT !.in[els] = @ \ {b}, !.ok = @ /\ b \in gr.in[els]]
      BY <3>1 DEF UnlinkFrom
    <3>4. (gr.ok /\ b \in gr.in[els]) = gr.ok
      BY <3>1, <1>1
    <3> QED BY <3>2, <3>3, <3>4, <1>2
  <2> QED BY <2>1, <2>2
<1>4. /\ one.in = [c \in Blocks |-> IF c = els THEN gr.in[c] \ {b} ELSE gr.in[c]]
      /\ one.ok = TRUE
      /\ one.branch = gr.branch
  BY <1>3, <1>2, <1>1
<1>5. UnlinkFrom(one, to, b) = [one EXCEPT !.in = [c \in Blocks |-> gr.in[c] \ {b}]]
  <2>1. CASE to \in {TERMINAL, NULL}
    <3>1. one.in = [c \in Blocks |-> gr.in[c] \ {b}]
      <4>1. \A c \in Blocks : c # els => b \notin gr.in[c]
        BY <2>1, <1>1, CfgAssumption
      <4> QED BY <4>1, <1>4, <1>1
    <3>2. UnlinkFrom(one, to, b) = one
      BY <2>1 DEF UnlinkFrom
    <3> QED BY <3>1, <3>2, <1>3, <1>2
  <2>2. CASE to \notin {TERMINAL, NULL}
    <3>1. to \in Blocks /\ b \in one.in[to] /\ to # els
      BY <2>2, <1>1, <1>4
    <3>2. [one.in EXCEPT ![to] = @ \ {b}] = [c \in Blocks |-> gr.in[c] \ {b}]
      <4>1. \A c \in Blocks : c # to /\ c # els => b \notin gr.in[c]
        BY <1>1
      <4>2. \A c \in Blocks : (IF c = to THEN one.in[c] \ {b} ELSE one.in[c]) = gr.in[c] \ {b}
        <5> TAKE c \in Blocks
        <5>1. one.in[c] = IF c = els THEN gr.in[c] \ {b} ELSE gr.in[c]
          BY <1>4
        <5>2. CASE c = to
          BY <5>1, <5>2, <3>1
        <5>3. CASE c # to /\ c = els
          BY <5>1, <5>3
        <5>4. CASE c # to /\ c # els
          <6>1. b \notin gr.in[c]
            BY <4>1, <5>4
          <6> QED BY <6>1, <5>1, <5>4
        <5> QED BY <5>2, <5>3, <5>4
      <4>3. [one.in EXCEPT ![to] = @ \ {b}]
              = [c \in Blocks |-> IF c = to THEN one.in[c] \ {b} ELSE one.in[c]]
        BY <3>1, <1>4
      <4> QED BY <4>2, <4>3
    <3>3. UnlinkFrom(one, to, b) = [one EXCEPT !.in[to] = @ \ {b}, !.ok = @ /\ b \in one.in[to]]
      BY <2>2 DEF UnlinkFrom
    <3>4. (one.ok /\ b \in one.in[to]) = one.ok
      BY <3>1, <1>4
    <3> QED BY <3>2, <3>3, <3>4, <1>3, <1>2
  <2> QED BY <2>1, <2>2
<1> QED BY <1>3, <1>5, <1>2 DEF UnlinkBoth, Without

\* A graph is determined by its fields.
Has(h, code, control, branch, branchElse, in, void, ok) ==
  /\ h \in Graphs
  /\ h.code = code /\ h.control = control /\ h.branch = branch
  /\ h.branchElse = branchElse /\ h.in = in /\ h.void = void /\ h.ok = ok

\* Two graphs with the same fields are the same graph.
LEMMA Extensional ==
  ASSUME NEW h, NEW k, NEW code, NEW control, NEW branch, NEW branchElse, NEW in,
         NEW void, NEW ok,
         Has(h, code, control, branch, branchElse, in, void, ok),
         Has(k, code, control, branch, branchElse, in, void, ok)
  PROVE  h = k
BY DEF Has, Graphs

\* The types of the fields of a graph.
LEMMA FieldTypes ==
  ASSUME NEW gr \in Graphs
  PROVE  /\ gr.code \in [Blocks -> Seq(Insts)]
         /\ gr.control \in [Blocks -> Values \cup {NULL}]
         /\ gr.branch \in [Blocks -> Blocks \cup {NULL, TERMINAL}]
         /\ gr.branchElse \in [Blocks -> Blocks \cup {NULL}]
         /\ gr.in \in [Blocks -> SUBSET Blocks]
         /\ gr.void \in BOOLEAN /\ gr.ok \in BOOLEAN
         /\ Has(gr, gr.code, gr.control, gr.branch, gr.branchElse, gr.in, gr.void, gr.ok)
BY DEF Graphs, Has

\* What the fields are after an assignment to one of them or to several.
LEMMA CodeFields ==
  ASSUME NEW h, NEW code, NEW control, NEW branch, NEW branchElse, NEW in, NEW void, NEW ok,
         Has(h, code, control, branch, branchElse, in, void, ok),
         NEW f \in [Blocks -> Seq(Insts)]
  PROVE  Has([h EXCEPT !.code = f], f, control, branch, branchElse, in, void, ok)
BY DEF Graphs, Has

\* Writing inBlocks_ leaves the other fields of a graph alone.
LEMMA InFields ==
  ASSUME NEW h, NEW code, NEW control, NEW branch, NEW branchElse, NEW in, NEW void, NEW ok,
         Has(h, code, control, branch, branchElse, in, void, ok),
         NEW f \in [Blocks -> SUBSET Blocks]
  PROVE  Has([h EXCEPT !.in = f], code, control, branch, branchElse, f, void, ok)
BY DEF Graphs, Has

\* SetFlow writes control_, branch_ and branchElse_ of one block and nothing else.
LEMMA FlowFields ==
  ASSUME NEW h, NEW code, NEW control, NEW branch, NEW branchElse, NEW in, NEW void, NEW ok,
         Has(h, code, control, branch, branchElse, in, void, ok),
         NEW b \in Blocks, NEW v \in Values \cup {NULL},
         NEW to \in Blocks \cup {NULL, TERMINAL}, NEW else \in Blocks \cup {NULL}
  PROVE  Has(SetFlow(h, b, v, to, else), code, [control EXCEPT ![b] = v],
             [branch EXCEPT ![b] = to], [branchElse EXCEPT ![b] = else], in, void, ok)
<1> DEFINE g1 == [h EXCEPT !.control[b] = v]
           g2 == [g1 EXCEPT !.branch[b] = to]
           g3 == [g2 EXCEPT !.branchElse[b] = else]
<1>1. Has(g1, code, [control EXCEPT ![b] = v], branch, branchElse, in, void, ok)
  BY DEF Graphs, Has
<1> HIDE DEF g1
<1>2. Has(g2, code, [control EXCEPT ![b] = v], [branch EXCEPT ![b] = to], branchElse,
          in, void, ok)
  BY <1>1 DEF Graphs, Has
<1> HIDE DEF g2
<1>3. Has(g3, code, [control EXCEPT ![b] = v], [branch EXCEPT ![b] = to],
          [branchElse EXCEPT ![b] = else], in, void, ok)
  BY <1>2 DEF Graphs, Has
<1> QED BY <1>3 DEF SetFlow, g1, g2

\* What a clean graph consists of: the edges of b are gone on both sides.
LEMMA CleanFields ==
  ASSUME NEW gr \in Graphs, NEW b \in Blocks
  PROVE  /\ Without(gr, b) \in [Blocks -> SUBSET Blocks]
         /\ Has(Clean(gr, b), gr.code, [gr.control EXCEPT ![b] = NULL],
                [gr.branch EXCEPT ![b] = NULL], [gr.branchElse EXCEPT ![b] = NULL],
                Without(gr, b), gr.void, gr.ok)
<1>1. Without(gr, b) \in [Blocks -> SUBSET Blocks]
  BY DEF Graphs, Without
<1>2. Has([gr EXCEPT !.in = Without(gr, b)],
          gr.code, gr.control, gr.branch, gr.branchElse, Without(gr, b), gr.void, gr.ok)
  BY <1>1, InFields, FieldTypes
<1>3. Clean(gr, b) = SetFlow([gr EXCEPT !.in = Without(gr, b)], b, NULL, NULL, NULL)
  BY DEF Clean, SetFlow
<1> QED BY <1>1, <1>2, <1>3, FlowFields

\* Without the edges of b the rest is still in order.
LEMMA CleanEdges ==
  ASSUME NEW gr, Edges(gr), NEW b \in Blocks
  PROVE  Edges(Clean(gr, b))
<1> DEFINE c == Clean(gr, b)
<1>1. c \in Graphs /\ c.ok
  BY CleanFields DEF Edges, Has
<1>2. /\ c.in = [x \in Blocks |-> gr.in[x] \ {b}]
      /\ c.branch = [gr.branch EXCEPT ![b] = NULL]
      /\ c.branchElse = [gr.branchElse EXCEPT ![b] = NULL]
      /\ c.control = [gr.control EXCEPT ![b] = NULL]
  BY CleanFields DEF Edges, Has, Without
<1> HIDE DEF c
<1>3. InBlocksAreExact(c)
  BY <1>2, CfgAssumption DEF Edges, Graphs, InBlocksAreExact, Succ
<1>4. WellShaped(c)
  BY <1>2, CfgAssumption DEF Edges, Graphs, WellShaped
<1> QED BY <1>1, <1>3, <1>4 DEF Edges, c

\* The code of a graph does not matter to its edges.
LEMMA CodeIsFree ==
  ASSUME NEW gr, Edges(gr), NEW f \in [Blocks -> Seq(Insts)]
  PROVE  Edges([gr EXCEPT !.code = f])
BY DEF Edges, Graphs, InBlocksAreExact, WellShaped, Succ

\* The code reset() leaves in b.
Stripped(gr, b) ==
  [gr.code EXCEPT ![b] = IF ~ IsIncomplete(gr, b) /\ KindMatches(gr, b)
                         THEN ButLast(@) ELSE @]

\* Taking the terminator off a block leaves a sequence of instructions.
LEMMA StrippedType ==
  ASSUME NEW gr \in Graphs, NEW b \in Blocks
  PROVE  /\ Stripped(gr, b) \in [Blocks -> Seq(Insts)]
         /\ gr.code[b] # <<>> => ButLast(gr.code[b]) \in Seq(Insts)
<1>1. gr.code \in [Blocks -> Seq(Insts)] /\ gr.code[b] \in Seq(Insts)
  BY DEF Graphs
<1>2. ASSUME gr.code[b] # <<>> PROVE ButLast(gr.code[b]) \in Seq(Insts)
  <2>1. Len(gr.code[b]) \in Nat /\ \A i \in 1 .. Len(gr.code[b]) - 1 : gr.code[b][i] \in Insts
    BY <1>1, LenProperties, ElementOfSeq
  <2> QED BY <2>1, SubSeqProperties DEF ButLast
<1> QED BY <1>1, <1>2 DEF Stripped, KindMatches

\* reset() removes the edges of b and, if the block really ends in its
\* terminator, the terminator.
LEMMA ResetIs ==
  ASSUME NEW gr, Edges(gr), NEW b \in Blocks
  PROVE  Has(Reset(gr, b), Stripped(gr, b), [gr.control EXCEPT ![b] = NULL],
             [gr.branch EXCEPT ![b] = NULL], [gr.branchElse EXCEPT ![b] = NULL],
             Without(gr, b), gr.void, gr.ok)
<1> DEFINE Flow(r) == SetFlow(r, b, NULL, NULL, NULL)
           un == UnlinkBoth(gr, b)
           Cleaned(h, code) ==
             Has(h, code, [gr.control EXCEPT ![b] = NULL], [gr.branch EXCEPT ![b] = NULL],
                 [gr.branchElse EXCEPT ![b] = NULL], Without(gr, b), gr.void, gr.ok)
<1>1. gr \in Graphs /\ gr.code \in [Blocks -> Seq(Insts)]
  BY FieldTypes DEF Edges
<1>2. Has(un, gr.code, gr.control, gr.branch, gr.branchElse, Without(gr, b), gr.void, gr.ok)
  <2>1. un = [gr EXCEPT !.in = Without(gr, b)]
    BY UnlinkBothIs
  <2>2. Without(gr, b) \in [Blocks -> SUBSET Blocks]
    BY <1>1, CleanFields
  <2>3. Has(gr, gr.code, gr.control, gr.branch, gr.branchElse, gr.in, gr.void, gr.ok)
    BY <1>1, FieldTypes
  <2> HIDE DEF un
  <2> QED BY <2>1, <2>2, <2>3, InFields
<1>5. Cleaned(Flow(un), gr.code)
  BY <1>2, FlowFields
<1>6. CASE IsIncomplete(gr, b)
  <2>1. Reset(gr, b) = Flow(gr)
    BY <1>6 DEF Reset, CheckAndSolveOutdated
  <2>2. Without(gr, b) = gr.in
    <3>1. \A c \in Blocks : b \notin gr.in[c]
      BY <1>6, CfgAssumption DEF Edges, InBlocksAreExact, WellShaped, Succ, IsIncomplete
    <3>2. \A c \in Blocks : gr.in[c] \ {b} = gr.in[c]
      BY <3>1
    <3>3. gr.in = [c \in Blocks |-> gr.in[c]]
      BY <1>1, FieldTypes
    <3> QED BY <3>2, <3>3 DEF Without
  <2>3. Stripped(gr, b) = gr.code
    BY <1>6, <1>1 DEF Stripped
  <2>4. Has(gr, gr.code, gr.control, gr.branch, gr.branchElse, Without(gr, b), gr.void, gr.ok)
    BY <1>1, <2>2, FieldTypes
  <2>5. Cleaned(Flow(gr), gr.code)
    BY <2>4, FlowFields
  <2> QED BY <2>1, <2>3, <2>5
<1>7. CASE ~ IsIncomplete(gr, b) /\ KindMatches(gr, b)
  <2> DEFINE code == [gr.code EXCEPT ![b] = ButLast(@)]
  <2>1. code = Stripped(gr, b) /\ code \in [Blocks -> Seq(Insts)]
    BY <1>7, <1>1, StrippedType DEF Stripped
  <2>2. [un EXCEPT !.code[b] = ButLast(@)] = [un EXCEPT !.code = code]
    BY <1>2 DEF Has
  <2>3. Reset(gr, b) = Flow([un EXCEPT !.code = code])
    BY <1>7, <2>2 DEF Reset, CheckAndSolveOutdated
  <2> HIDE DEF code
  <2>4. Has([un EXCEPT !.code = code], code, gr.control, gr.branch, gr.branchElse,
            Without(gr, b), gr.void, gr.ok)
    BY <1>2, <2>1, CodeFields
  <2>5. Cleaned(Flow([un EXCEPT !.code = code]), code)
    BY <2>4, FlowFields
  <2> QED BY <2>1, <2>3, <2>5
<1>8. CASE ~ IsIncomplete(gr, b) /\ ~ KindMatches(gr, b)
  <2> DEFINE c == Flow(un)
  <2>1. CheckAndSolveOutdated(gr, b) = c
    BY <1>8 DEF CheckAndSolveOutdated
  <2> HIDE DEF c
  <2>2. Cleaned(c, gr.code)
    BY <1>5 DEF c
  <2>3. IsIncomplete(c, b)
    BY <2>2, <1>1, FieldTypes DEF IsIncomplete, Has
  <2>4. Reset(gr, b) = Flow(c)
    BY <2>1, <2>3 DEF Reset
  <2>5. Has(Flow(c), gr.code, [[gr.control EXCEPT ![b] = NULL] EXCEPT ![b] = NULL],
            [[gr.branch EXCEPT ![b] = NULL] EXCEPT ![b] = NULL],
            [[gr.branchElse EXCEPT ![b] = NULL] EXCEPT ![b] = NULL],
            Without(gr, b), gr.void, gr.ok)
    BY <2>2, FlowFields
  <2>6. /\ [[gr.control EXCEPT ![b] = NULL] EXCEPT ![b] = NULL]
             = [gr.control EXCEPT ![b] = NULL]
        /\ [[gr.branch EXCEPT ![b] = NULL] EXCEPT ![b] = NULL]
             = [gr.branch EXCEPT ![b] = NULL]
        /\ [[gr.branchElse EXCEPT ![b] = NULL] EXCEPT ![b] = NULL]
             = [gr.branchElse EXCEPT ![b] = NULL]
    BY <1>1, FieldTypes
  <2>7. Stripped(gr, b) = gr.code
    BY <1>8, <1>1 DEF Stripped
  <2> QED BY <2>4, <2>5, <2>6, <2>7
<1> QED BY <1>6, <1>7, <1>8

\* CFGNode::reset keeps both directions of every edge in step.
LEMMA ResetEdges ==
  ASSUME NEW gr, Edges(gr), NEW b \in Blocks
  PROVE  Edges(Reset(gr, b))
<1> DEFINE c == Clean(gr, b)
           h == [c EXCEPT !.code = Stripped(gr, b)]
<1>1. gr \in Graphs /\ Edges(c) /\ Stripped(gr, b) \in [Blocks -> Seq(Insts)]
  BY CleanEdges, StrippedType DEF Edges
<1>2. Has(c, gr.code, [gr.control EXCEPT ![b] = NULL], [gr.branch EXCEPT ![b] = NULL],
          [gr.branchElse EXCEPT ![b] = NULL], Without(gr, b), gr.void, gr.ok)
  BY <1>1, CleanFields
<1>3. Edges(h)
  BY <1>1, CodeIsFree
<1>4. Has(h, Stripped(gr, b), [gr.control EXCEPT ![b] = NULL],
          [gr.branch EXCEPT ![b] = NULL], [gr.branchElse EXCEPT ![b] = NULL],
          Without(gr, b), gr.void, gr.ok)
  BY <1>1, <1>2, CodeFields
<1>5. h = Reset(gr, b)
  BY <1>4, ResetIs, Extensional
<1> QED BY <1>3, <1>5

(***************************************************************************)
(* Giving edges to a block that has none.                                  *)
(***************************************************************************)
\* inBlocks_ of every block when b gets edges to the blocks in targets.
Linked(in, b, targets) ==
  [c \in Blocks |-> IF c \in targets THEN in[c] \cup {b} ELSE in[c]]

\* The values of control_, branch_ and branchElse_ that a node can have.
FlowOK(v, to, else) ==
  \/ v = NULL /\ else = NULL /\ to \in Blocks \cup {NULL, TERMINAL}
  \/ v \in Values /\ to \in Blocks /\ else \in Blocks /\ to # else

\* Giving a block without edges a flow, with the back links it asks for, does too.
LEMMA LinkEdges ==
  ASSUME NEW gr, Edges(gr), NEW b \in Blocks, gr.branch[b] = NULL,
         NEW v, NEW to, NEW else, FlowOK(v, to, else), NEW code, NEW h,
         Has(h, code, [gr.control EXCEPT ![b] = v], [gr.branch EXCEPT ![b] = to],
             [gr.branchElse EXCEPT ![b] = else], Linked(gr.in, b, {to, else}), gr.void, gr.ok)
  PROVE  Edges(h)
<1>1. /\ gr.control \in [Blocks -> Values \cup {NULL}]
      /\ gr.branch \in [Blocks -> Blocks \cup {NULL, TERMINAL}]
      /\ gr.branchElse \in [Blocks -> Blocks \cup {NULL}]
      /\ gr.in \in [Blocks -> SUBSET Blocks]
  BY FieldTypes DEF Edges
<1>2. /\ h.control = [gr.control EXCEPT ![b] = v] /\ h.branch = [gr.branch EXCEPT ![b] = to]
      /\ h.branchElse = [gr.branchElse EXCEPT ![b] = else]
      /\ \A c \in Blocks : h.in[c] = IF c \in {to, else} THEN gr.in[c] \cup {b} ELSE gr.in[c]
      /\ h \in Graphs /\ h.ok
  BY DEF Has, Linked, Edges
<1>3. InBlocksAreExact(h)
  <2> SUFFICES ASSUME NEW x \in Blocks, NEW c \in Blocks
               PROVE  x \in h.in[c] <=> c \in {h.branch[x], h.branchElse[x]}
    BY DEF InBlocksAreExact, Succ
  <2>1. x \in gr.in[c] <=> c \in {gr.branch[x], gr.branchElse[x]}
    BY DEF Edges, InBlocksAreExact, Succ
  <2>2. CASE x = b
    <3>1. gr.branchElse[b] = NULL
      BY CfgAssumption DEF Edges, WellShaped
    <3>2. b \notin gr.in[c]
      BY <2>1, <2>2, <3>1, CfgAssumption
    <3>3. h.branch[b] = to /\ h.branchElse[b] = else
      BY <1>1, <1>2
    <3> QED BY <1>2, <2>2, <3>2, <3>3
  <2>3. CASE x # b
    <3>1. h.branch[x] = gr.branch[x] /\ h.branchElse[x] = gr.branchElse[x]
      BY <1>1, <1>2, <2>3
    <3>2. x \in h.in[c] <=> x \in gr.in[c]
      <4>1. CASE c \in {to, else}
        <5>1. h.in[c] = gr.in[c] \cup {b}
          BY <4>1, <1>2
        <5> QED BY <5>1, <2>3
      <4>2. CASE c \notin {to, else}
        BY <4>2, <1>2
      <4> QED BY <4>1, <4>2
    <3> QED BY <2>1, <3>1, <3>2
  <2> QED BY <2>2, <2>3
<1>4. WellShaped(h)
  BY <1>1, <1>2, CfgAssumption DEF Edges, WellShaped, FlowOK
<1> QED BY <1>2, <1>3, <1>4 DEF Edges

\* addIncoming writes inBlocks_ of one block and nothing else.
LEMMA AddFields ==
  ASSUME NEW h, NEW code, NEW control, NEW branch, NEW branchElse, NEW in, NEW void, NEW ok,
         Has(h, code, control, branch, branchElse, in, void, ok),
         NEW b \in Blocks, NEW to \in Blocks
  PROVE  Has(AddIncoming(h, to, b), code, control, branch, branchElse,
             [in EXCEPT ![to] = @ \cup {b}], void, ok)
<1>1. to # TERMINAL
  BY CfgAssumption
<1> QED BY <1>1 DEF AddIncoming, Has, Graphs

\* Every instruction the graph operations create is an instruction.
LEMMA InstTypes ==
  /\ Ret \in Insts
  /\ \A to \in Blocks : Br(to) \in Insts
  /\ \A v \in Values, to, else \in Blocks : CondBr(v, to, else) \in Insts
  /\ \A v \in Values : Op(v) \in Insts
BY DEF Insts, Ret, Br, CondBr, Op

\* Inserting an instruction writes the code of one block and nothing else.
LEMMA InsertFields ==
  ASSUME NEW h, NEW code, NEW control, NEW branch, NEW branchElse, NEW in, NEW void, NEW ok,
         Has(h, code, control, branch, branchElse, in, void, ok),
         NEW b \in Blocks, NEW inst \in Insts
  PROVE  /\ [code EXCEPT ![b] = Append(@, inst)] \in [Blocks -> Seq(Insts)]
         /\ Has(InsertInst(h, b, inst), [code EXCEPT ![b] = Append(@, inst)],
                control, branch, branchElse, in, void, ok)
<1>1. code \in [Blocks -> Seq(Insts)] /\ h.code = code
  BY DEF Has, Graphs
<1>2. Append(code[b], inst) \in Seq(Insts)
  BY <1>1
<1>3. [code EXCEPT ![b] = Append(@, inst)] \in [Blocks -> Seq(Insts)]
  BY <1>1, <1>2
<1>4. InsertInst(h, b, inst) = [h EXCEPT !.code = [code EXCEPT ![b] = Append(@, inst)]]
  BY <1>1 DEF InsertInst
<1> DEFINE f == [code EXCEPT ![b] = Append(@, inst)]
<1> HIDE DEF f
<1>5. f \in [Blocks -> Seq(Insts)] /\ InsertInst(h, b, inst) = [h EXCEPT !.code = f]
  BY <1>3, <1>4 DEF f
<1>6. Has([h EXCEPT !.code = f], f, control, branch, branchElse, in, void, ok)
  BY <1>5, CodeFields
<1> QED BY <1>5, <1>6 DEF f

\* The graph in which b has been given new edges and a terminator t.
Relinked(h, gr, b, v, to, else, t) ==
  Has(h, [Stripped(gr, b) EXCEPT ![b] = Append(@, t)],
      [gr.control EXCEPT ![b] = v], [gr.branch EXCEPT ![b] = to],
      [gr.branchElse EXCEPT ![b] = else], Linked(Without(gr, b), b, {to, else}),
      gr.void, gr.ok)

\* reset(branch) replaces the whole flow of b by a jump.
LEMMA ResetToIs ==
  ASSUME NEW gr, Edges(gr), NEW b \in Blocks, NEW to \in Blocks
  PROVE  Relinked(ResetTo(gr, b, to), gr, b, NULL, to, NULL, Br(to))
<1> DEFINE code == [Stripped(gr, b) EXCEPT ![b] = Append(@, Br(to))]
           control == [gr.control EXCEPT ![b] = NULL]
           branch == [gr.branch EXCEPT ![b] = NULL]
           branchElse == [gr.branchElse EXCEPT ![b] = NULL]
           h1 == InsertInst(Reset(gr, b), b, Br(to))
           h2 == [h1 EXCEPT !.branch[b] = to]
<1>1. Has(h1, code, control, branch, branchElse, Without(gr, b), gr.void, gr.ok)
  BY ResetIs, InsertFields, InstTypes
<1>2. /\ [branch EXCEPT ![b] = to] = [gr.branch EXCEPT ![b] = to]
      /\ [gr.branch EXCEPT ![b] = to] \in [Blocks -> Blocks \cup {NULL, TERMINAL}]
  BY FieldTypes DEF Edges
<1> HIDE DEF h1, code, control, branchElse
<1>3. h1.branch = branch
  BY <1>1 DEF Has
<1>4. Has(h2, code, control, [branch EXCEPT ![b] = to], branchElse, Without(gr, b),
          gr.void, gr.ok)
  BY <1>1, <1>2 DEF Has, Graphs
<1> HIDE DEF h2, branch
<1>5. Has(AddIncoming(h2, to, b), code, control, [branch EXCEPT ![b] = to], branchElse,
          [Without(gr, b) EXCEPT ![to] = @ \cup {b}], gr.void, gr.ok)
  BY <1>4, AddFields
<1>6. [Without(gr, b) EXCEPT ![to] = @ \cup {b}] = Linked(Without(gr, b), b, {to, NULL})
  BY CfgAssumption DEF Without, Linked
<1>7. ResetTo(gr, b, to) = AddIncoming(h2, to, b)
  BY CfgAssumption DEF ResetTo, h1, h2
<1> QED BY <1>2, <1>5, <1>6, <1>7 DEF Relinked, code, control, branchElse

\* reset(control, branch, branchElse) replaces it by a conditional branch.
LEMMA ResetBranchIs ==
  ASSUME NEW gr, Edges(gr), NEW b \in Blocks, NEW v \in Values,
         NEW to \in Blocks, NEW else \in Blocks, to # else
  PROVE  Relinked(ResetBranch(gr, b, v, to, else), gr, b, v, to, else, CondBr(v, to, else))
<1> DEFINE code == [Stripped(gr, b) EXCEPT ![b] = Append(@, CondBr(v, to, else))]
           control == [gr.control EXCEPT ![b] = v]
           branch == [gr.branch EXCEPT ![b] = to]
           branchElse == [gr.branchElse EXCEPT ![b] = else]
           h1 == InsertInst(Reset(gr, b), b, CondBr(v, to, else))
           h2 == SetFlow(h1, b, v, to, else)
           h3 == AddIncoming(h2, to, b)
<1>1. Has(h1, code, [gr.control EXCEPT ![b] = NULL], [gr.branch EXCEPT ![b] = NULL],
          [gr.branchElse EXCEPT ![b] = NULL], Without(gr, b), gr.void, gr.ok)
  BY ResetIs, InsertFields, InstTypes
<1>2. /\ [[gr.control EXCEPT ![b] = NULL] EXCEPT ![b] = v] = control
      /\ [[gr.branch EXCEPT ![b] = NULL] EXCEPT ![b] = to] = branch
      /\ [[gr.branchElse EXCEPT ![b] = NULL] EXCEPT ![b] = else] = branchElse
  BY FieldTypes DEF Edges
<1> HIDE DEF h1, code, control, branch, branchElse
<1>3. Has(h2, code, control, branch, branchElse, Without(gr, b), gr.void, gr.ok)
  <2>1. Has(h2, code, [[gr.control EXCEPT ![b] = NULL] EXCEPT ![b] = v],
            [[gr.branch EXCEPT ![b] = NULL] EXCEPT ![b] = to],
            [[gr.branchElse EXCEPT ![b] = NULL] EXCEPT ![b] = else],
            Without(gr, b), gr.void, gr.ok)
    BY <1>1, FlowFields
  <2> QED BY <2>1, <1>2
<1> HIDE DEF h2
<1>4. Has(h3, code, control, branch, branchElse,
          [Without(gr, b) EXCEPT ![to] = @ \cup {b}], gr.void, gr.ok)
  BY <1>3, AddFields
<1> HIDE DEF h3
<1>5. Has(AddIncoming(h3, else, b), code, control, branch, branchElse,
          [[Without(gr, b) EXCEPT ![to] = @ \cup {b}] EXCEPT ![else] = @ \cup {b}],
          gr.void, gr.ok)
  BY <1>4, AddFields
<1>6. [[Without(gr, b) EXCEPT ![to] = @ \cup {b}] EXCEPT ![else] = @ \cup {b}]
        = Linked(Without(gr, b), b, {to, else})
  BY DEF Without, Linked
<1>7. ResetBranch(gr, b, v, to, else) = AddIncoming(h3, else, b)
  BY DEF ResetBranch, h1, h2, h3
<1> QED BY <1>5, <1>6, <1>7 DEF Relinked, code, control, branch, branchElse

\* tryMarkAsTerminal replaces it by a return.
LEMMA MarkIs ==
  ASSUME NEW gr, Edges(gr), NEW b \in Blocks, NEW hint, MarkReturns(gr, b, hint)
  PROVE  Relinked(TryMarkAsTerminal(gr, b, hint), gr, b, NULL, TERMINAL, NULL, Ret)
<1> DEFINE code == [Stripped(gr, b) EXCEPT ![b] = Append(@, Ret)]
           control == [gr.control EXCEPT ![b] = NULL]
           branch == [gr.branch EXCEPT ![b] = NULL]
           branchElse == [gr.branchElse EXCEPT ![b] = NULL]
           h1 == InsertInst(Reset(gr, b), b, Ret)
           h2 == [h1 EXCEPT !.branch[b] = TERMINAL]
<1>1. Has(h1, code, control, branch, branchElse, Without(gr, b), gr.void, gr.ok)
  BY ResetIs, InsertFields, InstTypes
<1>2. /\ [branch EXCEPT ![b] = TERMINAL] = [gr.branch EXCEPT ![b] = TERMINAL]
      /\ [gr.branch EXCEPT ![b] = TERMINAL] \in [Blocks -> Blocks \cup {NULL, TERMINAL}]
  BY FieldTypes DEF Edges
<1> HIDE DEF h1, code, control, branchElse
<1>3. h1.branch = branch
  BY <1>1 DEF Has
<1>4. Has(h2, code, control, [branch EXCEPT ![b] = TERMINAL], branchElse, Without(gr, b),
          gr.void, gr.ok)
  BY <1>1, <1>2 DEF Has, Graphs
<1> HIDE DEF h2, branch
<1>6. Without(gr, b) = Linked(Without(gr, b), b, {TERMINAL, NULL})
  BY CfgAssumption DEF Without, Linked
<1>7. TryMarkAsTerminal(gr, b, hint) = h2
  BY DEF TryMarkAsTerminal, h1, h2
<1> QED BY <1>2, <1>4, <1>6, <1>7 DEF Relinked, code, control, branchElse
(***************************************************************************)
(* The code of a block and its node.                                       *)
(***************************************************************************)
Plain(s)     == \A i \in 1 .. Len(s) : s[i].id = "Op"
EndsIn(s, t) == /\ s # <<>> /\ LastOf(s) = t
                /\ \A i \in 1 .. Len(s) - 1 : s[i].id = "Op"

\* The terminator of a node.
TermOf(v, to, else) == IF to = TERMINAL THEN Ret
                       ELSE IF else # NULL THEN CondBr(v, to, else) ELSE Br(to)

\* AgreesAt, in terms of the terminator the fields of the node ask for.
LEMMA AgreesForm ==
  ASSUME NEW gr \in Graphs, NEW b \in Blocks
  PROVE  AgreesAt(gr, b) <=>
           IF gr.branch[b] = NULL THEN Plain(gr.code[b])
           ELSE EndsIn(gr.code[b], TermOf(gr.control[b], gr.branch[b], gr.branchElse[b]))
<1>1. gr.code[b] \in Seq(Insts) /\ Len(gr.code[b]) \in Nat
  BY FieldTypes
<1>2. CASE gr.branch[b] = NULL
  <2>1. CASE gr.code[b] = <<>>
    BY <1>2, <2>1 DEF AgreesAt, Plain, IsIncomplete
  <2>2. CASE gr.code[b] # <<>>
    <3>1. Len(gr.code[b]) > 0
      BY <1>1, <2>2, EmptySeq
    <3> QED BY <1>1, <1>2, <2>2, <3>1 DEF AgreesAt, Plain, IsIncomplete, LastOf
  <2> QED BY <2>1, <2>2
<1>3. CASE gr.branch[b] # NULL
  BY <1>3 DEF AgreesAt, EndsIn, TermOf, IsIncomplete, IsTerminal, IsBranched
<1> QED BY <1>2, <1>3

\* Code without a terminator ends in the one appended to it.
LEMMA PlainAppend ==
  ASSUME NEW s \in Seq(Insts), Plain(s), NEW t \in Insts
  PROVE  EndsIn(Append(s, t), t)
<1>1. /\ Len(Append(s, t)) = Len(s) + 1 /\ Len(s) \in Nat
      /\ Append(s, t)[Len(s) + 1] = t
      /\ \A i \in 1 .. Len(s) : Append(s, t)[i] = s[i]
  OBVIOUS
<1>2. Append(s, t) # <<>>
  BY <1>1, EmptySeq
<1> QED BY <1>1, <1>2 DEF EndsIn, Plain, LastOf

\* Code that ends in its only terminator has none once that is taken off.
LEMMA ButLastPlain ==
  ASSUME NEW s \in Seq(Insts), NEW t, EndsIn(s, t)
  PROVE  Plain(ButLast(s))
<1>1. Len(s) \in Nat \ {0} /\ \A i \in 1 .. Len(s) - 1 : s[i] \in Insts
  BY EmptySeq, ElementOfSeq DEF EndsIn
<1> DEFINE n == Len(s) - 1
           u == SubSeq(s, 1, n)
<1>2. 1 \in Int /\ n \in Nat /\ \A i \in 1 .. n : s[i] \in Insts
  BY <1>1
<1> HIDE DEF n
<1>3. /\ Len(u) = IF 1 <= n THEN n - 1 + 1 ELSE 0
      /\ \A i \in 1 .. n - 1 + 1 : u[i] = s[1 + i - 1]
  BY <1>2, SubSeqProperties
<1>4. u = ButLast(s)
  BY DEF ButLast, n
<1> HIDE DEF u
<1>5. Len(u) = n /\ \A i \in 1 .. n : u[i] = s[i]
  BY <1>2, <1>3
<1>6. \A i \in 1 .. n : s[i].id = "Op"
  BY DEF EndsIn, n
<1> QED BY <1>4, <1>5, <1>6 DEF Plain

\* When code and node agree, reset() strips exactly the terminator.
LEMMA StrippedPlain ==
  ASSUME NEW gr, Edges(gr), NEW b \in Blocks, AgreesAt(gr, b)
  PROVE  Plain(Stripped(gr, b)[b])
<1>1. gr \in Graphs /\ gr.code \in [Blocks -> Seq(Insts)] /\ gr.code[b] \in Seq(Insts)
  BY FieldTypes DEF Edges
<1>2. CASE gr.branch[b] = NULL
  BY <1>1, <1>2, AgreesForm DEF Stripped, IsIncomplete
<1>3. CASE gr.branch[b] # NULL
  <2>1. EndsIn(gr.code[b], TermOf(gr.control[b], gr.branch[b], gr.branchElse[b]))
    BY <1>1, <1>3, AgreesForm
  <2>2. gr.control[b] # NULL <=> gr.branchElse[b] # NULL
    BY DEF Edges, WellShaped
  <2>3. gr.branch[b] = TERMINAL => gr.branchElse[b] = NULL
    BY CfgAssumption DEF Edges, WellShaped
  <2>4. KindMatches(gr, b)
    BY <1>3, <2>1, <2>2, <2>3
       DEF KindMatches, EndsIn, TermOf, Ret, Br, CondBr, IsLinear, IsBranched, IsTerminal
  <2>5. Stripped(gr, b)[b] = ButLast(gr.code[b])
    BY <1>1, <1>3, <2>4 DEF Stripped, IsIncomplete
  <2> QED BY <1>1, <2>1, <2>5, ButLastPlain
<1> QED BY <1>2, <1>3

(***************************************************************************)
(* The invariant, for a graph and the blocks in the list.                  *)
(***************************************************************************)
Good(gr, L) == /\ Edges(gr) /\ CodeAgrees(gr)
               /\ L \subseteq Blocks
               /\ \A c \in Blocks \ L : gr.branch[c] = NULL /\ gr.in[c] = {}

\* What AgreesAt says depends on one block only.
LEMMA AgreesLocal ==
  ASSUME NEW gr \in Graphs, NEW h \in Graphs, NEW b \in Blocks,
         AgreesAt(gr, b), gr.code[b] = h.code[b], gr.control[b] = h.control[b],
         gr.branch[b] = h.branch[b], gr.branchElse[b] = h.branchElse[b]
  PROVE  AgreesAt(h, b)
BY AgreesForm

\* The targets of a listed block are listed.
LEMMA TargetsListed ==
  ASSUME NEW gr, NEW L, Good(gr, L), NEW b \in Blocks, NEW c \in Blocks, c \in Succ(gr, b)
  PROVE  c \in L /\ b \in L
<1>1. b \in gr.in[c]
  BY DEF Good, Edges, InBlocksAreExact
<1>2. gr.branch[b] # NULL
  BY CfgAssumption DEF Good, Edges, WellShaped, Succ
<1> QED BY <1>1, <1>2 DEF Good

\* The same invariant while b is being edited: its code need not agree with its
\* node, but reset() leaves no terminator in it.
GoodBut(gr, L, b) == /\ Edges(gr)
                     /\ \A c \in Blocks \ {b} : AgreesAt(gr, c)
                     /\ Plain(Stripped(gr, b)[b])
                     /\ L \subseteq Blocks
                     /\ \A c \in Blocks \ L : gr.branch[c] = NULL /\ gr.in[c] = {}

\* A good graph stays good when the flow of one block is disregarded.
LEMMA GoodIsGoodBut ==
  ASSUME NEW gr, NEW L, Good(gr, L), NEW b \in Blocks
  PROVE  GoodBut(gr, L, b)
BY StrippedPlain DEF Good, GoodBut, CodeAgrees

\* A new flow for the disregarded block, to listed blocks, makes the graph good again.
LEMMA RelinkGood ==
  ASSUME NEW gr, NEW L, NEW b \in L, GoodBut(gr, L, b),
         NEW v, NEW to, NEW else, FlowOK(v, to, else), to # NULL,
         {to, else} \cap Blocks \subseteq L, TermOf(v, to, else) \in Insts,
         NEW h, Relinked(h, gr, b, v, to, else, TermOf(v, to, else))
  PROVE  Good(h, L)
<1> DEFINE t == TermOf(v, to, else)
           r == Reset(gr, b)
<1>1. b \in Blocks /\ gr \in Graphs /\ Edges(gr) /\ Plain(Stripped(gr, b)[b])
  BY DEF GoodBut, Edges
<1>2. /\ Edges(r)
      /\ Has(r, Stripped(gr, b), [gr.control EXCEPT ![b] = NULL],
             [gr.branch EXCEPT ![b] = NULL], [gr.branchElse EXCEPT ![b] = NULL],
             Without(gr, b), gr.void, gr.ok)
  BY <1>1, ResetEdges, ResetIs
<1> HIDE DEF r
<1>3. Edges(h)
  <2>1. r.branch[b] = NULL
    BY <1>1, <1>2, FieldTypes DEF Has
  <2>2. /\ [r.control EXCEPT ![b] = v] = [gr.control EXCEPT ![b] = v]
        /\ [r.branch EXCEPT ![b] = to] = [gr.branch EXCEPT ![b] = to]
        /\ [r.branchElse EXCEPT ![b] = else] = [gr.branchElse EXCEPT ![b] = else]
        /\ r.in = Without(gr, b) /\ r.void = gr.void /\ r.ok = gr.ok
    BY <1>1, <1>2, FieldTypes DEF Has
  <2>3. Has(h, [Stripped(gr, b) EXCEPT ![b] = Append(@, t)],
            [r.control EXCEPT ![b] = v], [r.branch EXCEPT ![b] = to],
            [r.branchElse EXCEPT ![b] = else], Linked(r.in, b, {to, else}), r.void, r.ok)
    BY <2>2 DEF Relinked
  <2> QED BY <1>1, <1>2, <2>1, <2>3, LinkEdges
<1>4. /\ h \in Graphs
      /\ h.code = [Stripped(gr, b) EXCEPT ![b] = Append(@, t)]
      /\ h.control = [gr.control EXCEPT ![b] = v]
      /\ h.branch = [gr.branch EXCEPT ![b] = to]
      /\ h.branchElse = [gr.branchElse EXCEPT ![b] = else]
      /\ h.in = Linked(Without(gr, b), b, {to, else})
  BY DEF Relinked, Has
<1>5. CodeAgrees(h)
  <2> SUFFICES ASSUME NEW c \in Blocks PROVE AgreesAt(h, c)
    BY DEF CodeAgrees
  <2>1. CASE c = b
    <3>1. Stripped(gr, b) \in [Blocks -> Seq(Insts)]
      BY <1>1, StrippedType
    <3>2. h.code[b] = Append(Stripped(gr, b)[b], t) /\ Stripped(gr, b)[b] \in Seq(Insts)
      BY <1>1, <1>4, <3>1
    <3>3. EndsIn(h.code[b], t)
      BY <1>1, <3>2, PlainAppend
    <3>4. h.branch[b] = to /\ h.control[b] = v /\ h.branchElse[b] = else
      BY <1>1, <1>4, FieldTypes
    <3> QED BY <1>1, <1>4, <2>1, <3>3, <3>4, AgreesForm
  <2>2. CASE c # b
    <3>1. /\ h.code[c] = gr.code[c] /\ h.control[c] = gr.control[c]
          /\ h.branch[c] = gr.branch[c] /\ h.branchElse[c] = gr.branchElse[c]
      BY <1>1, <1>4, <2>2, FieldTypes DEF Stripped
    <3> QED BY <1>1, <1>4, <2>2, <3>1, AgreesLocal DEF GoodBut
  <2> QED BY <2>1, <2>2
<1>6. ASSUME NEW c \in Blocks \ L PROVE h.branch[c] = NULL /\ h.in[c] = {}
  <2>1. c # b /\ c \notin {to, else} /\ gr.branch[c] = NULL /\ gr.in[c] = {}
    BY <1>6 DEF GoodBut
  <2>2. h.branch[c] = gr.branch[c]
    BY <1>1, <1>4, <1>6, <2>1, FieldTypes
  <2>3. h.in[c] = gr.in[c] \ {b}
    BY <1>4, <1>6, <2>1 DEF Linked, Without
  <2> QED BY <2>1, <2>2, <2>3
<1> QED BY <1>3, <1>5, <1>6 DEF Good, GoodBut

\* So does taking its flow away.
LEMMA ResetGood ==
  ASSUME NEW gr, NEW L, NEW b \in Blocks, GoodBut(gr, L, b)
  PROVE  Good(Reset(gr, b), L)
<1> DEFINE r == Reset(gr, b)
<1>1. gr \in Graphs /\ Edges(gr) /\ Plain(Stripped(gr, b)[b])
  BY DEF GoodBut, Edges
<1>2. /\ Edges(r)
      /\ Has(r, Stripped(gr, b), [gr.control EXCEPT ![b] = NULL],
             [gr.branch EXCEPT ![b] = NULL], [gr.branchElse EXCEPT ![b] = NULL],
             Without(gr, b), gr.void, gr.ok)
  BY <1>1, ResetEdges, ResetIs
<1> HIDE DEF r
<1>3. ASSUME NEW c \in Blocks PROVE AgreesAt(r, c)
  <2>1. CASE c = b
    BY <1>1, <1>2, <2>1, AgreesForm, FieldTypes DEF Has
  <2>2. CASE c # b
    <3>1. /\ r.code[c] = gr.code[c] /\ r.control[c] = gr.control[c]
          /\ r.branch[c] = gr.branch[c] /\ r.branchElse[c] = gr.branchElse[c]
          /\ r \in Graphs
      BY <1>1, <1>2, <1>3, <2>2, FieldTypes DEF Has, Stripped
    <3> QED BY <1>1, <1>3, <2>2, <3>1, AgreesLocal DEF GoodBut
  <2> QED BY <2>1, <2>2
<1>4. ASSUME NEW c \in Blocks \ L PROVE r.branch[c] = NULL /\ r.in[c] = {}
  <2>1. gr.branch[c] = NULL /\ gr.in[c] = {}
    BY <1>4 DEF GoodBut
  <2>2. r.branch[c] = NULL
    BY <1>1, <1>2, <1>4, <2>1, FieldTypes DEF Has
  <2>3. r.in[c] = gr.in[c] \ {b}
    BY <1>2, <1>4 DEF Has, Without
  <2> QED BY <2>1, <2>2, <2>3
<1> QED BY <1>2, <1>3, <1>4 DEF Good, GoodBut, CodeAgrees, r

\* A block nobody jumps to leaves the list clean.
LEMMA RemoveGood ==
  ASSUME NEW gr, NEW L, NEW b \in Blocks, GoodBut(gr, L, b), Removable(gr, b)
  PROVE  Good(RemoveBlock(gr, b), L \ {b})
<1>1. Good(Reset(gr, b), L)
  BY ResetGood
<1>2. Reset(gr, b).branch[b] = NULL /\ Reset(gr, b).in[b] = {}
  <2>1. Has(Reset(gr, b), Stripped(gr, b), [gr.control EXCEPT ![b] = NULL],
            [gr.branch EXCEPT ![b] = NULL], [gr.branchElse EXCEPT ![b] = NULL],
            Without(gr, b), gr.void, gr.ok)
    BY ResetIs DEF GoodBut
  <2>2. gr \in Graphs
    BY DEF GoodBut, Edges
  <2> QED BY <2>1, <2>2, FieldTypes DEF Has, Without, Removable
<1> QED BY <1>1, <1>2 DEF Good, RemoveBlock
(***************************************************************************)
(* Operations on a good graph.                                             *)
(***************************************************************************)
\* reset(branch) keeps a graph good.
LEMMA JumpGood ==
  ASSUME NEW gr, NEW L, Good(gr, L), NEW b \in L, NEW to \in L
  PROVE  Good(ResetTo(gr, b, to), L)
<1>1. Edges(gr) /\ b \in Blocks /\ to \in Blocks
  BY DEF Good
<1>2. TermOf(NULL, to, NULL) = Br(to) /\ FlowOK(NULL, to, NULL) /\ to # NULL
  BY <1>1, CfgAssumption DEF TermOf, FlowOK
<1>3. {to, NULL} \cap Blocks \subseteq L /\ Br(to) \in Insts
  BY <1>1, InstTypes, CfgAssumption
<1>4. Relinked(ResetTo(gr, b, to), gr, b, NULL, to, NULL, TermOf(NULL, to, NULL))
  BY <1>1, <1>2, ResetToIs
<1> QED BY <1>1, <1>2, <1>3, <1>4, RelinkGood, GoodIsGoodBut

\* reset(control, branch, branchElse) with different targets keeps a graph good.
LEMMA BranchGood ==
  ASSUME NEW gr, NEW L, Good(gr, L), NEW b \in L, NEW v \in Values,
         NEW to \in L, NEW else \in L, to # else
  PROVE  Good(ResetBranch(gr, b, v, to, else), L)
<1>1. Edges(gr) /\ b \in Blocks /\ to \in Blocks /\ else \in Blocks
  BY DEF Good
<1>2. TermOf(v, to, else) = CondBr(v, to, else) /\ FlowOK(v, to, else) /\ to # NULL
  BY <1>1, CfgAssumption DEF TermOf, FlowOK
<1>3. {to, else} \cap Blocks \subseteq L /\ CondBr(v, to, else) \in Insts
  BY <1>1, InstTypes
<1>4. Relinked(ResetBranch(gr, b, v, to, else), gr, b, v, to, else, TermOf(v, to, else))
  BY <1>1, <1>2, ResetBranchIs
<1> QED BY <1>1, <1>2, <1>3, <1>4, RelinkGood, GoodIsGoodBut

\* tryMarkAsTerminal keeps a graph good.
LEMMA MarkGood ==
  ASSUME NEW gr, NEW L, Good(gr, L), NEW b \in L, NEW hint, MarkReturns(gr, b, hint)
  PROVE  Good(TryMarkAsTerminal(gr, b, hint), L)
<1>1. Edges(gr) /\ b \in Blocks
  BY DEF Good
<1>2. TermOf(NULL, TERMINAL, NULL) = Ret /\ FlowOK(NULL, TERMINAL, NULL) /\ TERMINAL # NULL
  BY CfgAssumption DEF TermOf, FlowOK
<1>3. {TERMINAL, NULL} \cap Blocks \subseteq L /\ Ret \in Insts
  BY InstTypes, CfgAssumption
<1>4. Relinked(TryMarkAsTerminal(gr, b, hint), gr, b, NULL, TERMINAL, NULL,
               TermOf(NULL, TERMINAL, NULL))
  BY <1>1, <1>2, MarkIs
<1> QED BY <1>1, <1>2, <1>3, <1>4, RelinkGood, GoodIsGoodBut

\* Only the code of a block without edges changes, and stays free of terminators.
LEMMA RecodeGood ==
  ASSUME NEW gr, NEW L, Good(gr, L), NEW b \in Blocks, gr.branch[b] = NULL,
         NEW s \in Seq(Insts), Plain(s)
  PROVE  Good([gr EXCEPT !.code[b] = s], L)
<1> DEFINE code == [gr.code EXCEPT ![b] = s]
           h == [gr EXCEPT !.code = code]
<1>1. gr \in Graphs /\ Edges(gr) /\ code \in [Blocks -> Seq(Insts)]
  BY FieldTypes DEF Good, Edges
<1> HIDE DEF code
<1>2. Has(h, code, gr.control, gr.branch, gr.branchElse, gr.in, gr.void, gr.ok)
  BY <1>1, FieldTypes, CodeFields
<1>3. Edges(h)
  BY <1>1, CodeIsFree
<1> HIDE DEF h
<1>4. ASSUME NEW c \in Blocks PROVE AgreesAt(h, c)
  <2>1. CASE c = b
    <3>1. h.code[b] = s /\ h.branch[b] = NULL /\ h \in Graphs
      BY <1>1, <1>2, FieldTypes DEF Has, code
    <3> QED BY <2>1, <3>1, AgreesForm
  <2>2. CASE c # b
    <3>1. /\ h.code[c] = gr.code[c] /\ h.control[c] = gr.control[c]
          /\ h.branch[c] = gr.branch[c] /\ h.branchElse[c] = gr.branchElse[c]
          /\ h \in Graphs
      BY <1>1, <1>2, <1>4, <2>2, FieldTypes DEF Has, code
    <3> QED BY <1>1, <1>4, <3>1, AgreesLocal DEF Good, CodeAgrees
  <2> QED BY <2>1, <2>2
<1>5. Good(h, L)
  BY <1>2, <1>3, <1>4 DEF Good, CodeAgrees, Has
<1> QED BY <1>5 DEF h, code

\* Appending an ordinary instruction to an open block keeps a graph good.
LEMMA AppendGood ==
  ASSUME NEW gr, NEW L, Good(gr, L), NEW b \in Blocks, gr.branch[b] = NULL,
         NEW v \in Values
  PROVE  Good(InsertInst(gr, b, Op(v)), L)
<1>1. /\ gr \in Graphs /\ gr.code[b] \in Seq(Insts) /\ Op(v) \in Insts
      /\ Plain(gr.code[b])
  BY FieldTypes, InstTypes, AgreesForm DEF Good, Edges, CodeAgrees
<1>2. /\ Append(gr.code[b], Op(v)) \in Seq(Insts)
      /\ Len(gr.code[b]) \in Nat
      /\ Len(Append(gr.code[b], Op(v))) = Len(gr.code[b]) + 1
      /\ Append(gr.code[b], Op(v))[Len(gr.code[b]) + 1] = Op(v)
      /\ \A i \in 1 .. Len(gr.code[b]) : Append(gr.code[b], Op(v))[i] = gr.code[b][i]
  BY <1>1
<1>3. Op(v).id = "Op"
  BY DEF Op
<1>4. Plain(Append(gr.code[b], Op(v)))
  BY <1>1, <1>2, <1>3 DEF Plain
<1>5. Good([gr EXCEPT !.code[b] = Append(gr.code[b], Op(v))], L)
  BY <1>1, <1>2, <1>4, RecodeGood
<1> QED BY <1>5 DEF InsertInst
\* A node of a graph in order has one of the possible flows.
LEMMA NodeFlow ==
  ASSUME NEW gr, Edges(gr), NEW b \in Blocks
  PROVE  FlowOK(gr.control[b], gr.branch[b], gr.branchElse[b])
BY FieldTypes, CfgAssumption DEF Edges, WellShaped, FlowOK

\* The code of a block that has flow v, to, else.
Fits(s, v, to, else) == IF to = NULL THEN Plain(s) ELSE EndsIn(s, TermOf(v, to, else))

\* syncFlowWithInstUnsafe on a block without edges gives it the edges its
\* terminator names.
LEMMA SyncIs ==
  ASSUME NEW gr, Edges(gr), NEW b \in Blocks, gr.branch[b] = NULL,
         NEW v, NEW to, NEW else, FlowOK(v, to, else), Fits(gr.code[b], v, to, else)
  PROVE  Has(SyncFlowWithInst(gr, b), gr.code, [gr.control EXCEPT ![b] = v],
             [gr.branch EXCEPT ![b] = to], [gr.branchElse EXCEPT ![b] = else],
             Linked(gr.in, b, {to, else}), gr.void, gr.ok)
<1> DEFINE t == LastOf(gr.code[b])
           control == [gr.control EXCEPT ![b] = v]
           branch == [gr.branch EXCEPT ![b] = to]
           branchElse == [gr.branchElse EXCEPT ![b] = else]
           flow == SetFlow(gr, b, v, to, else)
<1>1. /\ gr \in Graphs /\ gr.branchElse[b] = NULL /\ gr.control[b] = NULL
      /\ gr.code[b] \in Seq(Insts)
      /\ UnlinkFrom(UnlinkFrom(gr, gr.branch[b], b), gr.branchElse[b], b) = gr
  BY FieldTypes, CfgAssumption DEF Edges, WellShaped, UnlinkFrom
<1>2. gr.in = [c \in Blocks |-> gr.in[c]]
  BY <1>1, FieldTypes
<1>3. CASE to = NULL
  <2>1. /\ v = NULL /\ else = NULL
        /\ control = gr.control /\ branch = gr.branch /\ branchElse = gr.branchElse
    BY <1>1, <1>3, CfgAssumption, FieldTypes DEF FlowOK
  <2>2. Linked(gr.in, b, {to, else}) = gr.in
    BY <1>2, <1>3, <2>1, CfgAssumption DEF Linked
  <2>3. gr.code[b] = <<>> \/ t.id = "Op"
    <3>1. CASE gr.code[b] # <<>>
      <4>1. Len(gr.code[b]) \in 1 .. Len(gr.code[b])
        BY <1>1, <3>1, EmptySeq
      <4> QED BY <4>1, <1>3 DEF Fits, Plain, LastOf
    <3> QED BY <3>1
  <2>4. SyncFlowWithInst(gr, b) = gr
    BY <2>3 DEF SyncFlowWithInst
  <2>5. Has(gr, gr.code, gr.control, gr.branch, gr.branchElse, gr.in, gr.void, gr.ok)
    BY <1>1, FieldTypes
  <2> QED BY <2>1, <2>2, <2>4, <2>5
<1>4. CASE to # NULL
  <2>1. gr.code[b] # <<>> /\ t = TermOf(v, to, else)
    BY <1>4 DEF Fits, EndsIn
  <2>2. Has(flow, gr.code, control, branch, branchElse, gr.in, gr.void, gr.ok)
    <3>1. /\ v \in Values \cup {NULL} /\ to \in Blocks \cup {NULL, TERMINAL}
          /\ else \in Blocks \cup {NULL}
      BY DEF FlowOK
    <3>2. Has(gr, gr.code, gr.control, gr.branch, gr.branchElse, gr.in, gr.void, gr.ok)
      BY <1>1, FieldTypes
    <3> QED BY <3>1, <3>2, FlowFields
  <2> HIDE DEF flow, control, branch, branchElse, t
  <2>3. CASE to = TERMINAL
    <3>1. v = NULL /\ else = NULL /\ t = Ret
      BY <2>1, <2>3, CfgAssumption DEF FlowOK, TermOf
    <3>2. SyncFlowWithInst(gr, b) = flow
      BY <1>1, <2>1, <2>3, <3>1 DEF SyncFlowWithInst, Ret, t, flow
    <3>3. Linked(gr.in, b, {to, else}) = gr.in
      BY <1>2, <2>3, <3>1, CfgAssumption DEF Linked
    <3> QED BY <2>2, <3>2, <3>3 DEF control, branch, branchElse
  <2>4. CASE to # TERMINAL /\ else = NULL
    <3>1. v = NULL /\ to \in Blocks /\ t = Br(to)
      BY <1>4, <2>1, <2>4, CfgAssumption DEF FlowOK, TermOf
    <3>2. SyncFlowWithInst(gr, b) = AddIncoming(flow, to, b)
      BY <1>1, <2>1, <2>4, <3>1 DEF SyncFlowWithInst, Br, t, flow
    <3>3. Has(AddIncoming(flow, to, b), gr.code, control, branch, branchElse,
              [gr.in EXCEPT ![to] = @ \cup {b}], gr.void, gr.ok)
      BY <2>2, <3>1, AddFields
    <3>4. [gr.in EXCEPT ![to] = @ \cup {b}] = Linked(gr.in, b, {to, else})
      BY <1>1, <2>4, <3>1, FieldTypes, CfgAssumption DEF Linked
    <3> QED BY <3>2, <3>3, <3>4 DEF control, branch, branchElse
  <2>5. CASE to # TERMINAL /\ else # NULL
    <3>1. v \in Values /\ to \in Blocks /\ else \in Blocks /\ to # else
          /\ t = CondBr(v, to, else) /\ v # NULL
      BY <2>1, <2>5, CfgAssumption DEF FlowOK, TermOf
    <3> DEFINE h3 == AddIncoming(flow, to, b)
    <3>2. SyncFlowWithInst(gr, b) = AddIncoming(h3, else, b)
      BY <1>1, <2>1, <3>1 DEF SyncFlowWithInst, CondBr, t, flow
    <3>3. Has(h3, gr.code, control, branch, branchElse,
              [gr.in EXCEPT ![to] = @ \cup {b}], gr.void, gr.ok)
      BY <2>2, <3>1, AddFields
    <3> HIDE DEF h3
    <3>4. Has(AddIncoming(h3, else, b), gr.code, control, branch, branchElse,
              [[gr.in EXCEPT ![to] = @ \cup {b}] EXCEPT ![else] = @ \cup {b}],
              gr.void, gr.ok)
      BY <3>1, <3>3, AddFields
    <3>5. [[gr.in EXCEPT ![to] = @ \cup {b}] EXCEPT ![else] = @ \cup {b}]
            = Linked(gr.in, b, {to, else})
      BY <1>1, <3>1, FieldTypes DEF Linked
    <3> QED BY <3>2, <3>4, <3>5 DEF control, branch, branchElse
  <2> QED BY <2>3, <2>4, <2>5
<1> QED BY <1>3, <1>4

\* Cutting a block after an instruction that is no terminator.
LEMMA CutFits ==
  ASSUME NEW s \in Seq(Insts), NEW v, NEW to, NEW else, Fits(s, v, to, else),
         NEW i \in 1 .. Len(s), s[i].id = "Op"
  PROVE  /\ SubSeq(s, 1, i) \in Seq(Insts) /\ SubSeq(s, i + 1, Len(s)) \in Seq(Insts)
         /\ SubSeq(s, 1, i) # <<>> /\ Plain(SubSeq(s, 1, i))
         /\ Fits(SubSeq(s, i + 1, Len(s)), v, to, else)
<1> DEFINE n == Len(s)
           p == SubSeq(s, 1, i)
           q == SubSeq(s, i + 1, n)
<1>1. n \in Nat /\ i \in 1 .. n /\ \A j \in 1 .. n : s[j] \in Insts
  BY ElementOfSeq
<1>2. \A j \in 1 .. n - 1 : s[j].id = "Op"
  BY <1>1 DEF Fits, Plain, EndsIn
<1>3. to # NULL => s[n] = TermOf(v, to, else) /\ s[n].id # "Op"
  BY DEF Fits, EndsIn, LastOf, TermOf, Ret, Br, CondBr
<1>4. to = NULL => \A j \in 1 .. n : s[j].id = "Op"
  BY DEF Fits, Plain
<1> HIDE DEF n
<1>5. /\ p \in Seq(Insts) /\ Len(p) = IF 1 <= i THEN i - 1 + 1 ELSE 0
      /\ \A j \in 1 .. i - 1 + 1 : p[j] = s[1 + j - 1]
  <2>1. 1 \in Int /\ i \in Int /\ \A j \in 1 .. i : s[j] \in Insts
    BY <1>1
  <2> QED BY <2>1, SubSeqProperties
<1>6. /\ q \in Seq(Insts) /\ Len(q) = IF i + 1 <= n THEN n - (i + 1) + 1 ELSE 0
      /\ \A j \in 1 .. n - (i + 1) + 1 : q[j] = s[(i + 1) + j - 1]
  <2>1. i + 1 \in Int /\ n \in Int /\ \A j \in (i + 1) .. n : s[j] \in Insts
    BY <1>1
  <2> QED BY <2>1, SubSeqProperties
<1> HIDE DEF p, q
<1>7. Len(p) = i /\ \A j \in 1 .. i : p[j] = s[j]
  BY <1>1, <1>5
<1>8. Len(q) = n - i /\ \A j \in 1 .. n - i : q[j] = s[i + j]
  BY <1>1, <1>6
<1>9. p # <<>> /\ Plain(p)
  <2>1. p # <<>>
    BY <1>1, <1>7, EmptySeq
  <2>2. \A j \in 1 .. i : s[j].id = "Op"
    BY <1>1, <1>2
  <2> QED BY <1>7, <2>1, <2>2 DEF Plain
<1>10. Fits(q, v, to, else)
  <2>1. CASE to = NULL
    BY <1>1, <1>4, <1>8, <2>1 DEF Fits, Plain
  <2>2. CASE to # NULL
    <3>1. i < n /\ n - i \in Nat \ {0}
      BY <1>1, <1>3, <2>2
    <3>2. q[n - i] = s[n] /\ q # <<>>
      <4>1. n - i \in 1 .. n - i /\ i + (n - i) = n
        BY <1>1, <3>1
      <4>2. q # <<>>
        BY <1>8, <3>1, EmptySeq
      <4> QED BY <1>8, <4>1, <4>2
    <3>3. \A j \in 1 .. (n - i) - 1 : q[j].id = "Op"
      BY <1>1, <1>2, <1>8, <3>1
    <3> QED BY <1>3, <1>8, <2>2, <3>2, <3>3 DEF Fits, EndsIn, LastOf
  <2> QED BY <2>1, <2>2
<1> QED BY <1>5, <1>6, <1>9, <1>10 DEF p, q, n

\* AgreesAt of a block is Fits of its fields.
LEMMA AgreesFits ==
  ASSUME NEW gr \in Graphs, NEW b \in Blocks
  PROVE  AgreesAt(gr, b) <=>
           Fits(gr.code[b], gr.control[b], gr.branch[b], gr.branchElse[b])
BY AgreesForm DEF Fits

(***************************************************************************)
(* Cfg: the clients' calls.                                                *)
(***************************************************************************)
\* The invariant: the edges are in order, the code agrees with the nodes, and
\* what is not listed is isolated.
CfgInv == Good(graph, placed)

\* insertNewBlockAfter: the new block takes over the edges and b jumps to it.
LEMMA SplitGood ==
  ASSUME NEW b, NEW i, NEW new, CfgInv, new \in Blocks, SplitAfter(b, i, new)
  PROVE  Good(graph', placed')
<1> DEFINE s == graph.code[b]
           v == graph.control[b]
           to == graph.branch[b]
           else == graph.branchElse[b]
           pre == SubSeq(s, 1, i)
           suf == SubSeq(s, i + 1, Len(s))
           f == [[graph.code EXCEPT ![new] = suf] EXCEPT ![b] = pre]
           moved == [graph EXCEPT !.code = f]
           h == SyncFlowWithInst(moved, new)
           L == placed \cup {new}
<1>1. /\ graph \in Graphs /\ Edges(graph) /\ placed \subseteq Blocks
      /\ b \in placed /\ b \in Blocks /\ new \notin placed /\ b # new
      /\ i \in 1 .. Len(s) /\ s[i].id = "Op" /\ s \in Seq(Insts)
      /\ FlowOK(v, to, else) /\ Fits(s, v, to, else)
      /\ graph.branch[new] = NULL /\ graph.in[new] = {}
      /\ graph.code \in [Blocks -> Seq(Insts)]
  BY FieldTypes, NodeFlow, AgreesFits DEF CfgInv, Good, Edges, CodeAgrees, SplitAfter
<1>2. /\ pre \in Seq(Insts) /\ suf \in Seq(Insts) /\ pre # <<>> /\ Plain(pre)
      /\ Fits(suf, v, to, else)
  BY <1>1, CutFits
<1>3. graph' = ResetTo(h, b, new) /\ placed' = L
  BY DEF SplitAfter
<1> HIDE DEF pre, suf
<1>4. /\ f \in [Blocks -> Seq(Insts)] /\ f[b] = pre /\ f[new] = suf
      /\ \A c \in Blocks \ {b, new} : f[c] = graph.code[c]
  BY <1>1, <1>2
<1> HIDE DEF f
<1>5. /\ Has(moved, f, graph.control, graph.branch, graph.branchElse, graph.in,
             graph.void, graph.ok)
      /\ Edges(moved)
  BY <1>1, <1>4, FieldTypes, CodeFields, CodeIsFree
<1> HIDE DEF moved, v, to, else
<1>6. Has(h, f, [graph.control EXCEPT ![new] = v], [graph.branch EXCEPT ![new] = to],
          [graph.branchElse EXCEPT ![new] = else], Linked(graph.in, new, {to, else}),
          graph.void, graph.ok)
  <2>1. moved.branch[new] = NULL /\ Fits(moved.code[new], v, to, else)
    BY <1>1, <1>2, <1>4, <1>5 DEF Has
  <2>2. Has(h, moved.code, [moved.control EXCEPT ![new] = v],
            [moved.branch EXCEPT ![new] = to], [moved.branchElse EXCEPT ![new] = else],
            Linked(moved.in, new, {to, else}), moved.void, moved.ok)
    BY <1>1, <1>5, <2>1, SyncIs
  <2> QED BY <1>5, <2>2 DEF Has
<1> HIDE DEF h
<1>7. Edges(h)
  BY <1>1, <1>6, LinkEdges
<1>8. /\ h \in Graphs /\ h.code = f /\ h.control = [graph.control EXCEPT ![new] = v]
      /\ h.branch = [graph.branch EXCEPT ![new] = to]
      /\ h.branchElse = [graph.branchElse EXCEPT ![new] = else]
      /\ h.in = Linked(graph.in, new, {to, else})
  BY <1>6 DEF Has
<1>9. Plain(Stripped(h, b)[b])
  <2>1. h.code[b] = pre
    BY <1>4, <1>8
  <2>2. LastOf(pre).id = "Op"
    <3>1. Len(pre) \in 1 .. Len(pre)
      BY <1>2, EmptySeq
    <3> QED BY <1>2, <3>1 DEF Plain, LastOf
  <2>3. ~ KindMatches(h, b)
    BY <2>1, <2>2 DEF KindMatches
  <2>4. Stripped(h, b)[b] = pre
    BY <1>1, <1>4, <1>8, <2>1, <2>3 DEF Stripped
  <2> QED BY <1>2, <2>4
<1>10. ASSUME NEW c \in Blocks \ {b} PROVE AgreesAt(h, c)
  <2>1. CASE c = new
    BY <1>1, <1>2, <1>4, <1>8, <2>1, FieldTypes, AgreesFits
  <2>2. CASE c # new
    <3>1. /\ h.code[c] = graph.code[c] /\ h.control[c] = graph.control[c]
          /\ h.branch[c] = graph.branch[c] /\ h.branchElse[c] = graph.branchElse[c]
      BY <1>1, <1>4, <1>8, <1>10, <2>2, FieldTypes
    <3> QED BY <1>1, <1>8, <1>10, <3>1, AgreesLocal DEF CfgInv, Good, CodeAgrees
  <2> QED BY <2>1, <2>2
<1>11. ASSUME NEW c \in Blocks \ L PROVE h.branch[c] = NULL /\ h.in[c] = {}
  <2>1. c # new /\ c \notin placed /\ graph.branch[c] = NULL /\ graph.in[c] = {}
    BY <1>11 DEF CfgInv, Good
  <2>2. c \notin {to, else}
    BY <1>1, <1>11, <2>1, TargetsListed DEF CfgInv, Succ, to, else
  <2> QED BY <1>1, <1>8, <1>11, <2>1, <2>2, FieldTypes DEF Linked
<1>12. GoodBut(h, L, b)
  BY <1>1, <1>7, <1>9, <1>10, <1>11 DEF GoodBut
<1>13. Relinked(ResetTo(h, b, new), h, b, NULL, new, NULL, Br(new))
  BY <1>1, <1>7, ResetToIs
<1>14. /\ TermOf(NULL, new, NULL) = Br(new) /\ FlowOK(NULL, new, NULL) /\ new # NULL
       /\ {new, NULL} \cap Blocks \subseteq L /\ Br(new) \in Insts /\ b \in L
  BY <1>1, InstTypes, CfgAssumption DEF TermOf, FlowOK
<1>15. Good(ResetTo(h, b, new), L)
  BY <1>12, <1>13, <1>14, RelinkGood
<1> QED BY <1>3, <1>15

(***************************************************************************)
(* The theorems.                                                           *)
(***************************************************************************)
\* Nothing is listed and no block has edges when a function is created.
LEMMA CfgInitGood == CfgInit => CfgInv
<1> SUFFICES ASSUME NEW void \in BOOLEAN, graph = EmptyGraph(void), placed = {} PROVE CfgInv
  BY DEF CfgInit
<1>1. graph \in Graphs
  BY EmptySeq DEF EmptyGraph, Graphs
<1>2. /\ \A b \in Blocks : /\ graph.code[b] = <<>> /\ graph.control[b] = NULL
                            /\ graph.branch[b] = NULL /\ graph.branchElse[b] = NULL /\ graph.in[b] = {}
      /\ graph.ok
  BY DEF EmptyGraph
<1>3. Edges(graph)
  BY <1>1, <1>2, CfgAssumption DEF Edges, InBlocksAreExact, WellShaped, Succ
<1>4. CodeAgrees(graph)
  <2>1. Plain(<<>>)
    BY EmptySeq DEF Plain
  <2> QED BY <1>1, <1>2, <2>1, AgreesForm DEF CodeAgrees
<1> QED BY <1>2, <1>3, <1>4 DEF CfgInv, Good

\* Every operation of the clients keeps the three descriptions of the flow in step.
LEMMA CfgStepGood == CfgInv /\ [CfgNext]_cfgVars => CfgInv'
<1> SUFFICES ASSUME CfgInv, [CfgNext]_cfgVars PROVE Good(graph', placed')
  BY DEF CfgInv
<1>1. CASE UNCHANGED cfgVars
  BY <1>1 DEF cfgVars, CfgInv
<1>2. ASSUME NEW b \in Blocks, Create(b) PROVE Good(graph', placed')
  <2>1. Plain(<<>>) /\ <<>> \in Seq(Insts) /\ graph.branch[b] = NULL
    BY <1>2, EmptySeq DEF Plain, Create, CfgInv, Good
  <2>2. Good(graph', placed)
    BY <1>2, <2>1, RecodeGood DEF Create, CfgInv
  <2> QED BY <1>2, <2>2 DEF Create, Good
<1>3. ASSUME NEW b \in Blocks, Clear(b) PROVE Good(graph', placed')
  BY <1>3, GoodIsGoodBut, ResetGood DEF Clear, CfgInv
<1>4. ASSUME NEW b \in Blocks, Discard(b) PROVE Good(graph', placed')
  BY <1>4, GoodIsGoodBut, RemoveGood DEF Discard, CfgInv
<1>5. ASSUME NEW b \in Blocks, NEW v \in Values, AppendInst(b, v) PROVE Good(graph', placed')
  BY <1>5, AppendGood DEF AppendInst, CfgInv, IsIncomplete
<1>6. ASSUME NEW b \in Blocks, NEW hint \in BOOLEAN, Return(b, hint)
      PROVE  Good(graph', placed')
  BY <1>6, MarkGood DEF Return, CfgInv
<1>7. ASSUME NEW b \in Blocks, NEW to \in Blocks, Jump(b, to) PROVE Good(graph', placed')
  BY <1>7, JumpGood DEF Jump, CfgInv
<1>8. ASSUME NEW b \in Blocks, NEW v \in Values, NEW to \in Blocks,
             NEW else \in Blocks \ {to}, Branch(b, v, to, else)
      PROVE  Good(graph', placed')
  BY <1>8, BranchGood DEF Branch, CfgInv
<1>9. ASSUME NEW b \in Blocks, NEW i \in 1 .. Len(graph.code[b]), NEW new \in Blocks,
              SplitAfter(b, i, new)
       PROVE  Good(graph', placed')
  BY <1>9, SplitGood
<1> QED BY <1>1, <1>2, <1>3, <1>4, <1>5, <1>6, <1>7, <1>8, <1>9 DEF CfgNext

\* The invariant holds in every reachable state.
THEOREM Consistency == CfgSpec => []CfgInv
BY CfgInitGood, CfgStepGood, PTL DEF CfgSpec

\* The graph and the list have their types.
THEOREM TypeCorrect == CfgSpec => []CfgTypeOK
<1>1. CfgInv => CfgTypeOK
  BY DEF CfgInv, Good, Edges, CfgTypeOK
<1> QED BY <1>1, Consistency, PTL

\* inBlocks_ is exact after every operation, for any number of blocks.
THEOREM LinksAlwaysAgree == CfgSpec => []LinksAgree
<1>1. CfgInv => LinksAgree
  BY DEF CfgInv, Good, Edges, LinksAgree
<1> QED BY <1>1, Consistency, PTL

\* No operation leaves half a branch.
THEOREM FlowAlwaysShaped == CfgSpec => []FlowShape
<1>1. CfgInv => FlowShape
  BY DEF CfgInv, Good, Edges, FlowShape
<1> QED BY <1>1, Consistency, PTL

\* No assertion of cfg.cpp can fail.
THEOREM AssertionsHold == CfgSpec => []NoAssertionFails
<1>1. CfgInv => NoAssertionFails
  BY DEF CfgInv, Good, Edges, NoAssertionFails
<1> QED BY <1>1, Consistency, PTL

\* The terminator always says what the node says.
THEOREM TerminatorsAgree == CfgSpec => []TerminatorAgrees
<1>1. CfgInv => TerminatorAgrees
  BY DEF CfgInv, Good, TerminatorAgrees
<1> QED BY <1>1, Consistency, PTL

\* A removed block is cut off in both directions.
THEOREM RemovedIsCutOff == CfgSpec => []RemovedIsIsolated
<1>1. CfgInv => RemovedIsIsolated
  <2> SUFFICES ASSUME CfgInv PROVE RemovedIsIsolated
    OBVIOUS
  <2>1. ASSUME NEW b \in Blocks \ placed PROVE IsOrphan(graph, b)
    BY <2>1 DEF CfgInv, Good, IsOrphan
  <2>2. ASSUME NEW b \in Blocks \ placed, NEW c \in placed PROVE b \notin Succ(graph, c)
    <3>1. c \in Blocks
      BY <2>2 DEF CfgInv, Good
    <3> QED BY <2>2, <3>1, TargetsListed DEF CfgInv
  <2> QED BY <2>1, <2>2 DEF RemovedIsIsolated
<1> QED BY <1>1, Consistency, PTL
=============================================================================
