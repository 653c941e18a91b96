--------------------------- MODULE SimplifyProofs ---------------------------
(***************************************************************************)
(* Proofs about Simplify for any set of blocks, any input graph and any    *)
(* order of the blocks.                                                    *)
(*                                                                         *)
(* The search keeps a set of visited blocks that is closed under Targets   *)
(* but for what is on the stack, and holds only blocks that can run; with  *)
(* the stack empty it is the set of all of them.  From then on no visited  *)
(* block leads out of the set, and once the other blocks are reset nothing *)
(* leads into them, so every one of them can be removed.                   *)
(*                                                                         *)
(* Where the instructions are while ResortPass runs is said by Moved, for  *)
(* the index of the cursor in the body as it was: what it has gone over is *)
(* without its allocas, what it has not is as it was, and the entry starts *)
(* with the allocas met so far, one after the other.                       *)
(***************************************************************************)
EXTENDS Simplify, CfgProofs, WellFoundedInduction

(***************************************************************************)
(* The blocks that can run.                                                *)
(***************************************************************************)
\* The entry is a block.
LEMMA EntryIsABlock == Entry \in Blocks
<1>1. Len(Order) \in Nat \ {0} /\ Order \in Seq(Blocks)
  BY SimplifyAssumption, EmptySeq
<1> QED BY <1>1, ElementOfSeq DEF Entry

\* A decided branch takes one of its targets.
LEMMA TakenIsATarget ==
  ASSUME NEW gr, Edges(gr), NEW b \in Blocks, Decided(gr, b)
  PROVE  /\ Taken(gr, b) \in Blocks /\ Taken(gr, b) \in Succ(gr, b)
         /\ gr.branch[b] \in Blocks
<1>1. /\ gr.branchElse[b] \in Blocks \cup {NULL} /\ gr.branchElse[b] # NULL
      /\ gr.branch[b] \in Blocks
  BY FieldTypes DEF Edges, WellShaped, Decided, IsBranched
<1> QED BY <1>1 DEF Taken, Succ

\* What can run leads to blocks that can run, and the entry can.
LEMMA LiveIsClosed ==
  ASSUME Edges(start)
  PROVE  Live \subseteq Blocks /\ Closed(Live)
<1>1. \A b \in Blocks : Targets(b) \subseteq Blocks
  BY TakenIsATarget DEF Targets, Succ
<1>2. Entry \in Live
  BY EntryIsABlock DEF Live, Closed
<1>3. ASSUME NEW b \in Live, NEW c \in Targets(b) PROVE c \in Live
  BY <1>1, <1>3 DEF Live, Closed
<1> QED BY <1>2, <1>3 DEF Closed, Live

\* The input does not change, nor what can run.
LEMMA LiveIsFixed ==
  ASSUME start' = start
  PROVE  Live' = Live /\ (\A b : Targets(b)' = Targets(b))
BY DEF Live, Closed, Targets, Decided, Taken, Succ, IsBranched

(***************************************************************************)
(* The stack.                                                              *)
(***************************************************************************)
Members(s) == {s[i] : i \in 1 .. Len(s)}

\* Taking the top off a stack takes at most that member away.
LEMMA TailMembers ==
  ASSUME NEW S, NEW s \in Seq(S), s # <<>>
  PROVE  /\ Head(s) \in S /\ Tail(s) \in Seq(S)
         /\ Members(s) = {Head(s)} \cup Members(Tail(s))
<1>1. /\ Head(s) \in S /\ Tail(s) \in Seq(S) /\ Len(s) \in Nat \ {0}
      /\ Len(Tail(s)) = Len(s) - 1 /\ Head(s) = s[1]
      /\ \A i \in 1 .. Len(Tail(s)) : Tail(s)[i] = s[i + 1]
  BY HeadTailProperties, EmptySeq
<1>2. ASSUME NEW i \in 1 .. Len(s), i # 1 PROVE s[i] \in Members(Tail(s))
  <2>1. i - 1 \in 1 .. Len(Tail(s)) /\ Tail(s)[i - 1] = s[i]
    BY <1>1, <1>2
  <2> QED BY <2>1 DEF Members
<1>3. ASSUME NEW i \in 1 .. Len(Tail(s)) PROVE Tail(s)[i] \in Members(s)
  <2>1. i + 1 \in 1 .. Len(s) /\ Tail(s)[i] = s[i + 1]
    BY <1>1
  <2> QED BY <2>1 DEF Members
<1>4. Head(s) \in Members(s)
  BY <1>1 DEF Members
<1>5. Members(s) \subseteq {Head(s)} \cup Members(Tail(s))
  BY <1>1, <1>2 DEF Members
<1>6. Members(Tail(s)) \subseteq Members(s)
  BY <1>3 DEF Members
<1> QED BY <1>1, <1>4, <1>5, <1>6

\* The members of two stacks put together are those of both.
LEMMA ConcatMembers ==
  ASSUME NEW S, NEW s \in Seq(S), NEW t \in Seq(S)
  PROVE  s \o t \in Seq(S) /\ Members(s \o t) = Members(s) \cup Members(t)
<1>1. /\ s \o t \in Seq(S) /\ Len(s) \in Nat /\ Len(t) \in Nat
      /\ Len(s \o t) = Len(s) + Len(t)
      /\ \A i \in 1 .. Len(s) + Len(t) :
            (s \o t)[i] = IF i <= Len(s) THEN s[i] ELSE t[i - Len(s)]
  BY ConcatProperties, LenProperties
<1>2. ASSUME NEW i \in 1 .. Len(s) PROVE s[i] \in Members(s \o t)
  <2>1. i \in 1 .. Len(s \o t) /\ (s \o t)[i] = s[i]
    BY <1>1
  <2> QED BY <2>1 DEF Members
<1>3. ASSUME NEW i \in 1 .. Len(t) PROVE t[i] \in Members(s \o t)
  <2>1. i + Len(s) \in 1 .. Len(s \o t) /\ (s \o t)[i + Len(s)] = t[i]
    BY <1>1
  <2> QED BY <2>1 DEF Members
<1>4. ASSUME NEW i \in 1 .. Len(s \o t) PROVE (s \o t)[i] \in Members(s) \cup Members(t)
  <2>1. CASE i <= Len(s)
    BY <1>1, <2>1 DEF Members
  <2>2. CASE ~ (i <= Len(s))
    <3>1. i - Len(s) \in 1 .. Len(t) /\ (s \o t)[i] = t[i - Len(s)]
      BY <1>1, <2>2
    <3> QED BY <3>1 DEF Members
  <2> QED BY <2>1, <2>2
<1>5. Members(s) \subseteq Members(s \o t) /\ Members(t) \subseteq Members(s \o t)
  BY <1>2, <1>3 DEF Members
<1>6. Members(s \o t) \subseteq Members(s) \cup Members(t)
  BY <1>4 DEF Members
<1> QED BY <1>1, <1>5, <1>6

\* A visit pushes the targets of the block and nothing else.
LEMMA PushedMembers ==
  ASSUME NEW gr, Edges(gr), NEW b \in Blocks, gr.branch[b] # NULL
  PROVE  Pushed(gr, b) \in Seq(Blocks) /\ Members(Pushed(gr, b)) = Succ(gr, b)
<1>1. /\ gr.branch[b] \in Blocks \cup {TERMINAL} /\ gr.branchElse[b] \in Blocks \cup {NULL}
      /\ gr.branchElse[b] # NULL => gr.branch[b] \in Blocks
  BY FieldTypes DEF Edges, WellShaped
<1>2. CASE IsBranched(gr, b)
  <2> DEFINE p == <<gr.branchElse[b], gr.branch[b]>>
  <2>1. p \in Seq(Blocks) /\ Len(p) = 2 /\ p[1] = gr.branchElse[b] /\ p[2] = gr.branch[b]
    BY <1>1, <1>2 DEF IsBranched
  <2>2. Members(p) = {p[1], p[2]}
    BY <2>1 DEF Members
  <2> QED BY <1>1, <1>2, <2>1, <2>2 DEF Pushed, Succ, IsBranched
<1>3. CASE ~ IsBranched(gr, b) /\ IsTerminal(gr, b)
  <2>1. Members(<<>>) = {} /\ <<>> \in Seq(Blocks)
    BY EmptySeq DEF Members
  <2> QED BY <1>1, <1>3, <2>1, CfgAssumption DEF Pushed, Succ, IsBranched, IsTerminal
<1>4. CASE ~ IsBranched(gr, b) /\ ~ IsTerminal(gr, b)
  <2> DEFINE p == <<gr.branch[b]>>
  <2>1. p \in Seq(Blocks) /\ Len(p) = 1 /\ p[1] = gr.branch[b]
    BY <1>1, <1>4 DEF IsTerminal
  <2>2. Members(p) = {p[1]}
    BY <2>1 DEF Members
  <2> QED BY <1>1, <1>4, <2>1, <2>2, CfgAssumption DEF Pushed, Succ, IsBranched, IsTerminal
<1> QED BY <1>2, <1>3, <1>4

(***************************************************************************)
(* The flow of a block.                                                    *)
(***************************************************************************)
\* b has the flow v, to, else in a graph.
Flows3(gr, b, v, to, else) ==
  gr.control[b] = v /\ gr.branch[b] = to /\ gr.branchElse[b] = else

\* b leads where it leads in the input; once visited, with its branch decided.
AsGiven(in, gr, b) == Flows3(gr, b, in.control[b], in.branch[b], in.branchElse[b])
Settled(in, gr, b) == IF Decided(in, b) THEN Flows3(gr, b, NULL, Taken(in, b), NULL)
                      ELSE AsGiven(in, gr, b)

\* The blocks of the input are complete.
Complete(gr) == Good(gr, Blocks) /\ \A b \in Blocks : gr.branch[b] # NULL

\* A settled block leads to its targets.
LEMMA SettledTargets ==
  ASSUME Complete(start), NEW gr, NEW b \in Blocks, Settled(start, gr, b)
  PROVE  Succ(gr, b) = Targets(b) /\ gr.branch[b] # NULL
<1>1. CASE Decided(start, b)
  BY <1>1, TakenIsATarget, CfgAssumption
     DEF Complete, Good, Settled, Flows3, Succ, Targets
<1>2. CASE ~ Decided(start, b)
  BY <1>2 DEF Complete, Settled, AsGiven, Flows3, Succ, Targets
<1> QED BY <1>1, <1>2

\* Folding a block settles it and leaves the flow of the others alone.
LEMMA FoldedIs ==
  ASSUME Complete(start), NEW gr, Good(gr, Blocks), NEW b \in Blocks, AsGiven(start, gr, b)
  PROVE  /\ Good(Folded(gr, b), Blocks)
         /\ Settled(start, Folded(gr, b), b)
         /\ \A c \in Blocks \ {b} :
               Flows3(Folded(gr, b), c, gr.control[c], gr.branch[c], gr.branchElse[c])
<1>1. (Decided(gr, b) <=> Decided(start, b)) /\ Taken(gr, b) = Taken(start, b)
  BY DEF AsGiven, Flows3, Decided, IsBranched, Taken
<1>2. CASE Decided(gr, b)
  <2> DEFINE to == Taken(gr, b)
             h == ResetTo(gr, b, to)
  <2>1. Edges(gr) /\ gr \in Graphs /\ to \in Blocks /\ Folded(gr, b) = h
    BY <1>2, TakenIsATarget DEF Good, Edges, Folded
  <2>2. Good(h, Blocks)
    BY <2>1, JumpGood
  <2>3. Relinked(h, gr, b, NULL, to, NULL, Br(to))
    BY <2>1, ResetToIs
  <2> HIDE DEF h, to
  <2>4. /\ h.control = [gr.control EXCEPT ![b] = NULL]
        /\ h.branch = [gr.branch EXCEPT ![b] = to]
        /\ h.branchElse = [gr.branchElse EXCEPT ![b] = NULL]
    BY <2>3 DEF Relinked, Has
  <2>5. /\ Flows3(h, b, NULL, to, NULL)
        /\ \A c \in Blocks \ {b} :
              Flows3(h, c, gr.control[c], gr.branch[c], gr.branchElse[c])
    BY <2>1, <2>4, FieldTypes DEF Flows3
  <2> QED BY <1>1, <1>2, <2>1, <2>2, <2>5 DEF Settled, to
<1>3. CASE ~ Decided(gr, b)
  BY <1>1, <1>3 DEF Folded, Settled, Flows3
<1> QED BY <1>2, <1>3

\* reset() takes the flow of one block away and no other's.
LEMMA ResetFlows ==
  ASSUME NEW gr, NEW L, Good(gr, L), NEW b \in Blocks
  PROVE  /\ Good(Reset(gr, b), L)
         /\ Reset(gr, b).branch[b] = NULL
         /\ \A c \in Blocks \ {b} :
               Flows3(Reset(gr, b), c, gr.control[c], gr.branch[c], gr.branchElse[c])
<1> DEFINE r == Reset(gr, b)
<1>1. Good(r, L)
  BY GoodIsGoodBut, ResetGood
<1>2. Edges(gr) /\ gr \in Graphs
  BY DEF Good, Edges
<1>3. Has(r, Stripped(gr, b), [gr.control EXCEPT ![b] = NULL],
          [gr.branch EXCEPT ![b] = NULL], [gr.branchElse EXCEPT ![b] = NULL],
          Without(gr, b), gr.void, gr.ok)
  BY <1>2, ResetIs
<1> HIDE DEF r
<1>4. /\ r.control = [gr.control EXCEPT ![b] = NULL]
      /\ r.branch = [gr.branch EXCEPT ![b] = NULL]
      /\ r.branchElse = [gr.branchElse EXCEPT ![b] = NULL]
  BY <1>3 DEF Has
<1>5. /\ r.branch[b] = NULL
      /\ \A c \in Blocks \ {b} : Flows3(r, c, gr.control[c], gr.branch[c], gr.branchElse[c])
  BY <1>2, <1>4, FieldTypes DEF Flows3
<1> QED BY <1>1, <1>5 DEF r

(***************************************************************************)
(* ResortPass moves instructions about.                                    *)
(***************************************************************************)
\* Code from which an instruction is taken.
LEMMA RemoveAtIs ==
  ASSUME NEW S, NEW s \in Seq(S), NEW i \in 1 .. Len(s)
  PROVE  RemoveAt(s, i) \in Seq(S) /\ Len(RemoveAt(s, i)) = Len(s) - 1
<1> DEFINE p == SubSeq(s, 1, i - 1)
           q == SubSeq(s, i + 1, Len(s))
<1>1. Len(s) \in Nat /\ i \in Int /\ \A j \in 1 .. Len(s) : s[j] \in S
  BY LenProperties, ElementOfSeq
<1>2. PICK n \in Nat : n = Len(s)
  BY <1>1
<1>3. p \in Seq(S) /\ Len(p) = i - 1
  BY <1>1, <1>2, SubSeqProperties
<1>4. q \in Seq(S) /\ Len(q) = n - i
  BY <1>1, <1>2, SubSeqProperties
<1> HIDE DEF p, q
<1>5. p \o q \in Seq(S) /\ Len(p \o q) = Len(p) + Len(q)
  BY <1>3, <1>4, ConcatProperties
<1>6. Len(p) + Len(q) = n - 1
  BY <1>1, <1>2, <1>3, <1>4
<1> QED BY <1>2, <1>5, <1>6 DEF RemoveAt, p, q

\* Code to which an instruction is added.
LEMMA InsertAtIs ==
  ASSUME NEW S, NEW s \in Seq(S), NEW i \in 1 .. Len(s) + 1, NEW e \in S
  PROVE  InsertAt(s, i, e) \in Seq(S) /\ Len(InsertAt(s, i, e)) = Len(s) + 1
<1> DEFINE p == SubSeq(s, 1, i - 1)
           q == SubSeq(s, i, Len(s))
<1>1. Len(s) \in Nat /\ i \in Int /\ \A j \in 1 .. Len(s) : s[j] \in S
  BY LenProperties, ElementOfSeq
<1>2. PICK n \in Nat : n = Len(s)
  BY <1>1
<1>3. p \in Seq(S) /\ Len(p) = i - 1
  BY <1>1, <1>2, SubSeqProperties
<1>4. q \in Seq(S) /\ Len(q) = n - i + 1
  BY <1>1, <1>2, SubSeqProperties
<1> HIDE DEF p, q
<1>5. <<e>> \in Seq(S) /\ Len(<<e>>) = 1
  OBVIOUS
<1> DEFINE m == p \o <<e>>
<1>6. m \in Seq(S) /\ Len(m) = Len(p) + 1
  BY <1>3, <1>5, ConcatProperties
<1>7. InsertAt(s, i, e) = m \o q
  BY DEF InsertAt, p, q
<1> HIDE DEF m
<1>8. m \o q \in Seq(S) /\ Len(m \o q) = Len(m) + Len(q)
  BY <1>4, <1>6, ConcatProperties
<1>9. Len(m) + Len(q) = n + 1
  BY <1>1, <1>2, <1>3, <1>4, <1>6
<1> QED BY <1>2, <1>7, <1>8, <1>9

(***************************************************************************)
(* The inductive invariant.                                                *)
(***************************************************************************)
\* What holds in every phase.
Common == /\ Complete(start) /\ g \in Graphs /\ g.ok
          /\ phase \in Phases \ {"aborted"}
          /\ stack \in Seq(Blocks)
          /\ listed \subseteq Blocks /\ visited \subseteq Live
          /\ deleteLater = Blocks \ visited /\ pending \subseteq deleteLater
          /\ \A b \in visited : Settled(start, g, b)

\* What the visited blocks lead to is visited or will be.
Searching ==
  phase = "search" =>
    /\ Good(g, Blocks) /\ listed = Blocks /\ pending = {}
    /\ Members(stack) \subseteq Live /\ Entry \in visited \cup Members(stack)
    /\ \A b \in visited : Targets(b) \subseteq visited \cup Members(stack)
    /\ \A b \in Blocks \ visited : AsGiven(start, g, b)

\* The search has found what can run.
Found == phase # "search" => visited = Live

\* A block that cannot run is reset before the first one is removed.
Resetting ==
  phase = "reset" => /\ Good(g, Blocks) /\ listed = Blocks
                     /\ \A b \in deleteLater \ pending : g.branch[b] = NULL
Removing ==
  phase = "remove" => /\ Good(g, listed) /\ listed = Blocks \ (deleteLater \ pending)
                      /\ \A b \in deleteLater : g.branch[b] = NULL
Gathering == Simplified => listed = visited

\* The allocas moved so far lie before the cursor.
CursorOK ==
  /\ at \in 1 .. Len(Order) + 1 /\ pos \in Nat \ {0} /\ hoisted \in Nat
  /\ ~ Simplified => at = 1 /\ pos = 1 /\ hoisted = 0
  /\ hoisted <= Len(g.code[Entry])
  /\ at = 1 => hoisted < pos

IInv == /\ Common /\ Searching /\ Found /\ Resetting /\ Removing /\ Gathering
        /\ CursorOK

\* The invariant is as strong as the properties.
LEMMA InvSuffices == IInv => OnlyLiveRemain /\ FlowKept
<1> SUFFICES ASSUME IInv PROVE OnlyLiveRemain /\ FlowKept
  OBVIOUS
<1>1. start \in Graphs /\ Edges(start) /\ Live \subseteq Blocks /\ visited \subseteq Blocks
  BY LiveIsClosed DEF IInv, Common, Complete, Good, Edges
<1>2. TypeOK
  BY <1>1 DEF IInv, Common, CursorOK, TypeOK
<1>3. Simplified => listed = Live
  BY DEF IInv, Found, Gathering, Simplified
<1>4. ASSUME Simplified, NEW b \in listed
      PROVE  /\ Succ(g, b) = Targets(b)
             /\ IsTerminal(g, b) <=> IsTerminal(start, b)
             /\ IsBranched(g, b) => /\ g.control[b] = start.control[b]
                                    /\ g.branch[b] = start.branch[b]
  <2>1. b \in Blocks /\ Settled(start, g, b) /\ Complete(start)
    BY <1>1, <1>4 DEF IInv, Common, Gathering
  <2>2. Succ(g, b) = Targets(b)
    BY <2>1, SettledTargets
  <2>3. CASE Decided(start, b)
    <3>1. start.branch[b] \in Blocks /\ Taken(start, b) \in Blocks
      BY <1>1, <2>1, <2>3, TakenIsATarget
    <3> QED BY <2>1, <2>2, <2>3, <3>1, CfgAssumption
            DEF Settled, Flows3, IsTerminal, IsBranched
  <2>4. CASE ~ Decided(start, b)
    BY <2>1, <2>2, <2>4 DEF Settled, AsGiven, Flows3, IsTerminal, IsBranched
  <2> QED BY <2>3, <2>4
<1> QED BY <1>2, <1>3, <1>4 DEF OnlyLiveRemain, FlowKept, IInv, Common

(***************************************************************************)
(* The initial states.                                                     *)
(***************************************************************************)
\* The code of a block that has flow s.
LEMMA TerminatorFits ==
  ASSUME NEW b \in Blocks, NEW s \in Shapes
  PROVE  /\ Append(Body[b], Terminator(s)) \in Seq(Insts)
         /\ EndsIn(Append(Body[b], Terminator(s)), TermOf(s.control, s.branch, s.branchElse))
<1>1. /\ s.control \in Values \cup {NULL} /\ s.branch \in Blocks \cup {TERMINAL}
      /\ s.branchElse \in Blocks \cup {NULL}
      /\ s.control # NULL <=> s.branchElse # NULL
      /\ s.branchElse # NULL => s.branch \in Blocks \ {s.branchElse}
  BY DEF Shapes
<1>2. Terminator(s) = TermOf(s.control, s.branch, s.branchElse)
  BY <1>1, CfgAssumption DEF Terminator, TermOf
<1>3. Terminator(s) \in Insts
  BY <1>1 DEF Terminator, Insts, Ret, Br, CondBr
<1>4. Ops \subseteq Insts /\ \A o \in Ops : o.id = "Op"
  BY DEF Ops, Op, Insts
<1>5. Body[b] \in Seq(Ops) /\ Body[b] \in Seq(Insts)
  BY <1>4, SimplifyAssumption, SeqMonotonic
<1>6. Plain(Body[b])
  BY <1>4, <1>5, ElementOfSeq DEF Plain
<1> QED BY <1>2, <1>3, <1>5, <1>6, PlainAppend

\* The input graph is good and its blocks are complete.
LEMMA InputComplete ==
  ASSUME NEW f \in [Blocks -> Shapes]
  PROVE  Complete(GraphOf(f))
<1> DEFINE gr == GraphOf(f)
<1>1. \A b \in Blocks : f[b] \in Shapes
  OBVIOUS
<1>2. \A b \in Blocks :
         /\ f[b].control \in Values \cup {NULL} /\ f[b].branch \in Blocks \cup {TERMINAL}
         /\ f[b].branchElse \in Blocks \cup {NULL}
         /\ f[b].control # NULL <=> f[b].branchElse # NULL
         /\ f[b].branchElse # NULL => f[b].branch \in Blocks \ {f[b].branchElse}
  BY <1>1 DEF Shapes
<1>3. \A b \in Blocks :
         /\ gr.code[b] = Append(Body[b], Terminator(f[b]))
         /\ gr.control[b] = f[b].control /\ gr.branch[b] = f[b].branch
         /\ gr.branchElse[b] = f[b].branchElse
         /\ gr.in[b] = {c \in Blocks : b \in {f[c].branch, f[c].branchElse}}
         /\ gr.code[b] \in Seq(Insts)
  BY <1>1, TerminatorFits DEF GraphOf
<1>4. gr \in Graphs /\ gr.ok
  <2>1. [b \in Blocks |-> Append(Body[b], Terminator(f[b]))] \in [Blocks -> Seq(Insts)]
    BY <1>1, TerminatorFits
  <2> QED BY <1>2, <2>1, SimplifyAssumption DEF GraphOf, Graphs
<1> HIDE DEF gr
<1>5. Edges(gr)
  <2>1. ASSUME NEW b \in Blocks, NEW c \in Blocks
        PROVE  b \in gr.in[c] <=> c \in Succ(gr, b)
    <3>1. gr.in[c] = {d \in Blocks : c \in {f[d].branch, f[d].branchElse}}
      BY <1>3
    <3>2. Succ(gr, b) = {f[b].branch, f[b].branchElse} \cap Blocks
      BY <1>3 DEF Succ
    <3> QED BY <3>1, <3>2
  <2>2. InBlocksAreExact(gr)
    BY <2>1 DEF InBlocksAreExact
  <2>3. ASSUME NEW b \in Blocks
        PROVE  /\ gr.branchElse[b] # NULL => gr.branch[b] \in Blocks \ {gr.branchElse[b]}
               /\ gr.control[b] # NULL <=> gr.branchElse[b] # NULL
    <3>1. /\ gr.control[b] = f[b].control /\ gr.branch[b] = f[b].branch
          /\ gr.branchElse[b] = f[b].branchElse
      BY <1>3
    <3>2. /\ f[b].control # NULL <=> f[b].branchElse # NULL
          /\ f[b].branchElse # NULL => f[b].branch \in Blocks \ {f[b].branchElse}
      BY <1>2
    <3> QED BY <3>1, <3>2
  <2>4. WellShaped(gr)
    BY <2>3 DEF WellShaped
  <2> QED BY <1>4, <2>2, <2>4 DEF Edges
<1>6. ASSUME NEW b \in Blocks PROVE AgreesAt(gr, b) /\ gr.branch[b] # NULL
  <2>1. gr.branch[b] # NULL
    BY <1>2, <1>3, CfgAssumption
  <2>2. EndsIn(gr.code[b], TermOf(gr.control[b], gr.branch[b], gr.branchElse[b]))
    BY <1>1, <1>3, TerminatorFits
  <2> QED BY <1>4, <2>1, <2>2, AgreesForm
<1> QED BY <1>5, <1>6 DEF Complete, Good, CodeAgrees, gr

\* The search starts from the entry.
LEMMA InitInv == Init => IInv
<1> SUFFICES ASSUME Init PROVE IInv
  OBVIOUS
<1>1. PICK f \in [Blocks -> UNION {Flows[b] : b \in Blocks}] :
         (\A b \in Blocks : f[b] \in Flows[b]) /\ start = GraphOf(f)
  BY DEF Init
<1> f \in [Blocks -> Shapes]
  BY <1>1, SimplifyAssumption
<1>2. /\ Complete(start) /\ g = start /\ listed = Blocks /\ phase = "search"
      /\ stack = <<Entry>> /\ visited = {} /\ deleteLater = Blocks /\ pending = {}
      /\ at = 1 /\ pos = 1 /\ hoisted = 0
  BY <1>1, InputComplete DEF Init
<1>3. Edges(start) /\ g \in Graphs /\ g.ok /\ Good(g, Blocks)
  BY <1>2 DEF Complete, Good, Edges
<1>4. Members(stack) = {Entry} /\ stack \in Seq(Blocks)
  BY <1>2, EntryIsABlock DEF Members
<1>5. Entry \in Live
  BY <1>3, LiveIsClosed DEF Closed
<1>6. Common
  BY <1>2, <1>3, <1>4 DEF Common, Phases
<1>7. Searching
  BY <1>2, <1>3, <1>4, <1>5 DEF Searching, AsGiven, Flows3
<1>8. CursorOK
  <2>1. Len(g.code[Entry]) \in Nat /\ Len(Order) \in Nat
    <3>1. g.code[Entry] \in Seq(Insts)
      BY <1>3, EntryIsABlock, FieldTypes
    <3> QED BY <3>1, LenProperties, SimplifyAssumption
  <2> QED BY <1>2, <2>1 DEF CursorOK, Simplified
<1> QED BY <1>2, <1>6, <1>7, <1>8
        DEF IInv, Found, Resetting, Removing, Gathering, Simplified

(***************************************************************************)
(* The steps.                                                              *)
(***************************************************************************)
\* Until ResortPass starts the cursor stands where it will start.
LEMMA CursorWaits ==
  ASSUME CursorOK, ~ Simplified, g' \in Graphs,
         at' = at, pos' = pos, hoisted' = hoisted
  PROVE  CursorOK'
<1>1. g'.code[Entry] \in Seq(Insts)
  BY EntryIsABlock, FieldTypes
<1>2. Len(g'.code[Entry]) \in Nat
  BY <1>1, LenProperties
<1> QED BY <1>2 DEF CursorOK

\* A block met before is taken off the stack.
LEMMA SkipInv == IInv /\ Skip => IInv'
<1> SUFFICES ASSUME IInv, Skip PROVE IInv'
  OBVIOUS
<1>1. /\ phase = "search" /\ phase' = phase /\ stack # <<>> /\ Head(stack) \in visited
      /\ stack' = Tail(stack)
      /\ g' = g /\ start' = start /\ listed' = listed /\ visited' = visited
      /\ deleteLater' = deleteLater /\ pending' = pending
      /\ at' = at /\ pos' = pos /\ hoisted' = hoisted
  BY DEF Skip, cursor
<1>2. /\ stack' \in Seq(Blocks)
      /\ Members(stack) = {Head(stack)} \cup Members(stack')
  BY <1>1, TailMembers DEF IInv, Common
<1>3. Live' = Live /\ \A b : Targets(b)' = Targets(b)
  BY <1>1, LiveIsFixed
<1>4. Common'
  BY <1>1, <1>2, <1>3 DEF IInv, Common
<1>5. Searching'
  BY <1>1, <1>2, <1>3 DEF IInv, Searching
<1>6. CursorOK'
  BY <1>1, CursorWaits DEF IInv, Common, Simplified
<1> QED BY <1>1, <1>4, <1>5, <1>6
        DEF IInv, Found, Resetting, Removing, Gathering, Simplified

\* A visit settles the block and pushes what it leads to.
LEMMA VisitInv == IInv /\ Visit => IInv'
<1> SUFFICES ASSUME IInv, Visit PROVE IInv'
  OBVIOUS
<1> DEFINE b == Head(stack)
           f == Folded(g, b)
           rest == Tail(stack)
<1>1. /\ phase = "search" /\ phase' = phase /\ stack # <<>> /\ b \notin visited
      /\ visited' = visited \cup {b} /\ deleteLater' = deleteLater \ {b}
      /\ g' = AssertThat(f, ~ IsIncomplete(f, b)) /\ stack' = Pushed(f, b) \o rest
      /\ start' = start /\ listed' = listed /\ pending' = pending
      /\ at' = at /\ pos' = pos /\ hoisted' = hoisted
  BY DEF Visit, cursor
<1>2. /\ Complete(start) /\ Edges(start) /\ Good(g, Blocks)
      /\ Live \subseteq Blocks /\ Closed(Live)
  BY <1>1, LiveIsClosed DEF IInv, Common, Searching, Complete, Good
<1>3. /\ b \in Blocks /\ rest \in Seq(Blocks)
      /\ Members(stack) = {b} \cup Members(rest) /\ b \in Live
  BY <1>1, TailMembers DEF IInv, Common, Searching
<1> HIDE DEF b, rest
<1>4. /\ Good(f, Blocks) /\ Settled(start, f, b)
      /\ \A c \in Blocks \ {b} : Flows3(f, c, g.control[c], g.branch[c], g.branchElse[c])
  BY <1>1, <1>2, <1>3, FoldedIs DEF IInv, Searching
<1> HIDE DEF f
<1>5. Succ(f, b) = Targets(b) /\ f.branch[b] # NULL
  BY <1>2, <1>3, <1>4, SettledTargets
<1>6. f \in Graphs /\ Edges(f) /\ f.ok
  BY <1>4 DEF Good, Edges
<1>7. g' = f
  <2>1. g' = AssertThat(f, TRUE)
    BY <1>1, <1>5 DEF IsIncomplete
  <2> QED BY <1>6, <2>1 DEF AssertThat, Graphs
<1>8. /\ stack' \in Seq(Blocks)
      /\ Members(stack') = Targets(b) \cup Members(rest)
  BY <1>1, <1>3, <1>5, <1>6, PushedMembers, ConcatMembers
<1>9. Live' = Live /\ \A c : Targets(c)' = Targets(c)
  BY <1>1, LiveIsFixed
<1>10. ASSUME NEW c \in visited \cup {b} PROVE Settled(start, f, c)
  <2>1. CASE c = b
    BY <1>4, <2>1
  <2>2. CASE c # b
    <3>1. c \in Blocks \ {b} /\ Settled(start, g, c)
      BY <1>2, <1>10, <2>2 DEF IInv, Common
    <3> QED BY <1>4, <3>1 DEF Settled, AsGiven, Flows3
  <2> QED BY <2>1, <2>2
<1>11. ASSUME NEW c \in Blocks \ (visited \cup {b}) PROVE AsGiven(start, f, c)
  BY <1>1, <1>4, <1>11 DEF IInv, Searching, AsGiven, Flows3
<1>12. pending = {}
  BY <1>1 DEF IInv, Searching
<1>13. Common'
  BY <1>1, <1>2, <1>3, <1>6, <1>7, <1>8, <1>9, <1>10, <1>12 DEF IInv, Common
<1>14. Searching'
  <2>1. Targets(b) \subseteq Live
    BY <1>2, <1>3 DEF Closed
  <2>2. Members(stack') \subseteq Live /\ Entry \in visited' \cup Members(stack')
    BY <1>1, <1>3, <1>8, <2>1 DEF IInv, Searching
  <2>3. ASSUME NEW c \in visited' PROVE Targets(c) \subseteq visited' \cup Members(stack')
    BY <1>1, <1>3, <1>8, <2>3 DEF IInv, Searching
  <2> QED BY <1>1, <1>4, <1>7, <1>9, <1>11, <2>2, <2>3 DEF IInv, Searching
<1>15. CursorOK'
  BY <1>1, <1>6, <1>7, CursorWaits DEF IInv, Simplified
<1> QED BY <1>1, <1>13, <1>14, <1>15
        DEF IInv, Found, Resetting, Removing, Gathering, Simplified

\* With nothing on the stack what has been visited is closed, and so is what can run.
LEMMA EndOfSearchInv == IInv /\ EndOfSearch => IInv'
<1> SUFFICES ASSUME IInv, EndOfSearch PROVE IInv'
  OBVIOUS
<1>1. /\ phase = "search" /\ phase' = "reset" /\ stack = <<>> /\ pending' = deleteLater
      /\ g' = g /\ start' = start /\ listed' = listed
      /\ stack' = stack /\ visited' = visited /\ deleteLater' = deleteLater
      /\ at' = at /\ pos' = pos /\ hoisted' = hoisted
  BY DEF EndOfSearch, cursor, search
<1>2. Edges(start)
  BY DEF IInv, Common, Complete, Good
<1>3. Members(stack) = {}
  BY <1>1, EmptySeq DEF Members
<1>4. Closed(visited) /\ visited \in SUBSET Blocks
  BY <1>1, <1>2, <1>3, LiveIsClosed DEF IInv, Common, Searching, Closed
<1>5. visited = Live
  BY <1>4 DEF IInv, Common, Live
<1>6. Live' = Live
  BY <1>1, LiveIsFixed
<1>7. Common'
  BY <1>1, <1>6 DEF IInv, Common, Phases
<1>8. CursorOK'
  BY <1>1, CursorWaits DEF IInv, Common, Simplified
<1> QED BY <1>1, <1>5, <1>6, <1>7, <1>8
        DEF IInv, Searching, Found, Resetting, Removing, Gathering, Simplified

\* A reset takes the edges of a block that cannot run.
LEMMA ResetInv == \A b \in Blocks : IInv /\ ResetUnreachable(b) => IInv'
<1> SUFFICES ASSUME NEW b \in Blocks, IInv, ResetUnreachable(b) PROVE IInv'
  OBVIOUS
<1>1. /\ phase = "reset" /\ phase' = phase /\ b \in pending /\ pending' = pending \ {b}
      /\ g' = Reset(g, b) /\ start' = start /\ listed' = listed
      /\ stack' = stack /\ visited' = visited /\ deleteLater' = deleteLater
      /\ at' = at /\ pos' = pos /\ hoisted' = hoisted
  BY DEF ResetUnreachable, cursor, search
<1>2. /\ Good(g', Blocks) /\ g'.branch[b] = NULL
      /\ \A c \in Blocks \ {b} : Flows3(g', c, g.control[c], g.branch[c], g.branchElse[c])
  BY <1>1, ResetFlows DEF IInv, Resetting
<1>3. g' \in Graphs /\ g'.ok
  BY <1>2 DEF Good, Edges
<1>4. Live' = Live /\ Live \subseteq Blocks
  BY <1>1, LiveIsFixed DEF Live
<1>5. ASSUME NEW c \in visited PROVE Settled(start, g', c)
  <2>1. c \in Blocks \ {b}
    BY <1>1, <1>4, <1>5 DEF IInv, Common
  <2> QED BY <1>2, <1>5, <2>1 DEF IInv, Common, Settled, AsGiven, Flows3
<1>6. Common'
  BY <1>1, <1>3, <1>4, <1>5 DEF IInv, Common
<1>7. Resetting'
  BY <1>1, <1>2 DEF IInv, Common, Resetting, Flows3
<1>8. CursorOK'
  BY <1>1, <1>3, CursorWaits DEF IInv, Simplified
<1> QED BY <1>1, <1>4, <1>6, <1>7, <1>8
        DEF IInv, Searching, Found, Removing, Gathering, Simplified

\* All of them are reset before the removals start.
LEMMA EndOfResetsInv == IInv /\ EndOfResets => IInv'
<1> SUFFICES ASSUME IInv, EndOfResets PROVE IInv'
  OBVIOUS
<1>1. /\ phase = "reset" /\ phase' = "remove" /\ pending = {} /\ pending' = deleteLater
      /\ g' = g /\ start' = start /\ listed' = listed
      /\ stack' = stack /\ visited' = visited /\ deleteLater' = deleteLater
      /\ at' = at /\ pos' = pos /\ hoisted' = hoisted
  BY DEF EndOfResets, cursor, search
<1>2. Live' = Live
  BY <1>1, LiveIsFixed
<1>3. Common'
  BY <1>1, <1>2 DEF IInv, Common, Phases
<1>4. CursorOK'
  BY <1>1, CursorWaits DEF IInv, Common, Simplified
<1> QED BY <1>1, <1>2, <1>3, <1>4
        DEF IInv, Common, Searching, Found, Resetting, Removing, Gathering, Simplified

\* A block that can run does not lead to one that cannot, and the others lead nowhere.
LEMMA NothingLeadsThere ==
  ASSUME IInv, phase = "remove", NEW b \in deleteLater
  PROVE  b \in Blocks /\ Removable(g, b)
<1>1. /\ Complete(start) /\ Edges(start) /\ Edges(g) /\ g \in Graphs /\ visited = Live
      /\ b \in Blocks \ visited
  BY DEF IInv, Common, Removing, Found, Complete, Good, Edges
<1>2. Closed(visited) /\ visited \subseteq Blocks
  BY <1>1, LiveIsClosed
<1>3. ASSUME NEW c \in Blocks PROVE b \notin Succ(g, c)
  <2>1. CASE c \in visited
    <3>1. Succ(g, c) = Targets(c)
      BY <1>1, <1>3, <2>1, SettledTargets DEF IInv, Common
    <3> QED BY <1>1, <1>2, <2>1, <3>1 DEF Closed
  <2>2. CASE c \notin visited
    <3>1. g.branch[c] = NULL
      BY <1>3, <2>2 DEF IInv, Common, Removing
    <3> QED BY <1>1, <1>3, <3>1, CfgAssumption DEF Edges, WellShaped, Succ
  <2> QED BY <2>1, <2>2
<1>4. g.in[b] \subseteq Blocks
  BY <1>1, FieldTypes
<1>5. \A c \in Blocks : c \notin g.in[b]
  BY <1>1, <1>3 DEF Edges, InBlocksAreExact
<1> QED BY <1>1, <1>4, <1>5 DEF Removable

\* So remove() succeeds for every one of them, in any order.
LEMMA RemoveInv == \A b \in Blocks : IInv /\ RemoveUnreachable(b) => IInv'
<1> SUFFICES ASSUME NEW b \in Blocks, IInv, RemoveUnreachable(b) PROVE IInv'
  OBVIOUS
<1>1. phase = "remove" /\ b \in pending /\ b \in deleteLater
  BY DEF RemoveUnreachable, IInv, Common
<1>2. Removable(g, b)
  BY <1>1, NothingLeadsThere
<1>3. /\ phase' = phase /\ pending' = pending \ {b}
      /\ g' = RemoveBlock(g, b) /\ start' = start /\ listed' = listed \ {b}
      /\ stack' = stack /\ visited' = visited /\ deleteLater' = deleteLater
      /\ at' = at /\ pos' = pos /\ hoisted' = hoisted
  BY <1>2 DEF RemoveUnreachable, cursor, search
<1>4. Good(g, listed)
  BY <1>1 DEF IInv, Removing
<1>5. Good(g', listed')
  BY <1>2, <1>3, <1>4, GoodIsGoodBut, RemoveGood
<1>6. /\ g'.branch[b] = NULL
      /\ \A c \in Blocks \ {b} : Flows3(g', c, g.control[c], g.branch[c], g.branchElse[c])
  BY <1>3, <1>4, ResetFlows DEF RemoveBlock
<1>7. g' \in Graphs /\ g'.ok
  BY <1>5 DEF Good, Edges
<1>8. Live' = Live /\ Live \subseteq Blocks
  BY <1>3, LiveIsFixed DEF Live
<1>9. ASSUME NEW c \in visited PROVE Settled(start, g', c)
  <2>1. c \in Blocks \ {b}
    BY <1>1, <1>8, <1>9 DEF IInv, Common
  <2> QED BY <1>6, <1>9, <2>1 DEF IInv, Common, Settled, AsGiven, Flows3
<1>10. Common'
  BY <1>1, <1>3, <1>7, <1>8, <1>9 DEF IInv, Common
<1>11. Removing'
  <2>1. listed' = Blocks \ (deleteLater' \ pending')
    BY <1>1, <1>3 DEF IInv, Removing
  <2>2. ASSUME NEW c \in deleteLater' PROVE g'.branch[c] = NULL
    <3>1. c \in deleteLater /\ c \in Blocks /\ g.branch[c] = NULL
      BY <1>1, <1>3, <2>2 DEF IInv, Common, Removing
    <3> QED BY <1>6, <3>1 DEF Flows3
  <2> QED BY <1>5, <2>1, <2>2 DEF Removing
<1>12. CursorOK'
  BY <1>1, <1>3, <1>7, CursorWaits DEF IInv, Simplified
<1> QED BY <1>1, <1>3, <1>8, <1>10, <1>11, <1>12
        DEF IInv, Searching, Found, Resetting, Gathering, Simplified

\* What is listed then is what has been visited.
LEMMA EndOfRemovalsInv == IInv /\ EndOfRemovals => IInv'
<1> SUFFICES ASSUME IInv, EndOfRemovals PROVE IInv'
  OBVIOUS
<1>1. /\ phase = "remove" /\ phase' = "resort" /\ pending = {} /\ pending' = pending
      /\ g' = g /\ start' = start /\ listed' = listed
      /\ stack' = stack /\ visited' = visited /\ deleteLater' = deleteLater
      /\ at' = at /\ pos' = pos /\ hoisted' = hoisted
  BY DEF EndOfRemovals, cursor, search
<1>2. Live' = Live /\ Live \subseteq Blocks
  BY <1>1, LiveIsFixed DEF Live
<1>3. listed = visited
  BY <1>1, <1>2 DEF IInv, Common, Removing
<1>4. Common'
  BY <1>1, <1>2 DEF IInv, Common, Phases
<1>5. CursorOK'
  BY <1>1, CursorWaits DEF IInv, Common, Simplified
<1> QED BY <1>1, <1>2, <1>3, <1>4, <1>5
        DEF IInv, Searching, Found, Resetting, Removing, Gathering, Simplified

(***************************************************************************)
(* The steps of ResortPass.                                                *)
(***************************************************************************)
\* It changes the code only, and the cursor.
LEMMA CodeMoves ==
  ASSUME IInv, phase = "resort", phase' \in {"resort", "done"}, CursorOK',
         g' \in Graphs, g'.ok, g'.control = g.control, g'.branch = g.branch,
         g'.branchElse = g.branchElse, start' = start, listed' = listed,
         stack' = stack, visited' = visited, deleteLater' = deleteLater, pending' = pending
  PROVE  IInv'
<1>1. Live' = Live
  BY LiveIsFixed
<1>2. ASSUME NEW c \in visited PROVE Settled(start, g', c)
  BY <1>2 DEF IInv, Common, Settled, AsGiven, Flows3
<1>3. Common'
  BY <1>1, <1>2 DEF IInv, Common, Phases
<1> QED BY <1>1, <1>3
        DEF IInv, Searching, Found, Resetting, Removing, Gathering, Simplified

\* The entry is the first block of the list and no other is.
LEMMA AtEntry ==
  ASSUME at \in 1 .. Len(Order)
  PROVE  Order[at] \in Blocks /\ (Order[at] = Entry <=> at = 1)
<1>1. DOMAIN Order = 1 .. Len(Order) /\ Len(Order) \in Nat \ {0} /\ 1 \in 1 .. Len(Order)
  BY SimplifyAssumption, EmptySeq, LenProperties
<1>2. Order[at] \in Blocks
  BY SimplifyAssumption, ElementOfSeq
<1> QED BY <1>1, <1>2, SimplifyAssumption DEF Entry

\* A removed block is passed over; the entry is never one.
LEMMA GoneInv == IInv /\ Gone => IInv'
<1> SUFFICES ASSUME IInv, Gone PROVE IInv'
  OBVIOUS
<1>1. /\ phase = "resort" /\ phase' = phase /\ at <= Len(Order) /\ at' = at + 1
      /\ g' = g /\ start' = start /\ listed' = listed
      /\ stack' = stack /\ visited' = visited /\ deleteLater' = deleteLater
      /\ pending' = pending /\ pos' = pos /\ hoisted' = hoisted
  BY DEF Gone, search
<1>2. at' \in 1 .. Len(Order) + 1 /\ at' # 1
  BY <1>1, SimplifyAssumption, LenProperties DEF IInv, CursorOK
<1>3. CursorOK'
  BY <1>1, <1>2 DEF IInv, CursorOK, Simplified
<1> QED BY <1>1, <1>3, CodeMoves DEF IInv, Common

\* Another instruction than an alloca is passed over.
LEMMA PassInv == IInv /\ Pass => IInv'
<1> SUFFICES ASSUME IInv, Pass PROVE IInv'
  OBVIOUS
<1>1. /\ phase = "resort" /\ phase' = phase /\ pos' = pos + 1
      /\ g' = g /\ start' = start /\ listed' = listed
      /\ stack' = stack /\ visited' = visited /\ deleteLater' = deleteLater
      /\ pending' = pending /\ at' = at /\ hoisted' = hoisted
  BY DEF Pass, AtInstruction, search
<1>2. CursorOK'
  BY <1>1 DEF IInv, CursorOK, Simplified
<1> QED BY <1>1, <1>2, CodeMoves DEF IInv, Common

\* An alloca moves to a place before the cursor that the entry has.
LEMMA HoistInv == IInv /\ Hoist => IInv'
<1> SUFFICES ASSUME IInv, Hoist PROVE IInv'
  OBVIOUS
<1> DEFINE b == Order[at]
           i == g.code[b][pos]
           f == [g.code EXCEPT ![b] = RemoveAt(@, pos)]
           h == [g EXCEPT !.code = f]
           k == [f EXCEPT ![Entry] = InsertAt(@, hoisted + 1, i)]
<1>1. /\ phase = "resort" /\ phase' = phase /\ at <= Len(Order) /\ pos <= Len(g.code[b])
      /\ g' = [[g EXCEPT !.code[b] = RemoveAt(@, pos)]
                  EXCEPT !.code[Entry] = InsertAt(@, hoisted + 1, i)]
      /\ pos' = (IF b = Entry THEN pos + 1 ELSE pos) /\ hoisted' = hoisted + 1
      /\ start' = start /\ listed' = listed
      /\ stack' = stack /\ visited' = visited /\ deleteLater' = deleteLater
      /\ pending' = pending /\ at' = at
  BY DEF Hoist, AtInstruction, search
<1>2. /\ g \in Graphs /\ g.ok /\ pos \in Nat \ {0} /\ hoisted \in Nat
      /\ at \in 1 .. Len(Order)
      /\ hoisted <= Len(g.code[Entry]) /\ (at = 1 => hoisted < pos)
  BY <1>1, SimplifyAssumption, LenProperties DEF IInv, Common, CursorOK
<1>3. b \in Blocks /\ Entry \in Blocks /\ (b = Entry <=> at = 1)
  BY <1>2, AtEntry, EntryIsABlock
<1>4. /\ g.code \in [Blocks -> Seq(Insts)] /\ g.code[b] \in Seq(Insts)
      /\ g.code[Entry] \in Seq(Insts)
      /\ Len(g.code[b]) \in Nat /\ Len(g.code[Entry]) \in Nat
  BY <1>2, <1>3, FieldTypes, LenProperties
<1>5. pos \in 1 .. Len(g.code[b])
  BY <1>1, <1>2, <1>4
<1>6. /\ i \in Insts
      /\ RemoveAt(g.code[b], pos) \in Seq(Insts)
      /\ Len(RemoveAt(g.code[b], pos)) = Len(g.code[b]) - 1
  BY <1>4, <1>5, ElementOfSeq, RemoveAtIs
<1> HIDE DEF b, i
<1>7. /\ f \in [Blocks -> Seq(Insts)] /\ f[Entry] \in Seq(Insts)
      /\ f[Entry] = IF b = Entry THEN RemoveAt(g.code[b], pos) ELSE g.code[Entry]
  BY <1>3, <1>4, <1>6
<1>8. Len(f[Entry]) \in Nat /\ hoisted <= Len(f[Entry])
  <2>1. CASE b = Entry
    <3>1. Len(f[Entry]) = Len(g.code[b]) - 1 /\ hoisted < pos
      BY <1>2, <1>3, <1>6, <1>7, <2>1
    <3> QED BY <1>2, <1>4, <1>5, <3>1
  <2>2. CASE b # Entry
    BY <1>2, <1>4, <1>7, <2>2
  <2> QED BY <2>1, <2>2
<1> HIDE DEF f
<1>9. hoisted + 1 \in 1 .. Len(f[Entry]) + 1
  BY <1>2, <1>8
<1>10. /\ InsertAt(f[Entry], hoisted + 1, i) \in Seq(Insts)
       /\ Len(InsertAt(f[Entry], hoisted + 1, i)) = Len(f[Entry]) + 1
  BY <1>6, <1>7, <1>9, InsertAtIs
<1>11. /\ k \in [Blocks -> Seq(Insts)] /\ Len(k[Entry]) = Len(f[Entry]) + 1
  BY <1>3, <1>7, <1>10
<1>12. Has(g, g.code, g.control, g.branch, g.branchElse, g.in, g.void, g.ok)
  BY <1>2, FieldTypes
<1>13. Has(h, f, g.control, g.branch, g.branchElse, g.in, g.void, g.ok)
  BY <1>7, <1>12, CodeFields
<1>14. Has([h EXCEPT !.code = k], k, g.control, g.branch, g.branchElse, g.in, g.void, g.ok)
  BY <1>11, <1>13, CodeFields
<1>15. g' = [h EXCEPT !.code = k]
  BY <1>1, <1>2 DEF f, Graphs
<1> HIDE DEF h, k
<1>16. /\ g' \in Graphs /\ g'.ok /\ g'.code = k /\ g'.control = g.control
       /\ g'.branch = g.branch /\ g'.branchElse = g.branchElse
  BY <1>2, <1>14, <1>15 DEF Has
<1>17. hoisted' <= Len(g'.code[Entry])
  <2>1. hoisted' = hoisted + 1 /\ Len(g'.code[Entry]) = Len(f[Entry]) + 1
    BY <1>1, <1>11, <1>16
  <2>2. PICK n \in Nat : n = Len(f[Entry])
    BY <1>8
  <2>3. hoisted + 1 <= n + 1
    BY <1>2, <1>8, <2>2
  <2> QED BY <2>1, <2>2, <2>3
<1>18. pos' \in Nat \ {0} /\ hoisted' \in Nat /\ (at' = 1 => hoisted' < pos')
  BY <1>1, <1>2, <1>3
<1>19. CursorOK'
  BY <1>1, <1>17, <1>18 DEF IInv, CursorOK, Simplified
<1> QED BY <1>1, <1>16, <1>19, CodeMoves

\* No block is an orphan or incomplete, so the end of a block changes nothing.
LEMMA EndOfBlockInv == IInv /\ EndOfBlock => IInv'
<1> SUFFICES ASSUME IInv, EndOfBlock PROVE IInv'
  OBVIOUS
<1> DEFINE b == Order[at]
<1>1. /\ phase = "resort" /\ phase' = phase /\ at <= Len(Order) /\ b \in listed
      /\ at' = at + 1 /\ pos' = 1 /\ hoisted' = hoisted /\ start' = start
      /\ stack' = stack /\ visited' = visited /\ deleteLater' = deleteLater
      /\ pending' = pending
  BY DEF EndOfBlock, search
<1>2. b \in Blocks /\ Settled(start, g, b) /\ Complete(start)
  BY <1>1 DEF IInv, Common, Gathering, Simplified
<1>3. g.branch[b] # NULL
  BY <1>2, SettledTargets
<1>4. ~ IsOrphan(g, b) /\ TryMarkAsTerminal(g, b, FALSE) = g
  BY <1>3 DEF IsOrphan, TryMarkAsTerminal, MarkReturns, IsIncomplete
<1>5. g' = g /\ listed' = listed
  BY <1>4 DEF EndOfBlock
<1>6. at' \in 1 .. Len(Order) + 1 /\ at' # 1
  BY <1>1, SimplifyAssumption, LenProperties DEF IInv, CursorOK
<1>7. CursorOK'
  BY <1>1, <1>5, <1>6 DEF IInv, CursorOK, Simplified
<1> QED BY <1>1, <1>5, <1>7, CodeMoves DEF IInv, Common

\* The end of the list is the end of the pass.
LEMMA DoneInv == IInv /\ Done => IInv'
<1> SUFFICES ASSUME IInv, Done PROVE IInv'
  OBVIOUS
<1>1. /\ phase = "resort" /\ phase' = "done"
      /\ g' = g /\ start' = start /\ listed' = listed
      /\ stack' = stack /\ visited' = visited /\ deleteLater' = deleteLater
      /\ pending' = pending /\ at' = at /\ pos' = pos /\ hoisted' = hoisted
  BY DEF Done, search, cursor
<1>2. CursorOK'
  BY <1>1 DEF IInv, CursorOK, Simplified
<1> QED BY <1>1, <1>2, CodeMoves DEF IInv, Common

(***************************************************************************)
(* The blocks that stay.                                                   *)
(***************************************************************************)
\* Every step of both passes keeps the invariant.
LEMMA NextInv == IInv /\ [Next]_vars => IInv'
<1> SUFFICES ASSUME IInv, [Next]_vars PROVE IInv'
  OBVIOUS
<1>1. CASE UNCHANGED vars
  <2>1. /\ g' = g /\ start' = start /\ listed' = listed /\ phase' = phase
        /\ stack' = stack /\ visited' = visited /\ deleteLater' = deleteLater
        /\ pending' = pending /\ at' = at /\ pos' = pos /\ hoisted' = hoisted
    BY <1>1 DEF vars, search, cursor
  <2>2. Live' = Live /\ \A b : Targets(b)' = Targets(b)
    BY <2>1, LiveIsFixed
  <2> QED BY <2>1, <2>2
          DEF IInv, Common, Searching, Found, Resetting, Removing, Gathering, CursorOK,
              Simplified
<1> QED BY <1>1, SkipInv, VisitInv, EndOfSearchInv, ResetInv, EndOfResetsInv, RemoveInv,
           EndOfRemovalsInv, GoneInv, PassInv, HoistInv, EndOfBlockInv, DoneInv DEF Next

\* For any function the passes leave exactly the blocks that can run, and no
\* assertion fails on the way, in whatever order the set of blocks is walked.
THEOREM OnlyLiveBlocksRemain == Spec => []OnlyLiveRemain
BY InitInv, NextInv, InvSuffices, PTL DEF Spec

\* For any function the blocks that stay lead where they led.
THEOREM FlowIsKept == Spec => []FlowKept
BY InitInv, NextInv, InvSuffices, PTL DEF Spec

(***************************************************************************)
(* Sequences put together.                                                 *)
(***************************************************************************)
\* A set with 0 and with every successor of its numbers has every number.
LEMMA AllNumbers ==
  ASSUME NEW T, 0 \in T, \A n \in Nat : n \in T => n + 1 \in T
  PROVE  Nat \subseteq T
<1> SUFFICES ASSUME Nat \ T # {} PROVE FALSE
  OBVIOUS
<1> DEFINE R == OpToRel(<, Nat)
<1>1. PICK x \in Nat \ T : \A y \in Nat \ T : ~(<<y, x>> \in R)
  <2>1. IsWellFoundedOn(R, Nat)
    BY NatLessThanWellFounded
  <2> HIDE DEF R
  <2> QED BY <2>1, WFMin
<1>2. ASSUME NEW y \in Nat \ T PROVE ~(y < x)
  BY <1>1, Zenon DEF OpToRel
<1>3. x # 0
  OBVIOUS
<1>4. x - 1 \in Nat /\ x - 1 < x /\ (x - 1) + 1 = x
  BY <1>3
<1>5. x - 1 \in T
  BY <1>2, <1>4
<1> QED BY <1>4, <1>5

\* f puts the first n of s together.
JoinsUpTo(f, s, n) == f = [i \in 0 .. n |-> IF i = 0 THEN <<>> ELSE f[i - 1] \o s[i]]

\* What Joined's recursion builds exists for every n.
LEMMA JoinsExist ==
  ASSUME NEW s
  PROVE  \A n \in Nat : \E f : JoinsUpTo(f, s, n)
<1> DEFINE T == {n \in Nat : \E f : JoinsUpTo(f, s, n)}
<1>1. 0 \in T
  <2> DEFINE f == [i \in 0 .. 0 |-> <<>>]
  <2>1. JoinsUpTo(f, s, 0)
    BY DEF JoinsUpTo
  <2> QED BY <2>1
<1>2. ASSUME NEW n \in Nat, n \in T PROVE n + 1 \in T
  <2>1. PICK f : JoinsUpTo(f, s, n)
    BY <1>2
  <2> DEFINE e == f[n] \o s[n + 1]
             h == [i \in 0 .. (n + 1) |-> IF i = n + 1 THEN e ELSE f[i]]
  <2>2. ASSUME NEW i \in 0 .. n PROVE f[i] = IF i = 0 THEN <<>> ELSE f[i - 1] \o s[i]
    BY <2>1, Zenon DEF JoinsUpTo
  <2> HIDE DEF e
  <2>3. h[n + 1] = e /\ n + 1 # 0 /\ (n + 1) - 1 = n /\ n \in 0 .. n
    OBVIOUS
  <2>4. \A i \in 0 .. n : h[i] = f[i]
    OBVIOUS
  <2>5. ASSUME NEW i \in 0 .. (n + 1)
        PROVE  h[i] = IF i = 0 THEN <<>> ELSE h[i - 1] \o s[i]
    <3>1. CASE i = n + 1
      <4>1. i - 1 = n /\ h[n] = f[n] /\ i # 0
        BY <2>3, <2>4, <3>1
      <4> HIDE DEF h
      <4> QED BY <2>3, <3>1, <4>1 DEF e
    <3>2. CASE i # n + 1
      <4>1. i \in 0 .. n
        BY <3>2
      <4>2. i # 0 => i - 1 \in 0 .. n
        BY <4>1
      <4> HIDE DEF h
      <4> QED BY <2>2, <2>4, <4>1, <4>2
    <3> QED BY <3>1, <3>2
  <2>6. h = [i \in 0 .. (n + 1) |-> h[i]]
    OBVIOUS
  <2> HIDE DEF h
  <2>7. h = [i \in 0 .. (n + 1) |-> IF i = 0 THEN <<>> ELSE h[i - 1] \o s[i]]
    BY <2>5, <2>6, Zenon
  <2>8. JoinsUpTo(h, s, n + 1)
    BY <2>7 DEF JoinsUpTo
  <2> QED BY <2>8
<1>3. Nat \subseteq T
  <2> HIDE DEF T
  <2> QED BY <1>1, <1>2, AllNumbers
<1> QED BY <1>3

\* So Joined starts empty and each s[n] is added at the end.
LEMMA JoinedIs ==
  ASSUME NEW n \in Nat, NEW s, DOMAIN s = 1 .. n
  PROVE  /\ Joined(s)[0] = <<>>
         /\ \A i \in 1 .. n : Joined(s)[i] = Joined(s)[i - 1] \o s[i]
<1>1. 0 .. n = {0} \cup DOMAIN s
  OBVIOUS
<1>2. \E f : f = [i \in {0} \cup DOMAIN s |-> IF i = 0 THEN <<>> ELSE f[i - 1] \o s[i]]
  <2>1. PICK f : JoinsUpTo(f, s, n)
    BY JoinsExist
  <2>2. f = [i \in {0} \cup DOMAIN s |-> IF i = 0 THEN <<>> ELSE f[i - 1] \o s[i]]
    BY <1>1, <2>1, Zenon DEF JoinsUpTo
  <2> QED BY <2>2
<1>3. JoinsUpTo(Joined(s), s, n)
  BY <1>1, <1>2, Zenon DEF Joined, JoinsUpTo
<1>4. ASSUME NEW i \in 0 .. n
      PROVE  Joined(s)[i] = IF i = 0 THEN <<>> ELSE Joined(s)[i - 1] \o s[i]
  BY <1>3, Zenon DEF JoinsUpTo
<1>5. 0 \in 0 .. n /\ \A i \in 1 .. n : i \in 0 .. n /\ i # 0
  OBVIOUS
<1> QED BY <1>4, <1>5

\* Sequences over one set put together are a sequence over it.
LEMMA JoinedType ==
  ASSUME NEW n \in Nat, NEW S, NEW s \in [1 .. n -> Seq(S)]
  PROVE  \A i \in 0 .. n : Joined(s)[i] \in Seq(S)
<1> DEFINE T == {i \in Nat : i <= n => Joined(s)[i] \in Seq(S)}
<1>1. DOMAIN s = 1 .. n
  OBVIOUS
<1>2. 0 \in T
  BY <1>1, JoinedIs, EmptySeq
<1>3. ASSUME NEW i \in Nat, i \in T PROVE i + 1 \in T
  <2>1. CASE i + 1 <= n
    <3>1. i + 1 \in 1 .. n /\ (i + 1) - 1 = i /\ i <= n
      BY <2>1
    <3>2. Joined(s)[i] \in Seq(S) /\ s[i + 1] \in Seq(S)
      BY <1>3, <3>1
    <3>3. Joined(s)[i + 1] = Joined(s)[i] \o s[i + 1]
      BY <1>1, <3>1, JoinedIs
    <3>4. Joined(s)[i + 1] \in Seq(S)
      BY <3>2, <3>3, ConcatProperties
    <3> QED BY <3>4
  <2> QED BY <2>1
<1>4. Nat \subseteq T
  <2> HIDE DEF T
  <2> QED BY <1>2, <1>3, AllNumbers
<1> QED BY <1>4

\* Choosing from the instructions of a body goes over them one by one.
LEMMA AmongIs ==
  ASSUME NEW s \in Seq(Insts), NEW S
  PROVE  /\ Among(s, S)[0] = <<>>
         /\ \A k \in 0 .. Len(s) : Among(s, S)[k] \in Seq(Insts)
         /\ \A k \in 1 .. Len(s) :
              Among(s, S)[k] = IF s[k] \in S THEN Among(s, S)[k - 1] \o <<s[k]>>
                               ELSE Among(s, S)[k - 1]
<1> DEFINE e == [i \in 1 .. Len(s) |-> IF s[i] \in S THEN <<s[i]>> ELSE <<>>]
<1>1. Len(s) \in Nat /\ \A k \in 1 .. Len(s) : s[k] \in Insts
  BY LenProperties, ElementOfSeq
<1>2. PICK n \in Nat : n = Len(s)
  BY <1>1
<1>3. e \in [1 .. n -> Seq(Insts)] /\ DOMAIN e = 1 .. n
  BY <1>1, <1>2
<1>4. \A k \in 1 .. n : e[k] = IF s[k] \in S THEN <<s[k]>> ELSE <<>>
  BY <1>2
<1>5. Among(s, S) = Joined(e)
  BY DEF Among
<1> HIDE DEF e
<1>6. Joined(e)[0] = <<>> /\ \A k \in 1 .. n : Joined(e)[k] = Joined(e)[k - 1] \o e[k]
  BY <1>3, JoinedIs
<1>7. \A k \in 0 .. n : Joined(e)[k] \in Seq(Insts)
  BY <1>3, JoinedType
<1>8. ASSUME NEW k \in 1 .. n
      PROVE  Joined(e)[k] = IF s[k] \in S THEN Joined(e)[k - 1] \o <<s[k]>> ELSE Joined(e)[k - 1]
  <2>1. k - 1 \in 0 .. n
    OBVIOUS
  <2>2. Joined(e)[k - 1] \in Seq(Insts)
    BY <1>7, <2>1
  <2>3. Joined(e)[k - 1] \o <<>> = Joined(e)[k - 1]
    BY <2>2, ConcatEmptySeq
  <2>4. CASE s[k] \in S
    BY <1>4, <1>6, <2>4
  <2>5. CASE s[k] \notin S
    BY <1>4, <1>6, <2>3, <2>5
  <2> QED BY <2>4, <2>5
<1> QED BY <1>2, <1>5, <1>6, <1>7, <1>8

\* The allocas of a body and its other instructions, up to the k-th.
Lifted(b) == Among(Body[b], AllocaOps)
Kept(b)   == Among(Body[b], Ops \ AllocaOps)

\* Each instruction of a body is one or the other.
LEMMA BodyIs ==
  ASSUME NEW b \in Blocks
  PROVE  /\ Body[b] \in Seq(Insts) /\ Len(Body[b]) \in Nat
         /\ \A k \in 1 .. Len(Body[b]) : Body[b][k] \in Insts /\ Body[b][k].id = "Op"
         /\ Lifted(b)[0] = <<>> /\ Kept(b)[0] = <<>>
         /\ \A k \in 0 .. Len(Body[b]) : Lifted(b)[k] \in Seq(Insts) /\ Kept(b)[k] \in Seq(Insts)
         /\ \A k \in 1 .. Len(Body[b]) :
              IF IsAlloca(Body[b][k])
              THEN Lifted(b)[k] = Lifted(b)[k - 1] \o <<Body[b][k]>> /\ Kept(b)[k] = Kept(b)[k - 1]
              ELSE Kept(b)[k] = Kept(b)[k - 1] \o <<Body[b][k]>> /\ Lifted(b)[k] = Lifted(b)[k - 1]
<1>1. Ops \subseteq Insts /\ \A o \in Ops : o.id = "Op"
  BY DEF Ops, Op, Insts
<1>2. Body[b] \in Seq(Ops)
  BY SimplifyAssumption
<1>3. Body[b] \in Seq(Insts) /\ Len(Body[b]) \in Nat
  BY <1>1, <1>2, SeqMonotonic, LenProperties
<1>4. \A k \in 1 .. Len(Body[b]) : Body[b][k] \in Ops
  BY <1>2, ElementOfSeq
<1>5. \A k \in 1 .. Len(Body[b]) : /\ Body[b][k] \in AllocaOps <=> IsAlloca(Body[b][k])
                                   /\ Body[b][k] \in Ops \ AllocaOps <=> ~ IsAlloca(Body[b][k])
  BY <1>4 DEF AllocaOps
<1>6. /\ Lifted(b)[0] = <<>>
      /\ \A k \in 0 .. Len(Body[b]) : Lifted(b)[k] \in Seq(Insts)
      /\ \A k \in 1 .. Len(Body[b]) :
           Lifted(b)[k] = IF Body[b][k] \in AllocaOps THEN Lifted(b)[k - 1] \o <<Body[b][k]>>
                          ELSE Lifted(b)[k - 1]
  BY <1>3, AmongIs DEF Lifted
<1>7. /\ Kept(b)[0] = <<>>
      /\ \A k \in 0 .. Len(Body[b]) : Kept(b)[k] \in Seq(Insts)
      /\ \A k \in 1 .. Len(Body[b]) :
           Kept(b)[k] = IF Body[b][k] \in Ops \ AllocaOps THEN Kept(b)[k - 1] \o <<Body[b][k]>>
                        ELSE Kept(b)[k - 1]
  BY <1>3, AmongIs DEF Kept
<1> QED BY <1>1, <1>3, <1>4, <1>5, <1>6, <1>7

\* Gathered goes over the blocks one by one.
LEMMA GatheredIs ==
  ASSUME NEW L
  PROVE  /\ Gathered(L)[0] = <<>>
         /\ \A n \in 0 .. Len(Order) : Gathered(L)[n] \in Seq(Insts)
         /\ \A n \in 1 .. Len(Order) :
              Gathered(L)[n] = IF Order[n] \in L
                            THEN Gathered(L)[n - 1] \o Lifted(Order[n])[Len(Body[Order[n]])]
                            ELSE Gathered(L)[n - 1]
<1> DEFINE e == [n \in 1 .. Len(Order) |->
                   IF Order[n] \in L THEN AllocasOf(Order[n]) ELSE <<>>]
<1>1. PICK m \in Nat : m = Len(Order)
  BY SimplifyAssumption, LenProperties
<1>2. ASSUME NEW n \in 1 .. m
      PROVE  AllocasOf(Order[n]) = Lifted(Order[n])[Len(Body[Order[n]])]
             /\ AllocasOf(Order[n]) \in Seq(Insts)
  <2>1. Order[n] \in Blocks
    BY <1>1, SimplifyAssumption, ElementOfSeq
  <2>2. Len(Body[Order[n]]) \in 0 .. Len(Body[Order[n]])
    BY <2>1, BodyIs
  <2>3. AllocasOf(Order[n]) = Lifted(Order[n])[Len(Body[Order[n]])]
    BY DEF AllocasOf, Lifted
  <2> QED BY <2>1, <2>2, <2>3, BodyIs
<1>3. \A n \in 1 .. m : e[n] = IF Order[n] \in L THEN AllocasOf(Order[n]) ELSE <<>>
  BY <1>1
<1>4. e \in [1 .. m -> Seq(Insts)] /\ DOMAIN e = 1 .. m
  BY <1>1, <1>2
<1>5. Gathered(L) = Joined(e)
  BY DEF Gathered
<1> HIDE DEF e
<1>6. Joined(e)[0] = <<>> /\ \A n \in 1 .. m : Joined(e)[n] = Joined(e)[n - 1] \o e[n]
  BY <1>4, JoinedIs
<1>7. \A n \in 0 .. m : Joined(e)[n] \in Seq(Insts)
  BY <1>4, JoinedType
<1>8. ASSUME NEW n \in 1 .. m
      PROVE  Joined(e)[n] = IF Order[n] \in L
                            THEN Joined(e)[n - 1] \o Lifted(Order[n])[Len(Body[Order[n]])]
                            ELSE Joined(e)[n - 1]
  <2>1. n - 1 \in 0 .. m
    OBVIOUS
  <2>2. Joined(e)[n - 1] \in Seq(Insts)
    BY <1>7, <2>1
  <2>3. Joined(e)[n - 1] \o <<>> = Joined(e)[n - 1]
    BY <2>2, ConcatEmptySeq
  <2>4. CASE Order[n] \in L
    BY <1>2, <1>3, <1>6, <2>4
  <2>5. CASE Order[n] \notin L
    BY <1>3, <1>6, <2>3, <2>5
  <2> QED BY <2>4, <2>5
<1> QED BY <1>1, <1>5, <1>6, <1>7, <1>8

\* A piece of a sequence.
LEMMA PieceIs ==
  ASSUME NEW S, NEW s \in Seq(S), NEW l \in Nat, NEW h \in Nat, 1 <= l, l <= h + 1, h <= Len(s)
  PROVE  /\ SubSeq(s, l, h) \in Seq(S) /\ Len(SubSeq(s, l, h)) = h - l + 1
         /\ \A i \in 1 .. (h - l + 1) : SubSeq(s, l, h)[i] = s[l + i - 1]
<1>1. Len(s) \in Nat /\ \A i \in 1 .. Len(s) : s[i] \in S
  BY LenProperties, ElementOfSeq
<1>2. \A i \in l .. h : s[i] \in S
  <2>1. \A i \in l .. h : i \in 1 .. Len(s)
    BY <1>1
  <2> QED BY <1>1, <2>1
<1>3. /\ SubSeq(s, l, h) \in Seq(S)
      /\ Len(SubSeq(s, l, h)) = IF l <= h THEN h - l + 1 ELSE 0
      /\ \A i \in 1 .. h - l + 1 : SubSeq(s, l, h)[i] = s[l + i - 1]
  <2>1. l \in Int /\ h \in Int
    OBVIOUS
  <2> QED BY <1>2, <2>1, SubSeqProperties
<1>4. (IF l <= h THEN h - l + 1 ELSE 0) = h - l + 1
  OBVIOUS
<1> QED BY <1>3, <1>4

\* Two sequences put together can be taken apart again.
LEMMA ConcatApart ==
  ASSUME NEW S, NEW p \in Seq(S), NEW q \in Seq(S)
  PROVE  /\ Len(p) \in Nat /\ Len(q) \in Nat
         /\ SubSeq(p \o q, 1, Len(p)) = p
         /\ SubSeq(p \o q, Len(p) + 1, Len(p) + Len(q)) = q
<1>1. PICK m \in Nat, n \in Nat : m = Len(p) /\ n = Len(q)
  BY LenProperties
<1> DEFINE s == p \o q
<1>2. /\ s \in Seq(S) /\ Len(s) = Len(p) + Len(q)
      /\ \A i \in 1 .. Len(p) + Len(q) : s[i] = IF i <= Len(p) THEN p[i] ELSE q[i - Len(p)]
  BY ConcatProperties
<1> HIDE DEF s
<1>3. Len(s) = m + n /\ \A i \in 1 .. m + n : s[i] = IF i <= m THEN p[i] ELSE q[i - m]
  BY <1>1, <1>2
<1> DEFINE a == SubSeq(s, 1, m)
           b == SubSeq(s, m + 1, m + n)
<1>4. a = p
  <2>1. a \in Seq(S) /\ Len(a) = m - 1 + 1 /\ \A i \in 1 .. (m - 1 + 1) : a[i] = s[1 + i - 1]
    BY <1>2, <1>3, PieceIs
  <2>2. \A i \in 1 .. m : a[i] = p[i]
    BY <1>3, <2>1
  <2> HIDE DEF a
  <2>3. Len(a) = Len(p) /\ \A i \in 1 .. Len(a) : a[i] = p[i]
    BY <1>1, <2>1, <2>2
  <2> QED BY <2>1, <2>3, SeqEqual
<1>5. b = q
  <2>1. /\ b \in Seq(S) /\ Len(b) = (m + n) - (m + 1) + 1
        /\ \A i \in 1 .. ((m + n) - (m + 1) + 1) : b[i] = s[(m + 1) + i - 1]
    BY <1>2, <1>3, PieceIs
  <2>2. (m + n) - (m + 1) + 1 = n
    OBVIOUS
  <2>3. ASSUME NEW i \in 1 .. n PROVE b[i] = q[i]
    <3>1. (m + 1) + i - 1 \in 1 .. (m + n) /\ ~((m + 1) + i - 1 <= m) /\ ((m + 1) + i - 1) - m = i
      OBVIOUS
    <3>2. b[i] = s[(m + 1) + i - 1]
      BY <2>1, <2>2
    <3> QED BY <1>3, <3>1, <3>2
  <2> HIDE DEF b
  <2>4. Len(b) = Len(q) /\ \A i \in 1 .. Len(b) : b[i] = q[i]
    BY <1>1, <2>1, <2>2, <2>3
  <2> QED BY <2>1, <2>4, SeqEqual
<1> QED BY <1>1, <1>4, <1>5 DEF s

\* The cursor's place: what lies before it, the instruction, and what follows.
Splits(S, s, p, e, q) == /\ s \in Seq(S) /\ Len(s) = Len(p) + 1 + Len(q)
                         /\ Len(p) + 1 \in 1 .. Len(s) /\ s[Len(p) + 1] = e
                         /\ RemoveAt(s, Len(p) + 1) = p \o q

\* The instruction there is e, and without it the two pieces are left.
LEMMA SplitCode ==
  ASSUME NEW S, NEW p \in Seq(S), NEW e \in S, NEW q \in Seq(S)
  PROVE  Splits(S, p \o (<<e>> \o q), p, e, q)
<1>1. PICK m \in Nat, n \in Nat : m = Len(p) /\ n = Len(q)
  BY LenProperties
<1> DEFINE r == <<e>> \o q
           s == p \o r
           t == p \o <<e>>
<1>2. <<e>> \in Seq(S) /\ Len(<<e>>) = 1 /\ <<e>>[1] = e
  OBVIOUS
<1>3. r \in Seq(S) /\ Len(r) = 1 + n /\ r[1] = e
  <2>1. /\ r \in Seq(S) /\ Len(r) = Len(<<e>>) + Len(q)
        /\ \A i \in 1 .. Len(<<e>>) + Len(q) :
              r[i] = IF i <= Len(<<e>>) THEN <<e>>[i] ELSE q[i - Len(<<e>>)]
    BY <1>2, ConcatProperties
  <2> HIDE DEF r
  <2>2. 1 \in 1 .. 1 + n /\ Len(<<e>>) + Len(q) = 1 + n
    BY <1>1, <1>2
  <2> QED BY <1>1, <1>2, <2>1, <2>2
<1>4. t \in Seq(S) /\ Len(t) = m + 1 /\ s = t \o q
  <2>1. t \in Seq(S) /\ Len(t) = Len(p) + Len(<<e>>)
    BY <1>2, ConcatProperties
  <2>2. s = t \o q
    BY <1>2, ConcatAssociative
  <2> QED BY <1>1, <1>2, <2>1, <2>2
<1>5. s \in Seq(S) /\ Len(s) = m + (1 + n) /\ s[m + 1] = e
  <2>1. /\ s \in Seq(S) /\ Len(s) = Len(p) + Len(r)
        /\ \A i \in 1 .. Len(p) + Len(r) : s[i] = IF i <= Len(p) THEN p[i] ELSE r[i - Len(p)]
    BY <1>3, ConcatProperties
  <2> HIDE DEF s, r
  <2>2. m + 1 \in 1 .. m + (1 + n) /\ ~(m + 1 <= m) /\ (m + 1) - m = 1
    OBVIOUS
  <2>3. Len(p) + Len(r) = m + (1 + n)
    BY <1>1, <1>3
  <2> QED BY <1>1, <1>3, <2>1, <2>2, <2>3
<1>6. SubSeq(s, 1, m) = p
  BY <1>1, <1>3, ConcatApart
<1>7. SubSeq(s, (m + 1) + 1, (m + 1) + n) = q
  <2> HIDE DEF s, t
  <2>1. SubSeq(t \o q, Len(t) + 1, Len(t) + Len(q)) = q
    BY <1>4, ConcatApart
  <2> QED BY <1>1, <1>4, <2>1
<1> HIDE DEF s, r, t
<1>8. RemoveAt(s, m + 1) = p \o q
  <2>1. (m + 1) - 1 = m /\ Len(s) = (m + 1) + n
    BY <1>5
  <2> QED BY <1>6, <1>7, <2>1 DEF RemoveAt
<1>9. /\ s \in Seq(S) /\ Len(s) = Len(p) + 1 + Len(q)
      /\ Len(p) + 1 \in 1 .. Len(s) /\ s[Len(p) + 1] = e
      /\ RemoveAt(s, Len(p) + 1) = p \o q
  <2>1. m + (1 + n) = m + 1 + n /\ m + 1 \in 1 .. m + (1 + n)
    OBVIOUS
  <2> QED BY <1>1, <1>5, <1>8, <2>1
<1> QED BY <1>9 DEF s, r, Splits

\* An instruction put in at the place after p.
Joins(p, e, q) == InsertAt(p \o q, Len(p) + 1, e) = (p \o <<e>>) \o q

\* It is the last of the first piece then.
LEMMA JoinCode ==
  ASSUME NEW S, NEW p \in Seq(S), NEW e \in S, NEW q \in Seq(S)
  PROVE  Joins(p, e, q)
<1>1. PICK m \in Nat, n \in Nat : m = Len(p) /\ n = Len(q)
  BY LenProperties
<1>2. p \o q \in Seq(S) /\ Len(p \o q) = m + n
  BY <1>1, ConcatProperties
<1>3. SubSeq(p \o q, 1, m) = p /\ SubSeq(p \o q, m + 1, m + n) = q
  <2>1. SubSeq(p \o q, 1, Len(p)) = p /\ SubSeq(p \o q, Len(p) + 1, Len(p) + Len(q)) = q
    BY ConcatApart, ZenonT(40)
  <2> QED BY <1>1, <2>1, Zenon
<1>4. (m + 1) - 1 = m
  OBVIOUS
<1> QED BY <1>1, <1>2, <1>3, <1>4 DEF InsertAt, Joins

(***************************************************************************)
(* Where the instructions are while ResortPass runs.  It has come to the   *)
(* a-th block of the list, to index p of its code, and has moved h allocas;*)
(* k counts the instructions of that block's body it has gone over.        *)
(***************************************************************************)
\* In gr block b holds s and a terminator.
Holds(gr, b, s) == \E t \in Insts : t.id # "Op" /\ gr.code[b] = s \o <<t>>

\* What is left of the body of b after k instructions; the body without the
\* allocas among them.
Rest(b, k) == SubSeq(Body[b], k + 1, Len(Body[b]))
Laid(b, k) == Kept(b)[k] \o Rest(b, k)

\* The allocas at the head of the entry.
Scans(L, a) == a <= Len(Order) /\ Order[a] \in L
HeadAt(L, a, k) == IF Scans(L, a) THEN Gathered(L)[a - 1] \o Lifted(Order[a])[k]
                   ELSE Gathered(L)[a - 1]
Before(L, a, k, n) == IF n = 1 THEN HeadAt(L, a, k) ELSE <<>>

\* How much of the n-th block has been gone over.
Scanned(a, k, n) == IF n < a THEN Len(Body[Order[n]]) ELSE IF n = a THEN k ELSE 0

\* The cursor is at the instruction after the k-th, or past the terminator.
Cursor(L, a, p, k) ==
  IF Scans(L, a)
  THEN LET b == Order[a]
           before == Len(Before(L, a, k, a)) + Len(Kept(b)[k])
       IN  /\ k \in 0 .. Len(Body[b])
           /\ p = before + 1 \/ (k = Len(Body[b]) /\ p = before + 2)
  ELSE k = 0 /\ p = 1

Moved(gr, L, a, p, h, k) ==
  /\ Cursor(L, a, p, k) /\ h = Len(HeadAt(L, a, k))
  /\ \A n \in 1 .. Len(Order) : Order[n] \in L =>
       Holds(gr, Order[n], Before(L, a, k, n) \o Laid(Order[n], Scanned(a, k, n)))

\* The rest of a body, instruction by instruction.
LEMMA RestIs ==
  ASSUME NEW b \in Blocks
  PROVE  /\ \A k \in 0 .. Len(Body[b]) : Rest(b, k) \in Seq(Insts)
         /\ \A k \in 0 .. Len(Body[b]) : k < Len(Body[b]) =>
              /\ k + 1 \in 1 .. Len(Body[b])
              /\ Rest(b, k) = <<Body[b][k + 1]>> \o Rest(b, k + 1)
         /\ Rest(b, 0) = Body[b] /\ Rest(b, Len(Body[b])) = <<>>
<1>1. PICK n \in Nat : n = Len(Body[b]) /\ Body[b] \in Seq(Insts)
  BY BodyIs
<1>2. ASSUME NEW k \in 0 .. n PROVE Rest(b, k) \in Seq(Insts)
  <2>1. 1 <= k + 1 /\ k + 1 <= n + 1 /\ n <= Len(Body[b]) /\ k + 1 \in Nat
    BY <1>1
  <2> QED BY <1>1, <2>1, PieceIs DEF Rest
<1>3. ASSUME NEW k \in 0 .. n, k < n
      PROVE  k + 1 \in 1 .. n /\ Rest(b, k) = <<Body[b][k + 1]>> \o Rest(b, k + 1)
  <2>1. k + 1 \in 1 .. Len(Body[b]) /\ n \in (k + 1) .. Len(Body[b])
    BY <1>1, <1>3
  <2>2. SubSeq(Body[b], k + 1, n) = <<Body[b][k + 1]>> \o SubSeq(Body[b], (k + 1) + 1, n)
    BY <1>1, <2>1, SubSeqRecursiveFirst
  <2> QED BY <1>1, <2>1, <2>2 DEF Rest
<1>4. Rest(b, 0) = Body[b]
  <2>1. 0 + 1 = 1
    OBVIOUS
  <2> QED BY <1>1, <2>1, SubSeqFull DEF Rest
<1>5. Rest(b, Len(Body[b])) = <<>>
  <2>1. n + 1 \in Int /\ n \in Int /\ n < n + 1
    OBVIOUS
  <2> QED BY <1>1, <2>1, SubSeqEmpty DEF Rest
<1> QED BY <1>1, <1>2, <1>3, <1>4, <1>5

\* A body that has been gone over, and one that has not.
LEMMA LaidIs ==
  ASSUME NEW b \in Blocks
  PROVE  /\ \A k \in 0 .. Len(Body[b]) : Laid(b, k) \in Seq(Insts)
         /\ Laid(b, 0) = Body[b]
         /\ Laid(b, Len(Body[b])) = OthersOf(b)
<1>1. Len(Body[b]) \in Nat /\ Body[b] \in Seq(Insts) /\ Kept(b)[0] = <<>>
  BY BodyIs
<1>2. \A k \in 0 .. Len(Body[b]) : Kept(b)[k] \in Seq(Insts) /\ Rest(b, k) \in Seq(Insts)
  BY BodyIs, RestIs
<1>3. \A k \in 0 .. Len(Body[b]) : Laid(b, k) \in Seq(Insts)
  BY <1>2, ConcatProperties DEF Laid
<1>4. Laid(b, 0) = Body[b]
  BY <1>1, RestIs, ConcatEmptySeq DEF Laid
<1>5. Laid(b, Len(Body[b])) = OthersOf(b)
  <2>1. Kept(b)[Len(Body[b])] \in Seq(Insts)
    BY <1>1, <1>2
  <2> QED BY <2>1, RestIs, ConcatEmptySeq DEF Laid, OthersOf, Kept
<1> QED BY <1>3, <1>4, <1>5

\* The head of the entry is made of instructions.
LEMMA HeadIs ==
  ASSUME NEW L, NEW a \in 1 .. Len(Order) + 1, NEW k,
         Scans(L, a) => k \in 0 .. Len(Body[Order[a]])
  PROVE  /\ HeadAt(L, a, k) \in Seq(Insts)
         /\ \A n : Before(L, a, k, n) \in Seq(Insts)
<1>1. PICK m \in Nat : m = Len(Order)
  BY SimplifyAssumption, LenProperties
<1>2. a - 1 \in 0 .. m
  BY <1>1
<1>3. Gathered(L)[a - 1] \in Seq(Insts)
  BY <1>1, <1>2, GatheredIs
<1>4. ASSUME Scans(L, a) PROVE Lifted(Order[a])[k] \in Seq(Insts)
  <2>1. a \in 1 .. Len(Order)
    BY <1>1, <1>4 DEF Scans
  <2>2. Order[a] \in Blocks
    BY <2>1, SimplifyAssumption, ElementOfSeq
  <2> QED BY <1>4, <2>2, BodyIs
<1>5. HeadAt(L, a, k) \in Seq(Insts)
  BY <1>3, <1>4, ConcatProperties DEF HeadAt
<1> QED BY <1>5, EmptySeq DEF Before

\* Putting together is associative.
Associates(x, y, z) == (x \o y) \o z = x \o (y \o z)

\* It is, for sequences over one set.
LEMMA Associative ==
  ASSUME NEW S, NEW x \in Seq(S), NEW y \in Seq(S), NEW z \in Seq(S)
  PROVE  Associates(x, y, z)
BY ConcatAssociative DEF Associates

\* Concatenations regrouped around the cursor.
Regrouped(p, q, r, t) == (p \o (q \o r)) \o t = (p \o q) \o (r \o t)
RegroupedMore(p, q, r, s, t) == (p \o (q \o (r \o s))) \o t = (p \o q) \o (r \o (s \o t))

\* What follows the place is kept together with what comes after it.
LEMMA Regroup ==
  ASSUME NEW S, NEW p \in Seq(S), NEW q \in Seq(S), NEW r \in Seq(S), NEW t \in Seq(S)
  PROVE  Regrouped(p, q, r, t)
<1>1. p \o q \in Seq(S)
  BY ConcatProperties
<1>2. Associates(p, q, r)
  BY Associative, Zenon
<1>3. Associates(p \o q, r, t)
  BY <1>1, Associative, Zenon
<1> QED BY <1>2, <1>3, Zenon DEF Associates, Regrouped

\* And with the instruction the cursor is at.
LEMMA RegroupMore ==
  ASSUME NEW S, NEW p \in Seq(S), NEW q \in Seq(S), NEW r \in Seq(S), NEW s \in Seq(S),
         NEW t \in Seq(S)
  PROVE  RegroupedMore(p, q, r, s, t)
<1>1. p \o q \in Seq(S) /\ r \o s \in Seq(S)
  BY ConcatProperties
<1>2. Associates(p, q, r \o s)
  BY <1>1, Associative, Zenon
<1>3. Associates(p \o q, r \o s, t)
  BY <1>1, Associative, Zenon
<1>4. Associates(r, s, t)
  BY Associative, Zenon
<1> QED BY <1>2, <1>3, <1>4, Zenon DEF Associates, RegroupedMore

\* The list has every block once, the entry first.
LEMMA ListIs ==
  /\ Len(Order) \in Nat \ {0} /\ 1 \in 1 .. Len(Order)
  /\ \A n \in 1 .. Len(Order) : Order[n] \in Blocks /\ (Order[n] = Entry <=> n = 1)
  /\ \A m, n \in 1 .. Len(Order) : Order[m] = Order[n] => m = n
  /\ \A b \in Blocks : \E n \in 1 .. Len(Order) : Order[n] = b
<1>1. /\ DOMAIN Order = 1 .. Len(Order) /\ Len(Order) \in Nat \ {0}
      /\ 1 \in 1 .. Len(Order)
  BY SimplifyAssumption, EmptySeq, LenProperties
<1>2. \A n \in 1 .. Len(Order) : Order[n] \in Blocks
  BY SimplifyAssumption, ElementOfSeq
<1> QED BY <1>1, <1>2, SimplifyAssumption DEF Entry

\* A terminator after a body, and the body without it.
LEMMA WithTerminator ==
  ASSUME NEW s \in Seq(Insts), NEW t \in Insts
  PROVE  /\ s \o <<t>> \in Seq(Insts) /\ s \o <<t>> # <<>>
         /\ Len(s \o <<t>>) = Len(s) + 1 /\ LastOf(s \o <<t>>) = t
         /\ ButLast(s \o <<t>>) = s /\ Append(s, t) = s \o <<t>>
<1>1. <<t>> \in Seq(Insts) /\ Len(<<t>>) = 1 /\ <<t>>[1] = t
  OBVIOUS
<1>2. PICK m \in Nat : m = Len(s)
  BY LenProperties
<1> DEFINE u == s \o <<t>>
<1>3. /\ u \in Seq(Insts) /\ Len(u) = Len(s) + Len(<<t>>)
      /\ \A i \in 1 .. Len(s) + Len(<<t>>) : u[i] = IF i <= Len(s) THEN s[i] ELSE <<t>>[i - Len(s)]
  BY <1>1, ConcatProperties
<1>4. SubSeq(u, 1, Len(s)) = s
  BY <1>1, ConcatApart
<1>5. Append(s, t) = u
  BY AppendIsConcat
<1> HIDE DEF u
<1>6. Len(u) = m + 1 /\ u[m + 1] = t
  <2>1. m + 1 \in 1 .. m + 1 /\ ~(m + 1 <= m) /\ (m + 1) - m = 1
    OBVIOUS
  <2> QED BY <1>1, <1>2, <1>3, <2>1
<1>7. (m + 1) - 1 = m /\ m + 1 # 0
  OBVIOUS
<1>8. u # <<>>
  BY <1>6, <1>7, EmptySeq
<1> QED BY <1>2, <1>3, <1>4, <1>5, <1>6, <1>7, <1>8 DEF u, LastOf, ButLast

\* The sequences around the cursor when it is in the body of b.
LEMMA CursorPieces ==
  ASSUME NEW L, NEW a \in 1 .. Len(Order), Order[a] \in L, NEW k \in 0 .. Len(Body[Order[a]])
  PROVE  /\ Scans(L, a) /\ Order[a] \in Blocks
         /\ Before(L, a, k, a) \in Seq(Insts) /\ Kept(Order[a])[k] \in Seq(Insts)
         /\ Rest(Order[a], k) \in Seq(Insts) /\ HeadAt(L, a, k) \in Seq(Insts)
         /\ Before(L, a, k, a) \o Kept(Order[a])[k] \in Seq(Insts)
         /\ Len(Before(L, a, k, a) \o Kept(Order[a])[k])
              = Len(Before(L, a, k, a)) + Len(Kept(Order[a])[k])
         /\ Scanned(a, k, a) = k
<1>1. a <= Len(Order) /\ Len(Order) \in Nat /\ Order[a] \in Blocks /\ ~(a < a)
      /\ a \in 1 .. Len(Order) + 1
  BY ListIs
<1>2. Scans(L, a)
  BY <1>1 DEF Scans
<1>3. Before(L, a, k, a) \in Seq(Insts) /\ HeadAt(L, a, k) \in Seq(Insts)
  BY <1>1, HeadIs
<1>4. Kept(Order[a])[k] \in Seq(Insts) /\ Rest(Order[a], k) \in Seq(Insts)
  BY <1>1, BodyIs, RestIs
<1>5. /\ Before(L, a, k, a) \o Kept(Order[a])[k] \in Seq(Insts)
      /\ Len(Before(L, a, k, a) \o Kept(Order[a])[k])
           = Len(Before(L, a, k, a)) + Len(Kept(Order[a])[k])
  BY <1>3, <1>4, ConcatProperties
<1>6. Scanned(a, k, a) = k
  BY <1>1 DEF Scanned
<1> QED BY <1>1, <1>2, <1>3, <1>4, <1>5, <1>6

\* The cursor p is at the instruction of b after the k-th; q comes before the body.
InBody(gr, b, q, p, k) ==
  LET s == q \o Kept(b)[k]
  IN  /\ k \in 0 .. Len(Body[b]) /\ k + 1 \in 1 .. Len(Body[b])
      /\ p = Len(s) + 1 /\ p \in 1 .. Len(gr.code[b])
      /\ \E t \in Insts :
           /\ t.id # "Op"
           /\ gr.code[b] = s \o (<<Body[b][k + 1]>> \o (Rest(b, k + 1) \o <<t>>))
           /\ gr.code[b][p] = Body[b][k + 1]
           /\ RemoveAt(gr.code[b], p) = s \o (Rest(b, k + 1) \o <<t>>)

\* The cursor is at the terminator of b or past it.
AtEnd(gr, b, q, p, k) ==
  LET m == Len(q) + Len(Kept(b)[k])
  IN  /\ Len(gr.code[b]) = m + 1 /\ p \in {m + 1, m + 2} /\ m \in Nat
      /\ p = m + 1 => gr.code[b][p].id # "Op"

\* Before the end of the body the cursor is at its next instruction.
LEMMA AtInstructionIs ==
  ASSUME NEW gr, NEW L, NEW a \in 1 .. Len(Order), Order[a] \in L, NEW p, NEW h, NEW k,
         Moved(gr, L, a, p, h, k), k # Len(Body[Order[a]])
  PROVE  InBody(gr, Order[a], Before(L, a, k, a), p, k)
<1> DEFINE b == Order[a]
           q == Before(L, a, k, a)
           s == q \o Kept(b)[k]
<1>1. Scans(L, a) /\ b \in Blocks
  BY ListIs DEF Scans
<1>2. k \in 0 .. Len(Body[b]) /\ p = Len(q) + Len(Kept(b)[k]) + 1
  BY <1>1 DEF Moved, Cursor
<1>3. /\ s \in Seq(Insts) /\ Len(s) = Len(q) + Len(Kept(b)[k]) /\ Scanned(a, k, a) = k
      /\ q \in Seq(Insts) /\ Kept(b)[k] \in Seq(Insts)
  BY <1>2, CursorPieces
<1>4. k < Len(Body[b]) /\ k + 1 \in 0 .. Len(Body[b])
  BY <1>1, <1>2, BodyIs
<1>5. /\ k + 1 \in 1 .. Len(Body[b]) /\ Rest(b, k) = <<Body[b][k + 1]>> \o Rest(b, k + 1)
      /\ Rest(b, k + 1) \in Seq(Insts)
  BY <1>1, <1>2, <1>4, RestIs
<1>6. Body[b][k + 1] \in Insts
  BY <1>1, <1>5, BodyIs
<1>7. PICK t \in Insts : t.id # "Op" /\ gr.code[b] = (q \o Laid(b, k)) \o <<t>>
  <2>1. Holds(gr, b, q \o Laid(b, k))
    BY <1>3 DEF Moved
  <2> QED BY <2>1 DEF Holds
<1>8. <<t>> \in Seq(Insts) /\ <<Body[b][k + 1]>> \in Seq(Insts)
  BY <1>6
<1> DEFINE r == Rest(b, k + 1) \o <<t>>
<1>9. r \in Seq(Insts)
  BY <1>5, <1>8, ConcatProperties
<1>10. gr.code[b] = s \o (<<Body[b][k + 1]>> \o r)
  <2>1. RegroupedMore(q, Kept(b)[k], <<Body[b][k + 1]>>, Rest(b, k + 1), <<t>>)
    BY <1>3, <1>5, <1>8, RegroupMore, Zenon
  <2> QED BY <1>5, <1>7, <2>1, Zenon DEF Laid, RegroupedMore
<1> HIDE DEF b, s, r, q
<1>11. /\ Len(s) + 1 \in 1 .. Len(gr.code[b]) /\ gr.code[b][Len(s) + 1] = Body[b][k + 1]
       /\ RemoveAt(gr.code[b], Len(s) + 1) = s \o r
  <2>1. Splits(Insts, s \o (<<Body[b][k + 1]>> \o r), s, Body[b][k + 1], r)
    BY <1>3, <1>6, <1>9, SplitCode, Zenon
  <2>2. Splits(Insts, gr.code[b], s, Body[b][k + 1], r)
    BY <1>10, <2>1, Zenon
  <2> QED BY <2>2 DEF Splits
<1>12. p = Len(s) + 1
  BY <1>2, <1>3
<1> QED BY <1>2, <1>5, <1>7, <1>10, <1>11, <1>12 DEF b, q, s, r, InBody

\* At the end of the body it is at the terminator or past it.
LEMMA AtTerminatorIs ==
  ASSUME NEW gr, NEW L, NEW a \in 1 .. Len(Order), Order[a] \in L, NEW p, NEW h, NEW k,
         Moved(gr, L, a, p, h, k), k = Len(Body[Order[a]])
  PROVE  AtEnd(gr, Order[a], Before(L, a, k, a), p, k)
<1> DEFINE b == Order[a]
           q == Before(L, a, k, a)
           s == q \o Kept(b)[k]
<1>1. Scans(L, a) /\ b \in Blocks
  BY ListIs DEF Scans
<1>2. /\ k \in 0 .. Len(Body[b])
      /\ p \in {Len(q) + Len(Kept(b)[k]) + 1, Len(q) + Len(Kept(b)[k]) + 2}
  BY <1>1 DEF Moved, Cursor
<1>3. /\ s \in Seq(Insts) /\ Len(s) = Len(q) + Len(Kept(b)[k]) /\ Scanned(a, k, a) = k
      /\ q \in Seq(Insts) /\ Kept(b)[k] \in Seq(Insts)
  BY <1>2, CursorPieces, SMTT(30)
<1>4. Laid(b, k) = Kept(b)[k]
  <2>1. Rest(b, k) = <<>>
    BY <1>1, RestIs
  <2> QED BY <1>3, <2>1, ConcatEmptySeq DEF Laid
<1>5. PICK t \in Insts : t.id # "Op" /\ gr.code[b] = s \o <<t>>
  <2>1. Holds(gr, b, q \o Laid(b, k))
    BY <1>3 DEF Moved
  <2> QED BY <1>4, <2>1 DEF Holds
<1> HIDE DEF b, q, s
<1>6. Len(gr.code[b]) = Len(s) + 1 /\ LastOf(gr.code[b]) = t /\ Len(s) \in Nat
  BY <1>3, <1>5, WithTerminator, LenProperties
<1> QED BY <1>2, <1>3, <1>5, <1>6 DEF b, q, s, LastOf, AtEnd

\* The empty sequence before another, or after it.
LEMMA NothingAdded ==
  ASSUME NEW S, NEW s \in Seq(S)
  PROVE  <<>> \o s = s /\ s \o <<>> = s
BY ConcatEmptySeq

\* ResortPass starts with the bodies as they were.
LEMMA MovedStart ==
  ASSUME NEW gr, NEW L,
         \A b \in L : b \in Blocks => Holds(gr, b, Body[b])
  PROVE  Moved(gr, L, 1, 1, 0, 0)
<1>1. 1 \in 1 .. Len(Order) + 1 /\ 1 - 1 = 0 /\ Order[1] \in Blocks
  BY ListIs
<1>2. HeadAt(L, 1, 0) = <<>>
  <2>1. Gathered(L)[0] = <<>> /\ Lifted(Order[1])[0] = <<>>
    BY <1>1, GatheredIs, BodyIs
  <2> QED BY <1>1, <2>1 DEF HeadAt
<1>3. \A n : Before(L, 1, 0, n) = <<>>
  BY <1>2 DEF Before
<1>4. Len(<<>>) = 0
  OBVIOUS
<1>5. Cursor(L, 1, 1, 0)
  <2>1. Kept(Order[1])[0] = <<>> /\ Len(Body[Order[1]]) \in Nat
    BY <1>1, BodyIs
  <2>2. 0 \in 0 .. Len(Body[Order[1]]) /\ 1 = 0 + 0 + 1
    BY <2>1
  <2> QED BY <1>3, <1>4, <2>1, <2>2 DEF Cursor
<1>6. ASSUME NEW n \in 1 .. Len(Order), Order[n] \in L
      PROVE  Holds(gr, Order[n], Before(L, 1, 0, n) \o Laid(Order[n], Scanned(1, 0, n)))
  <2>1. ~(n < 1) /\ Order[n] \in Blocks
    BY ListIs
  <2>2. Scanned(1, 0, n) = 0
    BY <2>1 DEF Scanned
  <2>3. Laid(Order[n], 0) = Body[Order[n]] /\ Body[Order[n]] \in Seq(Insts)
    BY <2>1, LaidIs, BodyIs
  <2>4. <<>> \o Body[Order[n]] = Body[Order[n]]
    BY <2>3, NothingAdded
  <2> QED BY <1>3, <1>6, <2>1, <2>2, <2>3, <2>4
<1> QED BY <1>2, <1>4, <1>5, <1>6 DEF Moved

\* With a block gone over, or one that is not listed, the next one is begun.
LEMMA MovedOn ==
  ASSUME NEW gr, NEW L, NEW a \in 1 .. Len(Order), NEW p, NEW h, NEW k,
         Moved(gr, L, a, p, h, k), Order[a] \in L => k = Len(Body[Order[a]])
  PROVE  Moved(gr, L, a + 1, 1, h, 0)
<1>1. /\ Len(Order) \in Nat /\ a + 1 \in 1 .. Len(Order) + 1 /\ a - 1 \in 0 .. Len(Order)
      /\ a + 1 # 1 /\ (a + 1) - 1 = a /\ a \in 0 .. Len(Order) /\ a <= Len(Order)
      /\ a \in 1 .. Len(Order) + 1
  BY ListIs
<1>2. Order[a] \in Blocks
  BY ListIs
<1>3. HeadAt(L, a, k) = Gathered(L)[a]
  <2>1. CASE Order[a] \in L
    <3>1. Gathered(L)[a] = Gathered(L)[a - 1] \o Lifted(Order[a])[Len(Body[Order[a]])]
      BY <2>1, GatheredIs
    <3> QED BY <1>1, <2>1, <3>1 DEF HeadAt, Scans
  <2>2. CASE Order[a] \notin L
    <3>1. Gathered(L)[a] = Gathered(L)[a - 1]
      BY <2>2, GatheredIs
    <3> QED BY <1>1, <2>2, <3>1 DEF HeadAt, Scans
  <2> QED BY <2>1, <2>2
<1>4. HeadAt(L, a + 1, 0) = Gathered(L)[a]
  <2>1. CASE Scans(L, a + 1)
    <3>1. a + 1 \in 1 .. Len(Order)
      BY <1>1, <2>1 DEF Scans
    <3>2. Lifted(Order[a + 1])[0] = <<>>
      BY <3>1, ListIs, BodyIs
    <3>3. Gathered(L)[a] \in Seq(Insts)
      BY <1>1, GatheredIs
    <3>4. Gathered(L)[a] \o <<>> = Gathered(L)[a]
      BY <3>3, NothingAdded
    <3> QED BY <1>1, <2>1, <3>2, <3>4 DEF HeadAt
  <2>2. CASE ~ Scans(L, a + 1)
    BY <1>1, <2>2 DEF HeadAt
  <2> QED BY <2>1, <2>2
<1>5. \A n : Before(L, a + 1, 0, n) = Before(L, a, k, n)
  BY <1>3, <1>4 DEF Before
<1>6. Cursor(L, a + 1, 1, 0)
  <2>1. CASE Scans(L, a + 1)
    <3>1. a + 1 \in 1 .. Len(Order)
      BY <1>1, <2>1 DEF Scans
    <3>2. Kept(Order[a + 1])[0] = <<>> /\ Len(Body[Order[a + 1]]) \in Nat
      BY <3>1, ListIs, BodyIs
    <3>3. Before(L, a + 1, 0, a + 1) = <<>> /\ Len(<<>>) = 0
      BY <1>1 DEF Before
    <3>4. 0 \in 0 .. Len(Body[Order[a + 1]]) /\ 1 = 0 + 0 + 1
      BY <3>2
    <3> QED BY <2>1, <3>2, <3>3, <3>4 DEF Cursor
  <2>2. CASE ~ Scans(L, a + 1)
    BY <2>2 DEF Cursor
  <2> QED BY <2>1, <2>2
<1>7. ASSUME NEW n \in 1 .. Len(Order), Order[n] \in L
      PROVE  Scanned(a + 1, 0, n) = Scanned(a, k, n)
  <2>1. CASE n = a
    BY <1>1, <1>7, <2>1 DEF Scanned
  <2>2. CASE n < a
    <3>1. n < a + 1
      BY <2>2
    <3> QED BY <2>2, <3>1 DEF Scanned
  <2>3. CASE n > a
    <3>1. ~(n < a) /\ n # a /\ ~(n < a + 1)
      BY <2>3
    <3> QED BY <3>1 DEF Scanned
  <2> QED BY <2>1, <2>2, <2>3
<1> QED BY <1>3, <1>4, <1>5, <1>6, <1>7 DEF Moved

\* Only the block that is gone over has been gone over further.
LEMMA ScannedElsewhere ==
  ASSUME NEW a \in 1 .. Len(Order), NEW k, NEW l, NEW n \in 1 .. Len(Order)
  PROVE  n # a => Scanned(a, l, n) = Scanned(a, k, n)
BY DEF Scanned

\* Another instruction than an alloca stays where it is.
LEMMA MovedPast ==
  ASSUME NEW gr, NEW L, NEW a \in 1 .. Len(Order), Order[a] \in L, NEW p, NEW h, NEW k,
         Moved(gr, L, a, p, h, k), p <= Len(gr.code[Order[a]]),
         ~ IsAlloca(gr.code[Order[a]][p]), k \in Nat
  PROVE  \E l \in Nat : Moved(gr, L, a, p + 1, h, l)
<1> DEFINE b == Order[a]
<1>1. Scans(L, a) /\ b \in Blocks
  BY ListIs DEF Scans
<1>2. k \in 0 .. Len(Body[b])
  BY <1>1 DEF Moved, Cursor
<1>3. CASE k = Len(Body[b])
  <2> DEFINE m == Len(Before(L, a, k, a)) + Len(Kept(b)[k])
  <2>1. Len(gr.code[b]) = m + 1 /\ p \in {m + 1, m + 2} /\ m \in Nat
    <3>1. AtEnd(gr, b, Before(L, a, k, a), p, k)
      BY <1>3, AtTerminatorIs, Zenon
    <3> QED BY <3>1 DEF AtEnd
  <2>2. p + 1 = m + 2
    BY <2>1
  <2> HIDE DEF m, b
  <2>3. Cursor(L, a, p + 1, k)
    BY <1>1, <1>2, <1>3, <2>2 DEF Cursor, m, b
  <2>4. Moved(gr, L, a, p + 1, h, k)
    BY <2>3 DEF Moved
  <2> QED BY <2>4
<1>4. CASE k # Len(Body[b])
  <2> DEFINE q == Before(L, a, k, a)
             e == Body[b][k + 1]
  <2>1. /\ k + 1 \in 1 .. Len(Body[b]) /\ p = Len(q \o Kept(b)[k]) + 1
        /\ gr.code[b][p] = e
    <3>1. InBody(gr, b, q, p, k)
      BY <1>4, AtInstructionIs, Zenon
    <3> QED BY <3>1 DEF InBody
  <2>2. ~ IsAlloca(e) /\ (k + 1) - 1 = k
    BY <1>2, <2>1
  <2>3. Kept(b)[k + 1] = Kept(b)[k] \o <<e>> /\ Lifted(b)[k + 1] = Lifted(b)[k] /\ e \in Insts
    BY <1>1, <2>1, <2>2, BodyIs
  <2>4. /\ q \in Seq(Insts) /\ Kept(b)[k] \in Seq(Insts)
        /\ Len(q \o Kept(b)[k]) = Len(q) + Len(Kept(b)[k])
        /\ Scanned(a, k, a) = k /\ Scanned(a, k + 1, a) = k + 1
        /\ Rest(b, k + 1) \in Seq(Insts) /\ Kept(b)[k + 1] \in Seq(Insts)
    <3>1. k + 1 \in 0 .. Len(Body[b])
      BY <1>1, <2>1, BodyIs
    <3>2. /\ q \in Seq(Insts) /\ Kept(b)[k] \in Seq(Insts)
          /\ Len(q \o Kept(b)[k]) = Len(q) + Len(Kept(b)[k])
          /\ Scanned(a, k, a) = k
      BY <1>2, CursorPieces, Zenon
    <3>3. /\ Scanned(a, k + 1, a) = k + 1
          /\ Rest(b, k + 1) \in Seq(Insts) /\ Kept(b)[k + 1] \in Seq(Insts)
      BY <3>1, CursorPieces, Zenon
    <3> QED BY <3>2, <3>3
  <2>5. HeadAt(L, a, k + 1) = HeadAt(L, a, k)
    BY <1>1, <2>3 DEF HeadAt
  <2>6. \A n : Before(L, a, k + 1, n) = Before(L, a, k, n)
    BY <2>5 DEF Before
  <2>7. Cursor(L, a, p + 1, k + 1)
    <3>1. <<e>> \in Seq(Insts) /\ Len(<<e>>) = 1
      BY <2>3
    <3>2. Len(Kept(b)[k + 1]) = Len(Kept(b)[k]) + 1
      BY <2>3, <2>4, <3>1, ConcatProperties
    <3>3. Len(q) \in Nat /\ Len(Kept(b)[k]) \in Nat
      BY <2>4, LenProperties
    <3>4. p + 1 = Len(q) + Len(Kept(b)[k + 1]) + 1
      BY <2>1, <2>4, <3>2, <3>3
    <3>5. k + 1 \in 0 .. Len(Body[b]) /\ q = Before(L, a, k + 1, a)
      BY <1>2, <2>1, <2>6
    <3> HIDE DEF q, b, e
    <3> QED BY <1>1, <3>4, <3>5 DEF Cursor, b
  <2>8. Laid(b, k + 1) = Laid(b, k)
    <3>1. Rest(b, k) = <<e>> \o Rest(b, k + 1)
      BY <1>1, <1>2, <1>4, RestIs, BodyIs, SMTT(30)
    <3>2. Associates(Kept(b)[k], <<e>>, Rest(b, k + 1))
      <4>1. <<e>> \in Seq(Insts)
        BY <2>3
      <4> QED BY <2>4, <4>1, Associative, Zenon
    <3> QED BY <2>3, <3>1, <3>2, Zenon DEF Laid, Associates
  <2>9. ASSUME NEW n \in 1 .. Len(Order), Order[n] \in L
        PROVE  Holds(gr, Order[n], Before(L, a, k + 1, n) \o Laid(Order[n], Scanned(a, k + 1, n)))
    <3>1. Holds(gr, Order[n], Before(L, a, k, n) \o Laid(Order[n], Scanned(a, k, n)))
      BY <2>9 DEF Moved
    <3>2. Laid(Order[n], Scanned(a, k + 1, n)) = Laid(Order[n], Scanned(a, k, n))
      <4>1. CASE n = a
        BY <2>4, <2>8, <4>1
      <4>2. CASE n # a
        BY <4>2, ScannedElsewhere
      <4> QED BY <4>1, <4>2
    <3> QED BY <2>6, <3>1, <3>2
  <2>10. Moved(gr, L, a, p + 1, h, k + 1)
    BY <2>5, <2>7, <2>9 DEF Moved
  <2>11. k + 1 \in Nat
    BY <1>2
  <2> QED BY <2>10, <2>11
<1> QED BY <1>3, <1>4

\* An alloca put at the end of the head p of a block that goes on with y.
Grows(c, d, h, p, y, e, t) ==
  /\ c = (p \o y) \o <<t>> /\ h = Len(p) /\ d = InsertAt(c, h + 1, e)

\* The head is one longer, and what follows it is the same.
LEMMA HeadGrows ==
  ASSUME NEW p \in Seq(Insts), NEW y \in Seq(Insts), NEW e \in Insts, NEW t \in Insts,
         NEW c, NEW d, NEW h, Grows(c, d, h, p, y, e, t)
  PROVE  d = ((p \o <<e>>) \o y) \o <<t>>
<1>1. PICK u \in Seq(Insts) : u = <<t>>
  <2>1. <<t>> \in Seq(Insts)
    OBVIOUS
  <2> QED BY <2>1, Zenon
<1>2. PICK v \in Seq(Insts) : v = <<e>>
  <2>1. <<e>> \in Seq(Insts)
    OBVIOUS
  <2> QED BY <2>1, Zenon
<1>3. y \o u \in Seq(Insts) /\ p \o v \in Seq(Insts)
  BY ConcatProperties
<1>4. Joins(p, e, y \o u)
  BY <1>3, JoinCode, Zenon
<1>5. Associates(p, y, u) /\ Associates(p \o v, y, u)
  BY <1>3, Associative, Zenon
<1>6. c = p \o (y \o u)
  BY <1>1, <1>5, Zenon DEF Grows, Associates
<1>7. d = (p \o v) \o (y \o u)
  BY <1>2, <1>4, <1>6, Zenon DEF Grows, Joins
<1> QED BY <1>1, <1>2, <1>5, <1>7, Zenon DEF Associates

\* With the next instruction an alloca, the head is longer by it and the rest is not.
LEMMA HeadOfCursor ==
  ASSUME NEW L, NEW a \in 1 .. Len(Order), Order[a] \in L, NEW k \in 0 .. Len(Body[Order[a]]),
         k + 1 \in 1 .. Len(Body[Order[a]]), IsAlloca(Body[Order[a]][k + 1])
  PROVE  /\ HeadAt(L, a, k) \in Seq(Insts)
         /\ HeadAt(L, a, k + 1) = HeadAt(L, a, k) \o <<Body[Order[a]][k + 1]>>
         /\ Kept(Order[a])[k + 1] = Kept(Order[a])[k]
         /\ Body[Order[a]][k + 1] \in Insts
<1> DEFINE b == Order[a]
           e == Body[b][k + 1]
<1>1. /\ Scans(L, a) /\ b \in Blocks /\ (k + 1) - 1 = k /\ a - 1 \in 0 .. Len(Order)
      /\ k \in 0 .. Len(Body[b]) /\ HeadAt(L, a, k) \in Seq(Insts)
  <2>1. Len(Order) \in Nat
    BY ListIs
  <2>2. (k + 1) - 1 = k /\ a - 1 \in 0 .. Len(Order)
    BY <2>1
  <2> QED BY <2>2, CursorPieces
<1>2. /\ Lifted(b)[k + 1] = Lifted(b)[k] \o <<e>> /\ Kept(b)[k + 1] = Kept(b)[k] /\ e \in Insts
  BY <1>1, BodyIs
<1>3. Associates(Gathered(L)[a - 1], Lifted(b)[k], <<e>>)
  <2>1. Gathered(L)[a - 1] \in Seq(Insts) /\ Lifted(b)[k] \in Seq(Insts)
    BY <1>1, GatheredIs, BodyIs
  <2>2. <<e>> \in Seq(Insts)
    BY <1>2
  <2> QED BY <2>1, <2>2, Associative, Zenon
<1>4. HeadAt(L, a, k + 1) = HeadAt(L, a, k) \o <<e>>
  BY <1>1, <1>2, <1>3, Zenon DEF HeadAt, Associates
<1> QED BY <1>1, <1>2, <1>4

\* An alloca goes to the end of the head.
LEMMA MovedUp ==
  ASSUME NEW gr, NEW r, NEW L, NEW a \in 1 .. Len(Order), Order[a] \in L, NEW p, NEW h, NEW k,
         Moved(gr, L, a, p, h, k), p <= Len(gr.code[Order[a]]),
         IsAlloca(gr.code[Order[a]][p]), gr.code \in [Blocks -> Seq(Insts)],
         r.code = [[gr.code EXCEPT ![Order[a]] = RemoveAt(@, p)]
                     EXCEPT ![Entry] = InsertAt(@, h + 1, gr.code[Order[a]][p])]
  PROVE  Moved(r, L, a, IF Order[a] = Entry THEN p + 1 ELSE p, h + 1, k + 1) /\ k + 1 \in Nat
<1> DEFINE b == Order[a]
           q == Before(L, a, k, a)
           x == Kept(b)[k]
           s == q \o x
           e == Body[b][k + 1]
           v == Rest(b, k + 1)
           z == HeadAt(L, a, k)
<1>1. /\ Scans(L, a) /\ b \in Blocks /\ Entry \in Blocks /\ (b = Entry <=> a = 1)
      /\ Order[1] = Entry /\ 1 \in 1 .. Len(Order)
  BY ListIs, EntryIsABlock DEF Scans
<1>2. k # Len(Body[b])
  <2>1. SUFFICES ASSUME k = Len(Body[b]) PROVE FALSE
    OBVIOUS
  <2>2. AtEnd(gr, b, q, p, k)
    BY <2>1, AtTerminatorIs, Zenon
  <2>3. \E m \in Nat : /\ Len(gr.code[b]) = m + 1 /\ p \in {m + 1, m + 2}
                       /\ p = m + 1 => gr.code[b][p].id # "Op"
    BY <2>2 DEF AtEnd
  <2> QED BY <2>3 DEF IsAlloca
<1>3. InBody(gr, b, q, p, k)
  BY <1>2, AtInstructionIs, Zenon
<1>4. /\ k \in 0 .. Len(Body[b]) /\ k + 1 \in 1 .. Len(Body[b]) /\ p = Len(s) + 1
      /\ gr.code[b][p] = e
  BY <1>3 DEF InBody
<1>5. PICK t \in Insts : t.id # "Op" /\ RemoveAt(gr.code[b], p) = s \o (v \o <<t>>)
  BY <1>3 DEF InBody
<1>6. /\ z \in Seq(Insts) /\ HeadAt(L, a, k + 1) = z \o <<e>> /\ Kept(b)[k + 1] = x
      /\ e \in Insts
  BY <1>4, HeadOfCursor
<1>7. /\ q \in Seq(Insts) /\ x \in Seq(Insts) /\ s \in Seq(Insts) /\ Len(s) = Len(q) + Len(x)
      /\ Scanned(a, k, a) = k
  <2>1. k \in 0 .. Len(Body[b])
    BY <1>4
  <2>2. q \in Seq(Insts) /\ x \in Seq(Insts) /\ Scanned(a, k, a) = k
    BY <2>1, CursorPieces, Zenon
  <2>3. s \in Seq(Insts)
    BY <2>1, CursorPieces, Zenon
  <2>4. Len(s) = Len(q) + Len(x)
    BY <2>2, ConcatProperties
  <2> QED BY <2>2, <2>3, <2>4
<1>8. /\ k + 1 \in Nat /\ v \in Seq(Insts) /\ Scanned(a, k + 1, a) = k + 1
  <2>1. k + 1 \in 0 .. Len(Body[b]) /\ k + 1 \in Nat
    BY <1>1, <1>4, BodyIs
  <2> QED BY <2>1, CursorPieces
<1>9. h = Len(z) /\ Len(z) \in Nat /\ h + 1 = Len(HeadAt(L, a, k + 1))
  <2>1. h = Len(z)
    BY DEF Moved
  <2>2. <<e>> \in Seq(Insts) /\ Len(<<e>>) = 1
    BY <1>6
  <2>3. Len(z \o <<e>>) = Len(z) + 1
    BY <1>6, <2>2, ConcatProperties
  <2> QED BY <1>6, <2>1, <2>3, LenProperties
<1>10. /\ \A n : n # 1 => Before(L, a, k + 1, n) = <<>> /\ Before(L, a, k, n) = <<>>
       /\ Before(L, a, k + 1, 1) = z \o <<e>> /\ Before(L, a, k, 1) = z
  BY <1>6 DEF Before
<1>11. Laid(b, k + 1) = x \o v /\ x \o v \in Seq(Insts)
  BY <1>6, <1>7, <1>8, ConcatProperties DEF Laid
<1>12. RemoveAt(gr.code[b], p) = (q \o (x \o v)) \o <<t>>
  <2>1. <<t>> \in Seq(Insts)
    OBVIOUS
  <2>2. Regrouped(q, x, v, <<t>>)
    BY <1>7, <1>8, <2>1, Regroup, Zenon
  <2> QED BY <1>5, <2>2, Zenon DEF Regrouped
<1>13. /\ b = Entry => r.code[b] = InsertAt(RemoveAt(gr.code[b], p), h + 1, e)
       /\ b # Entry => /\ r.code[b] = RemoveAt(gr.code[b], p)
                       /\ r.code[Entry] = InsertAt(gr.code[Entry], h + 1, e)
       /\ \A c \in Blocks : c # b /\ c # Entry => r.code[c] = gr.code[c]
  BY <1>1, <1>4
<1> HIDE DEF b, q, x, s, e, v, z
<1>14. Cursor(L, a, IF b = Entry THEN p + 1 ELSE p, k + 1)
  <2>1. Len(x) \in Nat /\ Len(q) \in Nat
    BY <1>7, LenProperties
  <2>2. CASE b = Entry
    <3>1. q = z /\ Before(L, a, k + 1, a) = HeadAt(L, a, k + 1)
      BY <1>1, <1>6, <1>10, <2>2 DEF q
    <3>2. p + 1 = Len(Before(L, a, k + 1, a)) + Len(Kept(b)[k + 1]) + 1
      <4>1. Len(Before(L, a, k + 1, a)) = Len(q) + 1
        BY <1>6, <1>9, <3>1
      <4>2. Len(Kept(b)[k + 1]) = Len(x) /\ p = (Len(q) + Len(x)) + 1
        BY <1>4, <1>6, <1>7, Zenon
      <4>3. \A c, d \in Nat : ((c + d) + 1) + 1 = (c + 1) + d + 1
        OBVIOUS
      <4> QED BY <2>1, <4>1, <4>2, <4>3, ZenonT(40)
    <3>3. k + 1 \in 0 .. Len(Body[b])
      BY <1>4
    <3> QED BY <1>1, <2>2, <3>2, <3>3 DEF Cursor, b
  <2>3. CASE b # Entry
    <3>1. Before(L, a, k + 1, a) = q
      BY <1>1, <1>10, <2>3 DEF q
    <3>2. p = Len(Before(L, a, k + 1, a)) + Len(Kept(b)[k + 1]) + 1
      BY <1>4, <1>6, <1>7, <2>1, <3>1
    <3>3. k + 1 \in 0 .. Len(Body[b])
      BY <1>4
    <3> QED BY <1>1, <2>3, <3>2, <3>3 DEF Cursor, b
  <2> QED BY <2>2, <2>3
<1>15. ASSUME NEW n \in 1 .. Len(Order), Order[n] \in L
       PROVE  Holds(r, Order[n], Before(L, a, k + 1, n) \o Laid(Order[n], Scanned(a, k + 1, n)))
  <2> DEFINE y == Laid(Order[n], Scanned(a, k, n))
  <2>1. Holds(gr, Order[n], Before(L, a, k, n) \o y)
    BY <1>15 DEF Moved
  <2>2. Order[n] \in Blocks /\ (Order[n] = Entry <=> n = 1) /\ (Order[n] = b <=> n = a)
    BY ListIs DEF b
  <2>3. CASE n = a /\ n # 1
    <3>1. b # Entry /\ q = <<>> /\ Before(L, a, k + 1, n) = <<>>
      BY <1>1, <1>10, <2>3 DEF q
    <3>2. r.code[b] = (<<>> \o (x \o v)) \o <<t>>
      BY <1>12, <1>13, <3>1
    <3>3. Holds(r, b, <<>> \o (x \o v))
      BY <1>5, <3>2 DEF Holds
    <3> QED BY <1>8, <1>11, <2>2, <2>3, <3>1, <3>3
  <2>4. CASE n = a /\ n = 1
    <3>1. b = Entry /\ q = z /\ Before(L, a, k + 1, n) = z \o <<e>>
      BY <1>1, <1>10, <2>4 DEF q
    <3>2. Grows(RemoveAt(gr.code[b], p), r.code[b], h, z, x \o v, e, t)
      BY <1>9, <1>12, <1>13, <3>1 DEF Grows
    <3>3. r.code[b] = ((z \o <<e>>) \o (x \o v)) \o <<t>>
      BY <1>6, <1>11, <3>2, HeadGrows, ZenonT(40)
    <3>4. Holds(r, b, (z \o <<e>>) \o (x \o v))
      BY <1>5, <3>3 DEF Holds
    <3> QED BY <1>8, <1>11, <2>2, <2>4, <3>1, <3>4
  <2>5. CASE n # a /\ n = 1
    <3>1. b # Entry /\ Before(L, a, k, n) = z /\ Before(L, a, k + 1, n) = z \o <<e>>
      BY <1>1, <1>10, <2>5
    <3>2. Scanned(a, k + 1, n) = Scanned(a, k, n)
      BY <2>5, ScannedElsewhere
    <3>3. PICK w \in Insts : w.id # "Op" /\ gr.code[Entry] = (z \o y) \o <<w>>
      BY <2>1, <2>2, <2>5, <3>1 DEF Holds
    <3>4. y \in Seq(Insts)
      <4>1. n < a
        BY <2>5
      <4>2. /\ Scanned(a, k, n) = Len(Body[Order[n]])
            /\ Len(Body[Order[n]]) \in 0 .. Len(Body[Order[n]])
        BY <2>2, <4>1, BodyIs DEF Scanned
      <4> QED BY <2>2, <4>2, LaidIs
    <3> HIDE DEF y
    <3>5. Grows(gr.code[Entry], r.code[Entry], h, z, y, e, w)
      BY <1>9, <1>13, <3>1, <3>3 DEF Grows
    <3>6. r.code[Entry] = ((z \o <<e>>) \o y) \o <<w>>
      BY <1>6, <3>4, <3>5, HeadGrows, Zenon
    <3>7. Holds(r, Entry, (z \o <<e>>) \o y)
      BY <3>3, <3>6 DEF Holds
    <3> QED BY <2>2, <2>5, <3>1, <3>2, <3>7 DEF y
  <2>6. CASE n # a /\ n # 1
    <3>1. r.code[Order[n]] = gr.code[Order[n]]
      BY <1>13, <2>2, <2>6
    <3>2. Before(L, a, k + 1, n) = Before(L, a, k, n) /\ Scanned(a, k + 1, n) = Scanned(a, k, n)
      BY <1>10, <2>6, ScannedElsewhere
    <3> QED BY <2>1, <3>1, <3>2 DEF Holds
  <2> QED BY <2>3, <2>4, <2>5, <2>6
<1>16. Moved(r, L, a, IF b = Entry THEN p + 1 ELSE p, h + 1, k + 1)
  BY <1>9, <1>14, <1>15 DEF Moved
<1> QED BY <1>8, <1>16 DEF b

(***************************************************************************)
(* The bodies through both passes.                                         *)
(***************************************************************************)
\* The bodies stay together, each with a terminator, until ResortPass moves them.
Whole == ~ Simplified => \A b \in IF phase = "search" THEN Blocks ELSE visited :
                            Holds(g, b, Body[b])

Arranged == /\ Whole
            /\ Simplified => \E k \in Nat : Moved(g, listed, at, pos, hoisted, k)
            /\ phase = "done" => at = Len(Order) + 1

\* Past the end of the list the allocas are gathered.
LEMMA ArrangedSuffices == IInv /\ Arranged => AllocasGathered
<1> SUFFICES ASSUME IInv, Arranged, phase = "done", NEW b \in listed
             PROVE  ButLast(g.code[b]) = (IF b = Entry THEN Gathered(listed)[Len(Order)] ELSE <<>>)
                                         \o OthersOf(b)
  BY DEF AllocasGathered
<1>1. PICK k \in Nat : Moved(g, listed, at, pos, hoisted, k)
  BY DEF Arranged, Simplified
<1>2. /\ at = Len(Order) + 1 /\ Len(Order) \in Nat /\ ~(at <= Len(Order)) /\ at - 1 = Len(Order)
      /\ b \in Blocks /\ at \in 1 .. Len(Order) + 1
  BY ListIs DEF Arranged, IInv, Common
<1>3. ~ Scans(listed, at)
  BY <1>2 DEF Scans
<1>4. PICK n \in 1 .. Len(Order) : Order[n] = b
  BY <1>2, ListIs
<1>5. (n = 1 <=> b = Entry) /\ n < at
  BY <1>2, <1>4, ListIs
<1>6. Scanned(at, k, n) = Len(Body[b]) /\ Laid(b, Len(Body[b])) = OthersOf(b)
  BY <1>2, <1>4, <1>5, LaidIs DEF Scanned
<1>7. Before(listed, at, k, n) = IF b = Entry THEN Gathered(listed)[Len(Order)] ELSE <<>>
  BY <1>2, <1>3, <1>5 DEF Before, HeadAt
<1> DEFINE s == (IF b = Entry THEN Gathered(listed)[Len(Order)] ELSE <<>>) \o OthersOf(b)
<1>8. Holds(g, b, s)
  BY <1>1, <1>4, <1>6, <1>7 DEF Moved
<1>9. s \in Seq(Insts)
  <2>1. Before(listed, at, k, n) \in Seq(Insts)
    BY <1>2, <1>3, HeadIs
  <2>2. OthersOf(b) \in Seq(Insts)
    <3>1. Len(Body[b]) \in 0 .. Len(Body[b])
      BY <1>2, BodyIs
    <3> QED BY <1>2, <1>6, <3>1, LaidIs
  <2> QED BY <1>7, <2>1, <2>2, ConcatProperties
<1> HIDE DEF s
<1>10. PICK t \in Insts : g.code[b] = s \o <<t>>
  BY <1>8 DEF Holds
<1>11. ButLast(g.code[b]) = s
  BY <1>9, <1>10, WithTerminator
<1> QED BY <1>11 DEF s

\* The input's blocks are their bodies and terminators.
LEMMA ArrangedInit == Init => Arranged
<1> SUFFICES ASSUME Init PROVE Arranged
  OBVIOUS
<1>1. PICK f \in [Blocks -> UNION {Flows[b] : b \in Blocks}] :
         (\A b \in Blocks : f[b] \in Flows[b]) /\ start = GraphOf(f)
  BY DEF Init
<1>2. f \in [Blocks -> Shapes]
  BY <1>1, SimplifyAssumption
<1>3. g = GraphOf(f) /\ phase = "search"
  BY <1>1 DEF Init
<1>4. ASSUME NEW b \in Blocks PROVE Holds(g, b, Body[b])
  <2>1. /\ f[b].control \in Values \cup {NULL} /\ f[b].branch \in Blocks \cup {TERMINAL}
        /\ f[b].branchElse \in Blocks \cup {NULL}
    BY <1>2 DEF Shapes
  <2>2. Terminator(f[b]) \in Insts /\ Terminator(f[b]).id # "Op"
    BY <2>1 DEF Terminator, Insts, Ret, Br, CondBr
  <2>3. g.code[b] = Append(Body[b], Terminator(f[b]))
    BY <1>3 DEF GraphOf
  <2>4. Append(Body[b], Terminator(f[b])) = Body[b] \o <<Terminator(f[b])>>
    BY <2>2, BodyIs, WithTerminator
  <2> QED BY <2>2, <2>3, <2>4 DEF Holds
<1> QED BY <1>3, <1>4 DEF Arranged, Whole, Simplified

\* A jump takes the place of a decided branch, after the same body.
LEMMA FoldedHolds ==
  ASSUME NEW gr, Good(gr, Blocks), NEW b \in Blocks,
         \A c \in Blocks : Holds(gr, c, Body[c])
  PROVE  \A c \in Blocks : Holds(Folded(gr, b), c, Body[c])
<1>1. CASE ~ Decided(gr, b)
  BY <1>1 DEF Folded
<1>2. CASE Decided(gr, b)
  <2> DEFINE to == Taken(gr, b)
             h == ResetTo(gr, b, to)
  <2>1. /\ Edges(gr) /\ gr \in Graphs /\ to \in Blocks /\ Folded(gr, b) = h
        /\ gr.branch[b] \in Blocks /\ AgreesAt(gr, b)
    BY <1>2, TakenIsATarget DEF Good, Edges, Folded, CodeAgrees
  <2>2. Relinked(h, gr, b, NULL, to, NULL, Br(to))
    BY <2>1, ResetToIs
  <2> HIDE DEF h, to
  <2>3. h.code = [Stripped(gr, b) EXCEPT ![b] = Append(@, Br(to))]
    BY <2>2 DEF Relinked, Has
  <2>4. gr.code \in [Blocks -> Seq(Insts)] /\ Stripped(gr, b) \in [Blocks -> Seq(Insts)]
    BY <2>1, FieldTypes, StrippedType
  <2>5. gr.branch[b] # NULL /\ gr.branch[b] # TERMINAL
    BY <2>1, CfgAssumption
  <2>6. EndsIn(gr.code[b], TermOf(gr.control[b], gr.branch[b], gr.branchElse[b]))
    BY <2>1, <2>5, AgreesForm
  <2>7. gr.control[b] # NULL /\ gr.branchElse[b] # NULL
    BY <1>2, <2>1 DEF Decided, IsBranched, Edges, WellShaped
  <2>8. KindMatches(gr, b)
    BY <2>5, <2>6, <2>7 DEF KindMatches, EndsIn, TermOf, CondBr, IsBranched
  <2>9. Stripped(gr, b)[b] = ButLast(gr.code[b])
    BY <2>4, <2>5, <2>8 DEF Stripped, IsIncomplete
  <2>10. PICK t \in Insts : gr.code[b] = Body[b] \o <<t>>
    BY DEF Holds
  <2>11. ButLast(gr.code[b]) = Body[b]
    BY <2>10, BodyIs, WithTerminator
  <2>12. Br(to) \in Insts /\ Br(to).id # "Op"
    BY <2>1 DEF Br, Insts
  <2>13. h.code[b] = Body[b] \o <<Br(to)>>
    <3>1. h.code[b] = Append(Body[b], Br(to))
      BY <2>3, <2>4, <2>9, <2>11
    <3>2. Append(Body[b], Br(to)) = Body[b] \o <<Br(to)>>
      BY <2>12, BodyIs, WithTerminator
    <3> QED BY <3>1, <3>2
  <2>14. Holds(h, b, Body[b])
    BY <2>12, <2>13 DEF Holds
  <2>15. ASSUME NEW c \in Blocks, c # b PROVE Holds(h, c, Body[c])
    <3>1. h.code[c] = gr.code[c]
      BY <2>3, <2>4, <2>15 DEF Stripped
    <3> QED BY <3>1 DEF Holds
  <2> QED BY <2>1, <2>14, <2>15
<1> QED BY <1>1, <1>2

\* reset() touches the code of one block only.
LEMMA ResetHolds ==
  ASSUME NEW gr, Edges(gr), NEW b \in Blocks, NEW c \in Blocks \ {b}, NEW s, Holds(gr, c, s)
  PROVE  Holds(Reset(gr, b), c, s)
<1>1. Reset(gr, b).code = Stripped(gr, b)
  BY ResetIs DEF Has
<1>2. gr.code \in [Blocks -> Seq(Insts)]
  BY FieldTypes DEF Edges
<1>3. Reset(gr, b).code[c] = gr.code[c]
  BY <1>1, <1>2 DEF Stripped
<1> QED BY <1>3 DEF Holds

\* A step that leaves the code of the blocks alone leaves them whole.
LEMMA WholeStays ==
  ASSUME Whole, ~ Simplified, ~ Simplified', NEW M,
         M = IF phase' = "search" THEN Blocks ELSE visited',
         M \subseteq IF phase = "search" THEN Blocks ELSE visited,
         \A b \in M : Holds(g, b, Body[b]) => Holds(g', b, Body[b])
  PROVE  Arranged'
BY DEF Whole, Arranged, Simplified

\* The steps of the search.
LEMMA SearchArranged ==
  IInv /\ Arranged /\ (Skip \/ Visit \/ EndOfSearch) => Arranged'
<1> SUFFICES ASSUME IInv, Arranged, Skip \/ Visit \/ EndOfSearch PROVE Arranged'
  OBVIOUS
<1>1. phase = "search" /\ phase' \in {"search", "reset"} /\ ~ Simplified /\ ~ Simplified'
  BY DEF Skip, Visit, EndOfSearch, Simplified
<1>2. Whole /\ visited \subseteq Blocks /\ deleteLater \subseteq Blocks
  BY LiveIsClosed DEF Arranged, IInv, Common, Complete, Good
<1>3. CASE Skip \/ EndOfSearch
  <2>1. g' = g /\ visited' = visited
    BY <1>3 DEF Skip, EndOfSearch, search
  <2> QED BY <1>1, <1>2, <2>1, WholeStays
<1>4. CASE Visit
  <2> DEFINE b == Head(stack)
             f == Folded(g, b)
  <2>1. phase' = phase /\ g' = AssertThat(f, ~ IsIncomplete(f, b)) /\ stack # <<>>
    BY <1>4 DEF Visit
  <2>2. Good(g, Blocks) /\ b \in Blocks
    BY <1>1, <2>1, TailMembers DEF IInv, Common, Searching
  <2>3. \A c \in Blocks : Holds(g, c, Body[c])
    BY <1>1, <1>2 DEF Whole
  <2> HIDE DEF b
  <2>4. \A c \in Blocks : Holds(f, c, Body[c])
    BY <2>2, <2>3, FoldedHolds
  <2> HIDE DEF f
  <2>5. g'.code = f.code
    BY <2>1 DEF AssertThat
  <2>6. \A c \in Blocks : Holds(g', c, Body[c])
    BY <2>4, <2>5 DEF Holds
  <2> QED BY <1>1, <1>2, <2>1, <2>6, WholeStays
<1> QED BY <1>3, <1>4

\* The two loops over the blocks that cannot run.
LEMMA LoopsArranged ==
  ASSUME IInv, Arranged,
         EndOfResets \/ \E b \in Blocks : ResetUnreachable(b) \/ RemoveUnreachable(b)
  PROVE  Arranged'
<1>1. /\ phase \in {"reset", "remove"} /\ phase' \in {"reset", "remove", "aborted"}
      /\ visited' = visited /\ ~ Simplified /\ ~ Simplified'
  BY DEF EndOfResets, ResetUnreachable, RemoveUnreachable, search, Simplified
<1>2. Whole /\ deleteLater = Blocks \ visited /\ pending \subseteq deleteLater
      /\ visited \subseteq Blocks
  BY LiveIsClosed DEF Arranged, IInv, Common, Complete, Good
<1>3. Edges(g)
  BY <1>1 DEF IInv, Resetting, Removing, Good
<1>4. g' = g \/ \E b \in pending : b \in Blocks /\ g' = Reset(g, b)
  BY DEF EndOfResets, ResetUnreachable, RemoveUnreachable, RemoveBlock
<1>5. ASSUME NEW c \in visited, Holds(g, c, Body[c]) PROVE Holds(g', c, Body[c])
  <2>1. CASE g' = g
    BY <1>5, <2>1
  <2>2. ASSUME NEW b \in pending, b \in Blocks, g' = Reset(g, b)
        PROVE  Holds(g', c, Body[c])
    <3>1. c \in Blocks \ {b}
      BY <1>2, <2>2
    <3>2. Holds(Reset(g, b), c, Body[c])
      BY <1>3, <1>5, <2>2, <3>1, ResetHolds
    <3> QED BY <2>2, <3>2
  <2> QED BY <1>4, <2>1, <2>2
<1> QED BY <1>1, <1>2, <1>5, WholeStays

\* What is left then is the visited blocks, whole.
LEMMA EndOfRemovalsArranged == IInv /\ Arranged /\ EndOfRemovals => Arranged'
<1> SUFFICES ASSUME IInv, Arranged, EndOfRemovals PROVE Arranged'
  OBVIOUS
<1>1. /\ phase = "remove" /\ phase' = "resort" /\ g' = g /\ listed' = listed
      /\ visited' = visited /\ at' = at /\ pos' = pos /\ hoisted' = hoisted
      /\ pending = {}
  BY DEF EndOfRemovals, search, cursor
<1>2. at = 1 /\ pos = 1 /\ hoisted = 0
  BY <1>1 DEF IInv, CursorOK, Simplified
<1>3. listed = visited /\ visited \subseteq Blocks
  BY <1>1, LiveIsClosed DEF IInv, Common, Removing, Complete, Good
<1>4. \A b \in listed : Holds(g, b, Body[b])
  BY <1>1, <1>3 DEF Arranged, Whole, Simplified
<1>5. Moved(g, listed, 1, 1, 0, 0)
  BY <1>4, MovedStart
<1>6. Moved(g', listed', at', pos', hoisted', 0)
  BY <1>1, <1>2, <1>5
<1>7. phase' # "done"
  BY <1>1
<1> QED BY <1>1, <1>6, <1>7 DEF Arranged, Whole, Simplified

\* In ResortPass the arrangement is that of Moved.
LEMMA MovedArranged ==
  ASSUME phase' = "resort", NEW k \in Nat, Moved(g', listed', at', pos', hoisted', k)
  PROVE  Arranged'
BY DEF Arranged, Whole, Simplified

\* Where ResortPass is.
LEMMA WhereItIs ==
  ASSUME IInv, Arranged, phase = "resort", at <= Len(Order)
  PROVE  /\ at \in 1 .. Len(Order) /\ Order[at] \in Blocks
         /\ \E k \in Nat : Moved(g, listed, at, pos, hoisted, k)
         /\ g.code \in [Blocks -> Seq(Insts)] /\ pos \in Nat
<1>1. at \in 1 .. Len(Order)
  BY ListIs DEF IInv, CursorOK
<1>2. Order[at] \in Blocks
  BY <1>1, ListIs
<1> QED BY <1>1, <1>2, FieldTypes DEF Arranged, Simplified, IInv, Common, CursorOK

\* A block that is gone is passed over.
LEMMA GoneArranged == IInv /\ Arranged /\ Gone => Arranged'
<1> SUFFICES ASSUME IInv, Arranged, Gone PROVE Arranged'
  OBVIOUS
<1>1. /\ phase = "resort" /\ phase' = phase /\ at <= Len(Order) /\ Order[at] \notin listed
      /\ at' = at + 1 /\ g' = g /\ listed' = listed /\ pos' = pos /\ hoisted' = hoisted
  BY DEF Gone
<1>2. at \in 1 .. Len(Order)
  BY <1>1, WhereItIs
<1>3. PICK k \in Nat : Moved(g, listed, at, pos, hoisted, k)
  BY <1>1, WhereItIs
<1>4. pos = 1
  BY <1>1, <1>3 DEF Moved, Cursor, Scans
<1>5. Moved(g, listed, at + 1, 1, hoisted, 0)
  BY <1>1, <1>2, <1>3, MovedOn, Zenon
<1>6. Moved(g', listed', at', pos', hoisted', 0)
  BY <1>1, <1>4, <1>5
<1> QED BY <1>1, <1>6, MovedArranged

\* An instruction that stays.
LEMMA PassArranged == IInv /\ Arranged /\ Pass => Arranged'
<1> SUFFICES ASSUME IInv, Arranged, Pass PROVE Arranged'
  OBVIOUS
<1>1. /\ phase = "resort" /\ phase' = phase /\ at <= Len(Order) /\ Order[at] \in listed
      /\ pos <= Len(g.code[Order[at]]) /\ ~ IsAlloca(g.code[Order[at]][pos])
      /\ at' = at /\ g' = g /\ listed' = listed /\ pos' = pos + 1 /\ hoisted' = hoisted
  BY DEF Pass, AtInstruction
<1>2. at \in 1 .. Len(Order)
  BY <1>1, WhereItIs
<1>3. PICK k \in Nat : Moved(g, listed, at, pos, hoisted, k)
  BY <1>1, WhereItIs
<1>4. PICK l \in Nat : Moved(g, listed, at, pos + 1, hoisted, l)
  BY <1>1, <1>2, <1>3, MovedPast, Zenon
<1>5. Moved(g', listed', at', pos', hoisted', l)
  BY <1>1, <1>4
<1> QED BY <1>1, <1>5, MovedArranged

\* An alloca that moves.
LEMMA HoistArranged == IInv /\ Arranged /\ Hoist => Arranged'
<1> SUFFICES ASSUME IInv, Arranged, Hoist PROVE Arranged'
  OBVIOUS
<1> DEFINE b == Order[at]
           i == g.code[b][pos]
           f == [g.code EXCEPT ![b] = RemoveAt(@, pos)]
           c == [f EXCEPT ![Entry] = InsertAt(@, hoisted + 1, i)]
<1>1. /\ phase = "resort" /\ phase' = phase /\ at <= Len(Order) /\ b \in listed
      /\ pos <= Len(g.code[b]) /\ IsAlloca(i)
      /\ g' = [[g EXCEPT !.code[b] = RemoveAt(@, pos)]
                  EXCEPT !.code[Entry] = InsertAt(@, hoisted + 1, i)]
      /\ pos' = (IF b = Entry THEN pos + 1 ELSE pos) /\ hoisted' = hoisted + 1
      /\ at' = at /\ listed' = listed
  BY DEF Hoist, AtInstruction
<1>2. at \in 1 .. Len(Order) /\ g.code \in [Blocks -> Seq(Insts)] /\ g \in Graphs
  BY <1>1, WhereItIs DEF IInv, Common
<1>3. PICK k \in Nat : Moved(g, listed, at, pos, hoisted, k)
  BY <1>1, WhereItIs
<1>4. g'.code = c
  BY <1>1, <1>2 DEF Graphs
<1>5. /\ Moved(g', listed, at, IF b = Entry THEN pos + 1 ELSE pos, hoisted + 1, k + 1)
      /\ k + 1 \in Nat
  BY <1>1, <1>2, <1>3, <1>4, MovedUp, Zenon
<1>6. Moved(g', listed', at', pos', hoisted', k + 1)
  BY <1>1, <1>5, Zenon
<1> QED BY <1>1, <1>5, <1>6, MovedArranged

\* The end of a block.
LEMMA EndOfBlockArranged == IInv /\ Arranged /\ EndOfBlock => Arranged'
<1> SUFFICES ASSUME IInv, Arranged, EndOfBlock PROVE Arranged'
  OBVIOUS
<1> DEFINE b == Order[at]
<1>1. /\ phase = "resort" /\ phase' = phase /\ at <= Len(Order) /\ b \in listed
      /\ pos > Len(g.code[b])
      /\ at' = at + 1 /\ pos' = 1 /\ hoisted' = hoisted
  BY DEF EndOfBlock
<1>2. b \in Blocks /\ Settled(start, g, b) /\ Complete(start)
  BY <1>1 DEF IInv, Common, Gathering, Simplified
<1>3. g.branch[b] # NULL
  BY <1>2, SettledTargets
<1>4. ~ IsOrphan(g, b) /\ TryMarkAsTerminal(g, b, FALSE) = g
  BY <1>3 DEF IsOrphan, TryMarkAsTerminal, MarkReturns, IsIncomplete
<1>5. g' = g /\ listed' = listed
  BY <1>4 DEF EndOfBlock
<1>6. at \in 1 .. Len(Order) /\ g.code[b] \in Seq(Insts) /\ pos \in Nat
  BY <1>1, <1>2, WhereItIs
<1>7. PICK k \in Nat : Moved(g, listed, at, pos, hoisted, k)
  BY <1>1, WhereItIs
<1>8. k = Len(Body[b])
  <2>1. SUFFICES ASSUME k # Len(Body[b]) PROVE FALSE
    OBVIOUS
  <2>2. InBody(g, b, Before(listed, at, k, at), pos, k)
    BY <1>1, <1>6, <1>7, <2>1, AtInstructionIs, Zenon
  <2>3. pos \in 1 .. Len(g.code[b]) /\ Len(g.code[b]) \in Nat
    BY <1>6, <2>2, LenProperties DEF InBody
  <2> QED BY <1>1, <1>6, <2>3
<1>9. Moved(g, listed, at + 1, 1, hoisted, 0)
  BY <1>6, <1>7, <1>8, MovedOn, Zenon
<1>10. Moved(g', listed', at', pos', hoisted', 0)
  BY <1>1, <1>5, <1>9
<1> QED BY <1>1, <1>10, MovedArranged

\* The end of the list.
LEMMA DoneArranged == IInv /\ Arranged /\ Done => Arranged'
<1> SUFFICES ASSUME IInv, Arranged, Done PROVE Arranged'
  OBVIOUS
<1>1. /\ phase = "resort" /\ phase' = "done" /\ at > Len(Order)
      /\ at' = at /\ g' = g /\ listed' = listed /\ pos' = pos /\ hoisted' = hoisted
  BY DEF Done, search, cursor
<1>2. at = Len(Order) + 1
  BY <1>1, ListIs DEF IInv, CursorOK
<1>3. \E k \in Nat : Moved(g', listed', at', pos', hoisted', k)
  BY <1>1 DEF Arranged, Simplified
<1> QED BY <1>1, <1>2, <1>3 DEF Arranged, Whole, Simplified

\* Every step of both passes keeps the bodies arranged.
LEMMA NextArranged == IInv /\ Arranged /\ [Next]_vars => Arranged'
<1> SUFFICES ASSUME IInv, Arranged, [Next]_vars PROVE Arranged'
  OBVIOUS
<1>1. CASE UNCHANGED vars
  BY <1>1 DEF vars, search, cursor, Arranged, Whole, Simplified
<1>2. CASE EndOfResets \/ \E b \in Blocks : ResetUnreachable(b) \/ RemoveUnreachable(b)
  BY <1>2, LoopsArranged
<1> QED BY <1>1, <1>2, SearchArranged, EndOfRemovalsArranged, GoneArranged, PassArranged,
           HoistArranged, EndOfBlockArranged, DoneArranged DEF Next

\* For any function the entry ends up with the allocas of all blocks that stay in
\* front, in the order of the blocks, and no other instruction has moved.
THEOREM AllocasAreGathered == Spec => []AllocasGathered
<1>1. Init => IInv /\ Arranged
  BY InitInv, ArrangedInit
<1>2. IInv /\ Arranged /\ [Next]_vars => (IInv /\ Arranged)'
  BY NextInv, NextArranged
<1>3. IInv /\ Arranged => AllocasGathered
  BY ArrangedSuffices
<1> QED BY <1>1, <1>2, <1>3, PTL DEF Spec
=============================================================================
