------------------------------ MODULE CfgNode ------------------------------
(***************************************************************************)
(* The control flow graph of a function: class CFGNode (ir/cfg.h, cfg.cpp) *)
(* and the parts of BasicBlock and Instruction it works with.              *)
(*                                                                         *)
(* A block carries the same fact three times: its last instruction names   *)
(* the blocks it jumps to, branch_ and branchElse_ name them again, and    *)
(* each of them names the block in its inBlocks_.  reset, tryMarkAsTerminal*)
(* and syncFlowWithInstUnsafe keep the three in step; everything else only *)
(* reads them.  The graph is one record and each member function an        *)
(* operator on graphs, so that the translator and the passes compose them. *)
(*                                                                         *)
(* The field ok turns FALSE when an assertion of the code fails.           *)
(***************************************************************************)
EXTENDS Naturals, Sequences

CONSTANTS Blocks,       \* the BasicBlock objects
          Values,       \* values an instruction can carry: conditions, operations
          TERMINAL,     \* detail::TERMINAL, the successor of a block that returns
          NULL          \* nullptr

ASSUME CfgAssumption ==
  /\ TERMINAL \notin Blocks /\ NULL \notin Blocks /\ NULL # TERMINAL
  /\ NULL \notin Values

(***************************************************************************)
(* Instructions.  Only terminators matter here; an Op is anything else.    *)
(***************************************************************************)
Op(v)              == [id |-> "Op",  value |-> v,    to |-> NULL, els |-> NULL]
Ret                == [id |-> "Ret", value |-> NULL, to |-> NULL, els |-> NULL]
Br(b)              == [id |-> "Br",  value |-> NULL, to |-> b,    els |-> NULL]
CondBr(v, b, else) == [id |-> "Br",  value |-> v,    to |-> b,    els |-> else]

Insts == [id : {"Op", "Br", "Ret"}, value : Values \cup {NULL},
          to : Blocks \cup {NULL}, els : Blocks \cup {NULL}]

Graphs == [code       : [Blocks -> Seq(Insts)],
           control    : [Blocks -> Values \cup {NULL}],
           branch     : [Blocks -> Blocks \cup {NULL, TERMINAL}],
           branchElse : [Blocks -> Blocks \cup {NULL}],
           in         : [Blocks -> SUBSET Blocks],
           void       : BOOLEAN,
           ok         : BOOLEAN]

LastOf(s)  == s[Len(s)]
ButLast(s) == SubSeq(s, 1, Len(s) - 1)

(***************************************************************************)
(* CFGNode.                                                                *)
(***************************************************************************)
IsIncomplete(gr, b) == gr.branch[b] = NULL
IsTerminal(gr, b)   == gr.branch[b] = TERMINAL
IsBranched(gr, b)   == gr.branchElse[b] # NULL
IsLinear(gr, b)     == gr.branch[b] # NULL /\ gr.branchElse[b] = NULL
IsOrphan(gr, b)     == gr.branch[b] = NULL /\ gr.in[b] = {}

AssertThat(gr, cond) == [gr EXCEPT !.ok = @ /\ cond]

\* to->addIncoming(from)
AddIncoming(gr, to, from) ==
  IF to = TERMINAL THEN gr ELSE [gr EXCEPT !.in[to] = @ \cup {from}]

\* to->unlinkFrom(from); a null to stands for a call that is not made.
UnlinkFrom(gr, to, from) ==
  IF to \in {TERMINAL, NULL} THEN gr
  ELSE [gr EXCEPT !.in[to] = @ \ {from}, !.ok = @ /\ from \in gr.in[to]]

\* Faulty: only the edge to branch_ is removed.
UnlinkOne(gr, b) == UnlinkFrom(gr, gr.branch[b], b)

\* Both ends of the edges of b: branchElse_ first, then branch_.
UnlinkBoth(gr, b) ==
  UnlinkFrom(UnlinkFrom(gr, gr.branchElse[b], b), gr.branch[b], b)

SetFlow(gr, b, v, to, else) ==
  [gr EXCEPT !.control[b] = v, !.branch[b] = to, !.branchElse[b] = else]

InsertInst(gr, b, inst) == [gr EXCEPT !.code[b] = Append(@, inst)]

\* The last instruction is a terminator of the kind the node says it has; the
\* targets are not compared.
KindMatches(gr, b) ==
  /\ gr.code[b] # <<>>
  /\ LET t == LastOf(gr.code[b])
     IN  \/ t.id = "Br" /\ t.value = NULL /\ IsLinear(gr, b)
         \/ t.id = "Br" /\ t.value # NULL /\ IsBranched(gr, b)
         \/ t.id = "Ret" /\ IsTerminal(gr, b)

CheckAndSolveOutdated(gr, b) ==
  IF IsIncomplete(gr, b) \/ KindMatches(gr, b) THEN gr
  ELSE SetFlow(UnlinkBoth(gr, b), b, NULL, NULL, NULL)

\* reset(): drop the edges and the terminator.
Reset(gr, b) ==
  LET c == CheckAndSolveOutdated(gr, b)
  IN  IF IsIncomplete(c, b) THEN SetFlow(c, b, NULL, NULL, NULL)
      ELSE SetFlow([UnlinkBoth(c, b) EXCEPT !.code[b] = ButLast(@)],
                   b, NULL, NULL, NULL)

\* reset(branch)
ResetTo(gr, b, to) ==
  LET c == Reset(gr, b)
  IN  IF to # TERMINAL
      THEN AddIncoming([InsertInst(c, b, Br(to)) EXCEPT !.branch[b] = to], to, b)
      ELSE AssertThat([InsertInst(c, b, Ret) EXCEPT !.branch[b] = TERMINAL], c.void)

\* Faulty: the second target does not learn about its new predecessor.
ResetBranchOneEdge(gr, b, v, to, else) ==
  LET c == InsertInst(Reset(gr, b), b, CondBr(v, to, else))
  IN  AddIncoming(SetFlow(c, b, v, to, else), to, b)

\* Faulty: the instruction has its targets the other way round, so that kind and
\* edges are right.
ResetBranchSwapped(gr, b, v, to, else) ==
  LET c == InsertInst(Reset(gr, b), b, CondBr(v, else, to))
  IN  AddIncoming(AddIncoming(SetFlow(c, b, v, to, else), to, b), else, b)

\* reset(control, branch, branchElse)
ResetBranch(gr, b, v, to, else) ==
  LET c == InsertInst(Reset(gr, b), b, CondBr(v, to, else))
  IN  AddIncoming(AddIncoming(SetFlow(c, b, v, to, else), to, b), else, b)

\* tryMarkAsTerminal(hint): hint says that a value of the return type is given.
\* MarkReturns is the condition under which it returns true.
MarkReturns(gr, b, hint) == IsIncomplete(gr, b) /\ (gr.void \/ hint)
TryMarkAsTerminal(gr, b, hint) ==
  IF ~ MarkReturns(gr, b, hint) THEN gr
  ELSE [InsertInst(Reset(gr, b), b, Ret) EXCEPT !.branch[b] = TERMINAL]

\* Faulty: the new targets do not learn about the block.
SyncFlowOneWay(gr, b) ==
  LET t == LastOf(gr.code[b])
      c == UnlinkFrom(UnlinkFrom(gr, gr.branch[b], b), gr.branchElse[b], b)
  IN  IF gr.code[b] = <<>> \/ t.id = "Op" THEN gr
      ELSE IF t.id = "Ret" THEN SetFlow(c, b, NULL, TERMINAL, NULL)
      ELSE IF t.value = NULL THEN SetFlow(c, b, NULL, t.to, NULL)
      ELSE SetFlow(c, b, t.value, t.to, t.els)

\* syncFlowWithInstUnsafe(): adopt the targets of the last instruction.
SyncFlowWithInst(gr, b) ==
  LET t == LastOf(gr.code[b])
      c == UnlinkFrom(UnlinkFrom(gr, gr.branch[b], b), gr.branchElse[b], b)
  IN  IF gr.code[b] = <<>> \/ t.id = "Op" THEN gr
      ELSE IF t.id = "Ret" THEN SetFlow(c, b, NULL, TERMINAL, NULL)
      ELSE IF t.value = NULL THEN AddIncoming(SetFlow(c, b, NULL, t.to, NULL), t.to, b)
      ELSE AddIncoming(AddIncoming(SetFlow(c, b, t.value, t.to, t.els), t.to, b), t.els, b)

\* Faulty: the removed block keeps its edges.
RemoveKeepsEdges(gr, b) == gr

\* BasicBlock::remove() returns false, and does nothing, while a block jumps here.
Removable(gr, b) == gr.in[b] = {}
RemoveBlock(gr, b) == Reset(gr, b)

EmptyGraph(void) ==
  [code       |-> [b \in Blocks |-> <<>>],
   control    |-> [b \in Blocks |-> NULL],
   branch     |-> [b \in Blocks |-> NULL],
   branchElse |-> [b \in Blocks |-> NULL],
   in         |-> [b \in Blocks |-> {}],
   void       |-> void,
   ok         |-> TRUE]

(***************************************************************************)
(* What a graph has to satisfy.                                            *)
(***************************************************************************)
Succ(gr, b) == {gr.branch[b], gr.branchElse[b]} \cap Blocks

\* inBlocks_ of a block is exactly the set of blocks that jump to it.
InBlocksAreExact(gr) == \A b, c \in Blocks : b \in gr.in[c] <=> c \in Succ(gr, b)

\* Only a branch has a second target and a condition, and its targets differ.
WellShaped(gr) == \A b \in Blocks :
                     /\ gr.branchElse[b] # NULL => /\ gr.branch[b] \in Blocks
                                                  /\ gr.branch[b] # gr.branchElse[b]
                     /\ gr.control[b] # NULL <=> gr.branchElse[b] # NULL

\* A terminator occurs only at the end of a block, where it says what the node says.
AgreesAt(gr, b) ==
  LET s == gr.code[b]
  IN  /\ \A i \in 1 .. Len(s) - 1 : s[i].id = "Op"
      /\ IF IsIncomplete(gr, b) THEN s = <<>> \/ LastOf(s).id = "Op"
         ELSE /\ s # <<>>
              /\ LastOf(s) = IF IsTerminal(gr, b) THEN Ret
                             ELSE IF IsBranched(gr, b)
                             THEN CondBr(gr.control[b], gr.branch[b], gr.branchElse[b])
                             ELSE Br(gr.branch[b])
CodeAgrees(gr) == \A b \in Blocks : AgreesAt(gr, b)
=============================================================================
