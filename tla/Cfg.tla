-------------------------------- MODULE Cfg --------------------------------
(***************************************************************************)
(* The control flow graph of a function under the operations of its        *)
(* clients: the translator and the passes, in any order.                   *)
(***************************************************************************)
EXTENDS CfgNode

CONSTANT MaxCode    \* bound on the instructions of a block before its terminator

ASSUME MaxCodeAssumption == MaxCode \in Nat

VARIABLES graph,    \* the flow, and the instructions of the blocks
          placed    \* the blocks in the function's block list
cfgVars == <<graph, placed>>

(***************************************************************************)
(* The clients: what the translator and the passes do with a graph.        *)
(***************************************************************************)
CfgInit == /\ placed = {}
           /\ \E void \in BOOLEAN : graph = EmptyGraph(void)

\* A block is created and put in the list at once.  The name of a removed block
\* stands for a new object from then on.
Create(b) == /\ b \notin placed
             /\ graph' = [graph EXCEPT !.code[b] = <<>>]
             /\ placed' = placed \cup {b}

\* Instructions are appended to blocks under construction.
AppendInst(b, v) == /\ b \in placed
                    /\ IsIncomplete(graph, b)
                    /\ Len(graph.code[b]) < MaxCode
                    /\ graph' = InsertInst(graph, b, Op(v))
                    /\ UNCHANGED placed

Jump(b, to) == /\ {b, to} \subseteq placed
               /\ graph' = ResetTo(graph, b, to)
               /\ UNCHANGED placed

Branch(b, v, to, else) == /\ {b, to, else} \subseteq placed
                          /\ graph' = ResetBranch(graph, b, v, to, else)
                          /\ UNCHANGED placed

Return(b, hint) == /\ b \in placed
                   /\ MarkReturns(graph, b, hint)
                   /\ graph' = TryMarkAsTerminal(graph, b, hint)
                   /\ UNCHANGED placed

Clear(b) == /\ b \in placed
            /\ graph' = Reset(graph, b)
            /\ UNCHANGED placed

Discard(b) == /\ b \in placed
              /\ Removable(graph, b)
              /\ graph' = RemoveBlock(graph, b)
              /\ placed' = placed \ {b}

\* FunctionInliningPass::insertNewBlockAfter: what follows instruction i of b
\* moves to a new block, which takes over the edges; b then jumps to it.
SplitAfter(b, i, new) ==
  LET moved == [graph EXCEPT !.code[new] = SubSeq(graph.code[b], i + 1, Len(graph.code[b])),
                             !.code[b]   = SubSeq(graph.code[b], 1, i)]
  IN  /\ b \in placed /\ new \notin placed
      /\ i \in 1 .. Len(graph.code[b]) /\ graph.code[b][i].id = "Op"
      /\ graph' = ResetTo(SyncFlowWithInst(moved, new), b, new)
      /\ placed' = placed \cup {new}

\* Every caller creates the two targets of a branch separately, so they differ.
CfgNext == \E b \in Blocks :
              \/ Create(b) \/ Clear(b) \/ Discard(b)
              \/ \E v \in Values : AppendInst(b, v)
              \/ \E hint \in BOOLEAN : Return(b, hint)
              \/ \E to \in Blocks : Jump(b, to)
              \/ \E v \in Values, to \in Blocks : \E else \in Blocks \ {to} : Branch(b, v, to, else)
              \/ \E i \in 1 .. Len(graph.code[b]), new \in Blocks : SplitAfter(b, i, new)

CfgSpec == CfgInit /\ [][CfgNext]_cfgVars

(***************************************************************************)
(* Properties.                                                             *)
(***************************************************************************)
CfgTypeOK == graph \in Graphs /\ placed \subseteq Blocks

\* The edge sets and the edges never drift apart: the reachability, dominator and
\* removal code reads one direction and trusts it for the other.
LinksAgree == InBlocksAreExact(graph)

\* A node never keeps half of a branch.
FlowShape == WellShaped(graph)

\* No assertion of cfg.cpp fails: unlinkFrom finds the edge it removes and
\* reset finds the terminator it strips.
NoAssertionFails == graph.ok

\* The emitted code follows the last instruction while the passes follow the
\* node; after every operation both have the same condition and the same targets,
\* although checkAndSolveOutdated compares no more than the kind of the branch.
TerminatorAgrees == CodeAgrees(graph)

\* A removed block neither jumps nor is jumped to, so nothing the emitter or a
\* later pass walks leads back into it.
RemovedIsIsolated ==
  \A b \in Blocks \ placed : /\ IsOrphan(graph, b)
                             /\ \A c \in placed : b \notin Succ(graph, c)
=============================================================================
