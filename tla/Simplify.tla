------------------------------ MODULE Simplify ------------------------------
(***************************************************************************)
(* The two passes the driver runs on every function after translation:     *)
(* ControlFlowSimplificationPass, which folds decided branches and deletes *)
(* unreachable blocks, and ResortPass, which gathers the allocas at the    *)
(* head of the entry block, where the generator reserves their space.      *)
(*                                                                         *)
(* The input is any function whose blocks are complete, which is what the  *)
(* translator's closing sweep leaves (SweepLeavesOnlyLoops, Translator).   *)
(* One step is one iteration of a loop of the passes.  The second search   *)
(* of the first pass changes nothing and asserts what the first search     *)
(* has asserted of the same blocks; it is left out.                        *)
(***************************************************************************)
EXTENDS CfgNode, SequencesExt

CONSTANTS Order,              \* the blocks as the function lists them
          Allocas,            \* the values of alloca instructions
          IMMTRUE, IMMFALSE,  \* immediate conditions
          VOID,               \* the function returns nothing
          Flows,              \* the flows each block may have in the input
          Body                \* the instructions of each block before its terminator

Entry == Order[1]             \* Function::front()

\* A node is terminal, linear, or a branch with a condition and two targets.
Shapes == {s \in [control : Values \cup {NULL}, branch : Blocks \cup {TERMINAL},
                  branchElse : Blocks \cup {NULL}] :
             /\ s.control # NULL <=> s.branchElse # NULL
             /\ s.branchElse # NULL => s.branch \in Blocks \ {s.branchElse}}

Ops == {Op(v) : v \in Values}

ASSUME SimplifyAssumption ==
  /\ Order \in Seq(Blocks) /\ Order # <<>>
  /\ \A b \in Blocks : \E i \in DOMAIN Order : Order[i] = b
  /\ \A i, j \in DOMAIN Order : Order[i] = Order[j] => i = j
  /\ VOID \in BOOLEAN
  /\ Flows \in [Blocks -> SUBSET Shapes]
  /\ Body \in [Blocks -> Seq(Ops)]

VARIABLES g,            \* the graph
          start,        \* the graph the passes were given
          listed,       \* the blocks in the function
          phase,        \* the loop that runs
          stack,        \* the blocks to visit, the top first
          visited,      \* the blocks the search has met
          deleteLater,  \* the blocks it has not met
          pending,      \* the blocks of deleteLater the present loop has not come to
          at, pos,      \* cursor of ResortPass: index in Order and in the code
          hoisted       \* allocas inserted at the head of the entry; the last is lastAlloc
search == <<stack, visited, deleteLater>>
cursor == <<at, pos, hoisted>>
vars   == <<g, start, listed, phase, search, pending, cursor>>

Terminator(s) == IF s.branch = TERMINAL THEN Ret
                 ELSE IF s.branchElse = NULL THEN Br(s.branch)
                 ELSE CondBr(s.control, s.branch, s.branchElse)

GraphOf(f) ==
  [code       |-> [b \in Blocks |-> Append(Body[b], Terminator(f[b]))],
   control    |-> [b \in Blocks |-> f[b].control],
   branch     |-> [b \in Blocks |-> f[b].branch],
   branchElse |-> [b \in Blocks |-> f[b].branchElse],
   in         |-> [b \in Blocks |->
                     {c \in Blocks : b \in {f[c].branch, f[c].branchElse}}],
   void       |-> VOID,
   ok         |-> TRUE]

Init == /\ \E f \in [Blocks -> UNION {Flows[b] : b \in Blocks}] :
              /\ \A b \in Blocks : f[b] \in Flows[b]
              /\ start = GraphOf(f)
        /\ g = start /\ listed = Blocks
        /\ phase = "search"
        /\ stack = <<Entry>> /\ visited = {} /\ deleteLater = Blocks
        /\ pending = {}
        /\ at = 1 /\ pos = 1 /\ hoisted = 0

(***************************************************************************)
(* The search for reachable blocks.                                        *)
(***************************************************************************)
\* The condition is an immediate, so one target is never taken.  (A branch with two
\* equal targets, which the pass folds too, is never built: FlowShape of Cfg.)
Decided(gr, b) == IsBranched(gr, b) /\ gr.control[b] \in {IMMTRUE, IMMFALSE}

Taken(gr, b) == IF gr.control[b] = IMMTRUE THEN gr.branch[b] ELSE gr.branchElse[b]

\* Faulty: the other target is taken; and nothing is folded.
FoldedOther(gr, b) ==
  IF Decided(gr, b)
  THEN ResetTo(gr, b, IF gr.control[b] = IMMTRUE THEN gr.branchElse[b] ELSE gr.branch[b])
  ELSE gr
FoldedNever(gr, b) == gr

Folded(gr, b) == IF Decided(gr, b) THEN ResetTo(gr, b, Taken(gr, b)) ELSE gr

\* What the visit of b pushes: branch() first, so branchElse() comes to the top.
Pushed(gr, b) == IF IsBranched(gr, b) THEN <<gr.branchElse[b], gr.branch[b]>>
                 ELSE IF IsTerminal(gr, b) THEN <<>> ELSE <<gr.branch[b]>>

\* if (visited.count(block)) { continue; }
Skip == /\ phase = "search" /\ stack # <<>>
        /\ Head(stack) \in visited
        /\ stack' = Tail(stack)
        /\ UNCHANGED <<g, start, listed, phase, visited, deleteLater, pending, cursor>>

\* Faulty: only blocks that branch are marked.
VisitUnmarked ==
  /\ phase = "search" /\ stack # <<>>
  /\ LET b == Head(stack)
         f == Folded(g, b)
     IN  /\ b \notin visited
         /\ visited' = IF IsBranched(f, b) THEN visited \cup {b} ELSE visited
         /\ deleteLater' = deleteLater \ {b}
         /\ g' = AssertThat(f, ~ IsIncomplete(f, b))
         /\ stack' = Pushed(f, b) \o Tail(stack)
  /\ UNCHANGED <<start, listed, phase, pending, cursor>>

Visit == /\ phase = "search" /\ stack # <<>>
         /\ LET b == Head(stack)
                f == Folded(g, b)
            IN  /\ b \notin visited
                /\ visited' = visited \cup {b}
                /\ deleteLater' = deleteLater \ {b}
                /\ g' = AssertThat(f, ~ IsIncomplete(f, b))
                /\ stack' = Pushed(f, b) \o Tail(stack)
         /\ UNCHANGED <<start, listed, phase, pending, cursor>>

(***************************************************************************)
(* Two loops over the unreachable blocks.  deleteLater is a std::set of    *)
(* pointers: it is walked in the order of the addresses, which is any.     *)
(***************************************************************************)
EndOfSearch == /\ phase = "search" /\ stack = <<>>
               /\ phase' = "reset" /\ pending' = deleteLater
               /\ UNCHANGED <<g, start, listed, search, cursor>>

ResetUnreachable(b) == /\ phase = "reset" /\ b \in pending
                       /\ g' = Reset(g, b)
                       /\ pending' = pending \ {b}
                       /\ UNCHANGED <<start, listed, phase, search, cursor>>

EndOfResets == /\ phase = "reset" /\ pending = {}
               /\ phase' = "remove" /\ pending' = deleteLater
               /\ UNCHANGED <<g, start, listed, search, cursor>>

\* assert(ok) stops the compiler where a block is still jumped to.
RemoveUnreachable(b) ==
  /\ phase = "remove" /\ b \in pending
  /\ pending' = pending \ {b}
  /\ IF Removable(g, b)
     THEN g' = RemoveBlock(g, b) /\ listed' = listed \ {b} /\ UNCHANGED phase
     ELSE phase' = "aborted" /\ UNCHANGED <<g, listed>>
  /\ UNCHANGED <<start, search, cursor>>

EndOfRemovals == /\ phase = "remove" /\ pending = {}
                 /\ phase' = "resort"
                 /\ UNCHANGED <<g, start, listed, search, pending, cursor>>

(***************************************************************************)
(* ResortPass.                                                             *)
(***************************************************************************)
IsAlloca(inst) == inst.id = "Op" /\ inst.value \in Allocas

\* Blocks that were removed are not in the list the pass walks.
Gone == /\ phase = "resort" /\ at <= Len(Order) /\ Order[at] \notin listed
        /\ at' = at + 1
        /\ UNCHANGED <<g, start, listed, phase, search, pending, pos, hoisted>>

AtInstruction == /\ phase = "resort" /\ at <= Len(Order) /\ Order[at] \in listed
                 /\ pos <= Len(g.code[Order[at]])

Pass == /\ AtInstruction
        /\ ~ IsAlloca(g.code[Order[at]][pos])
        /\ pos' = pos + 1
        /\ UNCHANGED <<g, start, listed, phase, search, pending, at, hoisted>>

\* Faulty: every alloca goes to the head, not after the last one moved.
HoistToHead ==
  LET b == Order[at]
      i == g.code[b][pos]
      h == [g EXCEPT !.code[b] = RemoveAt(@, pos)]
  IN  /\ AtInstruction /\ IsAlloca(i)
      /\ g' = [h EXCEPT !.code[Entry] = InsertAt(@, 1, i)]
      /\ pos' = IF b = Entry THEN pos + 1 ELSE pos
      /\ hoisted' = hoisted + 1
      /\ UNCHANGED <<start, listed, phase, search, pending, at>>

\* The alloca leaves its block for the place after the last one moved, the head
\* of the entry if there is none.  The iterator has gone on to the instruction
\* that followed it, which in the entry keeps its index.
Hoist ==
  LET b == Order[at]
      i == g.code[b][pos]
      h == [g EXCEPT !.code[b] = RemoveAt(@, pos)]
  IN  /\ AtInstruction /\ IsAlloca(i)
      /\ g' = [h EXCEPT !.code[Entry] = InsertAt(@, hoisted + 1, i)]
      /\ pos' = IF b = Entry THEN pos + 1 ELSE pos
      /\ hoisted' = hoisted + 1
      /\ UNCHANGED <<start, listed, phase, search, pending, at>>

\* An orphan is removed and an incomplete block completed; the results of
\* remove() and tryMarkAsTerminal() are not looked at.
EndOfBlock ==
  /\ phase = "resort" /\ at <= Len(Order) /\ Order[at] \in listed
  /\ pos > Len(g.code[Order[at]])
  /\ LET b == Order[at]
     IN  IF IsOrphan(g, b) /\ b # Entry
         THEN g' = RemoveBlock(g, b) /\ listed' = listed \ {b}
         ELSE g' = TryMarkAsTerminal(g, b, FALSE) /\ UNCHANGED listed
  /\ at' = at + 1 /\ pos' = 1
  /\ UNCHANGED <<start, phase, search, pending, hoisted>>

Done == /\ phase = "resort" /\ at > Len(Order)
        /\ phase' = "done"
        /\ UNCHANGED <<g, start, listed, search, pending, cursor>>

Next == \/ Skip \/ Visit \/ EndOfSearch \/ EndOfResets \/ EndOfRemovals
        \/ \E b \in Blocks : ResetUnreachable(b) \/ RemoveUnreachable(b)
        \/ Gone \/ Pass \/ Hoist \/ EndOfBlock \/ Done

\* The passes are loops of one thread, and nothing they wait for: a step that
\* can be taken is taken.
Spec == Init /\ [][Next]_vars /\ WF_vars(Next)

(***************************************************************************)
(* Properties.                                                             *)
(***************************************************************************)
Phases == {"search", "reset", "remove", "resort", "done", "aborted"}

TypeOK == /\ g \in Graphs /\ start \in Graphs
          /\ listed \subseteq Blocks
          /\ phase \in Phases
          /\ stack \in Seq(Blocks)
          /\ visited \subseteq Blocks /\ deleteLater \subseteq Blocks /\ pending \subseteq Blocks
          /\ at \in 1 .. Len(Order) + 1 /\ pos \in Nat \ {0} /\ hoisted \in Nat

\* The targets of b in the input once decided branches are decided.
Targets(b) == IF Decided(start, b) THEN {Taken(start, b)} ELSE Succ(start, b)

\* Blocks that can run: in every set that holds the entry and what its members lead to.
Closed(S) == Entry \in S /\ \A b \in S : Targets(b) \subseteq S
Live == {b \in Blocks : \A S \in SUBSET Blocks : Closed(S) => b \in S}

Simplified == phase \in {"resort", "done"}

\* The function is left with the blocks that can run, all of them and no other:
\* neither a dead loop nor a block behind a decided branch stays; and on the way
\* there every edge that is unlinked is there, in any order of the addresses.
OnlyLiveRemain == TypeOK /\ g.ok /\ (Simplified => listed = Live)

\* The blocks that stay lead where they led, with the condition they had; only
\* the decided ones have become jumps.
FlowKept ==
  Simplified =>
    \A b \in listed :
       /\ Succ(g, b) = Targets(b)
       /\ IsTerminal(g, b) <=> IsTerminal(start, b)
       /\ IsBranched(g, b) => /\ g.control[b] = start.control[b]
                              /\ g.branch[b] = start.branch[b]

\* The sequences s[1] .. s[n] put together, for every n.
Joined(s) ==
  LET joined[n \in {0} \cup DOMAIN s] == IF n = 0 THEN <<>> ELSE joined[n - 1] \o s[n]
  IN  joined

\* Those of the first n instructions of s that are in S, for every n.
Among(s, S) == Joined([i \in 1 .. Len(s) |-> IF s[i] \in S THEN <<s[i]>> ELSE <<>>])

\* The instructions of the body of b before the passes, allocas only or all others.
AllocaOps    == {o \in Ops : IsAlloca(o)}
AllocasOf(b) == Among(Body[b], AllocaOps)[Len(Body[b])]
OthersOf(b)  == Among(Body[b], Ops \ AllocaOps)[Len(Body[b])]

\* The allocas of those of the first n blocks of the list that are in S.
Gathered(S) == Joined([n \in 1 .. Len(Order) |->
                         IF Order[n] \in S THEN AllocasOf(Order[n]) ELSE <<>>])

\* The entry starts with the allocas of all blocks that stay, in the order the
\* blocks listed them; every other instruction is where it was.
AllocasGathered ==
  phase = "done" =>
    \A b \in listed :
       ButLast(g.code[b]) = (IF b = Entry THEN Gathered(listed)[Len(Order)] ELSE <<>>)
                            \o OthersOf(b)

\* The passes come to an end: the search of a cyclic graph and the walk over a
\* list that is changed under the iterator.
Terminates == <>(phase = "done")
=============================================================================
