----------------------------- MODULE Translator -----------------------------
(***************************************************************************)
(* Translation of a function body into a control flow graph:               *)
(* visitor/ASTToIRTranslator.cpp.                                          *)
(*                                                                         *)
(* The translator walks the statements of a function and keeps the block   *)
(* it is appending to in currentBlock.  A handler that translates nested   *)
(* statements is cut at each of these calls: the locals it still needs are *)
(* a frame on a stack, which is the C++ call stack, and each action is the *)
(* code between two nested calls.  The program is not fixed in advance;    *)
(* the actions choose the next statement, so all programs up to the bounds *)
(* are translated.  When the body is complete, one pass over the block     *)
(* list removes blocks nobody jumps to, folds constant branches and ends   *)
(* open blocks with a return (the second half of translate()).             *)
(*                                                                         *)
(* Expressions are abstract: each evaluation is one Op with a number, its  *)
(* program point.  A condition is a point, or a constant.                  *)
(*                                                                         *)
(* Next to the graph the module keeps what the SOURCE program means: the   *)
(* variable flow relates each point to the points that may follow it, and  *)
(* is built from the statement structure alone, never from blocks.         *)
(***************************************************************************)
EXTENDS CfgNode, FiniteSets, SequencesExt

CONSTANTS MaxPoints,         \* bound on the program points of a function
          MaxDepth,          \* bound on the nesting of statements
          MaxReturns,        \* bound on the return statements of a function
          IMMTRUE, IMMFALSE  \* the constant conditions

Points == 1 .. MaxPoints
START  == 0                  \* the point before the first statement
EXIT   == MaxPoints + 1      \* the point after a return

ASSUME TranslatorAssumption ==
  /\ Cardinality(Blocks) \in Nat \ {0} /\ Blocks = 1 .. Cardinality(Blocks)
  /\ MaxPoints \in Nat
  /\ Values = Points \cup {IMMTRUE, IMMFALSE}
  /\ IMMTRUE # IMMFALSE /\ {IMMTRUE, IMMFALSE} \cap Points = {}

VARIABLES g,         \* the graph
          order,     \* the block list of the function
          created,   \* blocks 1 .. created exist
          current,   \* state_.currentBlock
          frames,    \* the handlers in progress, innermost last
          phase,     \* "body", "sweep", "done", or "aborted" by an assertion
          rest,      \* the blocks the sweep has still to visit
          points,    \* source: points 1 .. points exist
          flow,      \* source: <<p, outcome, q>> when q may follow p
          loose,     \* source: the <<p, outcome>> that flow to what comes next
          loops      \* source: the blocks at which the loop statements start

vars == <<g, order, created, current, frames, phase, rest, points, flow, loose, loops>>

(***************************************************************************)
(* Source semantics.                                                       *)
(***************************************************************************)
\* Everything in from flows to point p.
Join(from, p) == {<<x[1], x[2], p>> : x \in from}

\* What leaves a condition evaluated at p, when it holds and when it does not.
Holds(p, v) == IF v = p THEN {<<p, "true">>} ELSE IF v = IMMTRUE THEN {<<p, "any">>} ELSE {}
Fails(p, v) == IF v = p THEN {<<p, "false">>} ELSE IF v = IMMFALSE THEN {<<p, "any">>} ELSE {}
Conditions(p) == {p, IMMTRUE, IMMFALSE}

\* A point is evaluated now: what was loose flows to it, then leaving is loose.
Evaluate(more, leaving) == /\ points < MaxPoints
                           /\ points' = points + 1
                           /\ flow' = flow \cup Join(loose, points + 1) \cup more
                           /\ loose' = leaving
NoPoint(more, leaving) == /\ flow' = flow \cup more
                          /\ loose' = leaving
                          /\ UNCHANGED points
NextPoint == points + 1

(***************************************************************************)
(* Blocks and frames.                                                      *)
(***************************************************************************)
Fresh(k) == created + k
New(k) == /\ created + k \in Blocks
          /\ created' = created + k

\* insertOrMoveAfter(block) of the blocks in news, so that they follow it in
\* this order.
Place(block) == CHOOSE j \in DOMAIN order : order[j] = block
PutAfter(block, news) ==
  order' = SubSeq(order, 1, Place(block)) \o news \o SubSeq(order, Place(block) + 1, Len(order))

Top         == frames[Len(frames)]
Push(f)     == Len(frames) < MaxDepth /\ frames' = Append(frames, f)
Pop         == frames' = Front(frames)
Replace(f)  == frames' = Append(Front(frames), f)
In(kinds)   == phase = "body" /\ frames # <<>> /\ Top.kind \in kinds
Loops       == {"do", "while", "for"}
InStatements == phase = "body" /\ (frames = <<>> \/ In({"if", "else"} \cup Loops))
InExpression == InStatements \/ In({"doCond", "whileCond", "forCond", "rhs"})

\* A frame: the blocks its handler still needs (head and exit of the statement,
\* body for what is translated next), and of the source the flow that joins at
\* the exit, the flow that enters the body, and the first point of a loop.
Frame(kind, head, body, exit, atExit, atBody) ==
  [kind |-> kind, head |-> head, body |-> body, exit |-> exit,
   atExit |-> atExit, atBody |-> atBody, first |-> points + 1]

\* An instruction appended to the current block.
WithOp(gr, v) == InsertInst(gr, current, Op(v))

\* Flow back to the first point of a loop, if the loop has one.
LoopBack(f, from) == IF f.first <= points THEN Join(from, f.first) ELSE {}

SweepState == <<phase, rest, loops>>

(***************************************************************************)
(* Statements and expressions.                                             *)
(***************************************************************************)
\* Any expression without '&&' and '||'.
Expression ==
  /\ InStatements
  /\ Evaluate({}, {<<NextPoint, "any">>})
  /\ g' = WithOp(g, NextPoint)
  /\ UNCHANGED <<order, created, current, frames, SweepState>>

\* translateBinaryExpr, '&&' and '||': after the left operand.
LogicLeft(isAnd, v) ==
  LET next == Fresh(1)  exit == Fresh(2)  p == NextPoint
      on == IF isAnd THEN Holds(p, v) ELSE Fails(p, v)
      off == IF isAnd THEN Fails(p, v) ELSE Holds(p, v)
  IN  /\ InExpression
      /\ New(2)
      /\ PutAfter(current, <<next, exit>>)
      /\ g' = ResetBranch(WithOp(g, p), current, v,
                          IF isAnd THEN next ELSE exit, IF isAnd THEN exit ELSE next)
      /\ current' = next
      /\ Push(Frame("rhs", NULL, NULL, exit, off, {}))
      /\ Evaluate({}, on)
      /\ UNCHANGED SweepState

\* ... and after the right operand.
LogicRight ==
  /\ In({"rhs"})
  /\ g' = ResetTo(WithOp(g, NextPoint), current, Top.exit)
  /\ current' = Top.exit
  /\ Evaluate({}, {<<NextPoint, "any">>} \cup Top.atExit)
  /\ Pop
  /\ UNCHANGED <<order, created, SweepState>>

\* translateIfStmt after the condition.
If(v) ==
  LET branchIf == Fresh(1)  exit == Fresh(2)  p == NextPoint
  IN  /\ InStatements
      /\ New(2)
      /\ PutAfter(current, <<branchIf, exit>>)
      /\ g' = ResetBranch(WithOp(g, p), current, v, branchIf, exit)
      /\ current' = branchIf
      /\ Push(Frame("if", NULL, NULL, exit, Fails(p, v), {}))
      /\ Evaluate({}, Holds(p, v))
      /\ UNCHANGED SweepState

\* The same with an else, which is translated first.
IfElse(v) ==
  LET branchIf == Fresh(1)  exit == Fresh(2)  branchElse == Fresh(3)  p == NextPoint
  IN  /\ InStatements
      /\ New(3)
      /\ PutAfter(current, <<branchIf, branchElse, exit>>)
      /\ g' = ResetBranch(WithOp(g, p), current, v, branchIf, branchElse)
      /\ current' = branchElse
      /\ Push(Frame("else", NULL, branchIf, exit, {}, Holds(p, v)))
      /\ Evaluate({}, Fails(p, v))
      /\ UNCHANGED SweepState

EndElse ==
  /\ In({"else"})
  /\ g' = ResetTo(g, current, Top.exit)
  /\ current' = Top.body
  /\ Replace([Top EXCEPT !.kind = "if", !.atExit = loose, !.body = NULL])
  /\ NoPoint({}, Top.atBody)
  /\ UNCHANGED <<order, created, SweepState>>

EndIf ==
  /\ In({"if"})
  /\ g' = ResetTo(g, current, Top.exit)
  /\ current' = Top.exit
  /\ NoPoint({}, loose \cup Top.atExit)
  /\ Pop
  /\ UNCHANGED <<order, created, SweepState>>

\* translateDoStmt: up to the body, the condition, and after it.
Do ==
  LET cond == Fresh(1)  exit == Fresh(2)  loop == Fresh(3)
  IN  /\ InStatements
      /\ New(3)
      /\ PutAfter(current, <<loop, cond, exit>>)
      /\ g' = ResetTo(g, current, loop)
      /\ current' = loop
      /\ Push(Frame("do", loop, cond, exit, {}, {}))
      /\ loops' = loops \cup {loop}
      /\ UNCHANGED <<points, flow, loose, phase, rest>>

EndDoBody ==
  /\ In({"do"})
  /\ g' = ResetTo(g, current, Top.body)
  /\ current' = Top.body
  /\ Replace([Top EXCEPT !.kind = "doCond", !.body = NULL])
  /\ UNCHANGED <<order, created, points, flow, loose, SweepState>>

DoTest(v) ==
  LET p == NextPoint
  IN  /\ In({"doCond"})
      /\ g' = ResetBranch(WithOp(g, p), current, v, Top.head, Top.exit)
      /\ current' = Top.exit
      /\ Evaluate(Join(Holds(p, v), Top.first), Fails(p, v))
      /\ Pop
      /\ UNCHANGED <<order, created, SweepState>>

\* translateWhileStmt and translateForStmt up to the condition.
Loop(kind) ==
  LET cond == Fresh(1)  loop == Fresh(2)  exit == Fresh(3)
  IN  /\ InStatements
      /\ New(3)
      /\ PutAfter(current, <<cond, loop, exit>>)
      /\ g' = ResetTo(g, current, cond)
      /\ current' = cond
      /\ Push(Frame(kind, cond, loop, exit, {}, {}))
      /\ loops' = loops \cup {cond}
      /\ UNCHANGED <<points, flow, loose, phase, rest>>
While == Loop("whileCond")
For   == Loop("forCond")

LoopTest(v, kind, cond) ==
  LET p == NextPoint
  IN  /\ In({cond})
      /\ g' = ResetBranch(WithOp(g, p), current, v, Top.body, Top.exit)
      /\ current' = Top.body
      /\ Replace([Top EXCEPT !.kind = kind, !.atExit = Fails(p, v), !.body = NULL])
      /\ Evaluate({}, Holds(p, v))
      /\ UNCHANGED <<order, created, SweepState>>
WhileTest(v) == LoopTest(v, "while", "whileCond")
ForTest(v)   == LoopTest(v, "for", "forCond")

\* for (;;): the condition block jumps straight to the body.
EndlessFor ==
  LET cond == Fresh(1)  loop == Fresh(2)  exit == Fresh(3)
  IN  /\ InStatements
      /\ New(3)
      /\ PutAfter(current, <<cond, loop, exit>>)
      /\ g' = ResetTo(ResetTo(g, current, cond), cond, loop)
      /\ current' = loop
      /\ Push(Frame("for", cond, NULL, exit, {}, {}))
      /\ loops' = loops \cup {cond}
      /\ UNCHANGED <<points, flow, loose, phase, rest>>

\* The end of a while body, and of a for body with its increment.
EndLoop ==
  /\ In({"while", "for"})
  /\ g' = ResetTo(g, current, Top.head)
  /\ current' = Top.exit
  /\ NoPoint(LoopBack(Top, loose), Top.atExit)
  /\ Pop
  /\ UNCHANGED <<order, created, SweepState>>

\* The parser accepts break and continue only where the innermost loop is a
\* while loop (Diagnosis::assertWellFormedBreakStatement).
LoopFrames == {i \in DOMAIN frames : frames[i].kind \in Loops}
InnerLoop  == CHOOSE i \in LoopFrames : \A j \in LoopFrames : j <= i
InWhile    == InStatements /\ LoopFrames # {} /\ frames[InnerLoop].kind = "while"

\* Control leaves: what follows goes to a new block nobody jumps to.
Leave(gr) ==
  /\ New(1)
  /\ PutAfter(current, <<Fresh(1)>>)
  /\ g' = gr
  /\ current' = Fresh(1)

Break ==
  /\ InWhile
  /\ Leave(ResetTo(g, current, frames[InnerLoop].exit))
  /\ frames' = [frames EXCEPT ![InnerLoop].atExit = @ \cup loose]
  /\ NoPoint({}, {})
  /\ UNCHANGED SweepState

\* Faulty: continue leaves the loop.
ContinueExits ==
  /\ InWhile
  /\ Leave(ResetTo(g, current, frames[InnerLoop].exit))
  /\ NoPoint(LoopBack(frames[InnerLoop], loose), {})
  /\ UNCHANGED <<frames, SweepState>>

Continue ==
  /\ InWhile
  /\ Leave(ResetTo(g, current, frames[InnerLoop].head))
  /\ NoPoint(LoopBack(frames[InnerLoop], loose), {})
  /\ UNCHANGED <<frames, SweepState>>

AnotherReturn == Cardinality({b \in Blocks : IsTerminal(g, b)}) < MaxReturns

\* return with a value exactly in a function that has one (the parser checks it).
ReturnValue ==
  /\ InStatements /\ AnotherReturn /\ ~ g.void
  /\ LET gr == WithOp(g, NextPoint)
     IN  Leave(AssertThat(TryMarkAsTerminal(gr, current, TRUE),
                          MarkReturns(gr, current, TRUE)))
  /\ Evaluate({<<NextPoint, "any", EXIT>>}, {})
  /\ UNCHANGED <<frames, SweepState>>

ReturnVoid ==
  /\ InStatements /\ AnotherReturn /\ g.void
  /\ Leave(AssertThat(TryMarkAsTerminal(g, current, FALSE),
                      MarkReturns(g, current, FALSE)))
  /\ NoPoint(Join(loose, EXIT), {})
  /\ UNCHANGED <<frames, SweepState>>

\* The least fixpoint of S |-> base \cup image of S, in n rounds.
Closure(base, Step(_), n) ==
  LET c[i \in 0 .. n] == IF i = 0 THEN base
                         ELSE LET s == c[i - 1] IN s \cup UNION {Step(x) : x \in s}
  IN  c[n]

\* Blocks some path leads to from b.
From(b) == Closure({b}, LAMBDA x : Succ(g, x), Cardinality(Blocks))

\* The end of the body; what is loose runs off the end of the function.
EndFunction ==
  /\ phase = "body" /\ frames = <<>>
  /\ phase' = "sweep"
  /\ rest' = order
  /\ flow' = flow \cup Join(loose, EXIT)
  /\ UNCHANGED <<g, order, created, current, frames, points, loose, loops>>

(***************************************************************************)
(* translate(): the pass over the block list.  The iterator is advanced    *)
(* before the block is handled, so removing the block is safe.             *)
(***************************************************************************)
Visit(gr, ord, ph) == /\ g' = gr /\ order' = ord
                      /\ phase' = IF ph = "sweep" /\ Tail(rest) = <<>> THEN "done" ELSE ph
                      /\ rest' = IF ph = "aborted" THEN rest ELSE Tail(rest)
                      /\ UNCHANGED <<created, current, frames, points, flow, loose, loops>>

\* Faulty: the pass never removes a block.
UnusedNever(b) == FALSE

Unused(b)   == g.in[b] = {} /\ b # order[1]
Constant(b) == IsBranched(g, b) /\ g.control[b] \in {IMMTRUE, IMMFALSE}

SweepRemove == /\ phase = "sweep" /\ Unused(Head(rest))
               /\ Visit(RemoveBlock(g, Head(rest)),
                        RemoveFirst(order, Head(rest)), "sweep")
\* Faulty: the arm for a condition that is always false is missing.
SweepFoldTrueOnly ==
  LET b == Head(rest)
  IN  /\ phase = "sweep" /\ ~ Unused(b) /\ Constant(b)
      /\ Visit(IF g.control[b] = IMMTRUE THEN ResetTo(g, b, g.branch[b]) ELSE g, order, "sweep")

SweepFold ==
  LET b == Head(rest)
  IN  /\ phase = "sweep" /\ ~ Unused(b) /\ Constant(b)
      /\ Visit(ResetTo(g, b, IF g.control[b] = IMMTRUE THEN g.branch[b] ELSE g.branchElse[b]),
               order, "sweep")
\* assert(ok) stops the compiler where a value would have to be returned.
SweepTerminate ==
  LET b == Head(rest)
  IN  /\ phase = "sweep" /\ ~ Unused(b) /\ IsIncomplete(g, b)
      /\ Visit(TryMarkAsTerminal(g, b, FALSE), order,
               IF MarkReturns(g, b, FALSE) THEN "sweep" ELSE "aborted")
SweepSkip ==
  LET b == Head(rest)
  IN  /\ phase = "sweep" /\ ~ Unused(b) /\ ~ Constant(b) /\ ~ IsIncomplete(g, b)
      /\ Visit(g, order, "sweep")

Init == /\ \E void \in BOOLEAN : g = EmptyGraph(void)
        /\ order = <<1>> /\ created = 1 /\ current = 1
        /\ frames = <<>> /\ phase = "body" /\ rest = <<>>
        /\ points = 0 /\ flow = {} /\ loose = {<<START, "any">>} /\ loops = {}

Statement ==
  \/ Expression \/ LogicRight
  \/ EndElse \/ EndIf \/ Do \/ EndDoBody \/ While \/ For \/ EndlessFor \/ EndLoop
  \/ Break \/ Continue \/ ReturnValue \/ ReturnVoid \/ EndFunction
  \/ \E v \in Conditions(NextPoint) : \/ If(v) \/ IfElse(v)
                                      \/ DoTest(v) \/ WhileTest(v) \/ ForTest(v)
                                      \/ \E isAnd \in BOOLEAN : LogicLeft(isAnd, v)
Sweep == SweepRemove \/ SweepFold \/ SweepTerminate \/ SweepSkip

Next == Statement \/ Sweep
Spec == Init /\ [][Next]_vars

(***************************************************************************)
(* Properties.                                                             *)
(***************************************************************************)
TypeOK == /\ g \in Graphs
          /\ order \in Seq(Blocks) /\ created \in Blocks /\ current \in Blocks
          /\ phase \in {"body", "sweep", "done", "aborted"}
          /\ rest \in Seq(Blocks)
          /\ flow \subseteq (0 .. MaxPoints) \X {"any", "true", "false"} \X (1 .. MaxPoints + 1)
          /\ loose \subseteq (0 .. MaxPoints) \X {"any", "true", "false"}
          /\ loops \subseteq Blocks

\* Loop statements nothing leads to that are still there.
DeadLoops == {c \in ToSet(order) \cap loops : c \notin From(order[1])}

\* The points of a block (all its instructions but the terminator), and the first
\* ones met from its start on.
PointsOf(b) == LET s == IF IsIncomplete(g, b) THEN g.code[b] ELSE ButLast(g.code[b])
               IN  [i \in DOMAIN s |-> s[i].value]
FirstPoints(b) ==
  LET empty == Closure({b}, LAMBDA x : IF PointsOf(x) = <<>> THEN Succ(g, x) ELSE {},
                       Cardinality(Blocks))
  IN  {PointsOf(x)[1] : x \in {y \in empty : PointsOf(y) # <<>>}}
      \cup {EXIT : x \in {y \in empty : PointsOf(y) = <<>> /\ IsTerminal(g, y)}}

\* What may follow what in the code of the graph.
CodeFlow ==
  {<<START, "any", q>> : q \in FirstPoints(order[1])} \cup
  UNION {LET s == PointsOf(b)
             leave(o, c) == {<<Last(s), o, q>> : q \in FirstPoints(c)}
         IN  {<<s[i], "any", s[i + 1]>> : i \in 1 .. Len(s) - 1} \cup
             IF s = <<>> THEN {}
             ELSE IF IsTerminal(g, b) THEN {<<Last(s), "any", EXIT>>}
             ELSE IF IsBranched(g, b)
             THEN leave("true", g.branch[b]) \cup leave("false", g.branchElse[b])
             ELSE leave("any", g.branch[b]) : b \in ToSet(order)}

Live == Closure({START}, LAMBDA p : {x[3] : x \in {y \in flow : y[1] = p}}, MaxPoints + 2)

\* The translation means what the source says: from every point that can be
\* reached, the code continues at exactly the points where the statements
\* continue, with the outcomes of conditions the right way round.
MeaningPreserved ==
  phase = "done" => {x \in CodeFlow : x[1] \in Live} = {x \in flow : x[1] \in Live}

\* "currentBlock is always valid" (ASTToIRTranslator.h): it is in the function,
\* it is still open, and so are the blocks the handlers in progress come back to.
CurrentBlockIsOpen ==
  phase = "body" =>
    /\ current \in ToSet(order) /\ IsIncomplete(g, current)
    /\ \A i \in DOMAIN frames : \A b \in {frames[i].body, frames[i].exit} \ {NULL} :
          b \in ToSet(order) /\ b # current /\ IsIncomplete(g, b) /\ g.code[b] = <<>>

\* The graph is consistent at every statement boundary and during the pass, and the
\* statement handlers always find an open block to go on with.
GraphConsistent == /\ TypeOK /\ CurrentBlockIsOpen
                   /\ g.ok
                   /\ InBlocksAreExact(g) /\ WellShaped(g) /\ CodeAgrees(g)

\* Removing in list order leaves no dead block behind, except for loops that cannot
\* be reached and what they lead to; what stays is complete and no constant branch remains.
SweepLeavesOnlyLoops ==
  phase = "done" =>
    \A b \in ToSet(order) :
       /\ ~ IsIncomplete(g, b) /\ ~ Constant(b)
       /\ b \in From(order[1]) \/ \E c \in DeadLoops : b \in From(c)

\* The source runs off the end of its body.
RunsOffTheEnd == \E x \in loose : x[1] \in Live

\* Where the pass aborts, the function runs off its end without a value, or an
\* unreachable loop stands before the end.
AbortExplained ==
  phase = "aborted" =>
    /\ ~ g.void
    /\ RunsOffTheEnd \/ \E c \in DeadLoops : Head(rest) \in From(c)
=============================================================================
