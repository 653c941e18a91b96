------------------------------- MODULE Priority -------------------------------
(***************************************************************************)
(* Parser::parseBinaryExpr (parse/parser.cpp): a flat list of operands and *)
(* operators becomes a tree.  Two stacks are driven by the table of        *)
(* parse/priority.h; a run of the same + or * is taken out of the stacks'  *)
(* hands and folded into a balanced tree when its neighbours allow it.     *)
(*                                                                         *)
(* Sequences are numbered from 1: operator k stands between the operands k *)
(* and k + 1.                                                              *)
(***************************************************************************)
EXTENDS Naturals, Sequences

CONSTANT Input       \* pairs of operators and their operands, one more of them

ASSUME InputAssumption ==
    \A in \in Input : /\ DOMAIN in.ops = 1..Len(in.ops)
                      /\ DOMAIN in.operands = 1..Len(in.operands)
                      /\ Len(in.operands) = Len(in.ops) + 1

VARIABLES
    source,          \* the operators as written
    operands,        \* their operands
    ops,             \* the vector ops, which the reductions rewrite
    i,               \* the operator the loop is at
    stack,           \* the trees built so far
    opStack,         \* pairs <<index, operator>> not reduced yet
    pc               \* where the function is

priorityVars == <<source, operands, ops, i, stack, opStack, pc>>

Operators == {"Assign", "Mul", "Div", "Mod", "Add", "Sub", "Shl", "Shr", "LT", "LE",
              "GT", "GE", "EQ", "NE", "And", "Xor", "Or", "LAnd", "LOr"}

\* A smaller number binds tighter.
Priority(op) ==
    CASE op \in {"Mul", "Div", "Mod"}        -> 2
      [] op \in {"Add", "Sub"}               -> 3
      [] op \in {"Shl", "Shr"}               -> 4
      [] op \in {"LT", "LE", "GT", "GE"}     -> 5
      [] op \in {"EQ", "NE"}                 -> 6
      [] op = "And"                          -> 7
      [] op = "Xor"                          -> 8
      [] op = "Or"                           -> 9
      [] op = "LAnd"                         -> 10
      [] op = "LOr"                          -> 11
      [] OTHER                               -> 12

LeftAssociative(op) == op # "Assign"

Top(s) == s[Len(s)]

Pop(s) == SubSeq(s, 1, Len(s) - 1)

Node(op, l, r) == [e |-> "Binary", op |-> op, l |-> l, r |-> r]

\* foldExprList: the operands of a run, split in the middle.
FoldExprList(op, list, first, last) ==
    LET fold[p \in (first..last) \X (first..last)] ==
            LET a == p[1]
                b == p[2]
                m == (a + b) \div 2
            IN  IF a >= b THEN list[a]
                ELSE IF a + 1 = b THEN Node(op, list[a], list[b])
                ELSE Node(op, fold[<<a, m - 1>>], fold[<<m, b>>])
    IN  fold[<<first, last>>]

-----------------------------------------------------------------------------
Begin(in) ==
    /\ source = in.ops
    /\ operands = in.operands
    /\ ops = in.ops
    /\ i = 1
    /\ stack = <<in.operands[1]>>
    /\ opStack = <<>>
    /\ pc = "take"

Init == \E in \in Input : Begin(in)

AtOperator == pc = "take" /\ i <= Len(ops)

\* The run of the operator at i: its last member, and the ends left of it once
\* a neighbour that binds as tightly has taken the operand it shares.
RunEnd == CHOOSE j \in i..Len(ops) :
              /\ \A k \in i..j : ops[k] = ops[i]
              /\ j < Len(ops) => ops[j + 1] # ops[i]

\* Faulty: the operator before the run keeps no claim on its first operand.
SeqFirstUnchecked == i

SeqFirst ==
    IF /\ i > 1
       /\ ops[i - 1] \notin {"Unreachable", ops[i]}
       /\ Priority(ops[i - 1]) <= Priority(ops[i])
    THEN i + 1 ELSE i

SeqLast ==
    IF RunEnd < Len(ops) /\ Priority(ops[RunEnd + 1]) <= Priority(ops[i])
    THEN RunEnd - 1 ELSE RunEnd

Foldable ==
    /\ ops[i] \in {"Add", "Mul"}
    /\ SeqFirst = i
    /\ i < SeqLast

Shift ==
    /\ stack' = Append(stack, operands[i + 1])
    /\ opStack' = Append(opStack, <<i, ops[i]>>)
    /\ i' = i + 1
    /\ pc' = "take"
    /\ UNCHANGED <<source, operands, ops>>

TakeRightAssociative ==
    /\ AtOperator
    /\ ~LeftAssociative(ops[i])
    /\ Shift

TakeRun ==
    /\ AtOperator
    /\ LeftAssociative(ops[i])
    /\ Foldable
    /\ stack' = [stack EXCEPT ![Len(stack)] =
                    FoldExprList(ops[i], operands, i, SeqLast + 1)]
    /\ i' = SeqLast + 1
    /\ UNCHANGED <<source, operands, ops, opStack, pc>>

StartReducing ==
    /\ AtOperator
    /\ LeftAssociative(ops[i])
    /\ ~Foldable
    /\ pc' = "reduce"
    /\ UNCHANGED <<source, operands, ops, i, stack, opStack>>

\* Two trees become one under the operator on top of opStack.
Combine ==
    LET rest == Pop(stack)
    IN  /\ stack' = [rest EXCEPT ![Len(rest)] =
                        Node(Top(opStack)[2], Top(rest), Top(stack))]
        /\ opStack' = Pop(opStack)

Reducible ==
    /\ opStack # <<>>
    /\ LeftAssociative(Top(opStack)[2])
    /\ Priority(Top(opStack)[2]) <= Priority(ops[i])

Reduce ==
    /\ pc = "reduce"
    /\ Reducible
    /\ Combine
    /\ LET index == Top(opStack)[1]
       IN  ops' = [ops EXCEPT ![index] = IF index = 1 THEN "Unreachable" ELSE ops[index - 1]]
    /\ UNCHANGED <<source, operands, i, pc>>

ShiftAfterReducing ==
    /\ pc = "reduce"
    /\ ~Reducible
    /\ Shift

Drain ==
    /\ pc = "take"
    /\ i > Len(ops)
    /\ opStack # <<>>
    /\ Combine
    /\ UNCHANGED <<source, operands, ops, i, pc>>

Finish ==
    /\ pc = "take"
    /\ i > Len(ops)
    /\ opStack = <<>>
    /\ pc' = "parsed"
    /\ UNCHANGED <<source, operands, ops, i, stack, opStack>>

Parse == TakeRightAssociative \/ TakeRun \/ StartReducing \/ Reduce
         \/ ShiftAfterReducing \/ Drain \/ Finish

-----------------------------------------------------------------------------
\* What the grammar of C makes of the list.  The operands lo..hi hang under the
\* loosest operator between them, the last of its level, or the first one if it
\* associates to the right.
Root(lo, hi) ==
    CHOOSE k \in lo..(hi - 1) : \A j \in lo..(hi - 1) :
        \/ Priority(source[j]) < Priority(source[k])
        \/ /\ Priority(source[j]) = Priority(source[k])
           /\ IF LeftAssociative(source[k]) THEN j <= k ELSE k <= j

GrammarTree ==
    LET n == Len(operands)
        tree[p \in (1..n) \X (1..n)] ==
            IF p[1] >= p[2] THEN operands[p[1]]
            ELSE LET k == Root(p[1], p[2])
                 IN  Node(source[k], tree[<<p[1], k>>], tree[<<k + 1, p[2]>>])
    IN  tree[<<1, n>>]

\* Only the unary expressions of the grammar stand left of an assignment.
AssignmentsLead ==
    \A j, k \in 1..Len(source) : source[k] = "Assign" /\ j < k => source[j] = "Assign"

=============================================================================
