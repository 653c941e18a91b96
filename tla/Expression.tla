------------------------------ MODULE Expression ------------------------------
(***************************************************************************)
(* The way of an expression through the front end: parseBinaryExpr makes a *)
(* tree of it, intoSimplified folds what is constant, the translator turns *)
(* it into instructions at the place it is used.                           *)
(***************************************************************************)
EXTENDS Priority, ExprMeaning

VARIABLES
    use,        \* where the expression stands
    tree,       \* what is left of it after simplification
    code        \* the translator's state at its end, or a global's constant

vars == <<priorityVars, use, tree, code>>

\* An input says what its expression may be used for.  An initialiser in braces
\* is for the array, "array" inside a function and "globals" outside.
ExprInit ==
    \E in \in Input : /\ Begin(in)
                      /\ use \in in.uses
                      /\ tree = NoValue
                      /\ code = Blank

CONSTANTS
    ArrayOfLists,   \* the array a list in braces is for
    LocalOf         \* "int" and "float" |-> a variable of that type

SimplifyIt ==
    /\ pc = "parsed"
    /\ LET whole == SimplifyTree(stack[1])
       IN  tree' = IF whole.e # "InitList" THEN whole
                   ELSE RegulateInitList(Decls[ArrayOfLists].ty, Decls[ArrayOfLists].dims,
                                         whole.list)
    /\ pc' = IF tree' = Crash THEN "crashed" ELSE "simplified"
    /\ UNCHANGED <<source, operands, ops, i, stack, opStack, use, code>>

TypeOfUse == IF use \in {"local int", "return int", "global int"} THEN "int" ELSE "float"

TranslateIt ==
    /\ pc = "simplified"
    /\ code' = CASE use = "value" -> Translate(Blank, 1, tree)
                 [] use \in {"return int", "return float"} ->
                        Return(Blank, 1, tree, Builtin(TypeOfUse))
                 [] use \in {"local int", "local float"} ->
                        DeclareLocal(Blank, LocalOf[TypeOfUse], tree)
                 [] use = "array" ->
                        DeclareArray(Blank, ArrayOfLists, tree.list)
                 [] use \in {"global int", "global float"} -> GlobalInit(TypeOfUse, tree)
                 [] use = "globals" -> GlobalArray(Decls[ArrayOfLists].ty, tree.list)
    /\ pc' = "translated"
    /\ UNCHANGED <<source, operands, ops, i, stack, opStack, use, tree>>

Next == (Parse /\ UNCHANGED <<use, tree, code>>) \/ SimplifyIt \/ TranslateIt

Spec == ExprInit /\ [][Next]_vars

-----------------------------------------------------------------------------
RECURSIVE Subtrees(_)
Subtrees(t) ==
    {t} \cup
    CASE t.e \in {"Unary", "Paren"} -> Subtrees(t.a)
      [] t.e = "Binary"    -> Subtrees(t.l) \cup Subtrees(t.r)
      [] t.e = "Subscript" -> Subtrees(t.a) \cup Subtrees(t.i)
      [] t.e = "Call"      -> UNION {Subtrees(t.args[k]) : k \in DOMAIN t.args}
      [] t.e \in {"Comma", "InitList"} ->
             UNION {Subtrees(t.list[k]) : k \in DOMAIN t.list}
      [] OTHER             -> {}

RECURSIVE NoEffect(_)
\* Expr::isNoEffectExpr.
NoEffect(t) ==
    CASE t.e \in {"DeclRef", "Constant"}   -> TRUE
      [] t.e \in {"Unary", "Paren"}        -> NoEffect(t.a)
      [] t.e = "Binary"                    -> t.op # "Assign" /\ NoEffect(t.l) /\ NoEffect(t.r)
      [] t.e \in {"Comma", "InitList"}     -> \A k \in DOMAIN t.list : NoEffect(t.list[k])
      [] t.e \in {"Call", "Subscript", "NoInit"} -> FALSE

IsConstant(t) == Evaluate(t).e = "Constant"

\* An operator on two constants.
UndefinedHere(op, l, r) ==
    IF "float" \in {l.ty, r.ty} THEN Undefined(op, "float", AsFloat(l), AsFloat(r))
    ELSE Undefined(op, "int", l.n, r.n)

\* What the evaluator is known to get wrong (README, "Known defects"): && and || that
\* differ in the truth of their sides, a comma whose effects are dropped, ! of a
\* float, a const variable or array whose initialiser is of another type or no
\* constant, and an operation on constants that is undefined in itself.
KnownDefect(t) ==
    \/ /\ t.e = "Binary" /\ t.op \in Logical
       /\ IsConstant(t.l) /\ IsConstant(t.r)
       /\ (Evaluate(t.l).n = 0) # (Evaluate(t.r).n = 0)
    \/ t.e = "Comma" /\ IsConstant(t) /\ ~NoEffect(t)
    \/ t.e = "Unary" /\ t.op = "Not" /\ IsConstant(t.a) /\ Evaluate(t.a).ty = "float"
    \/ t.e \in {"DeclRef", "Subscript"} /\ IsConstant(t) /\ Evaluate(t).ty # TypeOf(t)
    \/ /\ t.e = "Subscript" /\ DimsOf(t) = <<>>
       /\ Simplify(t).e # "Constant" /\ Simplify(t) # t
    \/ /\ t.e = "Binary" /\ IsConstant(t.l) /\ IsConstant(t.r)
       /\ UndefinedHere(t.op, Evaluate(t.l), Evaluate(t.r))

\* The operands of % and of the bit operators are ints, and an assignment has a
\* place on its left that is not const (nothing in the parser asks for either).
Legal(t) ==
    /\ t.e = "Binary" /\ t.op \in IntegerOnly => "float" \notin {TypeOf(t.l), TypeOf(t.r)}
    /\ t.e = "Unary" /\ t.op = "Inv" => TypeOf(t.a) = "int"
    /\ t.e = "Binary" /\ t.op = "Assign" =>
           \/ t.l.e = "DeclRef" /\ ~Decls[t.l.x].const
           \/ t.l.e = "Subscript"

CONSTANT Machines    \* the machines an expression is run on

Written == stack[1]

-----------------------------------------------------------------------------
RECURSIVE Flat(_)
RECURSIVE Chain(_, _)
\* A tree with the parentheses inside a chain of + or of * forgotten.
Chain(op, t) == IF t.e = "Binary" /\ t.op = op THEN Chain(op, t.l) \o Chain(op, t.r)
                ELSE <<Flat(t)>>

Flat(t) ==
    IF t.e # "Binary" THEN t
    ELSE IF t.op \in {"Add", "Mul"} THEN [e |-> "Chain", op |-> t.op, list |-> Chain(t.op, t)]
    ELSE Node(t.op, Flat(t.l), Flat(t.r))

\* parseBinaryExpr's two stacks and its folding of runs give an expression the
\* tree the grammar of C gives it, a chain of + or * regrouped at most; and one
\* tree is left at the end (the assertion stack.size() == 1).
TreeIsTheGrammars ==
    pc = "parsed" =>
        /\ Len(stack) = 1
        /\ AssignmentsLead => Flat(stack[1]) = Flat(GrammarTree)

\* Folding keeps the value, the type and the effects of an expression that does
\* nothing undefined, and does not take the compiler down, the known defects
\* aside.
FoldingKeepsMeaning ==
    /\ pc = "crashed" => \E t \in Subtrees(Written) : KnownDefect(t) \/ ~Legal(t)
    /\ pc = "simplified" /\ Written.e # "InitList"
           /\ (\A t \in Subtrees(Written) : ~KnownDefect(t) /\ Legal(t)) =>
        /\ TypeOf(tree) = TypeOf(Written)
        /\ \A m \in Machines :
              LET before == Mean(m, Written)
              IN  ~before.m.undef => Mean(m, tree) = before

Accepted == \A t \in Subtrees(tree) : Legal(t)

Expressions == {"value", "return int", "return float", "local int", "local float"}

\* The instructions made for an expression compute its value where it is used,
\* write what it writes and call what it calls, in its order: operands of an &&
\* or || that C skips are skipped, and each conversion happens once.
Agrees(m) ==
    LET meant == Mean(m, tree)
        run   == Run(code, m)
        value == IF use = "value" THEN meant.v
                 ELSE ConvertTo(TypeOfUse, TypeOf(tree), meant.v)
        mem   == IF use \in {"local int", "local float"}
                 THEN [meant.m.mem EXCEPT ![<<LocalOf[TypeOfUse], 0>>] = value]
                 ELSE meant.m.mem
    IN  ~meant.m.undef =>
            /\ use \in {"value", "return int", "return float"} => ValueIn(run, code.val) = value
            /\ Visible(run.m.mem, DOMAIN Decls) = mem
            /\ run.m.trace = meant.m.trace

CodeKeepsMeaning ==
    pc = "translated" /\ use \in Expressions /\ Accepted /\ code.ok =>
        \A m \in Machines : Agrees(m)

\* No assertion of the translator or of an instruction's constructor fails for
\* an expression whose operands have the types the operators ask for: the value
\* of an operand is in the block the next instruction goes to, an address is
\* there to assign to, i1, i32 and float meet only where they may.
TranslatorAssertionsHold ==
    pc = "translated" /\ Accepted /\ tree.e # "InitList" =>
        IF use \in Expressions THEN code.ok
        ELSE tree.e = "Constant" => code.e = "Constant" /\ code.ty = TypeOfUse

\* The cell with the indices of k, outermost first, in the rows of a global.
RECURSIVE CellIn(_, _, _)
CellIn(rows, dims, k) ==
    LET size == Product(Tail(dims))
        n    == (k \div size) + 1
    IN  IF n > Len(rows) THEN 0
        ELSE IF Len(dims) = 1 THEN rows[n].n
        ELSE CellIn(rows[n], Tail(dims), k % size)

Total == Product(Decls[ArrayOfLists].dims)

\* An initialiser in braces gives every cell of an array the value C gives it,
\* in a local (memset, then stores) and in a global (a constant).
InitialisersFillTheArray ==
    pc = "translated" /\ use \in {"array", "globals"} =>
        LET ty    == Decls[ArrayOfLists].ty
            cells == CellsOf(Decls[ArrayOfLists].dims, Written.list)
        IN  \A m \in Machines : \A k \in 1..Total :
                LET meant == ConvertTo(ty, TypeOf(cells[k]), Mean(m, cells[k]).v)
                IN  IF use = "array"
                    THEN code.ok /\ Run(code, m).m.mem[<<ArrayOfLists, k - 1>>] = meant
                    ELSE CellIn(code, Decls[ArrayOfLists].dims, k - 1) = meant

=============================================================================
