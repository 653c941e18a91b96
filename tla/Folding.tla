-------------------------------- MODULE Folding --------------------------------
(***************************************************************************)
(* The typed expression trees of ast/expr.h and the compile-time evaluator *)
(* of visitor/ASTExprSimplifier.cpp that the parser runs on each of them   *)
(* (Expr::intoSimplified).                                                 *)
(*                                                                         *)
(* An int has Width bits and wraps.  A float is a number of halves: enough *)
(* to tell it from an int; its products and quotients are cut to halves.   *)
(***************************************************************************)
EXTENDS Integers, Sequences

CONSTANTS
    Width,          \* bits of an int
    Decls           \* variable |-> [ty, dims, const, init]; functions are not in it

ASSUME WidthAssumption == Width \in Nat \ {0}

LOCAL INSTANCE Bitwise

Const(ty, n)     == [e |-> "Constant", ty |-> ty, n |-> n]
Var(x)           == [e |-> "DeclRef", x |-> x]
Unary(op, a)     == [e |-> "Unary", op |-> op, a |-> a]
Binary(op, l, r) == [e |-> "Binary", op |-> op, l |-> l, r |-> r]
Comma(list)      == [e |-> "Comma", list |-> list]
Paren(a)         == [e |-> "Paren", a |-> a]
Call(f, args)    == [e |-> "Call", f |-> f, args |-> args]
Index(a, i)      == [e |-> "Subscript", a |-> a, i |-> i]
InitList(list)   == [e |-> "InitList", list |-> list]
NoInit           == [e |-> "NoInit"]

\* nullptr: the expression has no value at compile time.
NoValue == [e |-> "None"]

\* The compiler itself divides by zero, or takes an expression that is no
\* constant for one.
Crash == [e |-> "Crash"]

IsArray(x) == Decls[x].dims # <<>>

-----------------------------------------------------------------------------
\* Numbers.
Modulus == 2 ^ Width

Unsigned(n) == n % Modulus

Wrap(n) == LET u == n % Modulus IN IF 2 * u >= Modulus THEN u - Modulus ELSE u

Truth(b) == IF b THEN 1 ELSE 0

Abs(n) == IF n < 0 THEN -n ELSE n

\* Division of C, towards zero.
Quot(a, b) == LET q == Abs(a) \div Abs(b) IN IF (a < 0) = (b < 0) THEN q ELSE -q

Rem(a, b) == a - b * Quot(a, b)

\* The least int has no opposite: the division traps, as one by zero does.
Traps(a, b) == b = 0 \/ (b = -1 /\ a = -(Modulus \div 2))

ToFloat(n) == 2 * n

ToInt(f) == Wrap(Quot(f, 2))

BitAnd(a, b) == Wrap(Unsigned(a) & Unsigned(b))
BitOr(a, b)  == Wrap(Unsigned(a) | Unsigned(b))
BitXor(a, b) == Wrap(Unsigned(a) ^^ Unsigned(b))
ShiftLeft(a, b)  == Wrap(a * 2 ^ b)
ShiftRight(a, b) == a \div 2 ^ b

Arithmetic  == {"Add", "Sub", "Mul", "Div"}
Comparisons == {"LT", "LE", "GT", "GE", "EQ", "NE"}
IntegerOnly == {"Mod", "And", "Or", "Xor", "Shl", "Shr"}
Logical     == {"LAnd", "LOr"}

-----------------------------------------------------------------------------
\* What UnaryExpr::resolveType and BinaryExpr::resolveType say of a tree.
RECURSIVE TypeOf(_)
TypeOf(t) ==
    CASE t.e = "Constant"                     -> t.ty
      [] t.e = "DeclRef"                      -> Decls[t.x].ty
      [] t.e = "Unary"                        -> IF t.op \in {"Not", "Inv"} THEN "int"
                                                 ELSE TypeOf(t.a)
      [] t.e = "Binary" /\ t.op = "Assign"    -> TypeOf(t.l)
      [] t.e = "Binary" /\ t.op \in Arithmetic \cup {"Mod"} ->
             IF "float" \in {TypeOf(t.l), TypeOf(t.r)} THEN "float" ELSE "int"
      [] t.e = "Binary" /\ t.op \notin Arithmetic \cup {"Mod", "Assign"} -> "int"
      [] t.e = "Comma"                        -> TypeOf(t.list[Len(t.list)])
      [] t.e \in {"Paren", "Subscript"}       -> TypeOf(t.a)
      [] t.e = "Call"                         -> "int"

-----------------------------------------------------------------------------
\* tryEvaluateCompileTimeUnaryExpr on a constant.  ! of a float makes a float.
FoldUnary(op, c) ==
    CASE op = "Pos" -> c
      [] op = "Neg" -> Const(c.ty, IF c.ty = "int" THEN Wrap(-c.n) ELSE -c.n)
      [] op = "Not" -> Const(c.ty, IF c.ty = "int" THEN Truth(c.n = 0)
                                   ELSE ToFloat(Truth(c.n = 0)))
      [] op = "Inv" -> IF c.ty = "int" THEN Const("int", Wrap(-c.n - 1)) ELSE NoValue

Compare(op, l, r) ==
    CASE op = "LT" -> l < r
      [] op = "LE" -> l <= r
      [] op = "GT" -> l > r
      [] op = "GE" -> l >= r
      [] op = "EQ" -> l = r
      [] op = "NE" -> l # r

\* Quotients by zero: the CPU traps on ints; floats are given some value.
FoldFloats(op, l, r) ==
    CASE op = "Add" -> Const("float", l + r)
      [] op = "Sub" -> Const("float", l - r)
      [] op = "Mul" -> Const("float", Quot(l * r, 2))
      [] op = "Div" -> IF r = 0 THEN Crash ELSE Const("float", Quot(2 * l, r))
      [] OTHER      -> Const("int", Truth(Compare(op, l, r)))

\* Faulty: the operands of a subtraction change places.
FoldIntsSwapped(op, l, r) ==
    CASE op = "Add" -> Const("int", Wrap(l + r))
      [] op = "Sub" -> Const("int", Wrap(r - l))
      [] op = "Mul" -> Const("int", Wrap(l * r))
      [] op = "Div" -> IF Traps(l, r) THEN Crash ELSE Const("int", Quot(l, r))
      [] OTHER      -> Const("int", Truth(Compare(op, l, r)))

FoldInts(op, l, r) ==
    CASE op = "Add" -> Const("int", Wrap(l + r))
      [] op = "Sub" -> Const("int", Wrap(l - r))
      [] op = "Mul" -> Const("int", Wrap(l * r))
      [] op = "Div" -> IF Traps(l, r) THEN Crash ELSE Const("int", Quot(l, r))
      [] OTHER      -> Const("int", Truth(Compare(op, l, r)))

\* A shift by a negative count or by Width and more is undefined.
FoldBits(op, l, r) ==
    CASE op = "Mod" -> IF Traps(l, r) THEN Crash ELSE Const("int", Rem(l, r))
      [] op = "And" -> Const("int", BitAnd(l, r))
      [] op = "Or"  -> Const("int", BitOr(l, r))
      [] op = "Xor" -> Const("int", BitXor(l, r))
      [] op = "Shl" -> IF r \in 0..(Width - 1) THEN Const("int", ShiftLeft(l, r)) ELSE Crash
      [] op = "Shr" -> IF r \in 0..(Width - 1) THEN Const("int", ShiftRight(l, r)) ELSE Crash

AsFloat(c) == IF c.ty = "float" THEN c.n ELSE ToFloat(c.n)

\* tryEvaluateCompileTimeBinaryExpr on two constants.  The right operand of &&
\* and || is evaluated and then not looked at.
FoldBinary(op, l, r) ==
    CASE op = "Assign" -> NoValue
      [] op \in Arithmetic \cup Comparisons ->
             IF "float" \in {l.ty, r.ty} THEN FoldFloats(op, AsFloat(l), AsFloat(r))
             ELSE FoldInts(op, l.n, r.n)
      [] op \in IntegerOnly ->
             IF l.ty = "int" /\ r.ty = "int" THEN FoldBits(op, l.n, r.n) ELSE NoValue
      [] op = "LAnd" -> Const("int", Truth(l.n # 0 /\ l.n # 0))
      [] op = "LOr"  -> Const("int", Truth(l.n # 0 \/ l.n # 0))

-----------------------------------------------------------------------------
RECURSIVE Subscripts(_)
\* The indices of a chain of subscripts, the outermost dimension first, and the
\* expression at its foot.
Subscripts(t) ==
    IF t.e # "Subscript" THEN [foot |-> t, indices |-> <<>>]
    ELSE LET inner == Subscripts(t.a)
         IN  [inner EXCEPT !.indices = Append(@, t.i)]

RECURSIVE Evaluate(_)

Simplify(t) == LET v == Evaluate(t) IN IF v = NoValue THEN t ELSE v

Zero(ty) == Const(ty, 0)

RECURSIVE Element(_, _, _)
\* The element of an initialiser list: what it leaves out is zero, and what is
\* no constant is handed out as it is written.
Element(list, indices, ty) ==
    LET k == Head(indices)
    IN  IF k >= Len(list) \/ k < 0 THEN Zero(ty)
        ELSE IF Len(indices) > 1 THEN Element(list[k + 1].list, Tail(indices), ty)
        ELSE Simplify(list[k + 1])

EvaluateSubscript(t) ==
    LET chain   == Subscripts(t)
        indices == [k \in 1..Len(chain.indices) |-> Evaluate(chain.indices[k])]
    IN  IF Crash \in {indices[k] : k \in DOMAIN indices} THEN Crash
        ELSE IF \/ \E k \in DOMAIN indices : indices[k] = NoValue
                \/ chain.foot.e # "DeclRef" THEN NoValue
        ELSE IF ~IsArray(chain.foot.x) \/ ~Decls[chain.foot.x].const THEN NoValue
        ELSE Element(Decls[chain.foot.x].init.list,
                     [k \in DOMAIN indices |-> indices[k].n], Decls[chain.foot.x].ty)

\* A value taken for a ConstantExpr by asConstant.
Take(v, then) == IF v.e = "Constant" THEN then ELSE Crash

\* A const array, or a row of one: a value whose type is no builtin type.
IsAggregate(v) == v.e = "InitList" \/ (v.e = "DeclRef" /\ IsArray(v.x))

\* The types are looked at before the values; ~ takes the type for a builtin one.
EvaluateUnary(op, v) ==
    IF v \in {NoValue, Crash} THEN v
    ELSE IF IsAggregate(v) THEN IF op \in {"Neg", "Not"} THEN NoValue ELSE Crash
    ELSE IF op = "Inv" /\ TypeOf(v) = "float" THEN NoValue
    ELSE Take(v, FoldUnary(op, v))

\* && and || fold the ! of each side, and look into what they get for the result.
EvaluateBinary(op, l, r) ==
    IF Crash \in {l, r} THEN Crash
    ELSE IF l = NoValue \/ r = NoValue \/ op = "Assign" THEN NoValue
    ELSE IF IsAggregate(l) \/ IsAggregate(r) THEN IF op \in Logical THEN Crash ELSE NoValue
    ELSE IF op \in IntegerOnly /\ "float" \in {TypeOf(l), TypeOf(r)} THEN NoValue
    ELSE Take(l, Take(r, FoldBinary(op, l, r)))

\* tryEvaluateCompileTimeExpr.  Of a comma the last value alone is looked at,
\* and a const variable stands for its initialiser as written.
Evaluate(t) ==
    CASE t.e = "Constant"  -> t
      [] t.e = "DeclRef"   -> IF ~Decls[t.x].const THEN NoValue
                              ELSE IF IsArray(t.x) THEN t
                              ELSE Evaluate(Decls[t.x].init)
      [] t.e = "Unary"     -> EvaluateUnary(t.op, Evaluate(t.a))
      [] t.e = "Binary"    -> EvaluateBinary(t.op, Evaluate(t.l), Evaluate(t.r))
      [] t.e = "Comma"     -> Evaluate(t.list[Len(t.list)])
      [] t.e = "Paren"     -> Evaluate(t.a)
      [] t.e = "Subscript" -> EvaluateSubscript(t)
      [] t.e \in {"Call", "InitList", "NoInit"} -> NoValue
      [] t.e = "Crash"     -> Crash

RECURSIVE SimplifyTree(_)
\* Where the parser calls intoSimplified: on every primary, postfix and unary
\* expression, on an argument, and on a binary tree as a whole; the operators
\* inside of it are left as they are, and so are the subscripts inside a chain.
SimplifyList(list) == [k \in DOMAIN list |-> SimplifyTree(list[k])]

RECURSIVE SimplifyOperands(_)
SimplifyOperands(t) ==
    IF t.e = "Binary" THEN Binary(t.op, SimplifyOperands(t.l), SimplifyOperands(t.r))
    ELSE SimplifyTree(t)

RECURSIVE SimplifyChain(_)
SimplifyChain(t) ==
    IF t.e = "Subscript" THEN Index(SimplifyChain(t.a), SimplifyTree(t.i))
    ELSE SimplifyTree(t)

OrCrash(list, t) == IF \E k \in DOMAIN list : list[k] = Crash THEN Crash ELSE t

SimplifyTree(t) ==
    CASE t.e = "Unary"     -> Simplify(Unary(t.op, SimplifyTree(t.a)))
      [] t.e = "Paren"     -> Simplify(Paren(SimplifyTree(t.a)))
      [] t.e = "Binary"    -> Simplify(SimplifyOperands(t))
      [] t.e = "Subscript" -> Simplify(SimplifyChain(t))
      [] t.e = "Comma"     -> LET list == SimplifyList(t.list)
                              IN  OrCrash(list, Simplify(Comma(list)))
      [] t.e = "Call"      -> LET args == SimplifyList(t.args)
                              IN  OrCrash(args, Call(t.f, args))
      [] t.e = "InitList"  -> LET list == SimplifyList(t.list)
                              IN  OrCrash(list, InitList(list))
      [] OTHER             -> Simplify(t)

-----------------------------------------------------------------------------
(***************************************************************************)
(* regulateInitListForArray: the list of an array, given with or without   *)
(* inner braces, brought into the shape of its dimensions.  "used" counts  *)
(* the entries taken from the list at hand.                                *)
(***************************************************************************)

\* An entry of the innermost dimension: an empty brace is a zero, a constant of
\* the other type is converted (to an int, whatever the elements are), and an
\* entry of the other type that is no constant has no value to convert.
Entry(e, ty) ==
    LET v == Simplify(e)
    IN  IF v.e = "Crash" THEN Crash
        ELSE IF v.e = "InitList" THEN IF v.list = <<>> THEN Zero(ty) ELSE Crash
        ELSE IF TypeOf(v) = ty THEN v
        ELSE IF v.e # "Constant" THEN Crash
        ELSE Const("int", IF ty = "int" THEN ToInt(v.n) ELSE v.n)

RECURSIVE ConsumeBlock(_, _, _, _)
RECURSIVE ConsumeRows(_, _, _, _, _)

\* consumeArrayInitBlock for the dimensions dims, from the entry used + 1 on.
ConsumeBlock(ty, dims, list, used) ==
    IF Len(dims) = 1
    THEN LET n == IF Len(list) - used < dims[1] THEN Len(list) - used ELSE dims[1]
         IN  [rows |-> [k \in 1..n |-> Entry(list[used + k], ty)], used |-> used + n]
    ELSE ConsumeRows(ty, dims, list, used, <<>>)

\* Faulty: an inner brace does not use up its own entry.
ConsumeRowsAgain(ty, dims, list, used, rows) ==
    IF Len(rows) = dims[1] \/ used = Len(list) THEN [rows |-> rows, used |-> used]
    ELSE IF list[used + 1].e = "InitList"
    THEN ConsumeRows(ty, dims, list, used, Append(rows,
             InitList(ConsumeBlock(ty, Tail(dims), list[used + 1].list, 0).rows)))
    ELSE LET block == ConsumeBlock(ty, Tail(dims), list, used)
         IN  ConsumeRows(ty, dims, list, block.used, Append(rows, InitList(block.rows)))

ConsumeRows(ty, dims, list, used, rows) ==
    IF Len(rows) = dims[1] \/ used = Len(list) THEN [rows |-> rows, used |-> used]
    ELSE IF list[used + 1].e = "InitList"
    THEN ConsumeRows(ty, dims, list, used + 1, Append(rows,
             InitList(ConsumeBlock(ty, Tail(dims), list[used + 1].list, 0).rows)))
    ELSE LET block == ConsumeBlock(ty, Tail(dims), list, used)
         IN  ConsumeRows(ty, dims, list, block.used, Append(rows, InitList(block.rows)))

RegulateInitList(ty, dims, list) == InitList(ConsumeBlock(ty, dims, list, 0).rows)

=============================================================================
