------------------------------ MODULE ExprMeaning ------------------------------
(***************************************************************************)
(* What an expression means, twice: by the rules of C on the tree, and by  *)
(* running the instructions of ExprIR.  The two are compared in            *)
(* MCExpression.                                                           *)
(*                                                                         *)
(* A machine m is [mem, trace, undef]: memory by <<variable, cell>>, the   *)
(* calls made so far, and whether something undefined has been done.  A    *)
(* pointer is such a pair.  Word registers hold an i1 as 0 or 1, as those   *)
(* of the generated code do.                                               *)
(***************************************************************************)
EXTENDS ExprIR

\* A call leaves its arguments in the trace and returns the length of it.
Called(m, f, args) == [m EXCEPT !.trace = Append(@, <<f, args>>)]

RECURSIVE Cells(_)
Cells(ty) == IF ty.k = "arr" THEN ty.n * Cells(ty.of) ELSE 1

MoveBy(p, n) == <<p[1], p[2] + n>>

\* On operands of type ty.
Undefined(op, ty, l, r) ==
    \/ op \in {"Div", "Mod"} /\ IF ty = "int" THEN Traps(l, r) ELSE r = 0
    \/ op \in {"Shl", "Shr"} /\ r \notin 0..(Width - 1)

-----------------------------------------------------------------------------
\* The rules of C.  [v, m] is the value of t and the machine after it.
ConvertTo(ty, from, v) ==
    IF ty = from THEN v ELSE IF ty = "int" THEN ToInt(v) ELSE ToFloat(v)

InC(op, ty, l, r) ==
    CASE op = "Add" -> IF ty = "int" THEN Wrap(l + r) ELSE l + r
      [] op = "Sub" -> IF ty = "int" THEN Wrap(l - r) ELSE l - r
      [] op = "Mul" -> IF ty = "int" THEN Wrap(l * r) ELSE Quot(l * r, 2)
      [] op = "Div" -> IF ty = "int" THEN Quot(l, r) ELSE Quot(2 * l, r)
      [] op = "Mod" -> Rem(l, r)
      [] op = "And" -> BitAnd(l, r)
      [] op = "Or"  -> BitOr(l, r)
      [] op = "Xor" -> BitXor(l, r)
      [] op = "Shl" -> ShiftLeft(l, r)
      [] op = "Shr" -> ShiftRight(l, r)
      [] op = "LT"  -> Truth(l < r)
      [] op = "LE"  -> Truth(l <= r)
      [] op = "GT"  -> Truth(r < l)
      [] op = "GE"  -> Truth(r <= l)
      [] op = "EQ"  -> Truth(l = r)
      [] op = "NE"  -> Truth(l # r)

RECURSIVE Mean(_, _)
RECURSIVE Place(_, _)
RECURSIVE MeanArgs(_, _, _, _)

\* The dimensions left under a chain of subscripts.
RECURSIVE DimsOf(_)
DimsOf(t) ==
    CASE t.e = "DeclRef"   -> Decls[t.x].dims
      [] t.e = "Subscript" -> Tail(DimsOf(t.a))
      [] t.e = "Paren"     -> DimsOf(t.a)
      [] OTHER             -> <<>>

RECURSIVE Product(_)
Product(dims) == IF dims = <<>> THEN 1 ELSE Head(dims) * Product(Tail(dims))

\* [v, m]: the cell an lvalue names, as a pointer.
Place(m, t) ==
    CASE t.e = "DeclRef" ->
             [v |-> IF Decls[t.x].decays THEN m.mem[<<t.x, 0>>] ELSE <<t.x, 0>>, m |-> m]
      [] t.e = "Paren" -> Place(m, t.a)
      [] t.e = "Subscript" ->
             LET p == Place(m, t.a)
                 k == Mean(p.m, t.i)
             IN  [v |-> MoveBy(p.v, k.v * Product(Tail(DimsOf(t.a)))), m |-> k.m]

InMemory(m, p) == p \in DOMAIN m.mem

\* The numbers l and r, of the types of the operands of t, under t's operator.
Apply(m, t, l, r) ==
    LET ty == IF "float" \in {TypeOf(t.l), TypeOf(t.r)} THEN "float" ELSE "int"
        a  == ConvertTo(ty, TypeOf(t.l), l)
        b  == ConvertTo(ty, TypeOf(t.r), r)
    IN  IF Undefined(t.op, ty, a, b) THEN [v |-> 0, m |-> [m EXCEPT !.undef = TRUE]]
        ELSE [v |-> InC(t.op, ty, a, b), m |-> m]

Read(at) == IF InMemory(at.m, at.v) THEN [v |-> at.m.mem[at.v], m |-> at.m]
            ELSE [v |-> 0, m |-> [at.m EXCEPT !.undef = TRUE]]

Write(at, p, v) == IF InMemory(at, p) THEN [v |-> v, m |-> [at EXCEPT !.mem[p] = v]]
                   ELSE [v |-> 0, m |-> [at EXCEPT !.undef = TRUE]]

\* The right operand of && or || after the left one, l.
MeanLogical(l, t) ==
    IF (l.v # 0) = (t.op = "LOr") THEN [v |-> Truth(l.v # 0), m |-> l.m]
    ELSE LET r == Mean(l.m, t.r) IN [v |-> Truth(r.v # 0), m |-> r.m]

AssignTo(p, t) ==
    LET r == Mean(p.m, t.r) IN Write(r.m, p.v, ConvertTo(TypeOf(t.l), TypeOf(t.r), r.v))

MeanRight(l, t) == LET r == Mean(l.m, t.r) IN Apply(r.m, t, l.v, r.v)

MeanUnary(a, op, ty) ==
    [a EXCEPT !.v = CASE op = "Pos" -> @
                      [] op = "Neg" -> IF ty = "int" THEN Wrap(-@) ELSE -@
                      [] op = "Not" -> Truth(@ = 0)
                      [] op = "Inv" -> Wrap(-@ - 1)]

MeanArgs(m, f, args, done) ==
    IF Len(done) = Len(args)
    THEN [v |-> Len(m.trace) + 1, m |-> Called(m, f, done)]
    ELSE LET t  == args[Len(done) + 1]
             a  == Mean(m, t)
             ty == Params[f][Len(done) + 1]
         IN  MeanArgs(a.m, f, args, Append(done,
                 IF ty.k = "ptr" THEN a.v
                 ELSE ConvertTo(IF ty = Float THEN "float" ELSE "int", TypeOf(t), a.v)))

Mean(m, t) ==
    CASE t.e = "Constant" -> [v |-> t.n, m |-> m]
      [] t.e \in {"DeclRef", "Subscript"} ->
             LET at == Place(m, t) IN IF DimsOf(t) = <<>> THEN Read(at) ELSE at
      [] t.e = "Unary"  -> MeanUnary(Mean(m, t.a), t.op, TypeOf(t.a))
      [] t.e = "Paren"  -> Mean(m, t.a)
      [] t.e = "Comma"  -> IF Len(t.list) = 1 THEN Mean(m, t.list[1])
                           ELSE Mean(Mean(m, t.list[1]).m, Comma(Tail(t.list)))
      [] t.e = "Call"   -> MeanArgs(m, t.f, t.args, <<>>)
      [] t.e = "Binary" -> IF t.op = "Assign" THEN AssignTo(Place(m, t.l), t)
                           ELSE IF t.op \in Logical THEN MeanLogical(Mean(m, t.l), t)
                           ELSE MeanRight(Mean(m, t.l), t)

-----------------------------------------------------------------------------
\* Running the instructions.  r is [m, env]: env holds their results so far.
ValueIn(r, v) ==
    CASE v.k = "const" -> v.n
      [] v.k = "addr"  -> <<v.x, 0>>
      [] v.k = "slot"  -> <<"slot", v.b, v.n>>
      [] v.k = "inst"  -> r.env[<<v.b, v.n>>]
      [] v.k = "none"  -> 0

\* Two operands of an arithmetic instruction.  What is undefined gives zero.
Operate(op, a, b) ==
    CASE op = "Add"  -> Wrap(a + b)
      [] op = "Sub"  -> Wrap(a - b)
      [] op = "Mul"  -> Wrap(a * b)
      [] op = "SDiv" -> IF b = 0 THEN 0 ELSE Wrap(Quot(a, b))
      [] op = "SRem" -> IF b = 0 THEN 0 ELSE Rem(a, b)
      [] op = "And"  -> BitAnd(a, b)
      [] op = "Or"   -> BitOr(a, b)
      [] op = "Xor"  -> BitXor(a, b)
      [] op = "Shl"  -> IF b \in 0..(Width - 1) THEN ShiftLeft(a, b) ELSE 0
      [] op = "AShr" -> IF b \in 0..(Width - 1) THEN ShiftRight(a, b) ELSE 0
      [] op = "FAdd" -> a + b
      [] op = "FSub" -> a - b
      [] op = "FMul" -> Quot(a * b, 2)
      [] op = "FDiv" -> IF b = 0 THEN 0 ELSE Quot(2 * a, b)
      [] op \in {"ICmpEQ", "FCmpOEQ"}            -> Truth(a = b)
      [] op \in {"ICmpNE", "FCmpONE", "FCmpUNE"} -> Truth(a # b)
      [] op \in {"ICmpSLT", "FCmpOLT"}           -> Truth(a < b)
      [] op \in {"ICmpSLE", "FCmpOLE"}           -> Truth(a <= b)
      [] op \in {"ICmpSGT", "FCmpOGT"}           -> Truth(a > b)
      [] op \in {"ICmpSGE", "FCmpOGE"}           -> Truth(a >= b)

Bind(r, at, v) == [r EXCEPT !.env = [k \in DOMAIN @ \cup {at} |-> IF k = at THEN v ELSE @[k]]]

Cleared(mem, x) == [p \in DOMAIN mem |-> IF p[1] = x THEN 0 ELSE mem[p]]

Slot(m, p) == IF p \in DOMAIN m.mem THEN m.mem[p] ELSE 0

SetCell(m, p, v) == [m EXCEPT !.mem = [k \in DOMAIN @ \cup {p} |-> IF k = p THEN v ELSE @[k]]]

\* One instruction, its operands looked up as vs.
StepOn(r, at, inst, vs) ==
    CASE inst.op = "Load"   -> Bind(r, at, Slot(r.m, vs[1]))
      [] inst.op = "Store"  -> [r EXCEPT !.m = SetCell(@, vs[1], vs[2])]
      [] inst.op = "Memset" -> [r EXCEPT !.m.mem = Cleared(@, vs[1][1])]
      [] inst.op = "Alloca" -> r
      [] inst.op = "Call"   -> [Bind(r, at, Len(r.m.trace) + 1)
                                    EXCEPT !.m = Called(@, inst.args[1].f, Tail(vs))]
      [] inst.op = "GetElementPtr" ->
             Bind(r, at, IF Len(vs) = 3
                         THEN MoveBy(vs[1], vs[3] * Cells(inst.args[1].ty.of.of))
                         ELSE MoveBy(vs[1], vs[2] * Cells(inst.args[1].ty.of)))
      [] inst.op = "FNeg"   -> Bind(r, at, -vs[1])
      [] inst.op = "ZExt"   -> Bind(r, at, vs[1])
      [] inst.op = "SIToFP" -> Bind(r, at, ToFloat(vs[1]))
      [] inst.op = "FPToSI" -> Bind(r, at, ToInt(vs[1]))
      [] OTHER              -> Bind(r, at, Operate(inst.op, vs[1], vs[2]))

RECURSIVE Execute(_, _, _, _)
\* From instruction n of block b to an open end.
Execute(s, r, b, n) ==
    IF n <= Len(s.body[b])
    THEN LET inst == s.body[b][n]
         IN  Execute(s, StepOn(r, <<b, n>>, inst,
                               [k \in DOMAIN inst.args |->
                                   IF inst.args[k].k = "fn" THEN 0
                                   ELSE ValueIn(r, inst.args[k])]), b, n + 1)
    ELSE CASE s.term[b].k = "open"   -> r
           [] s.term[b].k = "jump"   -> Execute(s, r, s.term[b].to, 1)
           [] s.term[b].k = "branch" ->
                  Execute(s, r, IF ValueIn(r, s.term[b].v) # 0 THEN s.term[b].to
                                ELSE s.term[b].else, 1)

Run(s, m) == Execute(s, [m |-> m, env |-> <<>>], 1, 1)

\* The memory the program can see: the translator's slots left out.
Visible(mem, vars) == [p \in {q \in DOMAIN mem : q[1] \in vars} |-> mem[p]]

-----------------------------------------------------------------------------
\* What a list in braces gives an array of dimensions dims, cell by cell, by
\* the rules of C for lists whose scalars fill whole rows before a brace opens.
RECURSIVE Fill(_, _, _, _)
RECURSIVE FillRows(_, _, _, _, _)
Zeros(n) == [k \in 1..n |-> Zero("int")]

\* [cells, used]: the cells of one element of dimensions dims, and the entries of
\* list after position at that went into it.
Fill(dims, list, at, braced) ==
    IF dims = <<>>
    THEN IF at >= Len(list) THEN [cells |-> Zeros(1), used |-> at]
         ELSE IF list[at + 1].e = "InitList"
         THEN [cells |-> Zeros(1), used |-> at + 1]
         ELSE [cells |-> <<list[at + 1]>>, used |-> at + 1]
    ELSE IF ~braced /\ at < Len(list) /\ list[at + 1].e = "InitList"
    THEN [cells |-> Fill(dims, list[at + 1].list, 0, TRUE).cells, used |-> at + 1]
    ELSE FillRows(dims, list, at, <<>>, 0)

FillRows(dims, list, at, cells, rows) ==
    IF rows = dims[1] THEN [cells |-> cells, used |-> at]
    ELSE LET row == Fill(Tail(dims), list, at, FALSE)
         IN  FillRows(dims, list, row.used, cells \o row.cells, rows + 1)

CellsOf(dims, list) == Fill(dims, list, 0, TRUE).cells

=============================================================================
