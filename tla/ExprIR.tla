-------------------------------- MODULE ExprIR --------------------------------
(***************************************************************************)
(* The expression half of visitor/ASTToIRTranslator.cpp: a tree becomes    *)
(* instructions (ir/instruction.h) in the blocks of a function.            *)
(*                                                                         *)
(* The state s of the translator is a record:                              *)
(*   body   block |-> its instructions      term  block |-> its terminator *)
(*   cur    currentBlock                    addr  addressOfPrevExpr        *)
(*   val    valueOfPrevExpr                 ok    no assertion has failed  *)
(*   last   the instruction inserted last, as a value                      *)
(*   error  what is left of s when an assertion fails is not looked at     *)
(* A value is a constant, the address of a variable or an instruction,     *)
(* named by its place.                                                     *)
(***************************************************************************)
EXTENDS Folding

CONSTANT Params     \* function |-> the types of its parameters; the result is an int

\* The types of ir/type.h.
Word        == [k |-> "int"]
Bit       == [k |-> "i1"]
Float      == [k |-> "float"]
Void       == [k |-> "void"]
Ptr(of)    == [k |-> "ptr", of |-> of]
Arr(of, n) == [k |-> "arr", of |-> of, n |-> n]

IsInteger(ty) == ty.k \in {"int", "i1"}
IsBuiltin(ty) == IsInteger(ty) \/ ty.k = "float"

\* Type::equals compares the kinds alone: i1 and i32 are the same to it.
Equals(a, b) == a.k = b.k \/ (IsInteger(a) /\ IsInteger(b))

Builtin(ty) == IF ty = "int" THEN Word ELSE Float

RECURSIVE ArrayOf(_, _)
ArrayOf(ty, dims) ==
    IF dims = <<>> THEN Builtin(ty) ELSE Arr(ArrayOf(ty, Tail(dims)), Head(dims))

\* getCompatibleIRType of a variable; the first dimension of an array parameter
\* is the one that decays.
VariableType(x) ==
    IF Decls[x].decays THEN Ptr(ArrayOf(Decls[x].ty, Tail(Decls[x].dims)))
    ELSE ArrayOf(Decls[x].ty, Decls[x].dims)

-----------------------------------------------------------------------------
\* Values.
None          == [k |-> "none", ty |-> Void]
Imm(ty, n)    == [k |-> "const", ty |-> ty, n |-> n]
I32(n)        == Imm(Word, n)
F32(n)        == Imm(Float, n)
Address(x)    == [k |-> "addr", ty |-> Ptr(VariableType(x)), x |-> x]

IntegerResults   == {"Add", "Sub", "Mul", "UDiv", "SDiv", "URem", "SRem"}
BitResults       == {"Shl", "LShr", "AShr", "And", "Or", "Xor"}
FloatResults     == {"FNeg", "FAdd", "FSub", "FMul", "FDiv", "FRem"}
IntegersOfFloats == {"FPToUI", "FPToSI"}
FloatsOfIntegers == {"UIToFP", "SIToFP"}
IntegerTests     == {"ICmpEQ", "ICmpNE", "ICmpSLT", "ICmpSLE", "ICmpSGT", "ICmpSGE"}
FloatTests       == {"FCmpOEQ", "FCmpONE", "FCmpUNE", "FCmpOLT", "FCmpOLE", "FCmpOGT",
                     "FCmpOGE"}

\* The type each constructor gives its instruction.
ResultType(op, args) ==
    CASE op \in IntegerResults \cup BitResults \cup IntegersOfFloats \cup {"ZExt", "Call"}
                                             -> Word
      [] op \in FloatResults \cup FloatsOfIntegers -> Float
      [] op \in IntegerTests \cup FloatTests -> Bit
      [] op = "Load"                         -> args[1].ty.of
      [] op = "GetElementPtr" /\ Len(args) = 3 -> Ptr(args[1].ty.of.of)
      [] op = "GetElementPtr" /\ Len(args) = 2 -> args[1].ty
      [] op \in {"Store", "Memset"}          -> Void

\* The assertions of the create functions on their operands.
MemoryFits(op, args) ==
    /\ args[1].ty.k \in {"ptr", "arr"}
    /\ op = "Store" => Equals(args[1].ty.of, args[2].ty)
    /\ op = "GetElementPtr" => \A k \in 2..Len(args) : IsInteger(args[k].ty)

ArithmeticFits(op, args) ==
    \A k \in DOMAIN args : IF op \in FloatResults THEN args[k].ty = Float
                           ELSE IsInteger(args[k].ty)

ConversionFits(op, args) ==
    \A k \in DOMAIN args :
        CASE op \in IntegersOfFloats \cup FloatTests   -> args[k].ty = Float
          [] op \in FloatsOfIntegers \cup IntegerTests -> IsInteger(args[k].ty)
          [] op = "ZExt"                              -> args[k].ty = Bit

OperandsFit(op, args) ==
    CASE op \in {"Load", "Store", "GetElementPtr"}               -> MemoryFits(op, args)
      [] op \in IntegerResults \cup BitResults \cup FloatResults -> ArithmeticFits(op, args)
      [] op \in {"Memset", "Call"}                              -> TRUE
      [] OTHER                                                  -> ConversionFits(op, args)

NoTerm      == [k |-> "open"]
Jump(b)     == [k |-> "jump", to |-> b]
Branch(v, t, f) == [k |-> "branch", v |-> v, to |-> t, else |-> f]

Blank == [body |-> <<<<>>>>, term |-> <<NoTerm>>, cur |-> 1, addr |-> None, val |-> None,
          last |-> None, ok |-> TRUE]

\* An instruction is created and put at the end of block b.
Insert(s, b, op, args) ==
    LET value == [k |-> "inst", ty |-> ResultType(op, args), b |-> b, n |-> Len(s.body[b]) + 1]
    IN  IF ~OperandsFit(op, args) THEN [s EXCEPT !.ok = FALSE]
        ELSE [s EXCEPT !.body[b] = Append(@, [op |-> op, args |-> args]), !.last = value]

\* An alloca of the translator's own: its value is a fresh address.
InsertAlloca(s, b, ty) ==
    LET value == [k |-> "slot", ty |-> Ptr(ty), b |-> b, n |-> Len(s.body[b]) + 1]
    IN  [s EXCEPT !.body[b] = Append(@, [op |-> "Alloca", args |-> <<>>]), !.last = value]

Expect(s, p) == [s EXCEPT !.ok = s.ok /\ p]

Result(s, value) == [s EXCEPT !.val = value, !.addr = None]

\* The instruction inserted last is the value of the expression.
Yield(s) == Result(s, s.last)

\* assert(!v->isInstruction() || v->parent() == block)
HeldBy(v, b) == v.k # "inst" \/ v.b = b

Start(s, b, term) == [s EXCEPT !.term[b] = term]

NewBlock(s) == [s EXCEPT !.body = Append(@, <<>>), !.term = Append(@, NoTerm)]

-----------------------------------------------------------------------------
RECURSIVE Translate(_, _, _)

TranslateDeclRef(s, b, x) ==
    IF VariableType(x).k = "arr"
    THEN LET t == Insert(s, b, "GetElementPtr", <<Address(x), I32(0), I32(0)>>)
         IN  [t EXCEPT !.addr = Address(x), !.val = t.last]
    ELSE LET t == Insert(s, b, "Load", <<Address(x)>>)
         IN  [t EXCEPT !.addr = Address(x), !.val = t.last]

TranslateConstant(s, c) == Result(s, Imm(Builtin(c.ty), c.n))

NegateInteger(s, b, v) ==
    IF v.ty = Bit
    THEN LET t == Insert(s, b, "ZExt", <<v>>) IN Yield(Insert(t, b, "Sub", <<I32(0), t.last>>))
    ELSE Yield(Insert(s, b, "Sub", <<I32(0), v>>))

\* The operator on the value v of the operand, in the block b that holds it.
UnaryOn(s, b, op, v) ==
    CASE op = "Pos" -> [s EXCEPT !.addr = None]
      [] op = "Inv" -> Yield(Insert(Expect(s, IsInteger(v.ty)), b, "Xor", <<v, I32(-1)>>))
      [] op = "Not" -> IF IsInteger(v.ty) THEN Yield(Insert(s, b, "ICmpEQ", <<v, I32(0)>>))
                       ELSE Yield(Insert(s, b, "FCmpOEQ", <<v, F32(0)>>))
      [] op = "Neg" -> IF IsInteger(v.ty) THEN NegateInteger(s, b, v)
                       ELSE Yield(Insert(s, b, "FNeg", <<v>>))

\* Faulty: the operator goes to the block the operand began in.
UnaryAfterStale(s, b, op) == UnaryOn(s, b, op, s.val)

UnaryAfter(s, b, op) == UnaryOn(s, s.cur, op, s.val)

TranslateUnary(s, b, t) == UnaryAfter(Translate(s, b, t.a), b, t.op)

\* getMinimumBooleanExpression, and the instruction it asks for put at the end
\* of block b.  The address of a global object is never null.
AsCondition(s, b, v) ==
    CASE v.ty = Bit     -> [s EXCEPT !.last = v]
      [] v.k = "const"   -> [s EXCEPT !.last = Imm(Bit, Truth(v.n # 0))]
      [] v.k = "addr"    -> [s EXCEPT !.last = Imm(Bit, 1)]
      [] v.k # "const" /\ v.ty = Word   -> Insert(s, b, "ICmpNE", <<v, I32(0)>>)
      [] v.k # "const" /\ v.ty = Float -> Insert(s, b, "FCmpUNE", <<v, F32(0)>>)
      [] OTHER           -> [s EXCEPT !.ok = FALSE]

\* The right operand is computed: its truth goes to the slot, and on to exit.
LogicalExit(s, slot, exit) ==
    LET right == s.cur
        t == AsCondition(Expect(s, HeldBy(s.val, right)), right, s.val)
        u == Insert(t, right, "Store", <<slot, t.last>>)
        w == Insert(Start(u, right, Jump(exit)), exit, "Load", <<slot>>)
    IN  [Yield(w) EXCEPT !.cur = exit]

\* Faulty: || takes the branches of &&.
LogicalBranchSame(op, v, next, exit) == Branch(v, next, exit)

LogicalBranch(op, v, next, exit) ==
    IF op = "LAnd" THEN Branch(v, next, exit) ELSE Branch(v, exit, next)

\* The left operand is a condition: its truth is stored and branched on.
LogicalNext(s, b, op, slot, r) ==
    LET lhs  == s.last
        u    == Insert(s, b, "Store", <<slot, lhs>>)
        next == Len(u.body) + 1
        w    == Start(NewBlock(NewBlock(u)), b, LogicalBranch(op, lhs, next, next + 1))
    IN  LogicalExit(Translate([w EXCEPT !.cur = next], next, r), slot, next + 1)

TranslateLogical(s, b, op, lhs, r) ==
    LET t == InsertAlloca(s, b, Bit)
    IN  LogicalNext(AsCondition(t, b, lhs), b, op, t.last, r)

-----------------------------------------------------------------------------
\* SIToFP of a value, an i1 extended first.
ToFloatAt(s, b, v) ==
    LET t == IF v.ty = Bit THEN Insert(s, b, "ZExt", <<v>>) ELSE [s EXCEPT !.last = v]
    IN  Insert(t, b, "SIToFP", <<t.last>>)

\* One of the operands becomes of the other's kind; [s, l, r] is returned.
Convert(s, b, op, l, r) ==
    IF l.ty = Float /\ IsInteger(r.ty)
    THEN LET t == ToFloatAt(s, b, r) IN [s |-> t, l |-> l, r |-> t.last]
    ELSE IF IsInteger(l.ty) /\ r.ty = Float
    THEN IF op = "Assign"
         THEN LET t == Insert(s, b, "FPToSI", <<r>>) IN [s |-> t, l |-> l, r |-> t.last]
         ELSE LET t == ToFloatAt(s, b, l) IN [s |-> t, l |-> t.last, r |-> r]
    ELSE [s |-> s, l |-> l, r |-> r]

\* Two integers of different widths: the i1 among them is extended.
Extend(s, b, v) ==
    IF v.ty # Bit THEN [s EXCEPT !.last = v]
    ELSE IF v.k = "const" THEN [s EXCEPT !.last = I32(v.n)]
    ELSE Insert(s, b, "ZExt", <<v>>)

Widen(c, b) ==
    IF IsInteger(c.l.ty) /\ c.l.ty # c.r.ty
    THEN LET t == Extend(c.s, b, c.l)
             u == Extend(t, b, c.r)
         IN  [s |-> u, l |-> t.last, r |-> u.last]
    ELSE c

Assign(c, b, address) ==
    LET t == Insert(Expect(c.s, address # None), b, "Store", <<address, c.r>>)
        u == Insert(t, b, "Load", <<address>>)
    IN  [u EXCEPT !.addr = address, !.val = u.last]

IntegerInst == [Add |-> "Add", Sub |-> "Sub", Mul |-> "Mul", Div |-> "SDiv",
                LT |-> "ICmpSLT", LE |-> "ICmpSLE", GT |-> "ICmpSGT", GE |-> "ICmpSGE",
                EQ |-> "ICmpEQ", NE |-> "ICmpNE", Mod |-> "SRem", And |-> "And",
                Or |-> "Or", Xor |-> "Xor", Shl |-> "Shl", Shr |-> "AShr"]

FloatInst == [Add |-> "FAdd", Sub |-> "FSub", Mul |-> "FMul", Div |-> "FDiv",
              LT |-> "FCmpOLT", LE |-> "FCmpOLE", GT |-> "FCmpOGT", GE |-> "FCmpOGE",
              EQ |-> "FCmpOEQ", NE |-> "FCmpONE"]

Compute(c, b, op) ==
    IF op \in IntegerOnly
    THEN IF IsInteger(c.l.ty) /\ IsInteger(c.r.ty)
         THEN Yield(Insert(c.s, b, IntegerInst[op], <<c.l, c.r>>))
         ELSE [c.s EXCEPT !.ok = FALSE]
    ELSE IF IsInteger(c.l.ty)
    THEN LET w == Widen(c, b) IN Yield(Insert(w.s, b, IntegerInst[op], <<w.l, w.r>>))
    ELSE Yield(Insert(c.s, b, FloatInst[op], <<c.l, c.r>>))

\* Both operands are computed; l is the left one's value, address its lvalue.
BinaryOn(s, op, l, address) ==
    LET b == s.cur
        c == Convert(Expect(s, HeldBy(s.val, b) /\ IsBuiltin(l.ty) /\ IsBuiltin(s.val.ty)),
                     b, op, l, s.val)
    IN  IF op = "Assign" THEN Assign(c, b, address) ELSE Compute(c, b, op)

\* The left operand is computed: block = state_.currentBlock.
BinaryAfter(s, b, t) ==
    IF t.op \in Logical
    THEN TranslateLogical(Expect(s, HeldBy(s.val, s.cur)), s.cur, t.op, s.val, t.r)
    ELSE BinaryOn(Translate(Expect(s, HeldBy(s.val, s.cur)), s.cur, t.r), t.op, s.val, s.addr)

TranslateBinary(s, b, t) == BinaryAfter(Translate(s, b, t.l), b, t)

-----------------------------------------------------------------------------
RECURSIVE TranslateList(_, _)
\* translateCommaExpr: each value goes where the one before it ended.
TranslateList(s, list) ==
    IF list = <<>> THEN s ELSE TranslateList(Translate(s, s.cur, Head(list)), Tail(list))

\* An argument becomes of its parameter's kind.
Pass(s, v, ty) ==
    IF Equals(v.ty, ty) THEN [s EXCEPT !.last = v]
    ELSE IF ty = Float /\ IsInteger(v.ty) THEN Insert(s, s.cur, "SIToFP", <<v>>)
    ELSE IF IsInteger(ty) /\ v.ty = Float THEN Insert(s, s.cur, "FPToSI", <<v>>)
    ELSE [s EXCEPT !.ok = FALSE]

RECURSIVE TranslateArgs(_, _, _, _)
TranslateArgs(s, f, args, done) ==
    IF Len(done) = Len(args)
    THEN Yield(Insert(s, s.cur, "Call", <<[k |-> "fn", ty |-> Void, f |-> f]>> \o done))
    ELSE LET t == Translate(s, s.cur, args[Len(done) + 1])
             u == Pass(t, t.val, Params[f][Len(done) + 1])
         IN  TranslateArgs(u, f, args, Append(done, u.last))

TranslateCall(s, b, t) == TranslateArgs(Expect(s, b = s.cur), t.f, t.args, <<>>)

\* The element's address is known: a row decays, a number is loaded.
LoadElement(s, pointer) ==
    LET t == IF pointer.ty.of.k = "arr"
             THEN Insert(s, s.cur, "GetElementPtr", <<pointer, I32(0), I32(0)>>)
             ELSE Insert(s, s.cur, "Load", <<pointer>>)
    IN  [t EXCEPT !.addr = pointer, !.val = t.last]

\* The index is computed.
SubscriptOn(s, address, indexOnce) ==
    LET t == Insert(s, s.cur, "GetElementPtr",
                    IF indexOnce THEN <<address, s.val>> ELSE <<address, I32(0), s.val>>)
    IN  LoadElement(t, t.last)

\* The sequence is computed: a slot that holds a pointer is loaded from.
SubscriptAfter(s, i) ==
    IF s.addr = None THEN [s EXCEPT !.ok = FALSE]
    ELSE IF s.addr.ty.of.k = "arr"
    THEN SubscriptOn(Translate(s, s.cur, i), s.addr, FALSE)
    ELSE LET t == Insert(s, s.cur, "Load", <<s.addr>>)
         IN  SubscriptOn(Translate(t, t.cur, i), t.last, TRUE)

\* An assertion that has failed has ended the program.
Translate(s, b, t) ==
    IF ~s.ok THEN s
    ELSE CASE t.e = "Constant"  -> TranslateConstant(s, t)
           [] t.e = "DeclRef"   -> TranslateDeclRef(s, b, t.x)
           [] t.e = "Unary"     -> TranslateUnary(s, b, t)
           [] t.e = "Binary"    -> TranslateBinary(s, b, t)
           [] t.e = "Comma"     -> TranslateList(s, t.list)
           [] t.e = "Paren"     -> Translate(s, b, t.a)
           [] t.e = "Call"      -> TranslateCall(s, b, t)
           [] t.e = "Subscript" -> SubscriptAfter(Translate(s, s.cur, t.a), t.i)
           [] OTHER             -> [s EXCEPT !.ok = FALSE]

-----------------------------------------------------------------------------
\* Where expressions are used.

\* The value an expression leaves becomes of the kind ty, in the current block.
Coerce(s, v, ty) ==
    IF ty = Float /\ IsInteger(v.ty) THEN Insert(s, s.cur, "SIToFP", <<v>>)
    ELSE IF IsInteger(ty) /\ v.ty = Float THEN Insert(s, s.cur, "FPToSI", <<v>>)
    ELSE [s EXCEPT !.last = v]

\* translateVarDecl of a local variable.
StoreInit(s, x) ==
    LET t == Coerce(s, s.val, VariableType(x))
    IN  [Insert(t, t.cur, "Store", <<Address(x), t.last>>) EXCEPT !.addr = None, !.val = None]

DeclareLocal(s, x, init) == StoreInit(Translate(s, s.cur, init), x)

\* bicastIntFP of a returned value: a constant is converted here and now.
ReturnAs(s, v, ty) ==
    IF Equals(v.ty, ty) THEN [s EXCEPT !.last = v]
    ELSE IF v.k = "const"
    THEN [s EXCEPT !.last = IF ty = Float THEN F32(ToFloat(v.n)) ELSE I32(ToInt(v.n))]
    ELSE Coerce(s, v, ty)

Return(s, b, t, ty) == LET u == Translate(s, b, t) IN Yield(ReturnAs(u, u.val, ty))

RECURSIVE InitRows(_, _, _, _)
RECURSIVE InitElements(_, _, _, _)

\* translateArrayInitAssign, one entry after the other; an empty row is left to
\* the memset.
InitAssign(s, address, list) ==
    IF address.ty.of.of.k = "arr" THEN InitRows(s, address, list, 0)
    ELSE InitElements(s, address, list, 0)

InitRows(s, address, list, k) ==
    IF k = Len(list) THEN s
    ELSE IF list[k + 1].list = <<>> THEN InitRows(s, address, list, k + 1)
    ELSE LET t == Insert(s, s.cur, "GetElementPtr", <<address, I32(0), I32(k)>>)
         IN  InitRows(InitAssign(t, t.last, list[k + 1].list), address, list, k + 1)

StoreElement(s, pointer) ==
    LET t == Coerce(s, s.val, pointer.ty.of)
    IN  Insert(t, t.cur, "Store", <<pointer, t.last>>)

InitElements(s, address, list, k) ==
    IF k = Len(list) \/ ~s.ok THEN s
    ELSE LET t == Insert(s, s.cur, "GetElementPtr", <<address, I32(0), I32(k)>>)
         IN  InitElements(StoreElement(Translate(t, t.cur, list[k + 1]), t.last),
                          address, list, k + 1)

\* A local array: cleared as a whole, then given its entries.
DeclareArray(s, x, list) ==
    InitAssign(Insert(s, s.cur, "Memset", <<Address(x)>>), Address(x), list)

\* The value of a global: its initialiser converted by parseVarDef, or zero.
GlobalInit(ty, init) ==
    IF init = NoInit THEN Zero(ty)
    ELSE IF init.e # "Constant" THEN Crash
    ELSE IF init.ty = ty THEN init
    ELSE IF ty = "int" THEN Const("int", ToInt(init.n)) ELSE Const("float", ToFloat(init.n))

RECURSIVE GlobalArray(_, _)
\* getCompatibleIRValue of a list: constants of the element's kind, row by row;
\* what the list leaves out stays what ConstantArray starts with, zeros.
GlobalArray(ty, list) ==
    [k \in DOMAIN list |-> IF list[k].e = "InitList" THEN GlobalArray(ty, list[k].list)
                           ELSE IF list[k].e # "Constant" THEN Crash
                           ELSE IF ty = "int" /\ list[k].ty = "float"
                                THEN Const("int", ToInt(list[k].n))
                           ELSE IF ty = "float" THEN Const("float", AsFloat(list[k]))
                           ELSE list[k]]

=============================================================================
