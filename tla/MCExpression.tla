----------------------------- MODULE MCExpression -----------------------------
(***************************************************************************)
(* Expression with a few variables, every operator, and every pair of a    *)
(* small set of operands; longer lists of operators over plain variables.  *)
(***************************************************************************)
EXTENDS Expression, FiniteSets, TLC

Scalar(ty, const, init) ==
    [ty |-> ty, dims |-> <<>>, const |-> const, init |-> init, decays |-> FALSE]

One == Const("int", 1)

MCDecls ==
    [x |-> Scalar("int", FALSE, NoInit),
     y |-> Scalar("float", FALSE, NoInit),
     c |-> Scalar("int", TRUE, Const("int", 3)),
     d |-> Scalar("float", TRUE, Const("int", 1)),
     a |-> [ty |-> "int", dims |-> <<2, 2>>, const |-> FALSE, init |-> NoInit,
            decays |-> FALSE],
     p |-> [ty |-> "int", dims |-> <<2, 2>>, const |-> FALSE, init |-> NoInit,
            decays |-> TRUE],
     u |-> [ty |-> "int", dims |-> <<2, 2>>, const |-> TRUE, decays |-> FALSE,
            init |-> InitList(<<InitList(<<One, Const("int", 2)>>),
                                InitList(<<Const("int", 3)>>)>>)],
     t |-> [ty |-> "int", dims |-> <<2>>, const |-> TRUE, decays |-> FALSE,
            init |-> InitList(<<Const("int", 2), Var("x")>>)]]

MCParams == [f |-> <<Word>>, h |-> <<Float, Word>>, q |-> <<Ptr(Word)>>]

MCLocalOf == [ty \in {"int", "float"} |-> IF ty = "int" THEN "x" ELSE "y"]

Machine(xv, yv, k) ==
    [mem   |-> (<<"x", 0>> :> xv) @@ (<<"y", 0>> :> yv) @@ (<<"c", 0>> :> 3)
               @@ (<<"d", 0>> :> 2) @@ (<<"p", 0>> :> <<"a", 0>>)
               @@ (<<"t", 0>> :> 2) @@ (<<"t", 1>> :> xv)
               @@ [at \in {"a"} \X (0..3) |-> at[2] + k]
               @@ [at \in {"u"} \X (0..3) |-> (at[2] + 1) % 4],
     trace |-> <<>>, undef |-> FALSE]

MCMachines == {Machine(1, 3, 0), Machine(-3, 0, 2)}

x == Var("x")
y == Var("y")
Zero0 == Const("int", 0)
Half == Const("float", 1)

\* The least int as C programs write it, and -1 to divide it by.
Least == Paren(Binary("Sub", Unary("Neg", Const("int", 7)), One))
MinusOne == Unary("Neg", One)

\* Operands, all of them ones the grammar lets stand beside an operator.
Plain == {x, y, One, Zero0, Half}

Composite ==
    {Unary("Neg", Paren(Binary("LT", x, y))), Unary("Not", y), Unary("Inv", Var("c")),
     Unary("Neg", Half), Unary("Pos", Paren(Binary("Assign", x, y))),
     Paren(Binary("LAnd", x, Call("f", <<x>>))),
     Unary("Not", Paren(Binary("LOr", y, Call("f", <<x>>)))),
     Paren(Binary("LOr", Binary("EQ", x, One), Binary("Assign", y, One))),
     Paren(Comma(<<Binary("Assign", x, One), x>>)),
     Paren(Comma(<<Binary("Assign", x, One), One>>)),
     Call("f", <<y>>), Call("h", <<Binary("LE", x, One), Half>>),
     Call("q", <<Index(Var("a"), One)>>),
     Index(Index(Var("a"), One), Paren(Binary("LAnd", x, y))),
     Index(Index(Var("p"), Unary("Not", y)), One),
     Index(Var("t"), Zero0), Index(Var("t"), One), Var("d"),
     Index(Index(Var("u"), One), Zero0), Index(Index(Var("u"), One), One),
     Index(Index(Var("u"), x), Zero0), Least}

Places == {x, y, Index(Index(Var("p"), One), Zero0)}

Everything == Plain \cup Composite

Subject(o, w) == [ops |-> o, operands |-> w, uses |-> {"value"}]

Two(op, l, r) == Subject(<<op>>, <<l, r>>)

OneOperator ==
    {Two(op, l, r) : op \in Operators \ {"Assign"}, l \in Everything, r \in Plain}
    \cup {Two(op, l, r) : op \in Operators \ {"Assign"}, l \in Plain, r \in Everything}
    \cup {Two(op, l, r) : op \in {"Sub", "EQ", "LAnd"}, l, r \in Composite}
    \cup {Two(op, Least, MinusOne) : op \in Arithmetic \cup IntegerOnly}
    \cup {Two("Assign", l, r) : l \in Places, r \in Everything}

TwoOperators ==
    {Subject(<<o1, o2>>, <<x, m, r>>) :
        o1, o2 \in Operators \ {"Assign"}, m \in {y, One}, r \in {x, Call("f", <<x>>)}}

\* Distinct operands, so that a tree tells them apart.
Row == <<x, Const("int", 2), Const("int", 3), Var("c"), Call("f", <<x>>), One>>

Long == {Subject(o, SubSeq(Row, 1, Len(o) + 1)) :
            o \in UNION {[1..n -> {"Add", "Mul", "Sub", "Div", "LT", "LOr"}] : n \in 3..4}
                  \cup [1..5 -> {"Add", "Mul", "Sub", "LT"}]
                  \cup UNION {[1..n -> {"Assign", "Add", "LT"}] : n \in 2..4}}

Single == {Subject(<<>>, <<t>>) : t \in Everything}

Inside == {"return int", "return float", "local int", "local float"}
Outside == {"global int", "global float"}

Placed == {[s EXCEPT !.uses = Inside] : s \in Single}
          \cup {[Two(op, l, r) EXCEPT !.uses = Inside \cup Outside] :
                    op \in {"Add", "LT"}, l, r \in {One, Half, Var("d")}}

\* Initialisers of int a[2][2] with and without inner braces.
Lists ==
    LET E == {One, x, Half, Paren(Binary("LAnd", x, One))}
        L(s) == InitList(s)
    IN  {L(<<>>), L(<<L(<<>>), L(<<One>>)>>)}
        \cup {L(<<e, f>>) : e, f \in E \ {Half}}
        \cup {L(<<e, f, L(<<g>>)>>) : e, f, g \in {One, x}}
        \cup {L(<<L(<<e>>), f, g>>) : e, f, g \in {One, x, Half}}
        \cup {L(<<L(<<e, f>>), L(<<g>>)>>) : e, f, g \in {One, x, Half}}
        \cup {L(<<e, One, f, g>>) : e, f, g \in {x, Const("int", 2)}}

ConstantList(t) == \A u \in Subtrees(t) : u.e \notin {"DeclRef", "Call"}

Braces == {[ops |-> <<>>, operands |-> <<l>>,
            uses |-> {"array"} \cup (IF ConstantList(l) THEN {"globals"} ELSE {})] : l \in Lists}

MCInput == OneOperator \cup TwoOperators \cup Long \cup Single \cup Placed \cup Braces

=============================================================================
