------------------------------- MODULE Stack -------------------------------
(***************************************************************************)
(* struct Stack of backend/regalloc.h: the stack frame as a list of        *)
(* pieces, deepest first.  A piece belongs to a variable, or is a fragment *)
(* a variable left behind.  The operators take the list of pieces and give *)
(* the list, or the number, each member function leaves or returns.        *)
(*                                                                         *)
(* Sizes are in units of a spill slot (8 bytes).                           *)
(***************************************************************************)
EXTENDS Integers, Sequences, SequencesExt

CONSTANT FRAGMENT     \* var == nullptr

Piece(v, n) == [var |-> v, size |-> n]
Total(ps) ==
  LET upTo[i \in 0 .. Len(ps)] == IF i = 0 THEN 0 ELSE upTo[i - 1] + ps[i].size
  IN  upTo[Len(ps)]
Holds(ps, v) == \E i \in DOMAIN ps : ps[i].var = v
IsFragment(p) == p.var = FRAGMENT
TrailingFragment(ps) == ps # << >> /\ IsFragment(Last(ps))

PositionOf(ps, v) == CHOOSE i \in DOMAIN ps : /\ ps[i].var = v
                                              /\ \A j \in 1 .. i - 1 : ps[j].var # v
SizeOf(ps, v) == ps[PositionOf(ps, v)].size

\* lookupOnStackVar: the size of everything down to and including v.
Offset(ps, v) == Total(SubSeq(ps, 1, PositionOf(ps, v)))

\* Both walks melt each run of fragments they pass into its first piece.
Melt(done, p) == IF TrailingFragment(done) /\ IsFragment(p)
                 THEN Append(Front(done), Piece(FRAGMENT, Last(done).size + p.size))
                 ELSE Append(done, p)
Melted(ps) ==
  LET upTo[i \in 0 .. Len(ps)] == IF i = 0 THEN << >> ELSE Melt(upTo[i - 1], ps[i])
  IN  upTo[Len(ps)]

\* The pieces that follow the i first ones of Melted(ps), as the walk left them.
Unvisited(ps, i) ==
  LET k == CHOOSE k \in 0 .. Len(ps) :
             Total(SubSeq(ps, 1, k)) = Total(SubSeq(Melted(ps), 1, i))
  IN  SubSeq(ps, k + 1, Len(ps))

(***************************************************************************)
(* spillVar: the first fragment that is large enough, split if it is       *)
(* larger, else a new piece at the end.                                    *)
(***************************************************************************)
LargeEnough(ps, n) == {i \in DOMAIN Melted(ps) : /\ IsFragment(Melted(ps)[i])
                                                 /\ Melted(ps)[i].size >= n}
IsNew(ps, n) == LargeEnough(ps, n) = {}

Rest(size, n) == IF size > n THEN <<Piece(FRAGMENT, size - n)>> ELSE << >>

Placed(ps, v, n) ==
  LET m == Melted(ps)
  IN  IF IsNew(ps, n) THEN Append(m, Piece(v, n))
      ELSE LET i == CHOOSE i \in LargeEnough(ps, n) :
                       \A j \in LargeEnough(ps, n) : i <= j
           IN  SubSeq(m, 1, i - 1) \o <<Piece(v, n)>> \o Rest(m[i].size, n)
                  \o Unvisited(ps, i)

\* By how much stackSize grows.
Grown(ps, n) == IF IsNew(ps, n) THEN n ELSE 0

(***************************************************************************)
(* releaseOnStackVar: the piece becomes a fragment; at the end of the      *)
(* stack it is taken off, with the fragment before it.                     *)
(***************************************************************************)
\* What the walk has behind it when it reaches v.
Before(ps, v) == Melted(SubSeq(ps, 1, PositionOf(ps, v) - 1))

\* Faulty: a release takes off everything behind the variable.
FollowingDropped(ps, v) == << >>

Following(ps, v) == SubSeq(ps, PositionOf(ps, v) + 1, Len(ps))

\* The result: the space that is given back.
Freed(ps, v) == IF Following(ps, v) # << >> THEN 0
                ELSE IF TrailingFragment(Before(ps, v))
                THEN SizeOf(ps, v) + Last(Before(ps, v)).size
                ELSE SizeOf(ps, v)

\* Faulty: the fragment before the last variable stays.
WithoutLast(ps, v) == IF Following(ps, v) # << >>
                      THEN Before(ps, v) \o <<Piece(FRAGMENT, SizeOf(ps, v))>> \o Following(ps, v)
                      ELSE Before(ps, v)

Without(ps, v) == IF Following(ps, v) # << >>
                  THEN Before(ps, v) \o <<Piece(FRAGMENT, SizeOf(ps, v))>> \o Following(ps, v)
                  ELSE IF TrailingFragment(Before(ps, v)) THEN Front(Before(ps, v))
                  ELSE Before(ps, v)
=============================================================================
