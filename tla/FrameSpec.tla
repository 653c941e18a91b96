----------------------------- MODULE FrameSpec -----------------------------
(***************************************************************************)
(* What the code generator needs of the spill stack, without its layout:   *)
(* a variable that lives on the stack owns a range of the frame, no two    *)
(* ranges overlap, all lie in the frame, and a range never moves while its *)
(* owner lives there, since the code already emitted refers to it.         *)
(***************************************************************************)
EXTENDS Naturals

CONSTANTS Owners, MaxSize

VARIABLES range,   \* the cells of the frame each owner holds
          top      \* size of the frame

Init == /\ range = [o \in Owners |-> {}]
        /\ top = 0

\* An owner gets n consecutive cells nobody holds, at the end or in a hole.
Place(o, n) == /\ range[o] = {}
               /\ \E first \in 1 .. top + 1 :
                    LET cells == first .. first + n - 1
                    IN  /\ \A p \in Owners : range[p] \cap cells = {}
                        /\ range' = [range EXCEPT ![o] = cells]
                        /\ top' = IF first + n - 1 > top THEN first + n - 1 ELSE top

\* An owner leaves.  The frame may shrink, never below a range still held.
Drop(o) == /\ range[o] # {}
           /\ range' = [range EXCEPT ![o] = {}]
           /\ top' \in 0 .. top
           /\ \A p \in Owners \ {o} : \A c \in range[p] : c <= top'

Next == \E o \in Owners : (\E n \in 1 .. MaxSize : Place(o, n)) \/ Drop(o)

Spec == Init /\ [][Next]_<<range, top>>
=============================================================================
