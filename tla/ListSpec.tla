------------------------------ MODULE ListSpec ------------------------------
(***************************************************************************)
(* What a client of src/slime/utils/list.h is promised: a family of finite *)
(* sequences in which a node occurs at most once.  An insertion takes the  *)
(* node away from wherever it is and puts it where the call says; nothing  *)
(* else moves.                                                             *)
(***************************************************************************)
EXTENDS Naturals, SequencesExt

CONSTANTS Nodes, Lists

VARIABLE seqs
vars == <<seqs>>

Init == seqs = [l \in Lists |-> <<>>]

Position(s, n) == CHOOSE i \in 1 .. Len(s) : s[i] = n
Without(s, n)  == IF n \in ToSet(s) THEN RemoveAt(s, Position(s, n)) ELSE s

\* Every list without n, and list l then with n at place i.
Put(n, l, i) == seqs' = [k \in Lists |-> IF k = l THEN InsertAt(Without(seqs[l], n), i, n)
                                         ELSE Without(seqs[k], n)]

InsertToHead(n, l) == Put(n, l, 1)
InsertToTail(n, l) == Put(n, l, Len(Without(seqs[l], n)) + 1)
InsertBefore(n, m) == \E l \in Lists : /\ m \in ToSet(seqs[l]) \ {n}
                                       /\ Put(n, l, Position(Without(seqs[l], n), m))
InsertAfter(n, m)  == \E l \in Lists : /\ m \in ToSet(seqs[l]) \ {n}
                                       /\ Put(n, l, Position(Without(seqs[l], n), m) + 1)
RemoveFromList(n)  == \E l \in Lists : /\ n \in ToSet(seqs[l])
                                       /\ seqs' = [seqs EXCEPT ![l] = Without(@, n)]

Next == \E n \in Nodes : \/ \E l \in Lists : InsertToHead(n, l) \/ InsertToTail(n, l)
                         \/ \E m \in Nodes : InsertBefore(n, m) \/ InsertAfter(n, m)
                         \/ RemoveFromList(n)

Spec == Init /\ [][Next]_vars
=============================================================================
