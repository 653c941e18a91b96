---------------------------- MODULE UseDefProofs ----------------------------
(***************************************************************************)
(* Def-use chains stay exact, for any number of instructions, phis, blocks *)
(* and constants and any arities.                                          *)
(*                                                                         *)
(* The invariant is that the two directions describe the same edges, plus  *)
(* what the removals promise; that removeUse finds the Use it is given     *)
(* then follows, because reset() only asks for an edge that op records.    *)
(***************************************************************************)
EXTENDS UseDef, SequenceTheorems, TLAPS

Operands == Values \cup {NULL}

Inv == /\ TypeOK
       /\ UsesExact
       /\ ok = TRUE
       /\ RemovedIsDead
       /\ RemovedBlocksReadNothing

(***************************************************************************)
(* Use::reset.                                                             *)
(***************************************************************************)

\* A slot is an owner and one of its operand positions.
LEMMA SlotsAre ==
  ASSUME NEW o, NEW s
  PROVE  s \in Slots(o) <=> /\ s = <<s[1], s[2]>>
                            /\ s[1] \in Users
                            /\ s[2] \in DOMAIN o[s[1]]
  BY DEF Slots

\* Resetting any set of Uses, each through removeUse and addUse, keeps the
\* use lists exact and never meets the assertion.
LEMMA ResetKeepsUses ==
  ASSUME TypeOK, UsesExact,
         NEW o \in [Users -> Seq(Operands)],
         \A u \in Users : DOMAIN o[u] = DOMAIN op[u],
         ResetTo(o)
  PROVE  /\ op' \in [Users -> Seq(Operands)]
         /\ uses' \in [Values -> SUBSET (Users \X Nat)]
         /\ UsesExact'
         /\ ok' = ok
<1>1. op' = o /\ uses' = UsesAfter(o) /\ ok' = (ok /\ Registered(Changed(o)))
  BY DEF ResetTo
<1>2. Slots(o) = Slots(op)
  <2>1. \A s : s \in Slots(o) <=> s \in Slots(op)
    BY SlotsAre
  <2> HIDE DEF Slots
  <2> QED BY <2>1
<1>3. \A u \in Users : DOMAIN o[u] \subseteq Nat
  <2>1. \A u \in Users : o[u] \in Seq(Operands)
    OBVIOUS
  <2>2. \A q \in Seq(Operands) : DOMAIN q \subseteq Nat
    BY DEF Operands
  <2> QED BY <2>1, <2>2
<1>4. Changed(o) \subseteq Users \X Nat
  <2>1. SUFFICES ASSUME NEW s \in Changed(o) PROVE s \in Users \X Nat
    OBVIOUS
  <2>2. s \in Slots(o)
    BY DEF Changed
  <2> QED BY <2>2, <1>3, SlotsAre
<1>5. \A v \in Values : \A s : s \in uses[v] <=> s \in Slots(op) /\ At(op, s) = v
  BY DEF UsesExact
<1>6. uses' \in [Values -> SUBSET (Users \X Nat)]
  <2>1. \A v \in Values : uses[v] \subseteq Users \X Nat
    BY DEF TypeOK
  <2> QED BY <1>1, <1>4, <2>1 DEF UsesAfter
<1>7. \A v \in Values : \A s : s \in uses'[v] <=> s \in Slots(op) /\ At(o, s) = v
  <2>1. SUFFICES ASSUME NEW v \in Values, NEW s
                 PROVE  s \in uses'[v] <=> s \in Slots(op) /\ At(o, s) = v
    OBVIOUS
  <2>2. s \in uses'[v] <=> \/ s \in uses[v] /\ ~(s \in Changed(o) /\ At(op, s) = v)
                           \/ s \in Changed(o) /\ At(o, s) = v
    BY <1>1 DEF UsesAfter
  <2>3. s \in Changed(o) <=> s \in Slots(op) /\ At(o, s) # At(op, s)
    BY <1>2 DEF Changed
  <2> QED BY <2>2, <2>3, <1>5
<1>8. UsesExact'
  <2>1. SUFFICES ASSUME NEW v \in Values
                 PROVE  uses'[v] = {s \in Slots(o) : At(o, s) = v}
    BY <1>1 DEF UsesExact, Slots, At
  <2> QED BY <1>2, <1>7
<1>9. Registered(Changed(o))
  <2>1. SUFFICES ASSUME NEW s \in Changed(o), At(op, s) # NULL
                 PROVE  s \in uses[At(op, s)]
    BY DEF Registered
  <2>2. s \in Slots(op)
    BY <1>2 DEF Changed
  <2>3. s[1] \in Users /\ s[2] \in DOMAIN op[s[1]] /\ op[s[1]] \in Seq(Operands)
    BY <2>2, SlotsAre DEF TypeOK, Operands
  <2>4. At(op, s) \in Operands
    BY <2>3 DEF At
  <2> QED BY <2>1, <2>2, <2>4, <1>5 DEF Operands
<1>10. ok' = ok
  BY <1>1, <1>9 DEF TypeOK
<1> QED BY <1>1, <1>6, <1>8, <1>10

\* Rewriting the elements of a sequence of operands gives one.
LEMMA SameShape ==
  ASSUME NEW q \in Seq(Operands), NEW r \in [DOMAIN q -> Operands]
  PROVE  r \in Seq(Operands)
<1>1. DOMAIN q = 1 .. Len(q) /\ Len(q) \in Nat
  BY DEF Operands
<1> QED BY <1>1, SeqDef

(***************************************************************************)
(* Removed instructions.                                                   *)
(***************************************************************************)

\* No operand names a removed instruction: its use list is empty and exact.
LEMMA RemovedUnread ==
  ASSUME Inv
  PROVE  \A w \in Users : \A i \in DOMAIN op[w] : op[w][i] \notin removed
<1>1. SUFFICES ASSUME NEW w \in Users, NEW i \in DOMAIN op[w], op[w][i] \in removed
               PROVE  FALSE
  OBVIOUS
<1>2. <<w, i>> \in Slots(op) /\ At(op, <<w, i>>) = op[w][i]
  BY SlotsAre DEF At
<1>3. op[w][i] \in Values
  BY <1>1 DEF Inv, TypeOK, Values
<1>4. <<w, i>> \in uses[op[w][i]]
  BY <1>2, <1>3 DEF Inv, UsesExact
<1>5. uses[op[w][i]] = {}
  BY <1>1 DEF Inv, RemovedIsDead
<1> QED BY <1>4, <1>5

\* Conversely, with exact use lists it is enough to look at the operands.
LEMMA UnreadIsDead ==
  ASSUME UsesExact', removed' \subseteq Users,
         \A w \in Users : \A i \in DOMAIN op'[w] : op'[w][i] \notin removed',
         \A u \in removed' : \A i \in DOMAIN op'[u] : op'[u][i] = NULL
  PROVE  RemovedIsDead'
<1>1. SUFFICES ASSUME NEW u \in removed' PROVE uses'[u] = {}
  BY DEF RemovedIsDead
<1>2. SUFFICES ASSUME NEW s \in uses'[u] PROVE FALSE
  OBVIOUS
<1>3. u \in Values
  BY DEF Values
<1>4. s \in Slots(op)' /\ At(op', s) = u
  <2>1. uses'[u] = {t \in Slots(op') : At(op', t) = u}
    BY <1>3 DEF UsesExact, Slots, At
  <2> QED BY <1>2, <2>1 DEF Slots
<1>5. s[1] \in Users /\ s[2] \in DOMAIN op'[s[1]]
  BY <1>4 DEF Slots
<1> QED BY <1>4, <1>5 DEF At

\* What Live leaves out.
LEMMA LiveIs ==
  ASSUME NEW v \in Live
  PROVE  v \in Values /\ v \notin removed /\ (v \in Users => at[v] \notin gone)
  BY DEF Live, Dead

(***************************************************************************)
(* The steps.                                                              *)
(***************************************************************************)

\* A step that changes operands by reset() alone, of live users and to live
\* values or null, and removes nothing.
LEMMA RewriteKeepsInv ==
  ASSUME Inv,
         NEW o \in [Users -> Seq(Operands)],
         \A u \in Users : DOMAIN o[u] = DOMAIN op[u],
         \A u \in Users : \A i \in DOMAIN o[u] :
            o[u][i] # op[u][i] => \/ o[u][i] = NULL
                                  \/ /\ op[u][i] # NULL \/ u \in Live
                                     /\ o[u][i] \in Live,
         ResetTo(o),
         UNCHANGED <<at, removed, gone>>
  PROVE  Inv'
<1>1. op' = o
  BY DEF ResetTo
<1>2. /\ op' \in [Users -> Seq(Operands)]
      /\ uses' \in [Values -> SUBSET (Users \X Nat)]
      /\ UsesExact'
      /\ ok' = ok
  BY ResetKeepsUses DEF Inv
<1>3. TypeOK'
  BY <1>2 DEF Inv, TypeOK, Operands
<1>4. \A u \in Users : (u \in removed \/ at[u] \in gone) => u \notin Live
  BY DEF Live, Dead
<1>5. RemovedIsDead'
  <2>1. \A w \in Users : \A i \in DOMAIN op'[w] : op'[w][i] \notin removed'
    <3>1. SUFFICES ASSUME NEW w \in Users, NEW i \in DOMAIN o[w]
                   PROVE  o[w][i] \notin removed
      BY <1>1
    <3>2. op[w][i] \notin removed
      BY RemovedUnread
    <3>3. NULL \notin removed
      BY UseDefAssumption DEF Inv, TypeOK, Values
    <3> QED BY <3>2, <3>3, LiveIs
  <2>2. \A u \in removed' : \A i \in DOMAIN op'[u] : op'[u][i] = NULL
    BY <1>1, <1>4 DEF Inv, RemovedIsDead, TypeOK
  <2> QED BY <1>2, <2>1, <2>2, UnreadIsDead DEF Inv, TypeOK
<1>6. RemovedBlocksReadNothing'
  BY <1>1, <1>4 DEF Inv, RemovedBlocksReadNothing
<1> QED BY <1>2, <1>3, <1>5, <1>6 DEF Inv

\* Assigning an operand keeps the invariant.
LEMMA SetOperandKeepsInv ==
  ASSUME Inv, NEW u \in Insts, NEW v \in Values \cup {NULL}, NEW i \in DOMAIN op[u],
         SetOperand(u, i, v)
  PROVE  Inv'
<1> DEFINE o == [op EXCEPT ![u][i] = v]
<1>1. u \in Users /\ op \in [Users -> Seq(Operands)]
  BY DEF Users, Inv, TypeOK, Operands
<1>2. [op[u] EXCEPT ![i] = v] \in Seq(Operands)
  <2>1. v \in Operands
    BY DEF Operands
  <2>2. op[u] \in Seq(Operands) /\ i \in 1 .. Len(op[u])
    BY <1>1
  <2> QED BY <2>1, <2>2, ExceptSeq
<1>3. o \in [Users -> Seq(Operands)] /\ \A w \in Users : DOMAIN o[w] = DOMAIN op[w]
  BY <1>1, <1>2
<1>4. \A w \in Users : \A j \in DOMAIN o[w] : o[w][j] # op[w][j] => w = u /\ o[w][j] = v
  BY <1>1
<1>5. ResetTo(o) /\ UNCHANGED <<at, removed, gone>> /\ u \in Live /\ v \in Live \cup {NULL}
  BY DEF SetOperand
<1> HIDE DEF o
<1> QED BY <1>3, <1>4, <1>5, RewriteKeepsInv

\* Replacing a value in all its uses keeps the invariant.
LEMMA ReplaceAllKeepsInv ==
  ASSUME Inv, NEW u \in Users, NEW v \in Values, ReplaceAll(u, v)
  PROVE  Inv'
<1> DEFINE o == [w \in Users |-> [i \in DOMAIN op[w] |->
                    IF <<w, i>> \in uses[u] THEN v ELSE op[w][i]]]
<1>1. op \in [Users -> Seq(Operands)] /\ v \in Operands
  BY DEF Inv, TypeOK, Operands
<1>2. \A w \in Users : [i \in DOMAIN op[w] |-> IF <<w, i>> \in uses[u] THEN v ELSE op[w][i]]
                          \in Seq(Operands)
  <2>1. TAKE w \in Users
  <2>2. op[w] \in Seq(Operands)
    BY <1>1
  <2>3. \A i \in DOMAIN op[w] : op[w][i] \in Operands
    BY <2>2
  <2> QED BY <2>2, <2>3, <1>1, SameShape
<1>3. o \in [Users -> Seq(Operands)] /\ \A w \in Users : DOMAIN o[w] = DOMAIN op[w]
  BY <1>2
<1>4. \A w \in Users : \A i \in DOMAIN o[w] :
         o[w][i] # op[w][i] => o[w][i] = v /\ <<w, i>> \in uses[u]
  OBVIOUS
<1>5. \A w \in Users : \A i \in DOMAIN op[w] : <<w, i>> \in uses[u] => op[w][i] # NULL
  <2>1. u \in Values /\ u # NULL
    BY UseDefAssumption DEF Values
  <2> QED BY <2>1 DEF Inv, UsesExact, At
<1>6. ResetTo(o) /\ UNCHANGED <<at, removed, gone>> /\ v \in Live
  BY DEF ReplaceAll
<1> HIDE DEF o
<1> QED BY <1>3, <1>4, <1>5, <1>6, RewriteKeepsInv

\* removeValueFrom keeps the invariant, although it loses values.
LEMMA RemoveIncomingKeepsInv ==
  ASSUME Inv, NEW p \in Phis, NEW b \in Blocks, RemoveIncoming(p, b)
  PROVE  Inv'
<1>1. PICK i \in Incoming(p, b) :
        ResetTo([op EXCEPT ![p] =
              [@ EXCEPT ![i - 1] = Moved(op[p][Len(op[p]) - 1]), ![i] = Moved(op[p][Len(op[p])]),
                        ![Len(op[p]) - 1] = NULL, ![Len(op[p])] = NULL]])
  BY DEF RemoveIncoming
<1> DEFINE n == Len(op[p])
           q == [op[p] EXCEPT ![i - 1] = Moved(op[p][n - 1]), ![i] = Moved(op[p][n]),
                              ![n - 1] = NULL, ![n] = NULL]
           o == [op EXCEPT ![p] = q]
<1>2. p \in Users /\ op \in [Users -> Seq(Operands)] /\ op[p] \in Seq(Operands)
  BY DEF Users, Inv, TypeOK, Operands
<1>3. DOMAIN q = DOMAIN op[p] /\ \A j \in DOMAIN op[p] : q[j] = op[p][j] \/ q[j] = NULL
  BY DEF Moved
<1>4. q \in Seq(Operands)
  <2>1. \A j \in DOMAIN op[p] : op[p][j] \in Operands
    BY <1>2
  <2>2. q \in [DOMAIN op[p] -> Operands]
    BY <1>3, <2>1 DEF Operands
  <2> QED BY <1>2, <2>2, SameShape
<1>5. ResetTo(o) /\ UNCHANGED <<at, removed, gone>>
  BY <1>1 DEF RemoveIncoming
<1> HIDE DEF q
<1>6. o \in [Users -> Seq(Operands)] /\ \A w \in Users : DOMAIN o[w] = DOMAIN op[w]
  BY <1>2, <1>3, <1>4
<1>7. \A w \in Users : \A j \in DOMAIN o[w] : o[w][j] # op[w][j] => o[w][j] = NULL
  BY <1>2, <1>3
<1> HIDE DEF o
<1> QED BY <1>5, <1>6, <1>7, RewriteKeepsInv

\* Clearing the operands of a set of users.
LEMMA ClearedShape ==
  ASSUME Inv, NEW S
  PROVE  /\ Cleared(S) \in [Users -> Seq(Operands)]
         /\ \A w \in Users : DOMAIN Cleared(S)[w] = DOMAIN op[w]
         /\ \A w \in Users : \A i \in DOMAIN op[w] :
               Cleared(S)[w][i] = IF w \in S THEN NULL ELSE op[w][i]
<1>1. op \in [Users -> Seq(Operands)]
  BY DEF Inv, TypeOK, Operands
<1>2. \A w \in Users : [i \in DOMAIN op[w] |-> NULL] \in Seq(Operands)
  <2>1. TAKE w \in Users
  <2>2. op[w] \in Seq(Operands) /\ NULL \in Operands
    BY <1>1 DEF Operands
  <2> QED BY <2>2, SameShape
<1> QED BY <1>1, <1>2 DEF Cleared

\* Removing an unused instruction for good keeps the invariant.
LEMMA RemoveFromBlockKeepsInv ==
  ASSUME Inv, NEW u \in Users, RemoveFromBlock(u)
  PROVE  Inv'
<1> DEFINE o == Cleared({u})
<1>1. /\ o \in [Users -> Seq(Operands)]
      /\ \A w \in Users : DOMAIN o[w] = DOMAIN op[w]
      /\ \A w \in Users : \A i \in DOMAIN op[w] : o[w][i] = IF w = u THEN NULL ELSE op[w][i]
  BY ClearedShape
<1>2. /\ ResetTo(o) /\ uses[u] = {} /\ u \in Live
      /\ at' = [at EXCEPT ![u] = NULL] /\ removed' = removed \cup {u} /\ gone' = gone
  BY DEF RemoveFromBlock
<1> HIDE DEF o
<1>3. op' = o
  BY <1>2 DEF ResetTo
<1>4. /\ op' \in [Users -> Seq(Operands)]
      /\ uses' \in [Values -> SUBSET (Users \X Nat)]
      /\ UsesExact' /\ ok' = ok
  BY <1>1, <1>2, ResetKeepsUses DEF Inv
<1>5. TypeOK'
  BY <1>2, <1>4 DEF Inv, TypeOK, Operands
<1>6. RemovedIsDead'
  <2>1. \A w \in Users : \A i \in DOMAIN op[w] : op[w][i] # u
    <3>1. SUFFICES ASSUME NEW w \in Users, NEW i \in DOMAIN op[w], op[w][i] = u
                   PROVE  FALSE
      OBVIOUS
    <3>2. <<w, i>> \in Slots(op) /\ At(op, <<w, i>>) = u
      BY <3>1, SlotsAre DEF At
    <3> QED BY <3>2, <1>2 DEF Inv, UsesExact, Values
  <2>2. NULL \notin removed'
    BY <1>5, UseDefAssumption DEF TypeOK, Values
  <2>3. \A w \in Users : \A i \in DOMAIN op'[w] : op'[w][i] \notin removed'
    BY <1>1, <1>2, <1>3, <2>1, <2>2, RemovedUnread
  <2>4. \A w \in removed' : \A i \in DOMAIN op'[w] : op'[w][i] = NULL
    BY <1>1, <1>2, <1>3 DEF Inv, RemovedIsDead, TypeOK
  <2> QED BY <1>4, <1>5, <2>3, <2>4, UnreadIsDead DEF TypeOK
<1>7. RemovedBlocksReadNothing'
  BY <1>1, <1>2, <1>3 DEF Inv, RemovedBlocksReadNothing, TypeOK
<1> QED BY <1>4, <1>5, <1>6, <1>7 DEF Inv

\* BasicBlock::remove keeps the invariant.
LEMMA RemoveBlockKeepsInv ==
  ASSUME Inv, NEW b \in Blocks, RemoveBlock(b)
  PROVE  Inv'
<1> DEFINE S == {u \in Users : at[u] = b}
           o == Cleared(S)
<1>1. /\ o \in [Users -> Seq(Operands)]
      /\ \A w \in Users : DOMAIN o[w] = DOMAIN op[w]
      /\ \A w \in Users : \A i \in DOMAIN op[w] : o[w][i] = IF w \in S THEN NULL ELSE op[w][i]
  BY ClearedShape
<1>2. /\ ResetTo(o)
      /\ at' = at /\ removed' = removed /\ gone' = gone \cup {b}
  BY DEF RemoveBlock
<1> HIDE DEF o
<1>3. op' = o
  BY <1>2 DEF ResetTo
<1>4. /\ op' \in [Users -> Seq(Operands)]
      /\ uses' \in [Values -> SUBSET (Users \X Nat)]
      /\ UsesExact' /\ ok' = ok
  BY <1>1, <1>2, ResetKeepsUses DEF Inv
<1>5. TypeOK'
  BY <1>2, <1>4 DEF Inv, TypeOK, Operands
<1>6. RemovedIsDead'
  <2>1. NULL \notin removed'
    BY <1>5, UseDefAssumption DEF TypeOK, Values
  <2>2. \A w \in Users : \A i \in DOMAIN op'[w] : op'[w][i] \notin removed'
    BY <1>1, <1>2, <1>3, <2>1, RemovedUnread
  <2>3. \A w \in removed' : \A i \in DOMAIN op'[w] : op'[w][i] = NULL
    BY <1>1, <1>2, <1>3 DEF Inv, RemovedIsDead, TypeOK
  <2> QED BY <1>4, <1>5, <2>2, <2>3, UnreadIsDead DEF TypeOK
<1>7. RemovedBlocksReadNothing'
  BY <1>1, <1>2, <1>3 DEF Inv, RemovedBlocksReadNothing
<1> QED BY <1>4, <1>5, <1>6, <1>7 DEF Inv

\* Growing a phi unbinds and rebinds all its Uses; those of the other users
\* are untouched, and the new pair is registered.
LEMMA AddIncomingKeepsInv ==
  ASSUME Inv, NEW p \in Phis, NEW v \in Values, NEW b \in Blocks, AddIncoming(p, v, b)
  PROVE  Inv'
<1> DEFINE grown == op[p] \o <<v, b>>
<1>1. /\ p \in Users /\ op \in [Users -> Seq(Operands)] /\ op[p] \in Seq(Operands)
      /\ v \in Operands /\ b \in Operands /\ b \in Values
  BY DEF Users, Inv, TypeOK, Operands, Values
<1>2. /\ op' = [op EXCEPT ![p] = grown]
      /\ uses' = [w \in Values |-> (uses[w] \ {s \in {p} \X DOMAIN op[p] : At(op, s) = w})
                                      \cup {s \in {p} \X DOMAIN grown : grown[s[2]] = w}]
      /\ ok' = (ok /\ Registered({p} \X DOMAIN op[p]))
      /\ UNCHANGED <<at, removed, gone>>
      /\ p \in Live /\ v \in Live /\ b \in Live
  BY DEF AddIncoming
<1>3. /\ grown \in Seq(Operands)
      /\ DOMAIN op[p] \subseteq DOMAIN grown
      /\ DOMAIN grown \subseteq Nat
      /\ \A i \in DOMAIN grown : grown[i] = IF i \in DOMAIN op[p] THEN op[p][i]
                                            ELSE IF i = Len(op[p]) + 1 THEN v ELSE b
  <2>1. <<v, b>> \in Seq(Operands)
    BY <1>1
  <2>2. Len(op[p]) \in Nat /\ DOMAIN op[p] = 1 .. Len(op[p])
    BY <1>1
  <2>3. grown \in Seq(Operands) /\ Len(grown) = Len(op[p]) + 2
    BY <1>1, <2>1
  <2>4. DOMAIN grown = 1 .. Len(op[p]) + 2
    BY <2>3
  <2>5. \A i \in 1 .. Len(op[p]) + 2 :
           grown[i] = IF i <= Len(op[p]) THEN op[p][i] ELSE <<v, b>>[i - Len(op[p])]
    BY <1>1, <2>1
  <2>6. \A i \in 1 .. Len(op[p]) + 2 : i > Len(op[p]) =>
           <<v, b>>[i - Len(op[p])] = IF i = Len(op[p]) + 1 THEN v ELSE b
    BY <2>2
  <2> QED BY <2>2, <2>3, <2>4, <2>5, <2>6
<1> HIDE DEF grown
<1>4. /\ op' \in [Users -> Seq(Operands)] /\ op'[p] = grown
      /\ \A w \in Users \ {p} : op'[w] = op[w]
  BY <1>1, <1>2, <1>3
<1>5. \A w \in Values : \A s : s \in uses[w] <=> s \in Slots(op) /\ At(op, s) = w
  BY DEF Inv, UsesExact
<1>6. \A w \in Values : uses[w] \subseteq Users \X Nat
  BY DEF Inv, TypeOK
<1>7. uses' \in [Values -> SUBSET (Users \X Nat)]
  BY <1>1, <1>2, <1>3, <1>6
<1>8. \A w \in Values : \A s : s \in uses'[w] <=> s \in Slots(op') /\ At(op', s) = w
  <2>1. SUFFICES ASSUME NEW w \in Values, NEW s
                 PROVE  s \in uses'[w] <=> s \in Slots(op') /\ At(op', s) = w
    OBVIOUS
  <2>2. s \in uses'[w] <=> \/ s \in uses[w] /\ ~(s \in {p} \X DOMAIN op[p] /\ At(op, s) = w)
                           \/ s \in {p} \X DOMAIN grown /\ grown[s[2]] = w
    BY <1>2
  <2>3. s \in Slots(op') <=> s = <<s[1], s[2]>> /\ s[1] \in Users /\ s[2] \in DOMAIN op'[s[1]]
    BY SlotsAre
  <2>4. s \in Slots(op) <=> s = <<s[1], s[2]>> /\ s[1] \in Users /\ s[2] \in DOMAIN op[s[1]]
    BY SlotsAre
  <2>5. \A D : s \in {p} \X D <=> s = <<s[1], s[2]>> /\ s[1] = p /\ s[2] \in D
    OBVIOUS
  <2>6. CASE s[1] = p
    BY <2>2, <2>3, <2>4, <2>5, <2>6, <1>1, <1>4, <1>5 DEF At
  <2>7. CASE s[1] # p
    BY <2>2, <2>3, <2>4, <2>5, <2>7, <1>4, <1>5 DEF At
  <2> QED BY <2>6, <2>7
<1>9. UsesExact'
  <2>1. SUFFICES ASSUME NEW w \in Values
                 PROVE  uses'[w] = {s \in Slots(op') : At(op', s) = w}
    BY DEF UsesExact, Slots, At
  <2> QED BY <1>8
<1>10. ok' = ok
  <2>1. SUFFICES ASSUME NEW s \in {p} \X DOMAIN op[p], At(op, s) # NULL
                 PROVE  s \in uses[At(op, s)]
    BY <1>2 DEF Registered, Inv
  <2>2. s \in Slots(op)
    BY <1>1, SlotsAre
  <2>3. At(op, s) \in Values
    BY <1>1, <2>1 DEF At, Operands
  <2> QED BY <1>5, <2>2, <2>3
<1>11. TypeOK'
  BY <1>2, <1>4, <1>7, <1>10 DEF Inv, TypeOK, Operands
<1>12. p \notin removed /\ at[p] \notin gone /\ v \notin removed /\ b \notin removed
  BY <1>1, <1>2, LiveIs
<1>13. RemovedIsDead'
  <2>1. \A w \in Users : \A i \in DOMAIN op'[w] : op'[w][i] \notin removed'
    <3>1. SUFFICES ASSUME NEW w \in Users, NEW i \in DOMAIN op'[w]
                   PROVE  op'[w][i] \notin removed
      BY <1>2
    <3>2. CASE w = p
      <4>1. i \in DOMAIN grown /\ op'[w][i] = grown[i]
        BY <1>4, <3>1, <3>2
      <4> QED BY <1>1, <1>3, <1>12, <4>1, RemovedUnread
    <3>3. CASE w # p
      BY <1>4, <3>1, <3>3, RemovedUnread
    <3> QED BY <3>2, <3>3
  <2>2. \A u \in removed' : \A i \in DOMAIN op'[u] : op'[u][i] = NULL
    BY <1>2, <1>4, <1>12 DEF Inv, RemovedIsDead, TypeOK
  <2> QED BY <1>9, <1>11, <2>1, <2>2, UnreadIsDead DEF TypeOK
<1>14. RemovedBlocksReadNothing'
  BY <1>2, <1>4, <1>12 DEF Inv, RemovedBlocksReadNothing
<1> QED BY <1>9, <1>10, <1>11, <1>13, <1>14 DEF Inv

\* Moving an instruction changes neither direction of the chains.
LEMMA MoveKeepsInv ==
  ASSUME Inv, NEW u \in Users, NEW b \in Blocks \cup {NULL}, b \notin gone,
         at' = [at EXCEPT ![u] = b], UNCHANGED <<op, uses, removed, gone, ok>>
  PROVE  Inv'
<1>1. TypeOK'
  BY DEF Inv, TypeOK
<1>2. UsesExact' /\ RemovedIsDead'
  BY DEF Inv, UsesExact, Slots, At, RemovedIsDead
<1>3. RemovedBlocksReadNothing'
  BY DEF Inv, RemovedBlocksReadNothing, TypeOK
<1> QED BY <1>1, <1>2, <1>3 DEF Inv

\* The invariant holds before anything is built.
LEMMA InitInv == Init => Inv
<1> SUFFICES ASSUME Init PROVE Inv
  OBVIOUS
<1>1. op \in [Users -> Seq(Operands)]
  <2>1. \A u \in Insts : [i \in 1 .. Arity[u] |-> NULL] \in Seq(Operands)
    <3>1. TAKE u \in Insts
    <3>2. Arity[u] \in Nat
      BY UseDefAssumption
    <3>3. [i \in 1 .. Arity[u] |-> NULL] \in [1 .. Arity[u] -> Operands]
      BY DEF Operands
    <3> QED BY <3>2, <3>3, SeqDef
  <2>2. << >> \in Seq(Operands)
    OBVIOUS
  <2> QED BY <2>1, <2>2 DEF Init
<1>2. \A u \in Users : \A i \in DOMAIN op[u] : op[u][i] = NULL
  BY DEF Init
<1>3. UsesExact
  <2>1. SUFFICES ASSUME NEW v \in Values, NEW s \in Slots(op), At(op, s) = v PROVE FALSE
    BY DEF Init, UsesExact
  <2>2. s[1] \in Users /\ s[2] \in DOMAIN op[s[1]]
    BY SlotsAre
  <2> QED BY <1>2, <2>1, <2>2, UseDefAssumption DEF At
<1>4. TypeOK
  BY <1>1 DEF Init, TypeOK, Operands
<1> QED BY <1>2, <1>3, <1>4 DEF Init, Inv, RemovedIsDead, RemovedBlocksReadNothing

\* Every operation keeps the invariant.
LEMMA NextInv == Inv /\ [Next]_vars => Inv'
<1> SUFFICES ASSUME Inv, [Next]_vars PROVE Inv'
  OBVIOUS
<1>1. CASE UNCHANGED vars
  BY <1>1 DEF vars, Inv, TypeOK, UsesExact, Slots, At, RemovedIsDead, RemovedBlocksReadNothing
<1>2. CASE \E u \in Insts, v \in Values \cup {NULL} : \E i \in DOMAIN op[u] : SetOperand(u, i, v)
  BY <1>2, SetOperandKeepsInv
<1>3. CASE \E p \in Phis, v \in Values \ Blocks, b \in Blocks : AddIncoming(p, v, b)
  BY <1>3, AddIncomingKeepsInv
<1>4. CASE \E p \in Phis, b \in Blocks : RemoveIncoming(p, b)
  BY <1>4, RemoveIncomingKeepsInv
<1>5. CASE \E u \in Users, b \in Blocks : Insert(u, b)
  <2>1. PICK u \in Users, b \in Blocks : Insert(u, b)
    BY <1>5
  <2>2. b \notin gone
    BY <2>1 DEF Insert, Live, Dead
  <2> QED BY <2>1, <2>2, MoveKeepsInv DEF Insert
<1>6. CASE \E u, w \in Users : InsertNowhere(u, w)
  <2>1. PICK u, w \in Users : InsertNowhere(u, w)
    BY <1>6
  <2>2. NULL \notin gone
    BY UseDefAssumption DEF Inv, TypeOK, Values
  <2> QED BY <2>1, <2>2, MoveKeepsInv DEF InsertNowhere
<1>7. CASE \E u \in Users : RemoveFromBlock(u)
  BY <1>7, RemoveFromBlockKeepsInv
<1>8. CASE \E u \in Users, v \in Values : ReplaceAll(u, v)
  BY <1>8, ReplaceAllKeepsInv
<1>9. CASE \E b \in Blocks : RemoveBlock(b)
  BY <1>9, RemoveBlockKeepsInv
<1> QED BY <1>1, <1>2, <1>3, <1>4, <1>5, <1>6, <1>7, <1>8, <1>9 DEF Next

(***************************************************************************)
(* Theorems.                                                               *)
(***************************************************************************)

\* The inductive invariant holds in every reachable state.
THEOREM Consistent == Spec => []Inv
  BY InitInv, NextInv, PTL DEF Spec

\* Every variable keeps its type.
THEOREM TypeCorrect == Spec => []TypeOK
<1>1. Inv => TypeOK
  BY DEF Inv
<1> QED BY <1>1, Consistent, PTL

\* uses() lists exactly the operands that read the value, at all times.
THEOREM UsesAlwaysExact == Spec => []UsesExact
<1>1. Inv => UsesExact
  BY DEF Inv
<1> QED BY <1>1, Consistent, PTL

\* removeUse always finds the Use it is asked to remove.
THEOREM AssertionHolds == Spec => []NoAssertionFails
<1>1. Inv => NoAssertionFails
  BY DEF Inv, NoAssertionFails
<1> QED BY <1>1, Consistent, PTL

\* An instruction removed for good reads nothing and is read by nothing.
THEOREM RemovedStaysDead == Spec => []RemovedIsDead
<1>1. Inv => RemovedIsDead
  BY DEF Inv
<1> QED BY <1>1, Consistent, PTL

\* The code of a removed block keeps no value in use.
THEOREM RemovedBlocksStayQuiet == Spec => []RemovedBlocksReadNothing
<1>1. Inv => RemovedBlocksReadNothing
  BY DEF Inv
<1> QED BY <1>1, Consistent, PTL
=============================================================================
