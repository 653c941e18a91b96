------------------------------- MODULE UseDef -------------------------------
(***************************************************************************)
(* Def-use chains: ir/value.h (Use, Value, User), the operand bookkeeping  *)
(* of ir/instruction.cpp and BasicBlock::remove of ir/value.cpp.           *)
(*                                                                         *)
(* Every operand of an instruction is a Use.  A Use names the value it     *)
(* reads, and the value lists the Uses that read it, so that a pass can    *)
(* ask "is this still needed?" and replace a value wherever it is read.    *)
(* The two directions are separate memory, written by separate functions;  *)
(* this module is about their agreement.                                   *)
(*                                                                         *)
(* A Use is identified by its owner and its index, which is what resize()  *)
(* preserves when the Uses of a phi move in memory.  The order of a use    *)
(* list is abstracted (every loop that rewrites uses runs over a copy or   *)
(* advances its iterator first), as is the order of instructions within a  *)
(* block (see IntrusiveList).                                              *)
(***************************************************************************)
EXTENDS Naturals, Sequences

CONSTANTS Insts,     \* instructions with a fixed number of operands
          Phis,      \* phi instructions, whose operands are value/block pairs
          Blocks,    \* basic blocks
          Consts,    \* constants, parameters, globals: used, never users
          Arity,     \* totalUse() of each fixed instruction
          MaxPairs,  \* bound: incoming pairs of one phi
          NULL

Users  == Insts \cup Phis
Values == Users \cup Blocks \cup Consts

ASSUME UseDefAssumption ==
  /\ Arity \in [Insts -> Nat]
  /\ MaxPairs \in Nat
  /\ Insts \cap Phis = {}
  /\ Users \cap Blocks = {}
  /\ NULL \notin Values

VARIABLES op,       \* operands: the value_ of every Use of every user
          uses,     \* useList_ of every value, as a set of Uses
          at,       \* parent_ of every instruction
          removed,  \* instructions a pass removed for good
          gone,     \* blocks BasicBlock::remove took out of the function
          ok        \* no assert(false) of removeUse was reached
vars == <<op, uses, at, removed, gone, ok>>

Slots(o) == UNION {{u} \X DOMAIN o[u] : u \in Users}
At(o, s) == o[s[1]][s[2]]

(***************************************************************************)
(* Use::reset on every slot in which the operands o differ from op.  Each  *)
(* call leaves the list of the old value (removeUse asserts that it was    *)
(* there) and joins the list of the new one (addUse adds it once).         *)
(***************************************************************************)
Changed(o) == {s \in Slots(o) : At(o, s) # At(op, s)}
\* Faulty: the old value keeps the Use.
UsesAfterJoin(o) ==
  [v \in Values |-> uses[v] \cup {s \in Changed(o) : At(o, s) = v}]

UsesAfter(o) ==
  [v \in Values |-> (uses[v] \ {s \in Changed(o) : At(op, s) = v})
                       \cup {s \in Changed(o) : At(o, s) = v}]
Registered(S) == \A s \in S : At(op, s) # NULL => s \in uses[At(op, s)]

ResetTo(o) == /\ op' = o
              /\ uses' = UsesAfter(o)
              /\ ok' = (ok /\ Registered(Changed(o)))

(***************************************************************************)
(* A pass only stores a value it finds in the function: not a removed      *)
(* instruction, not one of a removed block, not a removed block.           *)
(***************************************************************************)
Dead == removed \cup {u \in Users : at[u] \in gone} \cup gone
Live == Values \ Dead

Init == /\ op = [u \in Users |-> IF u \in Insts THEN [i \in 1 .. Arity[u] |-> NULL]
                                                ELSE << >>]
        /\ uses = [v \in Values |-> {}]
        /\ at = [u \in Users |-> NULL]
        /\ removed = {}
        /\ gone = {}
        /\ ok = TRUE

\* Use::operator=(Value*), by a constructor or by a pass.
SetOperand(u, i, v) ==
  /\ u \in Live
  /\ v \in Live \cup {NULL}
  /\ ResetTo([op EXCEPT ![u][i] = v])
  /\ UNCHANGED <<at, removed, gone>>

Pairs(p) == {i \in DOMAIN op[p] : i % 2 = 0}
Incoming(p, b) == {i \in Pairs(p) : op[p][i] = b}

\* Faulty: resize() does not bind the Uses it has moved again.
AddIncomingUnbinds(p, v, b) ==
  /\ p \in Live /\ v \in Live /\ b \in Live
  /\ Incoming(p, b) = {}
  /\ Len(op[p]) < 2 * MaxPairs
  /\ op' = [op EXCEPT ![p] = @ \o <<v, b>>]
  /\ uses' = [w \in Values |-> (uses[w] \ ({p} \X Nat))
                                 \cup {s \in {p} \X {Len(op[p]) + 1, Len(op[p]) + 2} :
                                          op'[p][s[2]] = w}]
  /\ ok' = (ok /\ Registered({p} \X DOMAIN op[p]))
  /\ UNCHANGED <<at, removed, gone>>

\* addIncomingValue.  resize() unbinds every Use of the phi, moves them and
\* binds them again, so the uses of the phi are rebuilt from its operands.
AddIncoming(p, v, b) ==
  /\ p \in Live /\ v \in Live /\ b \in Live
  /\ Incoming(p, b) = {}
  /\ Len(op[p]) < 2 * MaxPairs
  /\ LET grown == op[p] \o <<v, b>>
         mine(w) == {s \in {p} \X DOMAIN grown : grown[s[2]] = w}
     IN  /\ op' = [op EXCEPT ![p] = grown]
         /\ uses' = [w \in Values |-> (uses[w] \ {s \in {p} \X DOMAIN op[p] : At(op, s) = w})
                                         \cup mine(w)]
         /\ ok' = (ok /\ Registered({p} \X DOMAIN op[p]))
  /\ UNCHANGED <<at, removed, gone>>

\* Use::operator=(Use&) resets the source before it reads its value_, so what
\* arrives is always nullptr.
Moved(v) == NULL

\* removeValueFrom: the pair of the block is cleared and the last pair assigned
\* to its place, Use to Use.  The number of operands does not change.
RemoveIncoming(p, b) ==
  /\ p \in Live /\ b \in Blocks
  /\ \E i \in Incoming(p, b) :
       LET n == Len(op[p])
       IN  ResetTo([op EXCEPT ![p] =
              [@ EXCEPT ![i - 1] = Moved(op[p][n - 1]), ![i] = Moved(op[p][n]),
                        ![n - 1] = NULL, ![n] = NULL]])
  /\ UNCHANGED <<at, removed, gone>>

\* insertToHead, insertToTail, insertBefore, insertAfter: an instruction that
\* is in a block leaves it first (removeFromBlock(false)), its operands kept.
Insert(u, b) == /\ u \in Live /\ b \in Live
                /\ at' = [at EXCEPT ![u] = b]
                /\ UNCHANGED <<op, uses, removed, gone, ok>>

\* insertBefore/insertAfter an instruction in no block: the instruction has
\* left its own block when the call returns false.
InsertNowhere(u, w) == /\ u \in Live /\ w \in Live
                       /\ w = u \/ at[w] = NULL
                       /\ at' = [at EXCEPT ![u] = NULL]
                       /\ UNCHANGED <<op, uses, removed, gone, ok>>

\* The operands of all users in S reset.
Cleared(S) == [u \in Users |-> IF u \in S THEN [i \in DOMAIN op[u] |-> NULL] ELSE op[u]]

\* Faulty: an instruction that is still read is removed.
RemoveWhileUsed(u) == /\ u \in Live
                      /\ at[u] # NULL
                      /\ ResetTo(Cleared({u}))
                      /\ at' = [at EXCEPT ![u] = NULL]
                      /\ removed' = removed \cup {u}
                      /\ UNCHANGED gone

\* removeFromBlock(true): refused while the instruction is used or in no block.
RemoveFromBlock(u) == /\ u \in Live
                      /\ uses[u] = {}
                      /\ at[u] # NULL
                      /\ ResetTo(Cleared({u}))
                      /\ at' = [at EXCEPT ![u] = NULL]
                      /\ removed' = removed \cup {u}
                      /\ UNCHANGED gone

\* The loop every pass replaces a value with: reset on a copy of its use list.
\* The passes replace instructions, never blocks.
ReplaceAll(u, v) ==
  /\ u \in Live /\ v \in Live \ Blocks
  /\ LET replaced == [w \in Users |-> [i \in DOMAIN op[w] |->
                         IF <<w, i>> \in uses[u] THEN v ELSE op[w][i]]]
     IN  ResetTo(replaced)
  /\ UNCHANGED <<at, removed, gone>>

\* BasicBlock::remove: refused while a block branches here; reset() drops the
\* terminator, then every remaining operand is cleared.  The instructions stay
\* in the list of the block, and a phi that names the block keeps naming it.
RemoveBlock(b) ==
  /\ b \in Live
  /\ \A u \in Insts : at[u] \in Blocks \ (gone \cup {b}) => \A i \in DOMAIN op[u] : op[u][i] # b
  /\ ResetTo(Cleared({u \in Users : at[u] = b}))
  /\ gone' = gone \cup {b}
  /\ UNCHANGED <<at, removed>>

Next == \/ \E u \in Insts, v \in Values \cup {NULL} : \E i \in DOMAIN op[u] : SetOperand(u, i, v)
        \/ \E p \in Phis, v \in Values \ Blocks, b \in Blocks : AddIncoming(p, v, b)
        \/ \E p \in Phis, b \in Blocks : RemoveIncoming(p, b)
        \/ \E u \in Users, b \in Blocks : Insert(u, b)
        \/ \E u, w \in Users : InsertNowhere(u, w)
        \/ \E u \in Users : RemoveFromBlock(u)
        \/ \E u \in Users, v \in Values : ReplaceAll(u, v)
        \/ \E b \in Blocks : RemoveBlock(b)

Spec == Init /\ [][Next]_vars

(***************************************************************************)
(* Properties.                                                             *)
(***************************************************************************)

TypeOK == /\ op \in [Users -> Seq(Values \cup {NULL})]
          /\ uses \in [Values -> SUBSET (Users \X Nat)]
          /\ at \in [Users -> Blocks \cup {NULL}]
          /\ removed \subseteq Users
          /\ gone \subseteq Blocks
          /\ ok \in BOOLEAN

\* A value lists a Use exactly when that Use names the value: uses().size() = 0
\* means that nothing reads the value, and replacing every listed Use misses
\* none.  Dead code elimination, promotion and inlining all decide by it.
UsesExact == \A v \in Values : uses[v] = {s \in Slots(op) : At(op, s) = v}

\* Value::removeUse never falls through to its assert(false), whatever the
\* order in which operands are set, phis grow and shrink and code is removed.
NoAssertionFails == ok

\* An instruction removed for good reads nothing, so it keeps nothing else
\* alive, and nothing reads it: no Use is left dangling.
RemovedIsDead == \A u \in removed : /\ uses[u] = {}
                                    /\ \A i \in DOMAIN op[u] : op[u][i] = NULL

\* The code of a removed block keeps no value and no other block in use: the
\* next pass over uses().size() = 0 finds what only that block needed.
RemovedBlocksReadNothing ==
  \A u \in Users : at[u] \in gone => \A i \in DOMAIN op[u] : op[u][i] = NULL
=============================================================================
