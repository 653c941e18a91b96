----------------------------- MODULE SpillStack -----------------------------
(***************************************************************************)
(* The stack frame of a generated function: the Stack of                   *)
(* backend/regalloc.h and the code around each call of it that moves the   *)
(* stack pointer (backend/regalloc.cpp, backend/gencode.cpp).              *)
(*                                                                         *)
(* The generator addresses a variable as SP + (stackSize - stackpos), so   *)
(* the frame it plans (stackSize) and the one the emitted instructions     *)
(* make (depth, how far SP lies below its value on entry) have to agree at *)
(* every access.  The frame of stack arguments, sized in words by the      *)
(* code, is a piece of whole units.                                        *)
(***************************************************************************)
EXTENDS Stack

CONSTANTS Locals,      \* variables defined by an alloca
          Temps,       \* variables that live in registers unless spilled
          ARGS,        \* onStackParamsBoundary, the owner of call arguments
          MaxAlloca,   \* bound: size of an alloca
          MaxArgs,     \* bound: size of the arguments of a call
          MaxReused    \* bound: see reused

Owners == Locals \cup Temps \cup {ARGS}

ASSUME SpillStackAssumption ==
  /\ MaxAlloca \in Nat \ {0}
  /\ MaxArgs \in Nat \ {0}
  /\ MaxReused \in Nat
  /\ FRAGMENT \notin Owners
  /\ Locals \cap Temps = {} /\ ARGS \notin Locals \cup Temps

VARIABLES pieces,     \* onStackVars: <<[var, size], ...>>
          stackSize,
          stackpos,   \* Variable::stackpos
          depth,      \* units by which the emitted code has lowered SP
          home,       \* where the value of each variable on the stack was stored
          entered,    \* the allocas are done, SP has been lowered for them
          reused      \* spills at a definition that reused a fragment
vars == <<pieces, stackSize, stackpos, depth, home, entered, reused>>

OnStack(v) == Holds(pieces, v)

SpillVar(v, n) == /\ pieces' = Placed(pieces, v, n)
                  /\ stackSize' = stackSize + Grown(pieces, n)
                  /\ stackpos' = [stackpos EXCEPT ![v] = Offset(pieces', v)]

ReleaseOnStackVar(v) == /\ pieces' = Without(pieces, v)
                        /\ stackSize' = stackSize - Freed(pieces, v)

\* The address the generator computes for v, as a distance below SP on entry.
Address(v) == depth - (stackSize - stackpos[v])

(***************************************************************************)
(* The steps of genAssembly that touch the frame.                          *)
(***************************************************************************)

\* initAllocator, before the first instruction of a function.
Init == /\ pieces = << >>
        /\ stackSize = 0
        /\ stackpos = [v \in Locals \cup Temps |-> 0]
        /\ depth = 0
        /\ home = [v \in Locals \cup Temps |-> 0]
        /\ entered = FALSE
        /\ reused = 0

\* genAllocaInst; ResortPass has moved every alloca to the start of the entry.
Alloca(v, n) == /\ ~entered
                /\ ~OnStack(v)
                /\ SpillVar(v, n)
                /\ home' = [home EXCEPT ![v] = stackpos'[v]]
                /\ UNCHANGED <<depth, entered, reused>>

\* genInstList at the first instruction after the allocas: one subtraction of
\* the sum of their sizes.
Enter == /\ ~entered
         /\ entered' = TRUE
         /\ depth' = depth + Total(pieces)
         /\ UNCHANGED <<pieces, stackSize, stackpos, home, reused>>

CanSpill(v) == entered /\ ~OnStack(v) /\ ~OnStack(ARGS)

\* Faulty: SP is lowered for a reused fragment as well.
SpillAlwaysLowers(v) == /\ CanSpill(v)
                        /\ SpillVar(v, 1)
                        /\ depth' = depth + 1
                        /\ home' = [home EXCEPT ![v] = Address(v)']
                        /\ UNCHANGED <<entered, reused>>

\* allocateGeneralRegister(force) and allocateFloatRegister(force): SP is
\* lowered if the piece is new, and the register stored.
Spill(v) == /\ CanSpill(v)
            /\ SpillVar(v, 1)
            /\ depth' = IF IsNew(pieces, 1) THEN depth + 1 ELSE depth
            /\ home' = [home EXCEPT ![v] = Address(v)']
            /\ UNCHANGED <<entered, reused>>

\* updateAllocation, when a definition finds no free register: SP is lowered
\* whether or not the piece is new.
SpillAtDefinition(v) == /\ CanSpill(v)
                        /\ IsNew(pieces, 1) \/ reused < MaxReused
                        /\ SpillVar(v, 1)
                        /\ depth' = depth + 1
                        /\ home' = [home EXCEPT ![v] = Address(v)']
                        /\ reused' = IF IsNew(pieces, 1) THEN reused ELSE reused + 1
                        /\ UNCHANGED entered

\* updateAllocation reloads a spilled operand, checkLiveInterval drops one
\* whose interval has ended; both give back what the release freed.
Release(v) == /\ entered
              /\ OnStack(v) /\ ~OnStack(ARGS)
              /\ ReleaseOnStackVar(v)
              /\ depth' = depth - Freed(pieces, v)
              /\ home' = [home EXCEPT ![v] = 0]
              /\ UNCHANGED <<stackpos, entered, reused>>

\* genCallInst lowers SP for the arguments that do not fit in registers.  No
\* spill comes between this and the pop: two temporaries have just been freed.
PushArgs(n) == /\ entered /\ ~OnStack(ARGS)
               /\ pieces' = Append(pieces, Piece(ARGS, n))
               /\ stackSize' = stackSize + n
               /\ depth' = depth + n
               /\ UNCHANGED <<stackpos, home, entered, reused>>

\* popVar, after the call.
PopArgs == /\ OnStack(ARGS)
           /\ LET n == Last(pieces).size
              IN  /\ pieces' = Front(pieces)
                  /\ stackSize' = stackSize - n
                  /\ depth' = depth - n
           /\ UNCHANGED <<stackpos, home, entered, reused>>

Next == \/ \E v \in Locals, n \in 1 .. MaxAlloca : Alloca(v, n)
        \/ Enter
        \/ \E v \in Temps : Spill(v) \/ SpillAtDefinition(v) \/ Release(v)
        \/ \E n \in 1 .. MaxArgs : PushArgs(n)
        \/ PopArgs

Spec == Init /\ [][Next]_vars

(***************************************************************************)
(* Properties.                                                             *)
(***************************************************************************)

TypeOK == /\ pieces \in Seq([var : Owners \cup {FRAGMENT}, size : Nat \ {0}])
          /\ stackSize \in Nat
          /\ stackpos \in [Locals \cup Temps -> Nat]
          /\ depth \in Nat
          /\ home \in [Locals \cup Temps -> Int]
          /\ entered \in BOOLEAN
          /\ reused \in 0 .. MaxReused

\* Space at the end of the frame is given back at once: the last piece is never
\* a fragment, so a frame whose temporaries are all dead is as it was entered.
NoTrailingFragment == TypeOK /\ ~TrailingFragment(pieces)

\* As long as no definition spilled into a reused fragment, every variable is
\* looked for at the address its value was stored to, arguments pushed or not, this
\* is the end of its piece however the pieces before it have been melted or split,
\* and the return sequence, which adds stackSize, restores SP exactly.
AddressesStable ==
  entered /\ reused = 0 =>
    /\ \A v \in Locals \cup Temps :
         OnStack(v) => Address(v) = home[v] /\ home[v] = Offset(pieces, v)
    /\ depth = stackSize

\* The cells a variable owns, and the refinement: the list of pieces behaves as
\* a frame in which live ranges are disjoint and never move.
Cells(v) == IF OnStack(v)
            THEN Offset(pieces, v) - SizeOf(pieces, v) + 1 .. Offset(pieces, v) ELSE {}
Frame == INSTANCE FrameSpec WITH range <- [v \in Owners |-> Cells(v)], top <- stackSize,
                                 MaxSize <- IF MaxAlloca > MaxArgs THEN MaxAlloca ELSE MaxArgs
ImplementsFrame == Frame!Spec
=============================================================================
