------------------------------ MODULE RegAlloc ------------------------------
(***************************************************************************)
(* The linear-scan register allocator (backend/regalloc.cpp) and the code  *)
(* the generator makes around it (genInst and the generator of each        *)
(* instruction in backend/gencode.cpp), for the general registers of one   *)
(* function.  The float registers go through a copy of the same code.      *)
(*                                                                         *)
(* An action is one IR instruction: it allocates, emits machine code, and  *)
(* the machine (registers and stack of the function) runs that code at     *)
(* once.  A register or a stack cell holds the name of the value that was  *)
(* put there, so that an operand read from the wrong place shows.          *)
(*                                                                         *)
(* The program is drawn as the function goes: a definition chooses where   *)
(* its interval ends, and the instruction at that place has to use it.     *)
(* Constants and a comparison read only by the branch after it never get a *)
(* register.  The function has one alloca.  Globals, whose                 *)
(* register holds nothing that has to be kept, and the parameters of the   *)
(* function, which the first instructions store, are not modelled.  Sizes  *)
(* on the stack are in slots, whatever their bytes; whether an offset fits *)
(* the immediate of an instruction is therefore a choice, called far.      *)
(***************************************************************************)
EXTENDS Stack, FiniteSets

CONSTANTS NumRegs,     \* registers that can be allocated, 12 in the code
          NumArgRegs,  \* registers that carry arguments, 4 in the code
          MaxLive,     \* bound: values that are live at once
          IMM, ARGS,   \* a constant operand; onStackParamsBoundary
          ZERO, ONE,   \* constant indices that need no register; one (1 and 2)
          NOTHING,     \* what a void function returns
          ALLOCA,       \* the alloca
          JUNK,        \* what no value was put into
          MaxArgs,     \* bound: arguments of a call
          Horizon      \* bound: instructions of the function

Registers == 0 .. NumRegs - 1
Values == 1 .. MaxLive \* a name is free again after the value's last use
ArgRegs == 0 .. NumArgRegs - 1
NONE == NumRegs        \* ARMGeneralRegs::None

ASSUME RegAllocAssumption ==
  /\ NumRegs \in Nat /\ NumArgRegs \in Nat \ {0, 1}
  /\ NumRegs >= NumArgRegs + 4     \* R11, and three for an instruction
  /\ MaxArgs \in Nat /\ Horizon \in Nat /\ MaxLive \in Nat
  /\ Values \cap {IMM, ZERO, ONE, NOTHING, ALLOCA, ARGS, JUNK, FRAGMENT} = {}

VARIABLES cur,      \* cur_inst
          most,     \* maxIntegerArgs
          alloc,    \* the allocator, see Init
          machine   \* regs; mem, the stack, lowest cell last; and right: so far,
                    \* every operand was found where it was read
vars == <<cur, most, alloc, machine>>

\* The paths on which the emitted code is known to be wrong; the model stops
\* behind them:
\*   hole      a definition spills into a fragment, and SP is lowered anyway
\*   call      a spill inside a call, emitted behind moves that need it before
\*   result    a call overwrites R0, which holds a value
\*   library   a library function overwrites an argument register that does
\*   division  a division or remainder is given R0 while it holds a value
\*   offset    an offset from SP is taken before a spill that lowers SP
\*   return    R0 holds the result and is taken to compute SP
Losses == {"hole", "call", "result", "library", "division", "offset", "return"}

(***************************************************************************)
(* The machine.  Nothing is ever found in register NONE.                   *)
(***************************************************************************)
Sub(n) == [do |-> "sub", n |-> n]
Add(n) == [do |-> "add", n |-> n]
Str(r, n) == [do |-> "str", r |-> r, n |-> n]
Ldr(r, n) == [do |-> "ldr", r |-> r, n |-> n]
Mov(r, from) == [do |-> "mov", r |-> r, from |-> from]
Put(r, v) == [do |-> "put", r |-> r, v |-> v]
Use(r, v) == [do |-> "use", r |-> r, v |-> v]        \* r is read for v
Arg(n, v) == [do |-> "arg", n |-> n, v |-> v]        \* v is at SP + n
Clobber(rs) == [do |-> "clobber", rs |-> rs]

\* The cell at SP + n, or none: beyond the frame.
Cell(m, n) == Len(m.mem) - n
InFrame(m, n) == Cell(m, n) \in DOMAIN m.mem

Exec(m, op) ==
  CASE op.do = "sub" -> [m EXCEPT !.mem = @ \o [i \in 1 .. op.n |-> JUNK]]
    [] op.do = "add" -> IF op.n <= Len(m.mem) THEN [m EXCEPT !.mem = SubSeq(@, 1, Len(@) - op.n)]
                        ELSE [m EXCEPT !.right = FALSE]
    [] op.do = "str" -> IF InFrame(m, op.n) THEN [m EXCEPT !.mem[Cell(m, op.n)] = m.regs[op.r]]
                        ELSE [m EXCEPT !.right = FALSE]
    [] op.do = "ldr" -> IF InFrame(m, op.n) THEN [m EXCEPT !.regs[op.r] = m.mem[Cell(m, op.n)]]
                        ELSE [m EXCEPT !.right = FALSE]
    [] op.do = "mov" -> [m EXCEPT !.regs[op.r] = m.regs[op.from]]
    [] op.do = "put" -> [m EXCEPT !.regs[op.r] = op.v]
    [] op.do = "use" -> [m EXCEPT !.right = @ /\ m.regs[op.r] = op.v]
    [] op.do = "arg" -> [m EXCEPT !.right = @ /\ InFrame(m, op.n) /\ m.mem[Cell(m, op.n)] = op.v]
    [] op.do = "clobber" -> [m EXCEPT !.regs = [r \in DOMAIN @ |-> IF r \in op.rs THEN JUNK ELSE @[r]]]

(***************************************************************************)
(* The allocator.  Each operator takes its state, a record, and gives the  *)
(* state the function leaves, the code it emitted included; got is the     *)
(* register that was returned.                                             *)
(***************************************************************************)
Live(s) == ToSet(s.live)
InReg(s, v) == s.reg[v] # NONE
AllocBase == IF most > NumArgRegs THEN NumArgRegs ELSE most
Reserved == IF most > NumArgRegs THEN {NumRegs - 1} ELSE {}    \* R11
Free(s) == {r \in AllocBase .. NumRegs - 1 : r \notin s.taken}
Lowest(rs) == CHOOSE r \in rs : \A q \in rs : r <= q
Emit(s, code) == [s EXCEPT !.code = @ \o code]
Check(s, condition) == [s EXCEPT !.ok = @ /\ condition]
Losing(s, what) == [s EXCEPT !.lost = @ \cup what]

\* allocateGeneralRegister, when a register is free.
Taking(s, r) == [s EXCEPT !.taken = @ \cup {r}, !.got = r, !.used = @ \cup ({r} \cap ArgRegs)]
Take(s) == Taking(s, Lowest(Free(s)))
Release(s, r) == [Check(s, r \in s.taken) EXCEPT !.taken = @ \ {r}]

\* getVarOfAllocatedReg: none is an assertion that fails.
Holders(s, r) == {v \in Live(s) : s.reg[v] = r}
Holder(s, r) == CHOOSE v \in Holders(s, r) : TRUE

\* Faulty: the operands of the instruction are not spared.
VictimsAll(s, white) == {i \in DOMAIN s.live : InReg(s, s.live[i])}

\* getMinIntervalRegVar: the first in the list of those that end first.
Victims(s, white) == {i \in DOMAIN s.live : s.live[i] \notin white /\ InReg(s, s.live[i])}
Victim(s, white) ==
  LET first == {i \in Victims(s, white) :
                  \A j \in Victims(s, white) : s.end[s.live[i]] <= s.end[s.live[j]]}
  IN  s.live[Lowest(first)]

\* A value leaves its register for the stack; lower says whether SP moves.
SpilledAt(s, v, pos) == [s EXCEPT !.pos[v] = pos, !.spilled = @ \cup {v},
                                  !.got = s.reg[v], !.reg[v] = NONE]
Stored(s, v, lower) ==
  Emit(s, (IF lower THEN <<Sub(1)>> ELSE << >>) \o <<Str(s.got, s.size - s.pos[v])>>)
SpilledTo(s, v, pieces, lower) ==
  Stored(SpilledAt([s EXCEPT !.size = @ + Grown(s.pieces, 1), !.pieces = pieces],
                   v, Offset(pieces, v)), v, lower)
Spilled(s, v, lower) == SpilledTo(s, v, Placed(s.pieces, v, 1), lower)

\* Faulty: SP is lowered for a piece that is not new.
ForceLowers(s, white) ==
  IF Free(s) # {} THEN Take(s)
  ELSE IF Victims(s, white) = {} THEN Check([s EXCEPT !.got = 0], FALSE)
  ELSE Spilled(s, Victim(s, white), TRUE)

\* allocateGeneralRegister(force): a free register, or that of a spilled value.
Force(s, white) ==
  IF Free(s) # {} THEN Take(s)
  ELSE IF Victims(s, white) = {} THEN Check([s EXCEPT !.got = 0], FALSE)
  ELSE Spilled(s, Victim(s, white), IsNew(s.pieces, 1))

Given(s, v) == [s EXCEPT !.reg[v] = s.got]

(***************************************************************************)
(* updateAllocation.                                                       *)
(***************************************************************************)

\* A value is defined: a free register, or that of the victim, which is stored.
\* SP is lowered for it whether or not the piece is new.  A call goes on
\* without a register.
Housed(s, v, operands, isCall) ==
  IF Free(s) # {} THEN Given(Take(s), v)
  ELSE IF isCall THEN s
  ELSE IF Victims(s, operands) = {} THEN Check(s, FALSE)
  ELSE Losing(Given(Spilled(s, Victim(s, operands), TRUE), v),
              IF IsNew(s.pieces, 1) THEN {} ELSE {"hole"})
Defined(s, v, operands, isCall) == Housed([s EXCEPT !.live = Append(@, v)], v, operands, isCall)

\* A spilled operand comes back; SP is raised by what its piece gives back.
OffStack(s, v, freed) ==
  [Emit(s, IF freed = 0 THEN << >> ELSE <<Add(freed)>>)
     EXCEPT !.pieces = Without(@, v), !.size = @ - freed, !.spilled = @ \ {v}]
Loaded(s, v) == OffStack(Emit(s, <<Ldr(s.reg[v], s.size - s.pos[v])>>), v, Freed(s.pieces, v))
Reloaded(s, v, operands) ==
  IF v \in s.spilled THEN Loaded(Given(Force(s, operands), v), v) ELSE s

\* operands is a set of pointers: they are reloaded in any order.
AllReloaded(s, order, operands) == FoldLeft(LAMBDA t, v : Reloaded(t, v, operands), s, order)

(***************************************************************************)
(* checkLiveInterval: the values whose interval ends here are dropped, and *)
(* their registers or pieces freed.                                        *)
(***************************************************************************)

Vacated(s, v) ==
  IF InReg(s, v) THEN [Release(s, s.reg[v]) EXCEPT !.reg[v] = NONE]
  ELSE IF v \in s.spilled THEN OffStack(s, v, Freed(s.pieces, v))
  ELSE s

Dropped(s, v) == Vacated([s EXCEPT !.live = SelectSeq(@, LAMBDA u : u # v)], v)

Expired(s) == FoldLeft(Dropped, s, SelectSeq(s.live, LAMBDA v : s.end[v] <= cur + 1))

(***************************************************************************)
(* The instructions.                                                       *)
(***************************************************************************)

\* The alloca: genAllocaInst, and the one subtraction of genInstList for it.
Entered == <<Piece(ALLOCA, 1)>>

\* What genAddInst, genSubInst, genMulInst, genShlInst, genAShrInst, genAndInst,
\* genICmpInst and genZExtInst do once their operands are in registers: take
\* a register for a constant and give it back, write the result's
\* register, at times before all operands are read, and read the operands.
Worked(s, uses, defs, tmp) ==
  FoldLeft(Release,
           Emit(s, <<Clobber(tmp \cup {s.reg[v] : v \in defs})>>
                     \o SetToSeq({Use(s.reg[v], v) : v \in uses})
                     \o SetToSeq({Put(s.reg[v], v) : v \in defs})), SetToSeq(tmp))
WorkedWith(s, uses, defs) == Worked(s, uses, defs, {s.got})
Computed(s, uses, defs, scratch) ==
  IF scratch THEN WorkedWith(Force(s, uses \cup defs), uses, defs)
  ELSE Worked(s, uses, defs, {})

\* The address of the alloca, used by code: an offset that does not fit needs a
\* register, taken after the offset is computed.
AtLocal(s, far, operands, code) ==
  LET offset == s.size - Offset(Entered, ALLOCA)
      moves  == Free(s) = {} /\ IsNew(s.pieces, 1)
      t      == Losing(Force(s, operands), IF moves THEN {"offset"} ELSE {})
  IN  IF far THEN Release(Emit(t, <<Clobber({t.got}), Arg(offset, ALLOCA)>> \o code), t.got)
      ELSE Emit(s, <<Arg(offset, ALLOCA)>> \o code)

\* genLoadInst.
Loading(s, p, v, far) ==
  IF p = ALLOCA THEN AtLocal(s, far, {v}, <<Put(s.reg[v], v)>>)
  ELSE Emit(s, <<Use(s.reg[p], p), Put(s.reg[v], v)>>)

\* genStoreInst: a constant is loaded into a register first.
StoredFrom(s, code, p, far, operands) ==
  IF p = ALLOCA THEN AtLocal(s, far, operands, code)
  ELSE Emit(s, code \o <<Use(s.reg[p], p)>>)
Storing(s, x, p, far) ==
  LET operands == {x, p} \cap Values
      t == Force(s, operands)
  IN  IF x = IMM
      THEN Release(StoredFrom(Emit(t, <<Clobber({t.got})>>), << >>, p, far, operands), t.got)
      ELSE StoredFrom(s, <<Use(s.reg[x], x)>>, p, far, operands)

\* genGetElemPtrInst: the base goes to the result's register, then the index,
\* multiplied by its stride, is added.  The product of an index that is not a constant
\* overwrites its register; SP does not move between offset and use.  The first
\* of two indices, always 0, adds nothing.
Based(s, p, v) ==
  Emit(s, (IF p = ALLOCA THEN <<Arg(s.size - Offset(Entered, ALLOCA), ALLOCA)>>
           ELSE <<Use(s.reg[p], p)>>) \o <<Put(s.reg[v], v)>>)
Strided(s, i) ==
  Emit(s, IF i \in Values THEN <<Use(s.reg[i], i), Clobber({s.got, s.reg[i]})>>
          ELSE <<Clobber({s.got})>>)
Scaled(s, i, operands) ==
  LET t == Force(s, operands)
  IN  Release(Strided(t, i), t.got)
Indexed(s, i, operands) ==
  LET t == Force(s, operands)
  IN  CASE i = ZERO -> s
        [] i = ONE -> Release(Strided(t, i), t.got)
        [] i = IMM -> Release(Scaled(Strided(t, i), i, operands), t.got)
        [] OTHER -> Scaled(s, i, operands)
Addressed(s, p, i, v) ==
  Emit(Indexed(Based(s, p, v), i, {p, i, v} \cap Values), <<Use(s.reg[v], v)>>)

\* genRetInst: the result goes to R0 and SP back to where the function found it.
InR0(s, x) ==
  IF x = NOTHING \/ (x \in Values /\ s.reg[x] = 0) THEN s
  ELSE Emit(s, IF x = IMM THEN <<Put(0, IMM)>> ELSE <<Mov(0, s.reg[x])>>)
FrameLeft(s) == [Emit(s, <<Add(s.size)>>) EXCEPT !.pieces = << >>, !.size = 0]
FrameLeftFar(s) ==
  LET t == Take(s)
  IN  Release(FrameLeft(Emit(t, <<Clobber({t.got})>>)), t.got)
Left(s, x, far) ==
  LET t == InR0(s, x)
      u == IF ~far THEN FrameLeft(t)
           ELSE IF Free(t) = {} THEN Check(t, FALSE)
           ELSE Losing(FrameLeftFar(t),
                       IF x # NOTHING /\ Lowest(Free(t)) = 0 THEN {"return"} ELSE {})
  IN  Emit(u, IF x = NOTHING THEN << >> ELSE <<Use(0, x)>>)

\* genSDivInst and genSRemInst, by a library function that takes its operands in
\* R0 and R1: only the first asserts that they are free, and only the second
\* reads the registers of its operands again.
Divided(s, x, y, v, rem) ==
  LET t == Check(Losing(s, IF 0 \in s.taken THEN {"division"} ELSE {}),
                  rem \/ (0 \notin s.taken /\ 1 \notin s.taken))
      pass(k, u) == IF u = IMM THEN <<Put(k, IMM)>> ELSE <<Mov(k, s.reg[u])>>
      again == IF rem THEN SetToSeq({Use(s.reg[u], u) : u \in {x, y} \ {IMM}}) ELSE << >>
  IN  Emit([t EXCEPT !.used = @ \cup {0, 1}],
           pass(0, x) \o pass(1, y) \o <<Use(0, x), Use(1, y), Clobber(ArgRegs)>>
             \o <<Clobber({s.reg[v]})>> \o again \o <<Put(s.reg[v], v)>>)

(***************************************************************************)
(* genCallInst.  The code that fills the argument registers (moves) comes  *)
(* before all other code of the call, spills included.                     *)
(***************************************************************************)
Move(s, code) == [s EXCEPT !.moves = @ \o code]

\* A register from allocateGeneralRegister with no whitelist: its set, which has gone out
\* of scope when it is read, is taken to be empty; a spill here is lossy anyway.
ForceInCall(s) == Losing(Force(s, {}), IF Free(s) = {} THEN {"call"} ELSE {})

\* Faulty: the register of a value that has made room stays taken.
MovedOutHeld(s, r) ==
  IF Holders(s, r) = {} THEN Check(s, FALSE)
  ELSE [Move(s, <<Mov(s.got, r)>>) EXCEPT !.reg[Holder(s, r)] = s.got]

\* The value in r makes room.
MovedOut(s, r) ==
  IF Holders(s, r) = {} THEN Check(s, FALSE)
  ELSE Release([Move(s, <<Mov(s.got, r)>>) EXCEPT !.reg[Holder(s, r)] = s.got], r)
Displaced(s, r) == IF r \in s.taken THEN MovedOut(ForceInCall(s), r) ELSE s
Claimed(s, r) == [Check(s, r \notin s.taken) EXCEPT !.taken = @ \cup {r}]

\* An argument that is passed in r.
ArgMoved(s, r, v) ==
  IF v = IMM THEN Move(s, <<Put(r, IMM)>>)
  ELSE IF v \in s.spilled THEN Move(s, <<Ldr(r, s.size - s.pos[v])>>)
  ELSE Move(Check(s, InReg(s, v) /\ s.reg[v] # r), <<Mov(r, s.reg[v])>>)
ArgPassed(s, r, v) ==
  LET t == Claimed(Displaced([s EXCEPT !.used = @ \cup {r}], r), r)
  IN  IF v \in Holders(s, r) THEN t ELSE ArgMoved(t, r, v)

\* The arguments that are passed on the stack, the last at SP; tmp is a register
\* for those that are not in one.
StackArgs(s, args, tmp) ==
  LET Cell4(i) == Len(args) - i
      Code(i) == IF args[i] = IMM THEN <<Put(tmp, IMM), Str(tmp, Cell4(i))>>
                 ELSE IF args[i] \in s.spilled
                 THEN <<Ldr(tmp, s.size - s.pos[args[i]]), Str(tmp, Cell4(i))>>
                 ELSE <<Str(s.reg[args[i]], Cell4(i))>>
  IN  FoldLeft(LAMBDA code, i : code \o Code(i), << >>, [i \in DOMAIN args |-> i])

\* What the callee leaves changed: a function of the program saves all but R0;
\* around a library function the caller saves some of R1 to R3.
Saved(s, n) == {i \in ArgRegs \ {0} : i + n < NumArgRegs /\ i \in s.used}
Overwritten(s, n, lib) == {0} \cup IF lib THEN (ArgRegs \ {0}) \ Saved(s, n) ELSE {}

\* R0 is where the result comes back: it is made free, and the result's own
\* register given up.
GivenUp(s, v) == IF InReg(s, v) THEN Release(s, s.reg[v]) ELSE s
ResultInR0(s, v) ==
  IF s.reg[v] = 0 THEN s
  ELSE [Claimed(GivenUp(Displaced(s, 0), v), 0) EXCEPT !.reg[v] = 0]

\* The first register arguments, then the register tmp for those on the stack.
ArgsInRegs(s, args) ==
  ForceInCall(FoldLeft(LAMBDA t, i : ArgPassed(t, i - 1, args[i]), s, [i \in DOMAIN args |-> i]))

\* The others are pushed, and all registers taken for the call given back.
Pushed(s, n) == IF n = 0 THEN s
                ELSE [Emit(s, <<Sub(n)>>) EXCEPT !.pieces = Append(@, Piece(ARGS, n)),
                                                 !.size = @ + n]
ArgsOnStack(s, args, n) ==
  FoldLeft(Release, Emit(s, StackArgs(s, args, s.got)), <<s.got>> \o [i \in 1 .. n |-> i - 1])

\* What a later instruction reads is lost in the registers the callee changes.
Surviving(s, defs, changed) ==
  LET hit == {s.reg[u] : u \in {u \in Live(s) \ defs : s.end[u] > cur + 1}} \cap changed
  IN  Losing(s, (IF 0 \in hit THEN {"result"} ELSE {})
                  \cup (IF hit \ {0} # {} THEN {"library"} ELSE {}))

\* The callee runs.
Branched(s, inRegs, onStack, changed) ==
  Emit(s, [i \in DOMAIN inRegs |-> Use(i - 1, inRegs[i])]
            \o [i \in DOMAIN onStack |-> Arg(Len(onStack) - i, onStack[i])]
            \o <<Clobber(changed)>>)

Popped(s, n) == IF n = 0 THEN s
                ELSE [Emit(s, <<Add(n)>>) EXCEPT !.pieces = Front(@), !.size = @ - n]

\* defs holds the result, if anything reads it.
Returned(s, inRegs, onStack, changed, defs) ==
  Popped(Emit(Branched(Surviving(s, defs, changed), inRegs, onStack, changed),
              SetToSeq({Put(0, v) : v \in defs})),
         Len(onStack))
ReturnedFrom(s, inRegs, onStack, lib, defs) ==
  Returned(s, inRegs, onStack, Overwritten(s, Len(inRegs), lib), defs)
CalledWith(s, inRegs, onStack, lib, defs) ==
  ReturnedFrom(FoldLeft(ResultInR0,
                        ArgsOnStack(Pushed(ArgsInRegs(s, inRegs), Len(onStack)),
                                    onStack, Len(inRegs)), SetToSeq(defs)),
               inRegs, onStack, lib, defs)

InRegs(args) == SubSeq(args, 1, IF Len(args) < NumArgRegs THEN Len(args) ELSE NumArgRegs)
Called(s, args, lib, defs) ==
  CalledWith(s, InRegs(args), SubSeq(args, Len(InRegs(args)) + 1, Len(args)), lib, defs)

(***************************************************************************)
(* genInst.                                                                *)
(***************************************************************************)

\* initAllocator, and the alloca, which lies below all else.
Init == /\ cur = 0
        /\ most \in 0 .. MaxArgs
        /\ alloc = [end |-> [v \in Values |-> 0],     \* livIntvl->end, 0 if not live
                    reg |-> [v \in Values |-> NONE],     \* Variable::reg
                    taken |-> Reserved,                  \* regAllocatedMap
                    live |-> << >>,                      \* liveVars
                    spilled |-> {},                      \* Variable::is_spilled
                    pieces |-> Entered, size |-> Total(Entered),   \* stack
                    pos |-> [v \in Values |-> 0],        \* Variable::stackpos
                    used |-> {},       \* usedGeneralRegs, those that carry arguments
                    ok |-> TRUE,       \* no assertion has failed
                    lost |-> {},       \* see Losses
                    got |-> NONE, code |-> << >>, moves |-> << >>]
        /\ machine = [regs |-> [r \in Registers \cup {NONE} |-> JUNK], mem |-> <<ALLOCA>>, right |-> TRUE]

\* The code of the instruction runs; the names of the values that were dropped,
\* and what only this instruction needed, are wiped.
RunTo(s, t) ==
  LET code == s.moves \o s.code
      after[i \in 0 .. Len(code)] == IF i = 0 THEN machine ELSE Exec(after[i - 1], code[i])
      m == after[Len(code)]
      Name(x) == IF x \in Live(s) \cup {ALLOCA} THEN x ELSE JUNK
  IN  /\ machine' = [m EXCEPT !.regs = [r \in DOMAIN @ |-> IF r = NONE THEN JUNK ELSE Name(@[r])],
                              !.mem = [i \in DOMAIN @ |-> Name(@[i])]]
      /\ alloc' = [s EXCEPT !.got = NONE, !.code = << >>, !.moves = << >>,
                            !.pos = [v \in Values |-> IF v \in s.spilled THEN @[v] ELSE 0],
                            !.end = [v \in Values |-> IF v \in Live(s) THEN @[v] ELSE 0]]
      /\ cur' = t
      /\ UNCHANGED most
Run(s) == RunTo(s, cur + 1)

EndsAt(t) == {v \in Live(alloc) : alloc.end[v] = t}

\* The instruction can read the values in uses and define those in defs, none or
\* one: what ends here is read, and what is read ends here or later.
CanBeNext(uses, defs) ==
  /\ cur < Horizon /\ alloc.ok /\ alloc.lost = {}
  /\ uses \subseteq Live(alloc)
  /\ EndsAt(cur + 1) \subseteq uses
  /\ defs \cap Live(alloc) = {}

\* No more values end at one instruction than an instruction can read.
MaxUses == IF most > 2 THEN most ELSE 2
Ends == {t \in cur + 1 .. Horizon : t > cur + 1 => Cardinality(EndsAt(t)) < MaxUses}

WithEnd(v, t) == [alloc EXCEPT !.end[v] = t]

\* updateAllocation for an instruction that reads uses and defines v.
DefinedFrom(uses, v, t, order) ==
  AllReloaded(Defined(WithEnd(v, t), v, uses \cup {v}, FALSE), order, uses \cup {v})

\* No instruction needs more registers than there are for it.
Room == NumRegs - AllocBase - Cardinality(Reserved)
Fits(uses, more) == Cardinality(uses) + more <= Room

\* An instruction without a result: a comparison read only by the branch after
\* it, or a branch that reads a value (genBrInst).
Compute(uses, scratch) ==
  /\ CanBeNext(uses, {})
  /\ Fits(uses, IF scratch THEN 1 ELSE 0)
  /\ \E order \in SetToSeqs(uses \cap alloc.spilled) :
       Run(Expired(Computed(AllReloaded(alloc, order, uses), uses, {}, scratch)))

\* Arithmetic, a comparison or a conversion, with its result.
ComputeTo(uses, v, scratch) ==
  /\ CanBeNext(uses, {v})
  /\ Fits(uses, IF scratch THEN 2 ELSE 1)
  /\ \E t \in Ends, order \in SetToSeqs(uses \cap alloc.spilled) :
       Run(Expired(Computed(DefinedFrom(uses, v, t, order), uses, {v}, scratch)))

Load(p, v, far) ==
  LET uses == {p} \ {ALLOCA}
  IN  /\ CanBeNext(uses, {v})
      /\ \E t \in Ends, order \in SetToSeqs(uses \cap alloc.spilled) :
           Run(Expired(Loading(DefinedFrom(uses, v, t, order), p, v, far)))

Store(x, p, far) ==
  LET uses == {x, p} \cap Values
  IN  /\ CanBeNext(uses, {})
      /\ \E order \in SetToSeqs(uses \cap alloc.spilled) :
           Run(Expired(Storing(AllReloaded(alloc, order, uses), x, p, far)))

\* The translator makes an index for the address alone, and reads it nowhere else.
GetElementPtr(p, i, v) ==
  LET uses == {p, i} \cap Values
      scratch == IF i = ZERO THEN 0 ELSE IF i = IMM THEN 2 ELSE 1
  IN  /\ CanBeNext(uses, {v})
      /\ Fits(uses, 1 + scratch)
      /\ i \in Values => i # p /\ alloc.end[i] = cur + 1
      /\ \E t \in Ends, order \in SetToSeqs(uses \cap alloc.spilled) :
           Run(Expired(Addressed(DefinedFrom(uses, v, t, order), p, i, v)))

\* The last instruction of the function.
Return(x, far) ==
  LET uses == {x} \cap Values
  IN  /\ CanBeNext(uses, {})
      /\ Live(alloc) = uses
      /\ \A v \in uses : alloc.end[v] = cur + 1
      /\ RunTo(Expired(Left(AllReloaded(alloc, SetToSeq(uses \cap alloc.spilled), uses),
                            x, far)), Horizon)

Divide(x, y, v, rem) ==
  LET uses == {x, y} \ {IMM}
  IN  /\ CanBeNext(uses, {v})
      /\ most >= NumArgRegs
      /\ \E t \in Ends, order \in SetToSeqs(uses \cap alloc.spilled) :
           Run(Expired(Divided(DefinedFrom(uses, v, t, order), x, y, v, rem)))

\* No library function has more arguments than there are registers for them.
Call(args, lib) ==
  /\ CanBeNext(ToSet(args) \ {IMM}, {})
  /\ Len(args) <= most /\ (lib => Len(args) < NumArgRegs)
  /\ Run(Expired(Called(alloc, args, lib, {})))

CallTo(args, v, lib) ==
  /\ CanBeNext(ToSet(args) \ {IMM}, {v})
  /\ Len(args) <= most /\ (lib => Len(args) < NumArgRegs)
  /\ \E t \in Ends :
       Run(Expired(Called(Defined(WithEnd(v, t), v, ToSet(args) \cup {v}, TRUE),
                          args, lib, IF t > cur + 1 THEN {v} ELSE {})))

\* The name of the next value: which one does not matter.
Unused == {v \in Values \ Live(alloc) : \A u \in Values \ Live(alloc) : v <= u}

\* A value is an argument once: what a call reads twice is loaded twice.
ArgLists(n) == {args \in [1 .. n -> Live(alloc) \cup {IMM}] :
                  \A i, j \in 1 .. n : args[i] = args[j] => i = j \/ args[i] = IMM}

Next ==
  \/ \E uses \in SUBSET Live(alloc), scratch \in BOOLEAN :
       /\ Cardinality(uses) <= IF scratch THEN 1 ELSE 2
       /\ \/ uses # {} /\ Compute(uses, scratch)
          \/ \E v \in Unused : ComputeTo(uses, v, scratch)
  \/ \E p \in Live(alloc) \cup {ALLOCA}, far \in BOOLEAN :
       /\ far => p = ALLOCA
       /\ \/ \E v \in Unused : Load(p, v, far)
          \/ \E x \in (Live(alloc) \cup {IMM}) \ {p} : Store(x, p, far)
  \/ \E p \in Live(alloc) \cup {ALLOCA}, i \in Live(alloc) \cup {ZERO, ONE, IMM}, v \in Unused :
       GetElementPtr(p, i, v)
  \/ \E x \in Live(alloc) \cup {IMM, NOTHING}, far \in BOOLEAN : Return(x, far)
  \/ \E x, y \in Live(alloc) \cup {IMM}, v \in Unused, rem \in BOOLEAN : Divide(x, y, v, rem)
  \/ \E n \in 0 .. MaxArgs : \E args \in ArgLists(n), lib \in BOOLEAN :
       Call(args, lib) \/ \E v \in Unused : CallTo(args, v, lib)

Spec == Init /\ [][Next]_vars

(***************************************************************************)
(* Properties.                                                             *)
(***************************************************************************)

TypeOK ==
  /\ cur \in 0 .. Horizon
  /\ most \in 0 .. MaxArgs
  /\ alloc.reg \in [Values -> Registers \cup {NONE}]
  /\ alloc.end \in [Values -> 0 .. Horizon]
  /\ alloc.taken \subseteq Registers
  /\ alloc.spilled \subseteq Live(alloc)
  /\ Live(alloc) \subseteq Values /\ IsInjective(alloc.live)
  /\ machine.regs \in [Registers \cup {NONE} -> Values \cup {JUNK, ALLOCA}]
  /\ machine.mem \in Seq(Values \cup {JUNK, ALLOCA})

Sound == alloc.lost = {}

\* Unless the generator took one of the paths in Losses, every instruction has
\* read each operand from the place where its value was, through any spills,
\* reloads, displaced arguments and calls in between.
OperandsFound == Sound => machine.right

\* Nor has any assertion of the allocator or of genCallInst failed, and the tables
\* only hold values, registers and slots there are.
AssertionsHold == TypeOK /\ (Sound => alloc.ok)

\* SP lies where stackSize says, also after a return, and when nothing is live
\* the frame is as it was entered or gone.
FrameBalanced ==
  Sound /\ alloc.ok =>
    /\ Len(machine.mem) = alloc.size /\ alloc.size = Total(alloc.pieces)
    /\ alloc.live = << >> => alloc.pieces \in {<< >>, Entered}
=============================================================================
