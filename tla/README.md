# A formal model of SSYC

SSYC is a compiler for SysY, a subset of C: a preprocessor and lexer, a recursive-descent
parser that folds constants, a translator from the tree to an SSA-like IR, optimisation
passes, and an ARM back end with a linear-scan register allocator. It is one sequential
C++ program, so nothing here is about threads, messages or crashes. What is hard to test in
it is

- **pointer surgery**: intrusive lists and use lists are edited by hand-written pointer
  writes, and one stale neighbour only shows many calls later;
- **lazily repaired state**: the flow of a basic block is cached beside its last
  instruction and repaired when somebody asks;
- **order of legal calls**: reset, remove, mark, link and split assert what an earlier call
  must have established, and the translator, the passes and the inliner call them in
  orders no unit test writes down;
- **context kept beside a recursion**: the parser saves and restores the loop, the scope
  and the function it is in by hand, on every way out of a statement;
- **two answers to one question**: the folder, the translator and C each say what an
  expression means; the lookahead and the token being read each have a position;
- **order of emitted code**: the allocator and the generator emit instructions into
  several lists that are concatenated later, so code runs in another order than it was
  made in;
- **stack bookkeeping**: SP, `stackSize` and the positions of spilled values are three
  accounts that have to move together.

Paths below are relative to `src/src/slime/` unless they start with `src/`.

## 1. Inventory

### How the parts interact

`driver/driver.cpp` runs, for each file: `OptManager::parse`, then the preprocessor and
lexer (stopping there for `-E` and `--lex-only`), `Parser::parse`, optionally the tree
dump, `ASTToIRTranslator::translate`, `ControlFlowSimplificationPass`, `ResortPass`, the IR
dump, `ValueNumberingPass` and `Generator::genCode`. The other passes (dead code, CSE, copy
propagation, inlining, memory-to-register, peephole) are compiled and tested, and the
driver runs none of them. Parts talk by direct calls and by shared objects: the parser
pulls tokens and decides when to look ahead, calls the folder on each expression and hands
a unit of declarations to the translator; a `BasicBlock` is a `CFGNode` and a value; an
`Instruction` is a list node, a user and a value; the generator and the allocator share one
`Allocator` object and one instruction list per block.

| Component | State | Operations | What makes it correct |
|---|---|---|---|
| `lex` | line buffer, `cur`, line and column, token and lookahead | `next`, `lookahead`, comments, strip, macro rewriting | the longest lexemes come out, each once, at the right place |
| `parse`: declarations and statements | symbol tables, `cur_depth`, `cur_func`, `cur_loop`, the unit, `symref_set` | one function per production, `enterFunction`, `leaveFunction`, look up and declare | a name means its innermost declaration; tables and loop come back after each statement; the unit is in an order the translator can use |
| `parse`: binary expressions | operator and operand stacks | `parseBinaryExpr`, the table of priorities | the tree is the grammar's |
| `ast`, `ASTExprSimplifier` | trees | type of a node, `tryEvaluateCompileTimeExpr`, initialiser lists | values and effects preserved |
| `visitor/ASTToIRTranslator`: expressions, units | value and address of the last expression, address table, module | one function per expression, conversions, initialisers, functions and globals | emitted code computes what the source says; assertions hold |
| the same: control flow | the graph, `currentBlock`, `currentLoop`, the recursion of its handlers | one handler per statement; `&&`, `\|\|`; the closing sweep | blocks run what the source says, in that order; the graph stays consistent; the sweep leaves what the passes expect |
| `ir/module` | function and variable tables, preset functions | `acceptFunction`, look up | a definition takes the place of its declaration |
| `ir/cfg` (`CFGNode`) | `control_`, `branch_`, `branchElse_`, incoming set; the block's last instruction | `reset` (three forms), `tryMarkAsTerminal`, `syncFlowWithInstUnsafe`, `checkAndSolveOutdated`, link, unlink | edges and incoming sets are inverse; the flow is one of four shapes and agrees with the terminator; asserts hold |
| `utils/list.h` | `prev_`, `next_`, `parent_` of nodes; guards and `size_` of lists | insert at head, tail, before, after (moving a node that is already somewhere), remove, iteration | both traversals read one sequence; sizes agree; each call does to the sequence what its name says |
| `ir/value`, `ir/instruction` (use-def) | `value_` of every `Use`, `useList_` of every value, parents | set, move and replace operands, phi pairs, insert, remove, remove block | use lists are exact; what was removed is not read |
| `ControlFlowSimplification`, `Resort` | work stack, visited set, address-ordered set of unreachable blocks | search, fold, reset, remove; gather allocas | exactly the reachable blocks remain and keep their flow; termination |
| `MemoryToRegister` | dominators, frontiers, reaching definitions, phis | one loop over the blocks after another | dominators are right; a load becomes the value it would have read |
| other passes | tables of values, worklists | dead code, CSE, copies, inlining | uses stay exact |
| `backend/regalloc`, `Stack` | `onStackVars`, `stackSize`, `stackpos` | `spillVar`, `releaseOnStackVar`, push and pop of arguments | live slots never overlap or move; space comes back |
| `backend/regalloc`, `Allocator` | live list, register map, intervals, SP | `updateAllocation`, `allocateRegister`, spill, reload, release, the checks before calls | every value is in one place and read from there; nothing leaks |
| `backend/gencode` | per-block instruction lists, saved registers | `genInst` and one generator per instruction | the code around an instruction preserves the values behind it |
| `driver` | option table, per-file flags | parse options, run pipeline | documented option behaviour |
| `experimental`, dumps, `src/libslime`, scripts, tests | | | outside the compiler's core |

`PROJECT.json` gives the status of each part under "components", and under "hazards"
every place where the kinds of trouble listed above bite, with the properties that watch
it, or the reason that none does.

## 2. The modules

| Module | Models | State and actions |
|---|---|---|
| `Lexer` | `lex/preproc.cpp`, `lex/lex.cpp`, `lex/lexer.h` | text, cursor, line and column, token and lookahead. Actions: the client takes a token, asks for lookahead, prints |
| `Priority` | `Parser::parseBinaryExpr`, `parse/priority.h` | operators, operands, the two stacks; one action per turn of the loop, the shortcut for runs of one operator included |
| `Folding` | types of nodes, the evaluator, initialiser lists | operators on trees |
| `ExprIR` | expressions, conversions, addresses, initialisers of the translator | operators on the translator's state: blocks, value and address of the last expression |
| `ExprMeaning` | the two meanings compared | C's rules on a tree; a machine that runs the instructions |
| `Expression` | an expression's way through the front end | composes the four: parse, simplify, translate |
| `Declarations` | parser, diagnosis, unit, module | the parser's calls are a stack `open`, and an action is one of its functions or the part of one between two statements; then the translator takes the unit in order |
| `Translator` | control flow of `ASTToIRTranslator` | the graph, the block list, `currentBlock`, a stack of handler frames (the C++ recursion), and the sweep. The map `loopTable` is the blocks in the frames of the loops; `break` and `continue` take the entry of the loop the parser had in `cur_loop`. An action is the code between two calls of another handler |
| `CfgNode` | `ir/cfg.cpp`, `BasicBlock` flow | operators on a graph record `g` (control, branch, else, in, code, ok), one per member function |
| `Cfg` | clients of `CFGNode` | `graph` and the blocks `placed` in the function's list; create, append, return, jump, branch, clear, discard, split (inlining) |
| `Simplify` | `ControlFlowSimplificationPass`, `ResortPass` | graph, work stack, visited and unreachable sets, the walk over instructions |
| `Dominators`, `MemoryToRegister` | `pass/MemoryToRegister.cpp` | dominators by semi-dominators as operators; one action per loop over the blocks, the clean-up of phis in any order |
| `IntrusiveList`, `ListSpec` | `utils/list.h`, and what a list promises | `heap`: a record of `next`, `prev`, `parent`, `size`; one sequence per list |
| `UseDef` | `Use`, `Value`, `User`, `Instruction`, `PhiInst` | operands, use lists, parents, removed instructions and blocks |
| `Stack` | `Stack` of `backend/regalloc.h` | operators on a sequence of pieces: split, melt, trim, look up; the walks of the code are recursive functions (`Total`, `Melted`) |
| `SpillStack`, `FrameSpec` | the callers of `Stack` that move SP, and what a frame promises | `pieces`, `stackSize`, `stackpos`, SP as `depth`; a set of cells per owner |
| `RegAlloc` | `Allocator`, `genInst`, the generators of integer instructions | `alloc` (live list, registers, frame, code emitted) and `machine` (registers and memory). One action is one IR instruction (load, store, address, arithmetic, comparison or branch, division, call, return): it allocates, emits code, and the machine runs the code |
| `MC...` | instances for TLC | small sets, symmetry, inputs |
| `...Proofs` | TLAPS proofs | section 5; `SimplifyProofs` and `TranslatorProofs` extend `CfgProofs` for its lemmas about `CfgNode` |

`Translator`, `Cfg` and `Simplify` are three clients of the same `CfgNode` operators;
`SpillStack` and `RegAlloc` two clients of `Stack`; `Expression` composes `Priority`,
`Folding` and `ExprIR`. Definitions marked `Faulty` in a comment are not used by any
specification. They are plausible slips in the operation beside them (a dropped guard, a
missing reset, a swapped order), and each property is known to fail when the right
definition is replaced by its faulty variant. "mutants" in `PROJECT.json` lists the pairs.

Conventions: an assertion of the source is a conjunct of an `ok` flag, or a phase
"aborted" with its reason, and its failure is a state the properties exclude; blocks, nodes,
values and instructions are model values or small numbers; wording of messages and
layout of dumps are left out. The type invariant `TypeOK` is a conjunct of an invariant the run checks
in `translator`, `spill_stack`, `reg_alloc`, `simplify` and `declarations`; that of `IntrusiveList`,
`Cfg` and `UseDef` is a theorem only. The other modules have none.

Abstractions worth knowing:

- `Declarations`: an expression is the names it mentions; a local declaration has one
  declarator; conditions of `if` and `while`, and initialisers and dimensions of globals,
  mention no names; types are only what the checks look at. `cur_params`,
  `ignore_next_funcdecl` and `not_deepen_next_block` are set and read within one action.
- `Folding`: an int has `Width` bits and wraps; a float is a number of halves.
- `MemoryToRegister`: one promotable variable, since the tables for several are keyed by
  the variable; unreachable blocks are gone, as after `ControlFlowSimplification`.
- `RegAlloc`: sizes on the stack are in slots, so whether an offset fits an immediate is a
  free choice per access (`far`). The float registers go through a copy of the same code.

## 3. The runs

Every run finishes within five minutes.

| Run | Instance | Shows |
|---|---|---|
| `lexer` | every file of up to 5 characters (with the quotes, 7) over eight alphabets | the longest lexemes come out once each, with the right positions and decoded strings, whenever the parser looks ahead |
| `expression` | every operator on pairs of operands, chains of up to 5 operators, elements of `const` arrays of one and two dimensions, the least int, initialisers of `a[2][2]`, 4-bit ints | the tree is the grammar's, folding keeps values and effects, emitted code computes what C says, the translator's assertions hold, initialisers fill the array |
| `declarations` | 5 declarations, 3 statements, nesting 3; names `x`, `f`; prototypes `f()`, `f(x)`, a library function of the text's own with an anonymous parameter, and a `memset` | symbol tables and loop context follow the text, names mean their innermost declaration, the unit is in a usable order, and assertions fail for the named reasons only |
| `forward_call` | the same, 4 declarations | **violation**: a call between a declaration and the definition meets an assertion (section 4) |
| `translator` | 7 blocks, 4 program points, nesting 2, 2 returns | every function body of that size keeps its meaning; the sweep leaves only loops nothing leads to; it aborts only there |
| `cfg` | 3 blocks, 1 value, 2 plain instructions per block | edges, terminators and isolation of removed blocks, in every order of calls |
| `simplify` | all graphs of 4 blocks whose entry has no predecessor | the two passes delete exactly what is unreachable, keep the rest, gather allocas in order, and end |
| `memory_to_register` | all graphs of 3 reachable blocks with 6 bodies each, all of 4 with 2 | dominators are right, phis stand exactly where definitions meet, a load becomes one of the stores that reach it, and all of them |
| `list` | 4 nodes, 2 lists | after any sequence of inserts and removals both directions read the same sequence, sizes agree, each call does what its name promises |
| `use_def` | a two-operand instruction, an alloca, a phi of 2 pairs, 2 blocks, 1 constant | use lists are exact and nothing removed is read |
| `spill_stack` | 1 local, 4 temporaries, allocas and argument blocks of up to 2 units, 1 reused fragment at a definition | slots are disjoint, do not move, and space comes back |
| `reg_alloc` | 6 registers, 2 argument registers, 5 live values, 3 arguments, one alloca, 6 instructions | outside the seven paths named below, emitted code finds every operand and returns every register and slot |

**Why the bounds are enough for the cases that matter.** Each alphabet of `lexer` holds
the characters of one group of rules and those of its neighbours; five characters hold a
comment that opens and closes, the longest operator beside another, or a line break
inside. Four bits hold a sign, a carry and an overflow in both directions. Five operators are a
run of three, the shortest the shortcut rewrites, with a neighbour on both sides. Five declarations are two functions, a
variable outside, a parameter and a shadowing local; nesting 3 puts a loop in a block in a
loop. Four nodes are a moved node with a neighbour on both sides and one beyond; two lists
give moves between lists. Three blocks are the two targets of a branch and the block
itself, or a split block, its new tail and a successor; with four there are a diamond, a loop
with an exit, an irreducible loop, and a cycle of unreachable blocks that enters live code. Two
levels of statement nesting put every kind inside every loop and condition; seven blocks let a
loop, an if and a short circuit meet. Two phi pairs are the smallest case in which removing
one moves another. Four temporaries leave a hole between two live slots with a trailing one to
release, so fragments are split, melted on both sides and trimmed. Six registers with five
live values force spills, reloads, and a reload that spills another value, with arguments
in registers and on the stack; six instructions reach each of the seven paths, the longest
(a definition that spills into a hole) only with the sixth. The real machine has 12 and 4
registers, which changes the pressure needed and not the code paths.

**Deadlock** is checked except where the system really stops: a text is read to its end
(`lexer`, `declarations`), an expression is translated (`expression`), a translation is
done or aborted (`translator`), the passes are done (`simplify`, `memory_to_register`), the
pool of instructions is used up and all are removed (`use_def`), and the function has its
last instruction or has taken one of the named paths (`reg_alloc`).

**Fairness.** Only `Simplify` states fairness, `WF_vars(Next)`, for `Terminates`: the
passes are loops of one thread that wait for nothing, so a step that can be taken is taken. No
fairness is assumed per choice: in particular the order in which the address-ordered set is
walked stays arbitrary. All other properties are safety.

**Refinement.** `ImplementsListSpec` says that the heap, mapped to the sequences its forward
traversal reads, implements `ListSpec`, that each call has there the effect its name
promises, and that both traversals agree. `ImplementsFrame` maps fragments and owners to
sets of cells. Both are checked as properties of a run and proved (`ListsAreSequences`, `StackIsAFrame`).

**The seven paths of `RegAlloc`.** The set `Losses` names the situations after which the
emitted code is known not to preserve values: a definition that spills into a hole, a spill
inside a call, whose store is emitted behind register moves that need to come after it, a
call that overwrites R0 while it holds a value, a library call that overwrites an argument
register, a division given R0 while it holds a value, an offset from SP computed before a
spill that lowers SP, and a return that takes R0 as scratch after the result is in it. The
model records which one happened and stops; without this, `OperandsFound` or
`AssertionsHold` fails on each. All seven are reached in the run. A spill inside a call also
chooses its victim through a pointer to a set that has gone out of scope
(`backend/regalloc.cpp:368`); the model takes that set to be empty still, and stops there.

## 4. Findings

`forward_call`: `enterFunction` (`parse/parser.cpp:895-908`) takes a declaration out of
the unit when its definition comes, and the translator goes through the unit in order, so a
call between the two is translated when no object of the callee is in the module:
`extern int f(int); int main(){ return f(1); } int f(int x){ return x; }` fails the assertion
`visitor/ASTToIRTranslator.cpp:666`. The branch of `ir/module.cpp:68` that would replace
the declaration is never reached.

### Known defects

Met while modelling. Where a model reaches one, it is excluded by name (a loss, a reason,
a condition on the input), so that the properties hold of everything else.

*Lists, flow and uses*

- `moveToPrev` and `moveToNext` (`utils/list.h:180`) rewrite half of the links;
  `src/test/unittest/ListTraitOperations.cpp:102-115` states the intended order. Nothing else calls them.
- The sweep asserts that an open block can be closed (`visitor/ASTToIRTranslator.cpp:244`);
  `int f(){ return 1; do { } while(0); }` reaches it with one that cannot (`AbortExplained`
  of `Translator` says that nothing else does).
- `Use::operator=` (`ir/value.h:543`) is documented to move, and resets its source before it
  reads it, so `PhiInst::removeValueFrom` (`ir/instruction.cpp:110`) loses a second pair.
- A phi of `MemoryToRegister` names the block of the definition, not the predecessor (line
  262); with an unreachable predecessor the frontier loop (506-509) does not end.

*Lexer, parser and module*

- An octal escape of value 255 reads as zero (`lex/lex.cpp:358`).
- The parameters of a prototype stay in the table of the unit (`parse/parser.cpp:914`), so a later
  use of the name resolves to one and fails `visitor/ASTToIRTranslator.cpp:675`.
- `break` and `continue` are accepted in `while` loops only; the body of a `for` shares the
  scope of its header; the condition of a `for` of the form `a && b || c` counts as not well formed.
- `extern int x; int x;` is rejected, and a forward declaration without `extern` as well.
- A program's own `memset` is refused by `acceptFunction`, and the assertion at line 359 fails; a call
  of one that is declared before finds the module's own, with three parameters, and fails line 1096.
- `FunctionProtoType::equals` is true for different numbers of parameters (`ast/type.cpp:155`).
- The parser, with its symbol table, is reused from file to file, and `provided('o')` is
  always true (`driver/driver.cpp:205`).

*Constant folding* (`visitor/ASTExprSimplifier.cpp`)

- `&&` and `||` of constants yield a wrong constant (367, 370); a comma drops the effects of
  its left side; `!` of a float constant, a `const` initialiser of another type, and a subscripted
  array with an element that is no constant give wrong values; a constant division by
  zero, one of the least int by -1, or a bad shift happens in the compiler.

*Back end*

- A spill at a definition lowers SP even when it reuses a fragment (`backend/regalloc.cpp:532`).
- The assertion that division registers are free (`backend/gencode.cpp:1446`) fails when the
  dividend is the result of the call before.
- An offset from SP is computed before the spill that lowers SP (`backend/gencode.cpp:976`,
  1052-1060).
- `genRetInst` (1162) takes R0 as scratch for the frame after the result is in it:
  `int f(){ int a[501]; return 3; }`.
- The address of an element overwrites the register of the index (1309); it is read last
  there, which is why this is safe. A negative constant index dereferences a null `tmp` (1304-1331).
- Immediates of `ldr`, `sub`, `and` and `mov` are unchecked or checked with the rule of `add`.
- Around a library call the padding counts a list twice (2232) and the loop that saves
  registers counts past the end (2218).

## 5. Proofs

TLAPS checks these for every value of the constants; the runs show the same
formulas on the instances above.

**`IntrusiveListProofs`** (any lists, any finite set of nodes, guards distinct from
nodes and from each other: `ListAssumption`). `WellLinked` alone is not inductive: an
insertion must also know that a node outside every list is linked to nothing and linked from
nowhere, and that guards bound their own list. `Inv` is therefore `Good(heap)`: the type,
`ForwardLinks`, `BackwardLinks`, `FreeNodesAreClear` and `SizesAgree`. Two lemmas show that
`Unlink` and `Splice` preserve it; every action is a composition of these two.
That is not enough for the refinement of `ListSpec`: a ring of members that no guard leads
to is well linked in both directions and counted right. `Chained` adds that the way from the head
guard to the tail guard passes every member (`Reads`). Unlinking takes one element out of the
sequence `Reads` speaks of (`UnlinkReads`), a splice puts one in (`SpliceReads`), neither touches
another list, and a walk of at most as many steps as there are nodes reads it, forward and
backward (`WalkIs`). Then each call is shown to be the step of `ListSpec` of the same name.
Results: `Goodness`, `TypeCorrect`, `AlwaysWellLinked`, `SizesAreRight`, `ListsAreSequences`.

**`CfgProofs`** (any blocks, any controls, any bound on instructions).
`Good(g, listed)`: edges and incoming sets are inverse, flows are well shaped, flow and
terminator agree, no assertion has failed, and a block that is not listed has no edges. The
lemmas follow the code: a first family shows that unlinking makes a block clean (no
outgoing edge, no terminator), a second that linking a clean block restores `Good`, and each
member function is one of each. Every action of `Cfg` is one of them or composed of them.
`SimplifyProofs` and `TranslatorProofs` extend this module for the lemmas; their specifications
have a graph of their own, and `graph` and `placed` play no part in them, which is why the
specification of `Cfg` has names of its own (`CfgSpec`, `CfgInit`, `CfgNext`). Results: `Consistency`, `TypeCorrect`, `LinksAlwaysAgree`,
`FlowAlwaysShaped`, `AssertionsHold`, `TerminatorsAgree`, `RemovedIsCutOff`.

**`SimplifyProofs`** (any function whose blocks are complete, any order of its blocks,
`SimplifyAssumption`). What has to be shown is about reachability, and `OnlyLiveRemain`
says nothing of how the search gets there. `IInv` adds: during the search, what the visited
blocks lead to is visited or on the stack, and both hold only blocks that can run, so that
with the stack empty the visited blocks are closed and therefore all of them; every
visited block leads where the input does with its decided branch decided; a block that cannot run
has lost its flow before the first removal. Then nothing leads into such a block, so
`remove()` succeeds for each in any order of addresses, and `ResortPass` finds neither an
orphan nor an incomplete block. The place after the last alloca moved exists because in
the entry it lies before the cursor. For `AllocasGathered`, `Moved` gives the code of every
listed block for the index k of the cursor in the body as the input had it: blocks before the
cursor's are without their allocas, its own without those among the first k, the others as they
were, each with a terminator, and the entry has in front the allocas met so far. The pass keeps
`pos` and `hoisted` only; that they fit k (`Cursor`) is what makes each alloca leave and arrive at
the right index although the entry grows under the iterator. `Whole` says that no body changes
before that pass. Results: `OnlyLiveBlocksRemain`, `FlowIsKept`, `AllocasAreGathered`.

**`UseDefProofs`** (any instructions, arities, phis, blocks and constants). `Inv` joins
the type, `UsesExact`, the assertion flag, `RemovedIsDead` and `RemovedBlocksReadNothing`. The
conjuncts need each other: `removeUse` finds its use only because use lists are exact, and
a removed instruction stays dead only because the emptiness of its use list means that
nobody reads it. Results: `Consistent`, `TypeCorrect`, `UsesAlwaysExact`,
`AssertionHolds`, `RemovedStaysDead`, `RemovedBlocksStayQuiet`.

**`TranslatorProofs` and `TranslatorMeaningProofs`** (any number of blocks and program points, any nesting;
`TranslatorAssumption`: blocks are numbered as they are created, and a condition is an
instruction or one of the two constants). Each handler is a few calls of the member functions `CfgProofs` is about, and
these preserve `Good` if the block they link is open. So `Inv` says of every handler in progress
that the blocks it will come back to wait for it: they are listed, nothing was written to them,
none is current, and no two handlers have one in common (`Waiting`); and that a block not yet
created is untouched. One lemma per action; the actions that open and leave a handler are two
families (`EnterStep`, `ReturnStep`). What the pass at the end of `translate()` leaves behind depends
on the order of the block list, of which `Inv` says nothing; `InOrder` does. Nothing stands in the
list twice, and an edge leads forward in it or to the start of a loop (`Flowing`). That is inductive
only with the place of the blocks still to come: those a handler will let the current block
jump to stand after the current block and after the blocks of every handler further in (`Ahead`).
The block of an if-arm is the exception, because the else-arm stands behind it although it is
translated first. During the pass, what was visited is a prefix of the list, and each of its
blocks is finished and has a reason to stay: it is the entry, a loop, or has an edge from a block
before it (`Swept`). Removing a block takes edges from blocks further down only, or from loops,
so no visited block loses its reason. At the end the first block of the list that neither the entry
nor an unreachable loop leads to would have an edge from an earlier one: there is none. That `From`, defined
by as many rounds as there are blocks, is closed under edges is a pigeonhole argument
(`RoundsClose`). Why the pass aborts depends on the flow of the source that the runs keep beside the
code. `Explicable` says that there is a set of blocks that holds the entry and, constant conditions
decided, everything its members lead to, and that has the current block, or a block a handler
will come back to, only if live flow of the source leads there (`Followed`). Each statement adds to this set what
its handler has just made reachable. Besides, only the current block and those waiting for a
handler are open, and the block the body ends in is the last of the list (`Tidy`). So the
one block the pass cannot end is the last: either it is in the set, and the source runs off the
end of the body, or the entry does not lead to it and by `Swept` an unreachable loop does.
That the code means what the source says, the theorem of the second module, is a statement about code that exists only at the end,
through blocks without instructions. `Meant` gives it a form a single
statement can keep: there are labels D, the first point control meets from the start of each block
on, `EXIT`, a label of its own for a block still open (`Hole`), and 0 for a block that jumps in
a circle of empty blocks (`Labelled`, `NoTrap`). `Edge` is the flow of the code between
labels, `Comes` the flow of the source with what it still owes: what is loose comes to the
current block, what a handler keeps comes to its exit, or to the else-arm. The two say the same
(`Agree`), for a set V of points closed under the flow; a point outside V cannot be reached. V is
needed because a loop that cannot be reached jumps back to a start nothing was translated for; of
every other loop the start has the label of its first point, or of the current block while it has none
(`Heads`, `Young`). An instruction or a jump gives the label of the current block away: every block
that had it gets the new one (`MovedLabel`). When the body ends the last open label becomes the end of
the function, and D satisfies `Completing`: every live point leads where the source does, and no live point
stands in a block control cannot get to (`Housed`). Folding and removing keep this (`FoldKeeps`,
`RemoveKeeps`). In the finished code, the first points of a block are its label and nothing else
(`FirstIsTheLabel`), and this is `MeaningPreserved`.
Results: `GraphStaysConsistent`, `OnlyLoopsAreLeft`, `AbortsHaveAReason`, `MeaningIsPreserved`.

**`SpillStackProofs`** (any variables, sizes and bounds; `SpillStackAssumption`). The lemmas
about `Stack` say what its walks do to lists of any length, in terms of the layout `At(ps, v, a, n)`:
v has n units after a units. `MeltedIs`: melting leaves the layout alone, and no two fragments
are neighbours afterwards. `PlacedIs`: spillVar adds one variable, in a hole that was large
enough or at the end. `WithoutIs`: releaseOnStackVar takes one away, and a list
that ended in a variable still does. The inductive invariant `IInv` adds to the properties that
`stackSize` is what the pieces cover, `stackpos` where the variable is now, SP at the plan, and
that the arguments of a call are the last piece with no fragment before them, since `popVar` does not melt:
without this `PopArgs` would leave a trailing fragment. From the layout follows the refinement,
step by step: each call places or drops one range of cells and moves no other. Results:
`FrameEndsInAVariable`, `VariablesStayWhereTheyAre`, `StackIsAFrame`.

**`DeclarationsProofs`** (any names, prototypes, library functions and bounds;
`DeclarationsAssumption`: names are strings, only a parameter may be anonymous, and the library
functions have different names).
`cur_depth`, the symbol tables and C's scopes are three counts of the open calls: those that
opened a block, one more, and those and the bodies of `for`. The loops the calls have saved form a chain:
each saved the innermost loop below it, so what the end of a loop restores is right
whatever happened in its body. For the look-ups, `Scoping` adds that tables and scopes lie side by
side along the open calls (`Layout`: scope j belongs to call `at[j]` and goes with table `of[j]`,
and the body of a `for` has the table of its header), that a scope and its table say the same of
every name, but for what parameters of bodyless functions leak (`Matched`), and that functions are
in the global table only (`Entries`). One table serves two scopes only between a header and the
block that is its body, where no statement is parsed (`Bodied`), so the innermost table that has a
name is the innermost scope's. For the translation unit, `Unit` speaks of the list `Line`: the unit,
with the function being parsed at its tail, where `parseGlobalDecl` will put it. While the text is
parsed (`WhileParsed`), no name is listed twice; the global table has for each listed
declaration itself or the parameter that leaked over it, and nothing else; each mention is in `symrefs`;
and each mention has what it means before it in the unit, in its own function, among the leaked
parameters, or replaced by a definition further down (`Placed`, `Overtaken`). The last case is
where a definition takes its prototype out of the unit and goes to the tail: what mentioned the prototype
now stands before the definition. The removals, of that prototype and at the end of the text of
what nobody mentions, keep order (`PickedPrecedes`) and take away no mentioned
declaration. For the translator (`AfterParsing`), `Accounted` says that the module has exactly what
the declarations before `next` gave it; so a look-up that fails is for a mention that is
`Overtaken` or leaked, or for `memset`. Results: `Bookkeeping`, `TablesAlwaysFollowBlocks`,
`LoopIsAlwaysInnermost`, `LookupsAlwaysFollowScopes`, `UnitIsAlwaysRegulated` (with it the type
invariant) and `AbortsAreExplained`.

**Induction over lists.** The library's induction theorems take an operator as a parameter, which
the installed provers cannot instantiate. The proofs of `IntrusiveList`, `SpillStack`,
`Translator`, `Declarations` and `Simplify` use sets instead: `<`
on the numbers is well founded, so a set of numbers that has 0 and with each number the next has
all (`NumberSets`, `AllNumbers`), and likewise for sets of lists (`ListSets`). The set is then the
set of numbers or lists for which the lemma holds. That a recursive function such as `Joined` exists
for every argument is proved this way too (`JoinsExist`).

**Only model-checked.** `Lexer`, `Expression`, `MemoryToRegister` and `RegAlloc`;
`Terminates` of `Simplify`. `Expression` and
`MemoryToRegister` are built from RECURSIVE operators, and `Terminates` needs liveness under
fairness: both are outside what the installed provers can do. The others are not yet proved.

## 6. Not modelled

- **Driver and options**: a chain of conditions around the parts that are modelled.
- **Types**: arrays as parameters of a call, the text of string constants, the type rules of the instruction
  constructors; in the parser, specifiers and dimensions.
- **Back end**: float code, globals, the function's own parameters, the literal pool, the
  assembly text, alignment padding, and code that runs conditionally (`RegAlloc` draws
  straight-line code; a value live across a short circuit and spilled inside it is a
  listed hazard without a property).
- **Passes**: of dead code, CSE, copy propagation and inlining only block splitting and operand
  replacement, as actions of `Cfg` and `UseDef`; `ValueNumbering` numbers what the models do
  not read; `Peekhole` rewrites locally; `SCCP` is empty. The driver runs only the numbering.
- **Dumps, `src/libslime`, scripts, tests, `experimental`**: formatting, library wrappers,
  and code used by unit tests only.

## 7. Plan

Done, in this order: `IntrusiveList`, `CfgNode`/`Cfg`, `Translator`, `UseDef`,
`Stack`/`SpillStack`, `Simplify`, `RegAlloc`; proofs of the first two and of `UseDef`; then
`Lexer`, `Expression` with its four parts, `Declarations`, `MemoryToRegister`, the integer
instructions of `RegAlloc`; proofs of `Declarations` and `Simplify`; then of `Translator` and
`SpillStack`, with the refinement of `FrameSpec`.

What would come next, in order of importance:

1. `RegAlloc` with globals and parameters, then conditional regions by composing it with the
   blocks `Translator` builds.
2. `DeadCode`, `CSE`, copy propagation and inlining as whole passes over `CfgNode` and
   `UseDef` together.
3. `Peekhole` as an operator against the machine of `ExprMeaning`.
4. `OptManager` and `Driver` with the parser's table carried from file to file.

Proofs to come: frame and register balance of `RegAlloc`; positions and strings of `Lexer`.
