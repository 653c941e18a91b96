---------------------------- MODULE Declarations ----------------------------
(***************************************************************************)
(* Names and scopes, from the parser (parse/parser.cpp) to the module that *)
(* ASTToIRTranslator::translate fills.  The parser is a recursive descent: *)
(* `open' is its stack of calls, and an action is one of its functions or  *)
(* the part of one between two statements.  What the text says next is     *)
(* chosen freely.  Expressions are the names they mention, types only what *)
(* the checks look at.                                                     *)
(*                                                                         *)
(* cur_params, ignore_next_funcdecl and not_deepen_next_block live within  *)
(* one action here: nothing is read between setting and using them.        *)
(***************************************************************************)
EXTENDS Integers, SequencesExt, FiniteSets, FiniteSetsExt

CONSTANTS
    VarNames,                   \* the variables' names
    Prototypes,                 \* the functions the text declares: their name, whether they are
                                \* void, the names of their parameters, NoName for an anonymous one
    Presets,                    \* sequence of the library functions' names
    MaxDecls,                   \* declarations in the text
    MaxStatements,              \* statements in the text
    MaxNesting                  \* calls of the parser on top of each other

NoName == ""
None == 0                       \* no declaration

VARIABLES
    phase,      \* "parse", "translate", "done", "rejected" or "aborted"
    reason,     \* the diagnosis or the assertion that stopped it
    decls,      \* every NamedDecl created; a declaration is its index
    tables,     \* symbolTableStack_
    depth,      \* cur_depth
    func,       \* cur_func
    loop,       \* cur_loop: the kind of the statement and its place in `open'
    spec,       \* the specifiers of the declaration being parsed: cur_specifs
    tu,         \* the translation unit
    symrefs,    \* symref_set
    open,       \* the parser's calls
    returned,   \* what parseStmt has just returned to the topmost call
    statements, \* statements parsed so far
    scopes,     \* the scopes of C, which the code does not keep
    next,       \* the declaration of the unit to translate
    addresses,  \* variableAddressTable's keys
    functions,  \* functions_ of the module: name |-> declaration
    globals     \* the keys of globalVariables_

parserVars == <<decls, tables, depth, func, loop, spec, tu, symrefs, open, returned,
                statements, scopes>>
moduleVars == <<next, addresses, functions, globals>>
vars == <<phase, reason, parserVars, moduleVars>>

Memset == "memset"
FunctionNames == {p.name : p \in Prototypes}
Names == VarNames \cup FunctionNames \cup ToSet(Presets) \cup UNION {ToSet(p.params) : p \in Prototypes}

ASSUME DeclarationsAssumption ==
    /\ VarNames \subseteq STRING /\ Presets \in Seq(STRING)
    /\ \A p \in Prototypes : p.name \in STRING /\ p.void \in BOOLEAN /\ p.params \in Seq(STRING)
    /\ NoName \notin VarNames \cup FunctionNames \cup ToSet(Presets)
    /\ \A i, j \in DOMAIN Presets : Presets[i] = Presets[j] => i = j

EmptyTable == [n \in Names |-> None]

\* VarDecl, ParamVarDecl and FunctionDecl.  A function's items are the local
\* variables and the uses of names in its body, in the order of the text.
Declared(kind, name, extern) ==
    [kind |-> kind, name |-> name, extern |-> extern, params |-> <<>>, void |-> FALSE,
     body |-> FALSE, items |-> <<>>]
FunctionOf(proto, extern, params, body) ==
    [Declared("Function", proto.name, extern) EXCEPT !.void = proto.void, !.params = params, !.body = body]

\* addSymbol, into the innermost table.
AddSymbol(ts, name, d) == IF name = NoName THEN ts ELSE [ts EXCEPT ![Len(ts)][name] = d]

Deeper(ts) == Append(ts, EmptyTable)

\* Faulty: the outermost.
FindVarOutermost(ts, ds, name) ==
    LET found == {k \in DOMAIN ts : ts[k][name] # None /\ ds[ts[k][name]].kind # "Function"}
    IN  IF found = {} THEN None ELSE ts[CHOOSE k \in found : \A j \in found : j >= k][name]

\* findSymbol for a variable: the innermost table that has one, whatever else
\* has the name further in.
FindVar(ts, ds, name) ==
    LET IsVar(k) == ts[k][name] # None /\ ds[ts[k][name]].kind \in {"Var", "ParamVar"}
        found    == {k \in DOMAIN ts : IsVar(k)}
    IN  IF found = {} THEN None ELSE ts[CHOOSE k \in found : \A j \in found : j <= k][name]

\* findSymbol for a function: only the global table.
FindFunction(ts, ds, name) ==
    LET d == ts[1][name] IN IF d # None /\ ds[d].kind = "Function" THEN d ELSE None

\* findSymbol notes in symref_set what it found.
\* Faulty: only variables are noted.
ReferVariables(d) == symrefs \cup {x \in {d} : x # None /\ decls[x].kind # "Function"}
Refer(d) == symrefs \cup ({d} \ {None})

\* The declaration C means: the innermost of that name.
Meant(name) ==
    LET found == {k \in DOMAIN scopes : scopes[k][name] # None}
    IN  IF found = {} THEN None ELSE scopes[CHOOSE k \in found : \A j \in found : j <= k][name]

-----------------------------------------------------------------------------
(* The end of it, by Diagnosis::assert... or by an assertion. *)

Stop(how, why) ==
    /\ phase' = how
    /\ reason' = why
    /\ UNCHANGED <<parserVars, moduleVars>>

Reject(why) == Stop("rejected", <<why>>)
Undeclared(name, kind) == Stop("rejected", <<"use of undeclared identifier", name, kind>>)

Parsing == phase = "parse" /\ UNCHANGED <<phase, reason, moduleVars>>

-----------------------------------------------------------------------------
(* Statements.  `returned' is what the finished statement was, as far as   *)
(* assertWellFormedForStatement tells it; a block does not look at it.     *)

Top == Last(open)
AtStatement == phase = "parse" /\ open # <<>> /\ returned = "nothing" /\ statements < MaxStatements

\* parseStmt's argument: a declaration that is the whole branch or body of an
\* if, do or while has a block of its own.
Standalone == Top.call \in {"if", "else", "do", "while"}

Result(calls, kind) == IF Last(calls).call = "block" THEN "nothing" ELSE kind

Finish(kind) ==
    /\ open' = open
    /\ returned' = Result(open, kind)
    /\ statements' = statements + 1

\* The call on top returns, its statement finished.
Return(kind) ==
    /\ open' = Front(open)
    /\ returned' = Result(Front(open), kind)

Call(frame) ==
    /\ Len(open) < MaxNesting
    /\ open' = Append(open, frame)
    /\ returned' = "nothing"
    /\ statements' = statements + 1

Frame(call) == [call |-> call, upper |-> loop, leave |-> FALSE, wellFormed |-> TRUE]
NoLoop == [call |-> "none", at |-> 0]

Mention(d, meant) == [kind |-> decls[d].kind, decl |-> d, meant |-> meant]
Item(item) == [decls EXCEPT ![func].items = Append(@, item)]

\* The rules parseStmt gives an empty statement, an expression that mentions
\* the variable name, and one that calls the function name with argc arguments
\* (parsePrimaryExpr, parsePostfixExpr, assertWellFormedFunctionCall).
EmptyStmt ==
    /\ AtStatement /\ Parsing
    /\ Finish("simple")
    /\ UNCHANGED <<decls, tables, depth, func, loop, spec, tu, symrefs, scopes>>

UseVariable(name) ==
    /\ AtStatement
    /\ LET d == FindVar(tables, decls, name)
       IN  IF d = None THEN Undeclared(name, "Var")
           ELSE /\ Parsing
                /\ decls' = Item(Mention(d, Meant(name)))
                /\ symrefs' = Refer(d)
                /\ Finish("simple")
                /\ UNCHANGED <<tables, depth, func, loop, spec, tu, scopes>>

CallFunction(name, argc) ==
    /\ AtStatement
    /\ LET d == FindFunction(tables, decls, name)
       IN  CASE d = None -> Undeclared(name, "Function")
             [] d # None /\ Len(decls[d].params) # argc -> Reject("mismatched arguments")
             [] OTHER ->
                  /\ Parsing
                  /\ decls' = Item(Mention(d, Meant(name)))
                  /\ symrefs' = Refer(d)
                  /\ Finish("simple")
                  /\ UNCHANGED <<tables, depth, func, loop, spec, tu, scopes>>

\* parseDeclStmt with one declarator.  parseVarDef reads the initialiser, which
\* may mention init, before it knows the name.
LocalVariable(name, init) ==
    /\ AtStatement /\ Len(decls) < MaxDecls
    /\ LET d   == Len(decls) + 1
           i   == IF init = NoName THEN None ELSE FindVar(tables, decls, init)
           use == IF i = None THEN <<>> ELSE <<Mention(i, Meant(init))>>
           def == <<[kind |-> "Local", decl |-> d, meant |-> d]>>
       IN  CASE init # NoName /\ i = None -> Undeclared(init, "Var")
             [] (init = NoName \/ i # None) /\ ~Standalone /\ Last(tables)[name] # None ->
                    Reject("redefination of variable")
             [] OTHER ->
                  /\ Parsing
                  /\ decls' = Append([decls EXCEPT ![func].items = @ \o use \o def],
                                     Declared("Var", name, FALSE))
                  /\ tables' = IF Standalone THEN tables ELSE AddSymbol(tables, name, d)
                  /\ scopes' = IF Standalone THEN scopes ELSE AddSymbol(scopes, name, d)
                  /\ symrefs' = Refer(i)
                  /\ spec' = "none"
                  /\ Finish("simple")
                  /\ UNCHANGED <<depth, func, loop, tu>>

\* enterBlock and leaveBlock.
Enter ==
    /\ tables' = Deeper(tables)
    /\ depth' = depth + 1
    /\ scopes' = Append(scopes, EmptyTable)

Leave ==
    /\ tables' = Front(tables)
    /\ depth' = depth - 1

OpenBlock ==
    /\ AtStatement /\ Parsing
    /\ Call(Frame("block"))
    /\ Enter
    /\ UNCHANGED <<decls, func, loop, spec, tu, symrefs>>

CloseBlock ==
    /\ Len(open) > 1 /\ Top.call = "block" /\ Parsing
    /\ Leave
    /\ scopes' = Front(scopes)
    /\ Return("other")
    /\ UNCHANGED <<decls, func, loop, spec, tu, symrefs, statements>>

BeginIf ==
    /\ AtStatement /\ Parsing
    /\ Call(Frame("if"))
    /\ UNCHANGED <<decls, tables, depth, func, loop, spec, tu, symrefs, scopes>>

Returned(calls) == phase = "parse" /\ open # <<>> /\ Top.call \in calls /\ returned # "nothing"

Else ==
    /\ Returned({"if"}) /\ statements < MaxStatements /\ Parsing
    /\ open' = Append(Front(open), Frame("else"))
    /\ returned' = "nothing"
    /\ UNCHANGED <<decls, tables, depth, func, loop, spec, tu, symrefs, statements, scopes>>

EndIf ==
    /\ Returned({"if", "else"}) /\ Parsing
    /\ Return("other")
    /\ UNCHANGED <<decls, tables, depth, func, loop, spec, tu, symrefs, statements, scopes>>

BeginLoop(call) ==
    /\ AtStatement /\ Parsing
    /\ Call(Frame(call))
    /\ loop' = [call |-> call, at |-> Len(open) + 1]
    /\ UNCHANGED <<decls, tables, depth, func, spec, tu, symrefs, scopes>>

\* Faulty: the loop stays what it was.
UpperNotRestored == loop
Upper == Top.upper

EndLoop ==
    /\ Returned({"do", "while"}) /\ Parsing
    /\ loop' = Upper
    /\ Return("other")
    /\ UNCHANGED <<decls, tables, depth, func, spec, tu, symrefs, statements, scopes>>

BeginFor ==
    /\ AtStatement /\ Parsing
    /\ Call(Frame("for"))
    /\ Enter
    /\ UNCHANGED <<decls, func, loop, spec, tu, symrefs>>

\* assertWellFormedForStatement, whose || outweighs what comes before it.
WellFormedFor(init, increment) == init = "simple" \/ increment

\* Faulty: the for statement leaves the block in any case.
LeaveTwice(brace) == TRUE
ShouldRunLeaveBlock(brace) == ~brace

\* Between the init statement and the body: the condition, which may mention a
\* name, the increment, and whether a brace follows.  A body in braces is in the
\* scope the for statement entered and leaves it itself.
ForHeader(name, increment, brace) ==
    /\ Returned({"for"})
    /\ brace => Len(open) < MaxNesting
    /\ LET d    == IF name = NoName THEN None ELSE FindVar(tables, decls, name)
           body == [call |-> "for body", upper |-> loop, leave |-> ShouldRunLeaveBlock(brace),
                    wellFormed |-> WellFormedFor(returned, increment)]
       IN  IF name # NoName /\ d = None THEN Undeclared(name, "Var")
           ELSE /\ Parsing
                /\ decls' = IF d = None THEN decls ELSE Item(Mention(d, Meant(name)))
                /\ symrefs' = Refer(d)
                /\ open' = Append(Front(open), body) \o (IF brace THEN <<Frame("block")>> ELSE <<>>)
                /\ loop' = [call |-> "for", at |-> Len(open)]
                /\ returned' = "nothing"
                /\ scopes' = IF brace THEN Append(scopes, EmptyTable) ELSE scopes
                /\ UNCHANGED <<tables, depth, func, spec, tu, statements>>

EndFor ==
    /\ Returned({"for body"})
    /\ IF ~Top.wellFormed THEN Reject("ill-formed for statement")
       ELSE /\ Parsing
            /\ IF Top.leave THEN Leave ELSE UNCHANGED <<tables, depth>>
            /\ scopes' = Front(scopes)
            /\ loop' = Upper
            /\ Return("other")
            /\ UNCHANGED <<decls, func, spec, tu, symrefs, statements>>

\* break and continue look at cur_loop, and only a while statement will do.
LoopExit ==
    /\ AtStatement
    /\ IF loop.call # "while" THEN Reject("out of a loop")
       ELSE /\ Parsing
            /\ Finish("other")
            /\ UNCHANGED <<decls, tables, depth, func, loop, spec, tu, symrefs, scopes>>

ReturnStmt(valued) ==
    /\ AtStatement
    /\ IF valued = decls[func].void THEN Reject("return value does not fit")
       ELSE /\ Parsing
            /\ Finish("other")
            /\ UNCHANGED <<decls, tables, depth, func, loop, spec, tu, symrefs, scopes>>

-----------------------------------------------------------------------------
(* Top-level declarations. *)

AtGlobal == phase = "parse" /\ open = <<>> /\ Len(decls) < MaxDecls

Specifier(extern) == IF extern THEN "extern" ELSE "plain"

\* parseGlobalDecl's loop over declarators: `more' says a comma follows, and the
\* next declarator has the same specifiers.
GlobalVariable(name, extern, more) ==
    /\ AtGlobal
    /\ spec \in {"none", Specifier(extern)}
    /\ LET d == Len(decls) + 1
       IN  IF tables[1][name] # None THEN Reject("redefination of variable")
           ELSE /\ Parsing
                /\ decls' = Append(decls, Declared("Var", name, extern))
                /\ tables' = AddSymbol(tables, name, d)
                /\ scopes' = AddSymbol(scopes, name, d)
                /\ tu' = Append(tu, d)
                /\ spec' = IF more THEN Specifier(extern) ELSE "none"
                /\ UNCHANGED <<depth, func, loop, symrefs, open, returned, statements>>

\* FunctionProtoType::equals, which holds whenever the parameters differ in number.
SameProto(f, d) ==
    /\ d.kind = "Function"
    /\ Len(f.params) # Len(d.params) \/ f.void = d.void

\* The declaration of a function and of its parameters, which come after it.
FunctionAndParams(f, names) == <<f>> \o [k \in DOMAIN names |-> Declared("ParamVar", names[k], FALSE)]
ParamIds(names) == [k \in DOMAIN names |-> Len(decls) + 1 + k]

AddParams(ts, names) ==
    [ts EXCEPT ![Len(ts)] =
        [n \in Names |-> LET at == {k \in DOMAIN names : n # NoName /\ names[k] = n}
                         IN  IF at = {} THEN @[n] ELSE Len(decls) + 1 + Max(at)]]

\* A function without a body.  enterFunction adds the parameters to the table at
\* the top although no block was entered; a second declaration is not kept.
DeclareFunction(proto, extern) ==
    /\ AtGlobal /\ Len(decls) + Len(proto.params) < MaxDecls
    /\ spec \in {"none", Specifier(extern)}
    /\ LET d    == Len(decls) + 1
           prev == tables[1][proto.name]
           f    == FunctionOf(proto, extern, ParamIds(proto.params), FALSE)
       IN  CASE prev # None /\ ~SameProto(f, decls[prev]) -> Reject("duplicate symbol")
             [] (prev = None \/ SameProto(f, decls[prev])) /\ ~extern ->
                    Reject("missing defination of local function")
             [] OTHER ->
                  /\ Parsing
                  /\ decls' = decls \o FunctionAndParams(f, proto.params)
                  /\ tables' = AddParams(IF prev = None THEN AddSymbol(tables, proto.name, d) ELSE tables,
                                         proto.params)
                  /\ scopes' = IF prev = None THEN AddSymbol(scopes, proto.name, d) ELSE scopes
                  /\ tu' = IF prev = None THEN Append(tu, d) ELSE tu
                  /\ spec' = "none"
                  /\ UNCHANGED <<depth, func, loop, symrefs, open, returned, statements>>

\* What removeFromList leaves of a list.
Remaining(s, gone) ==
    LET upTo[i \in 0 .. Len(s)] ==
            IF i = 0 THEN <<>> ELSE IF s[i] \in gone THEN upTo[i - 1] ELSE Append(upTo[i - 1], s[i])
    IN  upTo[Len(s)]

\* Faulty: the declaration stays.
KeepInUnit(d) == tu
RemoveFromUnit(d) == Remaining(tu, {d})

\* A definition up to its opening brace.  It takes the place of an earlier
\* declaration in the table, and parseGlobalDecl will put it at the unit's tail.
BeginFunction(proto, extern) ==
    /\ AtGlobal /\ Len(decls) + Len(proto.params) < MaxDecls
    /\ spec \in {"none", Specifier(extern)}
    /\ LET d    == Len(decls) + 1
           prev == tables[1][proto.name]
           f    == FunctionOf(proto, extern, ParamIds(proto.params), TRUE)
       IN  IF prev # None /\ (~SameProto(f, decls[prev]) \/ decls[prev].body)
           THEN Reject("duplicate symbol")
           ELSE /\ Parsing
                /\ decls' = decls \o FunctionAndParams(f, proto.params)
                /\ tables' = AddParams(Deeper(AddSymbol(tables, proto.name, d)), proto.params)
                /\ scopes' = AddParams(Append(AddSymbol(scopes, proto.name, d), EmptyTable), proto.params)
                /\ tu' = RemoveFromUnit(prev)
                /\ depth' = depth + 1
                /\ func' = d
                /\ open' = <<Frame("block")>>
                /\ UNCHANGED <<loop, spec, symrefs, returned, statements>>

\* The body's closing brace, leaveFunction and the rest of parseGlobalDecl.
EndFunction ==
    /\ phase = "parse" /\ Len(open) = 1 /\ Top.call = "block"
    /\ Parsing
    /\ Leave
    /\ scopes' = Front(scopes)
    /\ decls' = [decls EXCEPT ![func].extern = FALSE]
    /\ tu' = Append(tu, func)
    /\ func' = None
    /\ open' = <<>>
    /\ spec' = "none"
    /\ UNCHANGED <<loop, symrefs, returned, statements>>

\* The end of the text: dropUnusedExternalSymbols.
EndText ==
    /\ phase = "parse" /\ open = <<>> /\ spec = "none"
    /\ phase' = "translate"
    /\ tu' = Remaining(tu, {d \in DOMAIN decls : d \notin symrefs /\ decls[d].extern})
    /\ UNCHANGED <<reason, decls, tables, depth, func, loop, spec, symrefs, open, returned,
                   statements, scopes, moduleVars>>

-----------------------------------------------------------------------------
(* ASTToIRTranslator::translate, one declaration of the unit at a time. *)

Builtin == -1           \* the module's own memset, of a type no text can write

Translated == phase' = IF next = Len(tu) THEN "done" ELSE "translate"

Abort(why) == Stop("aborted", <<why, tu[next]>>)

\* translateVarDecl and Module::acceptGlobalVariable.
TranslateVar ==
    /\ phase = "translate" /\ next <= Len(tu) /\ decls[tu[next]].kind = "Var"
    /\ IF decls[tu[next]].name \in globals THEN Abort("accepted")
       ELSE /\ Translated
            /\ addresses' = addresses \cup {tu[next]}
            /\ globals' = globals \cup {decls[tu[next]].name}
            /\ next' = next + 1
            /\ UNCHANGED <<reason, parserVars, functions>>

\* What translateDeclRefExpr finds for a function: the one being translated or
\* one the module has.
Callee(d, name) == IF decls[d].name = name THEN d ELSE functions[name]

Parameters(d) == {p \in ToSet(decls[d].params) : decls[p].name # NoName}
LocalsBefore(d, k) == {decls[d].items[j].decl : j \in {i \in 1..(k - 1) : decls[d].items[i].kind = "Local"}}

\* The assertion the k-th item of the body of d fails, if any.
Failure(d, k) ==
    LET item == decls[d].items[k]
        name == decls[item.decl].name
        fn   == Callee(d, name)
    IN  CASE item.kind = "Function" /\ fn = None -> "func != nullptr"
          [] item.kind = "Function" /\ fn # None
               /\ (fn = Builtin \/ Len(decls[fn].params) # Len(decls[item.decl].params)) ->
                 "totalParams() == argList.size()"
          [] item.kind \in {"Var", "ParamVar"}
               /\ item.decl \notin addresses \cup Parameters(d) \cup LocalsBefore(d, k) ->
                 "variableAddressTable.count(decl) == 1"
          [] OTHER -> "none"

\* Module::acceptFunction: a definition replaces a declaration of the same type.
Accepted(d) ==
    LET prev == functions[decls[d].name]
    IN  \/ prev = None
        \/ /\ prev # Builtin /\ ~decls[prev].body /\ decls[d].body
           /\ Len(decls[prev].params) = Len(decls[d].params) /\ decls[prev].void = decls[d].void

\* translateFunctionDecl.
TranslateFunction ==
    /\ phase = "translate" /\ next <= Len(tu) /\ decls[tu[next]].kind = "Function"
    /\ LET d      == tu[next]
           failed == {k \in DOMAIN decls[d].items : Failure(d, k) # "none"}
       IN  IF failed # {}
           THEN Abort(Failure(d, CHOOSE k \in failed : \A j \in failed : k <= j))
           ELSE IF ~Accepted(d) THEN Abort("accepted")
           ELSE /\ Translated
                /\ addresses' = addresses \cup LocalsBefore(d, Len(decls[d].items) + 1)
                                  \cup (IF decls[d].body THEN Parameters(d) ELSE {})
                /\ functions' = [functions EXCEPT ![decls[d].name] = d]
                /\ next' = next + 1
                /\ UNCHANGED <<reason, parserVars, globals>>

-----------------------------------------------------------------------------
\* addPresetSymbols; the module is created with its memset.
Preset(name) == FunctionOf([name |-> name, void |-> FALSE], TRUE, <<>>, FALSE)

PresetTable ==
    <<[n \in Names |-> LET at == {k \in DOMAIN Presets : Presets[k] = n}
                       IN  IF at = {} THEN None ELSE Max(at)]>>

Init ==
    /\ phase = "parse" /\ reason = <<>>
    /\ decls = [k \in DOMAIN Presets |-> Preset(Presets[k])]
    /\ tables = PresetTable /\ scopes = PresetTable
    /\ depth = 0 /\ func = None /\ loop = NoLoop /\ spec = "none"
    /\ tu = [k \in DOMAIN Presets |-> k]
    /\ symrefs = {} /\ open = <<>> /\ returned = "nothing" /\ statements = 0
    /\ next = 1 /\ addresses = {} /\ globals = {}
    /\ functions = [n \in Names \cup {Memset} |-> IF n = Memset THEN Builtin ELSE None]

Statement ==
    \/ EmptyStmt \/ OpenBlock \/ CloseBlock \/ BeginIf \/ Else \/ EndIf \/ EndLoop
    \/ BeginFor \/ EndFor \/ LoopExit
    \/ \E call \in {"do", "while"} : BeginLoop(call)
    \/ \E v \in BOOLEAN : ReturnStmt(v)
    \/ \E n \in VarNames : UseVariable(n)
    \/ \E n \in FunctionNames, argc \in 0..1 : CallFunction(n, argc)
    \/ \E n \in VarNames, i \in VarNames \cup {NoName} : LocalVariable(n, i)
    \/ \E n \in VarNames \cup {NoName}, increment, brace \in BOOLEAN : ForHeader(n, increment, brace)

Declaration ==
    \/ \E n \in VarNames, extern, more \in BOOLEAN : GlobalVariable(n, extern, more)
    \/ \E p \in Prototypes, extern \in BOOLEAN : DeclareFunction(p, extern) \/ BeginFunction(p, extern)
    \/ EndFunction \/ EndText

Next == Statement \/ Declaration \/ TranslateVar \/ TranslateFunction

Spec == Init /\ [][Next]_vars

-----------------------------------------------------------------------------
(* Properties. *)

TypeOK ==
    /\ phase \in {"parse", "translate", "done", "rejected", "aborted"}
    /\ \A t \in {tables, scopes} :
          \A k \in DOMAIN t : DOMAIN t[k] = Names /\ \A n \in Names : t[k][n] \in 0 .. Len(decls)
    /\ depth \in Nat
    /\ ToSet(tu) \cup symrefs \cup addresses \subseteq DOMAIN decls

\* The symbol tables stand and fall with the blocks of the text: one more table
\* than cur_depth (the assertion of addSymbol), none but the global one between two
\* declarations, and as many as C has scopes, but for the body of a for statement,
\* which shares its header's.
SharedBodies ==
    {k \in DOMAIN open : open[k].call = "for body" /\ ~open[k].leave}
TablesFollowBlocks ==
    phase = "parse" =>
        /\ Len(tables) = depth + 1
        /\ open = <<>> => depth = 0 /\ loop = NoLoop /\ func = None
        /\ Len(tables) = Len(scopes) - Cardinality(SharedBodies)

\* cur_loop is the innermost loop whose body is being parsed, however the bodies
\* before it ended: what break and continue are tied to.
Bodies == {k \in DOMAIN open : open[k].call \in {"do", "while", "for body"}}
LoopIsInnermost ==
    phase = "parse" =>
        IF Bodies = {} THEN loop = NoLoop
        ELSE LET k == CHOOSE k \in Bodies : \A j \in Bodies : j <= k
             IN  loop = [call |-> IF open[k].call = "for body" THEN "for" ELSE open[k].call, at |-> k]

\* Names that the parameters of a bodyless function have put into the global table
\* (README, "Known defects").
LeakedBy(f) == IF decls[f].kind = "Function" /\ ~decls[f].body THEN ToSet(decls[f].params) ELSE {}
Leaked == UNION {LeakedBy(f) : f \in DOMAIN decls}
LeakedNames == {decls[p].name : p \in Leaked}

\* A use of a name is a use of the declaration C's scopes give it, and a name they
\* give a declaration to is not reported as undeclared.  A call may look past a
\* local variable of the function's name, which C would not accept.
Mentions == UNION {ToSet(decls[f].items) : f \in DOMAIN decls}
LookupsFollowScopes ==
    /\ \A m \in Mentions :
          \/ m.decl = m.meant
          \/ m.kind = "Function" /\ m.meant # None /\ decls[m.meant].kind # "Function"
          \/ decls[m.decl].name \in LeakedNames
    /\ phase = "rejected" /\ reason[1] = "use of undeclared identifier" =>
          LET d == Meant(reason[2])
          IN  \/ d = None \/ reason[2] \in LeakedNames
              \/ (decls[d].kind = "Function") # (reason[3] = "Function")

\* "assume that the input AST is regulated": the unit the parser hands over has
\* nothing twice, and every function without a body in it is external and used.
UnitIsRegulated ==
    /\ TypeOK
    /\ phase # "parse" /\ phase # "rejected" =>
        /\ \A i, j \in DOMAIN tu : i # j => decls[tu[i]].name # decls[tu[j]].name
        /\ \A i \in DOMAIN tu : decls[tu[i]].kind = "Function" /\ ~decls[tu[i]].body =>
               decls[tu[i]].extern /\ tu[i] \in symrefs

\* When the translator's assertions stop an accepted text, it is for one of three
\* things the parser lets through: a call of a function that was declared first and
\* is defined further down, a name a prototype's parameter took over, and a
\* function of the text's own named memset, at its declaration or at a call before it.
CallsMemset(d) == \E m \in ToSet(decls[d].items) : m.kind = "Function" /\ decls[m.decl].name = Memset
AbortExplained ==
    phase = "aborted" =>
        CASE reason[1] = "func != nullptr" ->
               \E k \in next .. Len(tu) : k # next /\ decls[tu[k]].body
                   /\ \E m \in ToSet(decls[tu[next]].items) :
                         /\ m.kind = "Function" /\ ~decls[m.decl].body
                         /\ decls[m.decl].name = decls[tu[k]].name
          [] reason[1] = "variableAddressTable.count(decl) == 1" ->
               \E m \in ToSet(decls[tu[next]].items) : m.decl \in Leaked
          [] reason[1] = "accepted" -> decls[tu[next]].name = Memset
          [] OTHER -> CallsMemset(tu[next])

\* translateDeclRefExpr asserts that the module knows a function that is called.
CalleesAreKnown == phase = "aborted" => reason[1] # "func != nullptr"

=============================================================================
