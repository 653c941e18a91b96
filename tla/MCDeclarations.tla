--------------------------- MODULE MCDeclarations ---------------------------
(***************************************************************************)
(* Model checking of Declarations: all texts of a few declarations.        *)
(***************************************************************************)
EXTENDS Declarations

Proto(name, void, params) == [name |-> name, void |-> void, params |-> params]

MCVars == {"x", "f"}
MCPresets == <<"getint">>
\* A function that is declared with and without its parameter, a library function
\* the text may define itself, and the name the module keeps for itself.
MCPrototypes == {Proto("f", FALSE, <<>>), Proto("f", FALSE, <<"x">>),
                 Proto("getint", FALSE, <<NoName>>), Proto("memset", TRUE, <<>>)}
=============================================================================
