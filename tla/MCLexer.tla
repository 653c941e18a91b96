------------------------------ MODULE MCLexer ------------------------------
(***************************************************************************)
(* Every file over a few alphabets, each chosen so that one group of rules *)
(* of the lexer meets its neighbours.                                      *)
(***************************************************************************)
EXTENDS Lexer

Files(alphabet, n) == UNION {[1..k -> alphabet] : k \in 0..n}

MCSources ==
  Files({"/", "*", "\n", "a"}, 5)
    \cup Files({"<", ">", "=", "|", "&", "!"}, 3)
    \cup Files({"0", "x", "e", "p", "+", "."}, 4)
    \cup Files({"1", "8", "u", "l", "d", "o", "_"}, 3)
    \cup Files({"\n", "\r", " ", "a"}, 5)
    \cup Files({"\"", "\\", "n", "\n"}, 4)
    \cup {<<"\"">> \o s \o <<"\"">> : s \in Files({"\\", "3", "7", "x"}, 5) \cup Files({"\\", "0", "n"}, 4)}
    \cup Files({"starttime()", "stoptime()", ";", "\n"}, 4)
=============================================================================
