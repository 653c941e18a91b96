------------------------------- MODULE Lexer -------------------------------
(***************************************************************************)
(* The front of slimec: InputStreamTransformer (lex/preproc.cpp) turns the *)
(* file into a stream of characters, LexState (lex/lex.cpp) turns it into  *)
(* tokens, and Lexer (lex/lexer.h) hides the comments from the parser,     *)
(* which may ask for one token of lookahead at any time.                   *)
(*                                                                         *)
(* A character is a one-letter string.  A source file is a sequence of     *)
(* characters in which a call of a timing macro is one element.            *)
(***************************************************************************)
EXTENDS Integers, Sequences, SequencesExt, FiniteSetsExt, TLC

CONSTANT Sources        \* the source files tried

VARIABLES
  text,                 \* what InputStreamTransformer::get yields before EOF
  pos,                  \* index of LexState::cur; 0 before the first character
  line, column,         \* where the lexer believes cur to be
  token, nexttoken,     \* current token and lookahead
  client,               \* "parser", or "printer" for --lex-only
  given,                \* history: the tokens the client has been given
  crossed               \* history: a lookahead has passed a line break

vars == <<text, pos, line, column, token, nexttoken, client, given, crossed>>

-----------------------------------------------------------------------------
(* Characters *)

Digit == {"0", "1", "2", "3", "4", "5", "6", "7", "8", "9"}
Octal == {"0", "1", "2", "3", "4", "5", "6", "7"}
Letter == {"_", "a", "b", "d", "e", "f", "i", "l", "n", "o", "p", "s", "u", "x"}
AlNum == Digit \cup (Letter \ {"_"})
NewLine == {"\n", "\r"}
Blank == {" ", "\t", "\n", "\r", "NUL"}
EOF == "EOF"

At(i) == IF i = 0 THEN "NUL" ELSE IF i <= Len(text) THEN text[i] ELSE EOF

(* The first position from i on whose character is not in S: a loop of next(ls). *)
Past(i, S) == Min({j \in i..(Len(text) + 1) : At(j) \notin S})
(* The first position from i on whose character is in S, or the end. *)
Until(i, S) == Min({j \in i..(Len(text) + 1) : At(j) \in S \cup {EOF}})

-----------------------------------------------------------------------------
(* InputStreamTransformer *)

Macros == [c \in {"starttime()", "stoptime()"} |->
             IF c = "starttime()" THEN [width |-> 11, name |-> <<"s", "t">>]
                                  ELSE [width |-> 10, name |-> <<"s", "p">>]]
Width(c) == IF c \in DOMAIN Macros THEN Macros[c].width ELSE 1

(* A line is short when its length, before the line break, is below 12. *)
LineAround(src, i) == {j \in DOMAIN src : \A k \in Min({i, j})..Max({i, j}) : src[k] # "\n"}
\* Faulty: lines are counted from zero.
LineNumberFromZero(src, i) == Cardinality({j \in 1..(i - 1) : src[j] = "\n"})

LineNumber(src, i) == 1 + Cardinality({j \in 1..(i - 1) : src[j] = "\n"})
LongLine(src, i) ==
  FoldSet(LAMBDA j, n : n + Width(src[j]), 0, LineAround(src, i)) >= 12

(* A macro call becomes a call of the library with the line number as its   *)
(* argument, in a long line; in a short one it is left as it is.            *)
Transform(src, i) ==
  IF src[i] \notin DOMAIN Macros THEN <<src[i]>>
  ELSE IF LongLine(src, i)
       THEN <<"_">> \o Macros[src[i]].name \o <<"(", ToString(LineNumber(src, i)), ")">>
       ELSE Macros[src[i]].name \o <<"(", ")">>

(* Every line, the last one included, gets a line break. *)
Stream(src) == FlattenSeq([i \in DOMAIN src |-> Transform(src, i)]) \o <<"\n">>

-----------------------------------------------------------------------------
(* lex(): each operator gives the position after the token that starts at i *)

CloserAfter(i) == {j \in (i + 1)..Len(text) : At(j - 1) = "*" /\ At(j) = "/"}
BlockCommentEnd(i) ==
  IF CloserAfter(i + 2) = {} THEN Len(text) + 1 ELSE Min(CloserAfter(i + 2)) + 1

(* The quote that ends a string is the first one: the loop has a flag for   *)
(* an escaped character and never sets it.                                  *)
StringEnd(i) ==
  LET e == Until(i + 1, NewLine \cup {"\""}) IN IF At(e) = "\"" THEN e + 1 ELSE e

NumberEnd(i) ==
  LET hex == At(i) = "0" /\ At(i + 1) \in {"x", "X"}
      exp == IF hex THEN {"p", "P"} ELSE {"e", "E"}
      end[j \in i..(Len(text) + 1)] ==
        IF At(j) \in exp THEN end[IF At(j + 1) \in {"+", "-"} THEN j + 2 ELSE j + 1]
        ELSE IF At(j) \in AlNum \cup {"."} THEN end[j + 1]
        ELSE j
  IN  end[IF hex THEN i + 2 ELSE i]

(* The second character of each operator of two characters. *)
Second(c) ==
  CASE c \in {"=", "!"} -> {"="}
    [] c \in {"<", ">"} -> {"=", c}
    [] c \in {"|", "&"} -> {c}
    [] OTHER -> {}

TokenEnd(i) ==
  CASE At(i) = EOF -> i
    [] At(i) = "/" /\ At(i + 1) = "/" -> Until(i + 2, NewLine)
    [] At(i) = "/" /\ At(i + 1) = "*" -> BlockCommentEnd(i)
    [] At(i) = "\"" -> StringEnd(i)
    [] At(i) \in Digit \cup {"."} -> NumberEnd(i)
    [] At(i) \in Letter -> Past(i + 1, AlNum \cup {"_"})
    [] OTHER -> IF At(i + 1) \in Second(At(i)) THEN i + 2 ELSE i + 1

(* to_reserved: the spellings tok2str gives the reserved tokens. *)
Reserved ==
  {"void", "int", "float", "char", "const", "static", "inline", "extern", "if", "else", "for",
   "do", "while", "switch", "case", "default", "break", "continue", "return"}
Spelling(i, j) == FoldLeft(LAMBDA s, c : s \o c, "", SubSeq(text, i, j - 1))

(* isintval: digits of a base, then a suffix. *)
IntDigits(s) ==
  \/ s[1] = "0" /\ \A k \in DOMAIN s : s[k] \in Octal
  \/ s[1] \in Digit \ {"0"} /\ \A k \in DOMAIN s : s[k] \in Digit
  \/ /\ Len(s) > 2 /\ s[1] = "0" /\ s[2] \in {"x", "X"}
     /\ \A k \in 3..Len(s) : s[k] \in Digit \cup {"a", "b", "c", "d", "e", "f"}
IntSuffixes == {<<>>, <<"u">>, <<"u", "l">>, <<"u", "l", "l">>, <<"l">>, <<"l", "l">>,
                <<"l", "u">>, <<"l", "l", "u">>}
IsIntVal(s) ==
  \E k \in 1..Len(s) : IntDigits(SubSeq(s, 1, k)) /\ SubSeq(s, k + 1, Len(s)) \in IntSuffixes

TokenId(i, j) ==
  CASE At(i) = EOF -> "EOF"
    [] At(i) = "/" /\ At(i + 1) = "/" -> "COMMENT"
    [] At(i) = "/" /\ At(i + 1) = "*" -> "MLCOMMENT"
    [] At(i) = "\"" -> "STRING"
    [] At(i) \in Digit \cup {"."} ->
         IF IsIntVal(SubSeq(text, i, j - 1)) THEN "INTVAL" ELSE "FLTVAL"
    [] At(i) \in Letter /\ Spelling(i, j) \notin Reserved -> "IDENT"
    [] OTHER -> Spelling(i, j)

None == [id |-> "NONE", from |-> 0, to |-> 0]
TokenAt(i) == [id |-> TokenId(i, TokenEnd(i)), from |-> i, to |-> TokenEnd(i)]
Lex(p) == TokenAt(Past(p, Blank))

IsDiscard(t) == t.id \in {"COMMENT", "MLCOMMENT"}
(* The token the loop `do ... while (isDiscard(...))` stops at. *)
Significant(p) ==
  LET from[q \in 0..(Len(text) + 1)] == IF IsDiscard(Lex(q)) THEN from[Lex(q).to] ELSE Lex(q)
  IN  from[p]

-----------------------------------------------------------------------------
(* try_escape: the characters of a string constant; an escape sequence      *)
(* stands for a control character or for a byte                             *)

Plain(c) == <<"char", c>>
Control(c) == <<"control", c>>
Byte(n) == <<"byte", n>>

SimpleEscapes == {"'", "\"", "?", "\\", "a", "b", "f", "n", "r", "t", "v"}
Hex == <<"0", "1", "2", "3", "4", "5", "6", "7", "8", "9", "a", "b", "c", "d", "e", "f">>
DigitValue(c) == (CHOOSE n \in DOMAIN Hex : Hex[n] = c) - 1
Value(digits, base) == FoldLeft(LAMBDA v, c : v * base + DigitValue(c), 0, digits)
\* Faulty: one digit too many is read.
DigitsAtOneMore(s, i, n, S) ==
  SubSeq(s, i, Min({j \in i..(i + n + 1) : j = i + n + 1 \/ j > Len(s) \/ s[j] \notin S}) - 1)

(* The digits of S that follow position i of s, at most n of them. *)
DigitsAt(s, i, n, S) ==
  SubSeq(s, i, Min({j \in i..(i + n) : j = i + n \/ j > Len(s) \/ s[j] \notin S}) - 1)
OctalAt(s, i) == DigitsAt(s, i, 3, Octal)
HexAt(s, i) == DigitsAt(s, i, 2, Range(Hex))

OctalByte(digits) == Byte(Value(digits, 8) % 255)

Escape(s) ==
  LET chars[i \in 1..(Len(s) + 2)] ==
    CASE i > Len(s) -> <<>>
      [] i <= Len(s) /\ (s[i] # "\\" \/ i = Len(s)) -> <<Plain(s[i])>> \o chars[i + 1]
      [] i < Len(s) /\ s[i] = "\\" ->
           CASE s[i + 1] \in SimpleEscapes -> <<Control(s[i + 1])>> \o chars[i + 2]
             [] s[i + 1] \in Octal ->
                  <<OctalByte(OctalAt(s, i + 1))>> \o chars[i + 1 + Len(OctalAt(s, i + 1))]
             [] s[i + 1] = "x" ->
                  <<Byte(Value(HexAt(s, i + 2), 16))>>
                    \o chars[i + 2 + Len(HexAt(s, i + 2))]
             [] OTHER -> <<Plain(s[i + 1])>> \o chars[i + 2]
  IN  chars[1]

(* The characters of a string token that reach try_escape. *)
Raw(t) ==
  SubSeq(text, t.from + 1, IF At(t.to - 1) = "\"" /\ t.to - 1 > t.from THEN t.to - 2 ELSE t.to - 1)

(* The constant a string token carries ends at its first zero byte. *)
UpToZero(chars) ==
  LET zeros == {k \in DOMAIN chars : chars[k] = Byte(0)}
  IN  IF zeros = {} THEN chars ELSE SubSeq(chars, 1, Min(zeros) - 1)
Detail(t) == UpToZero(Escape(Raw(t)))

-----------------------------------------------------------------------------
(* Positions: next() counts columns, into_newline() counts lines *)

\* Faulty: both halves of a pair count.
BreakStartsUnpaired(p, q) == {i \in p..(q - 1) : At(i) \in NewLine}

(* The second half of a "\r\n" or "\n\r" pair belongs to the break before it. *)
BreakStarts(p, q) ==
  LET second[i \in 0..Len(text)] ==
        /\ i > 1 /\ At(i) \in NewLine /\ At(i - 1) \in NewLine /\ At(i) # At(i - 1)
        /\ ~second[i - 1]
  IN  {i \in p..(q - 1) : At(i) \in NewLine /\ ~second[i]}
LineAfter(p, q, l) == l + Cardinality(BreakStarts(p, q))
ColumnAfter(p, q, c) ==
  LET breaks == {i \in p..(q - 1) : At(i) \in NewLine}
  IN  IF breaks = {} THEN c + (q - p) ELSE q - Max(breaks)

-----------------------------------------------------------------------------
(* The operations *)

(* Moving to position q by next() and into_newline(). *)
MoveTo(q) ==
  /\ pos' = q
  /\ line' = LineAfter(pos, q, line)
  /\ column' = ColumnAfter(pos, q, column)

Take(t) == token' = t /\ given' = Append(given, t)

(* Lexer::reset leaves the first token, a comment too, as the current one. *)
Init ==
  /\ \E src \in Sources : text = Stream(src)
  /\ token = Lex(0)
  /\ pos = token.to
  /\ line = LineAfter(0, token.to, 1)
  /\ column = ColumnAfter(0, token.to, 0)
  /\ nexttoken = None
  /\ client \in {"parser", "printer"}
  /\ given = IF client = "parser" /\ IsDiscard(token) THEN <<>> ELSE <<token>>
  /\ crossed = FALSE

AtEnd == token.id = "EOF"

(* Lexer::next without a lookahead; also what Parser::parse does to a       *)
(* comment that reset has left.                                             *)
NextLexed ==
  /\ client = "parser" /\ ~AtEnd /\ nexttoken = None
  /\ Take(Significant(pos))
  /\ MoveTo(token'.to)
  /\ UNCHANGED <<text, nexttoken, client, crossed>>

(* Lexer::next after a lookahead: the characters are already consumed. *)
NextSeen ==
  /\ client = "parser" /\ nexttoken # None
  /\ Take(nexttoken)
  /\ nexttoken' = None
  /\ UNCHANGED <<text, pos, line, column, client, crossed>>

\* Faulty: the lookahead may be a comment.
LookAheadAny ==
  /\ client = "parser" /\ given # <<>> /\ ~AtEnd /\ nexttoken = None
  /\ nexttoken' = Lex(pos)
  /\ pos' = nexttoken'.to
  /\ crossed' = (crossed \/ BreakStarts(pos, pos') # {})
  /\ UNCHANGED <<text, line, column, token, client, given>>

(* Lexer::lookahead: the characters are consumed, line and column are put   *)
(* back to what they were before.                                           *)
LookAhead ==
  /\ client = "parser" /\ given # <<>> /\ ~AtEnd /\ nexttoken = None
  /\ nexttoken' = Significant(pos)
  /\ pos' = nexttoken'.to
  /\ crossed' = (crossed \/ BreakStarts(pos, pos') # {})
  /\ UNCHANGED <<text, line, column, token, client, given>>

(* Lexer::exact_next, for a client that wants the comments too. *)
ExactNext ==
  /\ client = "printer" /\ ~AtEnd
  /\ Take(Lex(pos))
  /\ MoveTo(token'.to)
  /\ UNCHANGED <<text, nexttoken, client, crossed>>

Next == NextLexed \/ NextSeen \/ LookAhead \/ ExactNext

Spec == Init /\ [][Next]_vars

-----------------------------------------------------------------------------
(* What a token is, said without saying how it is found *)

Chars(s) == {s[k] : k \in DOMAIN s}
Starts(s, p) == Len(s) >= Len(p) /\ SubSeq(s, 1, Len(p)) = p
Ends(s, p) == Len(s) >= Len(p) /\ SubSeq(s, Len(s) - Len(p) + 1, Len(s)) = p
Inner(s) == SubSeq(s, 2, Len(s) - 1)

IsWord(s) == s[1] \in Letter /\ Chars(s) \subseteq AlNum \cup {"_"}
IsOperator(s) ==
  s \in {<<"=", "=">>, <<"!", "=">>, <<"<", "=">>, <<">", "=">>, <<"|", "|">>, <<"&", "&">>,
         <<"<", "<">>, <<">", ">">>}
IsNumber(s) ==
  LET exp == IF Starts(s, <<"0", "x">>) THEN "p" ELSE "e"
  IN  /\ s[1] \in Digit \cup {"."}
      /\ Chars(s) \subseteq AlNum \cup {".", "+", "-"}
      /\ \A k \in DOMAIN s : s[k] \in {"+", "-"} => s[k - 1] = exp
IsLineComment(s) == Starts(s, <<"/", "/">>) /\ Chars(s) \cap NewLine = {}
IsBlockComment(s, last) ==
  /\ Starts(s, <<"/", "*">>)
  /\ \A k \in 3..(Len(s) - 2) : SubSeq(s, k, k + 1) # <<"*", "/">>
  /\ last \/ (Len(s) >= 4 /\ Ends(s, <<"*", "/">>))
IsString(s) ==
  /\ s[1] = "\"" /\ Chars(s) \cap NewLine = {}
  /\ "\"" \notin Chars(Inner(s))
IsLexeme(s, last) ==
  \/ Len(s) = 1 /\ s[1] \notin Blank
  \/ IsWord(s) \/ IsOperator(s) \/ IsNumber(s) \/ IsLineComment(s)
  \/ IsBlockComment(s, last) \/ IsString(s)

(* The longest lexeme at each position, as the tokens of the whole text. *)
LongestEnd(i) ==
  Max({j \in (i + 1)..(Len(text) + 1) :
         IsLexeme(SubSeq(text, i, j - 1), j = Len(text) + 1)})
Spans ==
  LET from[i \in 1..(Len(text) + 1)] ==
    IF i > Len(text) THEN <<<<i, i>>>>
    ELSE IF text[i] \in Blank THEN from[i + 1]
    ELSE <<<<i, LongestEnd(i)>>>> \o from[LongestEnd(i)]
  IN  from[1]
IsComment(span) == span[2] - span[1] >= 2 /\ SubSeq(text, span[1], span[1] + 1) \in
                     {<<"/", "/">>, <<"/", "*">>}
Expected == IF client = "printer" THEN Spans ELSE SelectSeq(Spans, LAMBDA p : ~IsComment(p))

(* The line and column of a position, reading the text from its start. *)
TruePosition(p) ==
  FoldLeft(LAMBDA a, c :
             IF c \in NewLine
             THEN IF a.open \in NewLine /\ a.open # c
                  THEN [a EXCEPT !.open = " ", !.column = 1]
                  ELSE [line |-> a.line + 1, column |-> 1, open |-> c]
             ELSE [a EXCEPT !.open = " ", !.column = @ + 1],
           [line |-> 1, column |-> 1, open |-> " "], SubSeq(text, 1, p - 1))

(* An escape sequence, and what it stands for in C. *)
IsUnit(s, last) ==
  \/ Len(s) = 1 /\ (s[1] # "\\" \/ last)
  \/ Len(s) = 2 /\ s[1] = "\\"
  \/ Len(s) \in 2..4 /\ s[1] = "\\" /\ \A k \in 2..Len(s) : s[k] \in Octal
  \/ Len(s) \in 2..4 /\ Starts(s, <<"\\", "x">>) /\ \A k \in 3..Len(s) : s[k] \in Range(Hex)
Meaning(u) ==
  CASE Len(u) = 1 -> Plain(u[1])
    [] Len(u) > 1 /\ u[2] \in Octal -> Byte(Value(Tail(u), 8))
    [] Len(u) > 1 /\ u[2] = "x" -> Byte(Value(SubSeq(u, 3, Len(u)), 16))
    [] Len(u) = 2 /\ u[2] \in SimpleEscapes -> Control(u[2])
    [] OTHER -> Plain(u[2])
Meanings(s) ==
  LET end(i) == Max({j \in i..Len(s) : IsUnit(SubSeq(s, i, j), j = Len(s))})
      from[i \in 1..(Len(s) + 1)] ==
        IF i > Len(s) THEN <<>> ELSE <<Meaning(SubSeq(s, i, end(i)))>> \o from[end(i) + 1]
  IN  from[1]

-----------------------------------------------------------------------------
(* Properties *)

(* Whatever the order in which the parser mixes next() and lookahead(), it  *)
(* is given the longest lexemes of the text, each once, in order and        *)
(* without the comments; the token printer is given the comments too.       *)
TokensAreTheLongest ==
  LET spans == [k \in DOMAIN given |-> <<given[k].from, given[k].to>>]
      seen == IF nexttoken = None THEN spans ELSE Append(spans, <<nexttoken.from, nexttoken.to>>)
  IN  IsPrefix(seen, Expected)

(* A timing macro in a long line of a file with "\n" line breaks is         *)
(* delivered as a call whose argument is the line the call is on, counted   *)
(* by the lexer's own rule.                                                 *)
MacroLineAgrees ==
  "\r" \notin Chars(text) =>
    \A k \in DOMAIN given :
      (/\ k > 2 /\ given[k].id = "INTVAL"
       /\ SubSeq(text, given[k - 2].from, given[k - 2].to - 1)
            \in {<<"_", "s", "t">>, <<"_", "s", "p">>})
      => Spelling(given[k].from, given[k].to) = ToString(TruePosition(given[k].from).line)

(* The line an error message shows is never beyond the character it is      *)
(* about, and is its line as long as no lookahead has passed a line break;  *)
(* a client that never looks ahead gets the right column too, and a timing  *)
(* macro the line it is on.                                                 *)
PositionsRight ==
  LET t == TruePosition(pos)
  IN  /\ line <= t.line
      /\ crossed \/ line = t.line
      /\ client = "printer" => column = t.column
      /\ MacroLineAgrees

(* The constant of a string token is what its escape sequences mean in C,   *)
(* unless one of them is an octal byte of 255 or more: `value % 0xff` makes *)
(* a zero of 255, and the zero ends the string.                             *)
StringsDecode ==
  \A k \in DOMAIN given :
    LET meant == Meanings(Raw(given[k]))
    IN  (/\ given[k].id = "STRING"
         /\ \A j \in DOMAIN meant : \A n \in 255..511 : meant[j] # Byte(n))
        => Detail(given[k]) = UpToZero(meant)

=============================================================================
