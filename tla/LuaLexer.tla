------------------------------ MODULE LuaLexer ------------------------------
(***************************************************************************)
(* The lexical analyzer of the Lua interpreter in the pgo lab (llex.c): the*)
(* next token of a text, its content and the line it ends on.              *)
(*                                                                         *)
(* ls is what the analyzer keeps: i, the position of ls->current in the    *)
(* text src, line and buff, the text saved.  A reading gives the same with *)
(* tok, which is "error" when luaX_lexerror was called.                    *)
(***************************************************************************)
EXTENDS Integers, Sequences, SequencesExt

CONSTANTS Letters,       \* characters that are alphabetic
          Numerals,      \* those that are digits
          NL, CR, Zero,  \* \n, \r and \0
          DigitOf,       \* digit -> its number
          Reserved,      \* the words that are no names
          UCHAR_MAX

EOZ == "EOZ"
Current(src, i) == IF i <= Len(src) THEN src[i] ELSE EOZ
IsNewline(c) == c \in {NL, CR}

\* save and next
Save(ls, c)       == [ls EXCEPT !.buff = Append(@, c)]
Skip(ls, n)       == [ls EXCEPT !.i = @ + n]
SaveAndNext(src, ls) == [ls EXCEPT !.i = @ + 1, !.buff = Append(@, src[ls.i])]
Token(ls, tok)    == [tok |-> tok, text |-> ls.buff, i |-> ls.i, line |-> ls.line]
LexError(ls)      == [tok |-> "error", text |-> <<>>, i |-> ls.i, line |-> ls.line]

\* \n\r and \r\n are one line end
IncLineNumber(src, ls) ==
  LET second == Current(src, ls.i + 1)
  IN  [ls EXCEPT !.line = @ + 1,
                 !.i = IF IsNewline(second) /\ second # src[ls.i] THEN @ + 2 ELSE @ + 1]

\* check_next: strchr also finds the zero that ends the set
CheckNext(src, ls, set) ==
  IF Current(src, ls.i) \in set \cup {Zero} THEN SaveAndNext(src, ls) ELSE ls

RECURSIVE SaveWhile(_, _, _)
SaveWhile(src, ls, Chars) ==
  IF Current(src, ls.i) \in Chars THEN SaveWhile(src, SaveAndNext(src, ls), Chars) ELSE ls

---------------------------------------------------------------------------
\* Numerals.  luaO_str2d, of the digits, points and letters that come here:
\* what strtod takes.  A zero that was saved ends what it is given.
CString(buff) == {i \in DOMAIN buff : \A j \in 1..i : buff[j] # Zero}
Count(text, c) == Cardinality({i \in DOMAIN text : text[i] = c})
IsNumber(buff) ==
  LET text   == SubSeq(buff, 1, Cardinality(CString(buff)))
      exps   == {i \in DOMAIN text : text[i] \in {"e", "E"}}
      e      == IF exps = {} THEN Len(text) + 1 ELSE Min(exps)
      mantissa == SubSeq(text, 1, e - 1)
      power  == SubSeq(text, e + 1, Len(text))
      digits == IF power # <<>> /\ Head(power) \in {"+", "-"} THEN Tail(power) ELSE power
  IN  /\ Range(mantissa) \subseteq Numerals \cup {"."} /\ Range(mantissa) \cap Numerals # {}
      /\ Count(mantissa, ".") <= 1
      /\ exps # {} => digits # <<>> /\ Range(digits) \subseteq Numerals

ReadNumeral(src, ls) ==
  LET whole == SaveWhile(src, SaveAndNext(src, ls), Numerals \cup {"."})
      marked == CheckNext(src, whole, {"E", "e"})
      signed == IF marked.i > whole.i THEN CheckNext(src, marked, {"+", "-"}) ELSE marked
      all == SaveWhile(src, signed, Letters \cup Numerals \cup {"_"})
  IN  IF IsNumber(all.buff) THEN Token(all, "number") ELSE LexError(all)

---------------------------------------------------------------------------
\* Long strings and comments.  skip_sep gives what comes after the first
\* bracket and its ='s, and their number, or a negative one if the second
\* bracket is not there.
SkipSep(src, ls) ==
  LET after == SaveWhile(src, SaveAndNext(src, ls), {"="})
      count == after.i - ls.i - 1
  IN  [ls |-> after, sep |-> IF Current(src, after.i) = src[ls.i] THEN count ELSE - count - 1]

\* The loop of read_long_string.  Its string is what was saved, without the
\* brackets.
RECURSIVE ReadLong(_, _, _, _)
ReadLong(src, ls, sep, comment) ==
  LET c  == Current(src, ls.i)
      br == SkipSep(src, ls)
  IN  CASE c = EOZ -> LexError(ls)
        [] c = "[" ->
             IF br.sep = sep /\ sep = 0 THEN LexError(ls)
             ELSE ReadLong(src, IF br.sep = sep THEN SaveAndNext(src, br.ls) ELSE br.ls, sep, comment)
        [] c = "]" ->
             IF br.sep = sep
             THEN LET end == SaveAndNext(src, br.ls)
                  IN  Token([end EXCEPT !.buff = SubSeq(@, 3 + sep, Len(@) - 2 - sep)], "string")
             ELSE ReadLong(src, br.ls, sep, comment)
        [] IsNewline(c) ->
             LET saved == IncLineNumber(src, Save(ls, NL))
             IN  ReadLong(src, IF comment THEN [saved EXCEPT !.buff = <<>>] ELSE saved, sep, comment)
        [] OTHER -> ReadLong(src, IF comment THEN Skip(ls, 1) ELSE SaveAndNext(src, ls), sep, comment)

\* up to that loop: the second bracket, and a newline that comes first
ReadLongString(src, ls, sep, comment) ==
  LET inside == SaveAndNext(src, ls)
  IN  ReadLong(src, IF IsNewline(Current(src, inside.i)) THEN IncLineNumber(src, inside) ELSE inside,
               sep, comment)

---------------------------------------------------------------------------
\* Strings.  An escape saves one character: a letter's is <<"\\", letter>>,
\* three digits at most give <<"\\", n>>.
RECURSIVE DigitsFrom(_, _, _)
DigitsFrom(src, i, n) ==
  IF n > 0 /\ Current(src, i) \in Numerals THEN <<src[i]>> \o DigitsFrom(src, i + 1, n - 1) ELSE <<>>
ValueOf(digits) == FoldLeft(LAMBDA n, d : 10 * n + DigitOf[d], 0, digits)

Escaped(c) == IF c \in {"a", "b", "f", "n", "r", "t", "v"} THEN <<"\\", c>> ELSE c

RECURSIVE ReadString(_, _, _)
ReadString(src, ls, del) ==
  LET c      == Current(src, ls.i)
      e      == Current(src, ls.i + 1)
      digits == DigitsFrom(src, ls.i + 1, 3)
  IN  CASE c = del -> Token([Skip(ls, 1) EXCEPT !.buff = Tail(@)], "string")
        [] c = EOZ \/ IsNewline(c) -> LexError(ls)
        [] c = "\\" /\ e = EOZ -> ReadString(src, Skip(ls, 1), del)
        [] c = "\\" /\ IsNewline(e) -> ReadString(src, IncLineNumber(src, Save(Skip(ls, 1), NL)), del)
        [] c = "\\" /\ digits # <<>> ->
             IF ValueOf(digits) > UCHAR_MAX THEN LexError(ls)
             ELSE ReadString(src, Save(Skip(ls, 1 + Len(digits)), <<"\\", ValueOf(digits)>>), del)
        [] c = "\\" -> ReadString(src, Save(Skip(ls, 2), Escaped(e)), del)
        [] OTHER -> ReadString(src, SaveAndNext(src, ls), del)

---------------------------------------------------------------------------
RECURSIVE ToLineEnd(_, _)
ToLineEnd(src, ls) ==
  IF IsNewline(Current(src, ls.i)) \/ ls.i > Len(src) THEN ls ELSE ToLineEnd(src, Skip(ls, 1))

\* '.' of llex; like the others that save no more than they look at
Dots(src, ls) ==
  LET one   == SaveAndNext(src, ls)
      two   == CheckNext(src, one, {"."})
      three == CheckNext(src, two, {"."})
  IN  IF two.i > one.i THEN Token(three, IF three.i > two.i THEN "..." ELSE "..")
      ELSE IF Current(src, one.i) \in Numerals THEN ReadNumeral(src, one) ELSE Token(one, ".")

\* llex: the case of the current character, after the space and the comments
\* before it
RECURSIVE Llex(_, _)
AfterComment(src, t) ==
  IF t.tok = "error" THEN t ELSE Llex(src, [i |-> t.i, line |-> t.line, buff |-> <<>>])
InComment(src, br) ==
  IF br.sep < 0 THEN Token(ToLineEnd(src, br.ls), "comment")
  ELSE ReadLongString(src, [br.ls EXCEPT !.buff = <<>>], br.sep, TRUE)
Comment(src, ls) ==
  AfterComment(src, IF Current(src, ls.i) = "[" THEN InComment(src, SkipSep(src, ls))
                    ELSE Token(ToLineEnd(src, ls), "comment"))

Bracket(src, br) ==
  IF br.sep >= 0 THEN ReadLongString(src, br.ls, br.sep, FALSE)
  ELSE IF br.sep = -1 THEN Token(br.ls, "[") ELSE LexError(br.ls)
Word(word) == Token(word, IF word.buff \in Reserved THEN "reserved" ELSE "name")

Llex(src, ls) ==
  LET c  == Current(src, ls.i)
      n  == Current(src, ls.i + 1)
  IN  CASE c = EOZ -> Token(ls, "eos")
        [] IsNewline(c) -> Llex(src, IncLineNumber(src, ls))
        [] c = " " -> Llex(src, Skip(ls, 1))
        [] c = "-" -> IF n = "-" THEN Comment(src, Skip(ls, 2)) ELSE Token(Skip(ls, 1), "-")
        [] c = "[" -> Bracket(src, SkipSep(src, ls))
        [] c \in {"=", "<", ">", "~"} ->
             IF n = "=" THEN Token(Skip(ls, 2), c \o "=") ELSE Token(Skip(ls, 1), c)
        [] c \in {"\"", "'"} -> ReadString(src, SaveAndNext(src, ls), c)
        [] c = "." -> Dots(src, ls)
        [] c \in Numerals -> ReadNumeral(src, ls)
        [] c \in Letters \cup {"_"} ->
             Word(SaveWhile(src, ls, Letters \cup Numerals \cup {"_"}))
        [] OTHER -> Token(Skip(ls, 1), c)

\* luaX_setinput and luaX_next to the end of the text, or to an error.  Only
\* names, numerals and strings have a content (seminfo).
Read(t) ==
  <<t.tok, IF t.tok \in {"name", "number", "string", "reserved"} THEN t.text ELSE <<>>, t.line>>
RECURSIVE TokensFrom(_, _)
TokensFrom(src, t) ==
  CASE t.tok = "error" -> <<<<"error">>>>
    [] t.tok = "eos"   -> <<Read(t)>>
    [] OTHER -> <<Read(t)>> \o TokensFrom(src, Llex(src, [i |-> t.i, line |-> t.line, buff |-> <<>>]))
Tokens(src) == TokensFrom(src, Llex(src, [i |-> 1, line |-> 1, buff |-> <<>>]))
=============================================================================
