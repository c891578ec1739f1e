------------------------- MODULE LuaTextMeaning ---------------------------
(***************************************************************************)
(* What a pattern of Lua means, by its structure: the ways it can match    *)
(* from a position, the preferred one first.  LuaPattern finds the same    *)
(* one by going over the characters of the pattern and backtracking.       *)
(*                                                                         *)
(* An item is <<"one", k>>, <<"opt", k>>, <<"star", k>>, <<"plus", k>> or  *)
(* <<"min", k>> for a kind k of characters, <<"cap", items>>, <<"pos">>,   *)
(* <<"bal", b, e>>, <<"front", k>> or <<"back", i>>.  A kind is <<"any">>, *)
(* <<"char", c>>, <<"class", cl>> or <<"set", positive, parts>>, a part a  *)
(* kind or <<"range", lo, hi>>.                                            *)
(***************************************************************************)
EXTENDS LuaPattern, LuaLexer

RECURSIVE Is(_, _)
Is(c, k) ==
  CASE k[1] = "any"   -> TRUE
    [] k[1] = "char"  -> c = k[2]
    [] k[1] = "class" -> MatchClass(c, k[2])
    [] k[1] = "range" -> Code[c] \in Code[k[2]]..Code[k[3]]
    [] k[1] = "set"   -> (\E part \in Range(k[3]) : Is(c, part)) = k[2]

\* how many characters of kind k follow one another from s on
Run(src, s, k) ==
  Max({n \in 0..(Len(src) - s + 1) : \A i \in s..(s + n - 1) : Is(src[i], k)})

\* where the balanced text that begins at s ends, one past it
Depth(src, s, i, b, e) ==
  Cardinality({j \in (s + 1)..i : src[j] = b /\ b # e}) - Cardinality({j \in (s + 1)..i : src[j] = e})
BalanceEnds(src, s, b, e) ==
  IF s > Len(src) THEN {}
  ELSE IF src[s] # b THEN {} ELSE {i \in (s + 1)..Len(src) : Depth(src, s, i, b, e) = -1}

Upto(n)   == [i \in 1..(n + 1) |-> n + 1 - i]      \* n, ..., 0
From0(n)  == [i \in 1..(n + 1) |-> i - 1]          \* 0, ..., n

\* A way: [at, caps], caps the captures begun so far, each <<init, end>>, or
\* <<init>> when it is of a position.
RECURSIVE Ways(_, _, _)
Repeated(src, w, counts) == [i \in DOMAIN counts |-> [w EXCEPT !.at = @ + counts[i]]]
ItemWays(src, item, w) ==
  LET c == IF w.at = Len(src) + 1 THEN NUL ELSE src[w.at]
      run == Run(src, w.at, item[2])
  IN  CASE item[1] = "one"  -> IF run > 0 THEN <<[w EXCEPT !.at = @ + 1]>> ELSE <<>>
        [] item[1] = "opt"  -> Repeated(src, w, Upto(Min({run, 1})))
        [] item[1] = "star" -> Repeated(src, w, Upto(run))
        [] item[1] = "plus" -> Repeated(src, w, SelectSeq(Upto(run), LAMBDA n : n > 0))
        [] item[1] = "min"  -> Repeated(src, w, From0(run))
        [] item[1] = "pos"  -> <<[w EXCEPT !.caps = Append(@, <<w.at>>)]>>
        [] item[1] = "cap"  ->
             LET n == Len(w.caps) + 1
                 inner == Ways(src, item[2], [w EXCEPT !.caps = Append(@, <<w.at, w.at>>)])
             IN  [i \in DOMAIN inner |-> [inner[i] EXCEPT !.caps[n] = <<w.at, inner[i].at>>]]
        [] item[1] = "bal"  ->
             LET ends == BalanceEnds(src, w.at, item[2], item[3])
             IN  IF ends = {} THEN <<>> ELSE <<[w EXCEPT !.at = Min(ends) + 1]>>
        [] item[1] = "front" ->
             IF ~ Is(IF w.at = 1 THEN NUL ELSE src[w.at - 1], item[2]) /\ Is(c, item[2])
             THEN <<w>> ELSE <<>>
        [] item[1] = "back" ->
             LET cap == w.caps[item[2]]
                 n   == cap[2] - cap[1]
             IN  IF /\ Len(cap) = 2 /\ w.at + n <= Len(src) + 1
                    /\ Text(src, cap[1], cap[2]) = Text(src, w.at, w.at + n)
                 THEN <<[w EXCEPT !.at = @ + n]>> ELSE <<>>

Ways(src, items, w) ==
  IF items = <<>> THEN <<w>>
  ELSE LET first == ItemWays(src, Head(items), w)
       IN  FlattenSeq([i \in DOMAIN first |-> Ways(src, Tail(items), first[i])])

\* A pattern is [anchor, items, atEnd].
WaysAt(src, pattern, s) ==
  LET ways == Ways(src, pattern.items, [at |-> s, caps |-> <<>>])
  IN  IF pattern.atEnd THEN SelectSeq(ways, LAMBDA w : w.at = Len(src) + 1) ELSE ways

Starts(src, pattern, from) ==
  {s \in from..(Len(src) + 1) : (pattern.anchor => s = from) /\ WaysAt(src, pattern, s) # <<>>}

Captured(src, caps) ==
  [i \in DOMAIN caps |-> IF Len(caps[i]) = 1 THEN <<"position", caps[i][1]>>
                         ELSE Text(src, caps[i][1], caps[i][2])]
Whole(src, s, w) ==
  IF w.caps = <<>> THEN <<Text(src, s, w.at)>> ELSE Captured(src, w.caps)

\* the first place where there is a way, and the preferred one there
FirstOf(src, pattern, starts) ==
  IF starts = {} THEN <<>> ELSE <<Min(starts), WaysAt(src, pattern, Min(starts))[1]>>
First(src, pattern, from) == FirstOf(src, pattern, Starts(src, pattern, from))

\* string.find
Found(src, first) ==
  IF first = <<>> THEN <<>> ELSE <<first[1], first[2].at - 1>> \o Captured(src, first[2].caps)
FindMeans(src, pattern, from) == Found(src, First(src, pattern, from))

\* The matches that gmatch and gsub go through: each begins where the one
\* before it ended, or one position on if that one was empty.
RECURSIVE SuccessiveTo(_, _, _)
SuccessiveTo(src, pattern, first) ==
  IF first = <<>> THEN <<>>
  ELSE <<first>> \o SuccessiveTo(src, pattern, First(src, pattern,
         IF first[2].at = first[1] THEN first[1] + 1 ELSE first[2].at))
Successive(src, pattern, from) == SuccessiveTo(src, pattern, First(src, pattern, from))

---------------------------------------------------------------------------
\* How a pattern is written
RECURSIVE WrittenKind(_)
WrittenKind(k) ==
  CASE k[1] = "any"   -> <<".">>
    [] k[1] = "char"  -> IF k[2] \in Specials THEN <<"%", k[2]>> ELSE <<k[2]>>
    [] k[1] = "class" -> <<"%", k[2]>>
    [] k[1] = "range" -> <<k[2], "-", k[3]>>
    [] k[1] = "set"   -> <<"[">> \o (IF k[2] THEN <<>> ELSE <<"^">>)
                         \o FlattenSeq([i \in DOMAIN k[3] |-> WrittenKind(k[3][i])]) \o <<"]">>

Suffix == [one |-> <<>>, opt |-> <<"?">>, star |-> <<"*">>, plus |-> <<"+">>, min |-> <<"-">>]

RECURSIVE Written(_)
WrittenItem(item) ==
  CASE item[1] \in DOMAIN Suffix -> WrittenKind(item[2]) \o Suffix[item[1]]
    [] item[1] = "cap"   -> <<"(">> \o Written(item[2]) \o <<")">>
    [] item[1] = "pos"   -> <<"(", ")">>
    [] item[1] = "bal"   -> <<"%", "b", item[2], item[3]>>
    [] item[1] = "front" -> <<"%", "f">> \o WrittenKind(item[2])
    [] item[1] = "back"  -> <<"%", <<"1", "2">>[item[2]]>>
Written(items) == FlattenSeq([i \in DOMAIN items |-> WrittenItem(items[i])])
WrittenPattern(pattern) ==
  (IF pattern.anchor THEN <<"^">> ELSE <<>>) \o Written(pattern.items)
    \o (IF pattern.atEnd THEN <<"$">> ELSE <<>>)
---------------------------------------------------------------------------
(* What the lexical analyzer must find in a text: in one of names, numerals*)
(* and operators, the longest token at each place; in one that is written  *)
(* from tokens and separators, those tokens, each on its line.             *)

\* The longest token
Symbols == {<<".">>, <<".", ".">>, <<".", ".", ".">>, <<"=">>, <<"=", "=">>, <<"<">>, <<"<", "=">>,
            <<"~">>, <<"~", "=">>, <<"+">>}

IsWord(w) == Range(w) \subseteq Letters \cup Numerals \cup {"_"}
IsName(w) == IsWord(w) /\ w[1] \notin Numerals
Begins(w, Chars) == w # <<>> /\ Head(w) \in Chars
IsNumeral(w) ==
  /\ \/ Begins(w, Numerals)
     \/ Begins(w, {"."}) /\ Begins(Tail(w), Numerals)
  /\ \E k \in 1..Len(w) :
       LET rest == SubSeq(w, k + 1, Len(w))
       IN  /\ Range(SubSeq(w, 1, k)) \subseteq Numerals \cup {"."}
           /\ \/ IsWord(rest)
              \/ /\ Begins(rest, {"e"}) /\ Begins(Tail(rest), {"+", "-"})
                 /\ IsWord(Tail(Tail(rest)))

Glued(w) == FoldLeft(LAMBDA str, c : str \o c, "", w)

RECURSIVE LongestTokens(_)
LongestTokens(text) ==
  LET Prefix(n) == SubSeq(text, 1, n)
      ends == {n \in DOMAIN text : \/ Prefix(n) \in Symbols \/ IsName(Prefix(n))
                                   \/ IsNumeral(Prefix(n))}
      n    == Max(ends)
      w    == Prefix(n)
      rest == SubSeq(text, n + 1, Len(text))
  IN  IF text = <<>> THEN <<<<"eos", <<>>, 1>>>>
      ELSE IF IsNumeral(w) /\ ~ IsNumber(w) THEN <<<<"error">>>>
      ELSE <<IF IsNumeral(w) THEN <<"number", w, 1>>
             ELSE IF IsName(w) THEN <<IF w \in Reserved THEN "reserved" ELSE "name", w, 1>>
             ELSE <<Glued(w), <<>>, 1>> >> \o LongestTokens(rest)

---------------------------------------------------------------------------
\* Written texts.  A piece is [text, tok, content]; a separator has no token.
EndsOfLines(text) ==
  LET second[i \in DOMAIN text] ==   \* the second character of a line end
        /\ i > 1 /\ IsNewline(text[i]) /\ IsNewline(text[i - 1]) /\ text[i] # text[i - 1]
        /\ ~ second[i - 1]
  IN  {i \in DOMAIN text : IsNewline(text[i]) /\ ~ second[i]}
Normalised(text) ==
  LET ends == EndsOfLines(text)
      kept == {i \in DOMAIN text : IsNewline(text[i]) => i \in ends}
  IN  [k \in 1..Cardinality(kept) |->
         LET i == CHOOSE j \in kept : Cardinality({l \in kept : l <= j}) = k
         IN  IF i \in ends THEN NL ELSE text[i]]

Equals(n) == [i \in 1..n |-> "="]
Opened(n) == <<"[">> \o Equals(n) \o <<"[">>
Closed(n) == <<"]">> \o Equals(n) \o <<"]">>
LongString(n, inside) ==
  LET lines == Normalised(inside)
  IN  [text |-> Opened(n) \o inside \o Closed(n), tok |-> "string",
       content |-> IF Begins(lines, {NL}) THEN Tail(lines) ELSE lines]

\* a unit is <<how it is written, what it is>>
Quoted(q, units) ==
  [text |-> <<q>> \o FlattenSeq([i \in DOMAIN units |-> units[i][1]]) \o <<q>>, tok |-> "string",
   content |-> [i \in DOMAIN units |-> units[i][2]]]
Separator(text) == [text |-> text, tok |-> "", content |-> <<>>]
LongComment(n, inside) == Separator(<<"-", "-">> \o Opened(n) \o inside \o Closed(n))
ShortComment(inside)   == Separator(<<"-", "-">> \o inside \o <<NL>>)

WrittenText(pieces) == FlattenSeq([i \in DOMAIN pieces |-> pieces[i].text])
WrittenTokens(pieces) ==
  LET text  == WrittenText(pieces)
      TextUpto(i) == Len(WrittenText(SubSeq(pieces, 1, i)))
      Line(n) == 1 + Cardinality({k \in EndsOfLines(text) : k <= n})
      named == SelectSeq([i \in DOMAIN pieces |-> <<pieces[i], TextUpto(i)>>],
                         LAMBDA piece : piece[1].tok # "")
  IN  [i \in DOMAIN named |-> <<named[i][1].tok, named[i][1].content, Line(named[i][2])>>]
        \o <<<<"eos", <<>>, Line(Len(text))>>>>
=============================================================================
