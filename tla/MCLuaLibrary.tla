---------------------------- MODULE MCLuaLibrary ----------------------------
(***************************************************************************)
(* Problems for the functions of Lua's library and of its lexical analyzer,*)
(* what they answer and what is right.  A problem is a tuple that begins   *)
(* with the name of a function.                                            *)
(***************************************************************************)
EXTENDS Integers, Sequences, SequencesExt

CONSTANTS Absent,
          LateFailures    \* bound: is a number read that may fail after another result?

Txt == INSTANCE LuaTextMeaning WITH
  LUA_MAXCAPTURES <- 2,
  Code <- [c \in {"NUL"} |-> -1] @@ ("0" :> 48 @@ "1" :> 49 @@ "2" :> 50)
            @@ ("a" :> 97 @@ "b" :> 98 @@ "x" :> 120 @@ "-" :> 45 @@ "%" :> 37 @@ "]" :> 93),
  Letters <- {"a", "e", "n", "E"}, Numerals <- {"1", "9"}, NL <- "\n", CR <- "\r", Zero <- "NUL",
  DigitOf <- ("1" :> 1 @@ "9" :> 9), Reserved <- {<<"a", "n", "a">>}, UCHAR_MAX <- 99
Tab == INSTANCE LuaTableLib
Str == INSTANCE LuaStreams WITH BUFSIZE <- 3, NL <- "\n", NUL <- "NUL", ESC <- "ESC"

-----------------------------------------------------------------------------
(* The problems *)

\* Items of a pattern: every kind of character with every repetition of a
\* few, and the others
Char(c) == <<"char", c>>
Sets == {<<"set", TRUE, <<Char("a"), <<"class", "d">> >> >>, <<"set", FALSE, <<<<"range", "a", "b">>>> >>,
         <<"set", TRUE, <<Char("]"), Char("-")>> >>}
Items1 ==
  {<<rep, Char("a")>> : rep \in {"one", "opt", "star", "plus", "min"}}
    \cup {<<"min", <<"any">> >>, <<"star", <<"class", "A">> >>, <<"one", Char("%")>>, <<"pos">>,
          <<"bal", "a", "b">>, <<"bal", "a", "a">>}
    \cup {<<"one", k>> : k \in Sets} \cup {<<"front", k>> : k \in Sets}
Few == {<<"opt", Char("a")>>, <<"star", Char("a")>>, <<"min", <<"any">> >>, <<"one", Char("b")>>,
        <<"plus", <<"class", "a">> >>, <<"pos">>}
Captures1 == {<<"cap", <<i>> >> : i \in Few} \cup {<<"cap", <<i, j>> >> : i, j \in Few \ {<<"pos">>}}
ItemLists ==
  {<<i>> : i \in Items1} \cup {<<i, j>> : i \in Items1, j \in Few}
    \cup {<<c, i>> : c \in Captures1, i \in Few}
    \cup {<<i, c, <<"back", 1>> >> : i \in {<<"opt", Char("a")>>, <<"min", <<"any">> >>},
                                     c \in {d \in Captures1 : d[2][1] # <<"pos">>}}
    \cup {<<<<"cap", <<c, i>> >>, j>> : c \in {<<"cap", <<<<"star", Char("a")>> >> >>},
                                        i \in {<<"opt", Char("b")>>}, j \in Few \ {<<"pos">>}}
Groups(items) == Cardinality({i \in DOMAIN items : items[i][1] \in {"pos", "cap"}})
Inner(item) == IF item[1] = "cap" THEN Groups(item[2]) ELSE 0
Fits(items) == Groups(items) + SumSet({Inner(items[i]) : i \in DOMAIN items}) <= 2
Patterns ==
  {[anchor |-> anchor, items |-> items, atEnd |-> atEnd] :
     anchor \in {FALSE}, items \in {l \in ItemLists : Fits(l)}, atEnd \in {FALSE}}
    \cup {[anchor |-> anchor, items |-> items, atEnd |-> TRUE] :
            anchor \in BOOLEAN, items \in {<<i, j>> : i, j \in Few} \cup {<<c>> : c \in Captures1}}
Subjects == {<<>>, <<"a">>, <<"b", "a">>, <<"a", "a", "b">>, <<"a", "b", "a", "b">>,
             <<"%", "]", "-", "1">>, <<"a", "a", "b", "a", "b", "b">>, <<"x", "2", "a", "a">>}

\* Texts that may be no patterns
Malformed == SeqOf({"a", "%", "[", "]", "^", "(", ")", "b", "1", "-"}, 3)

\* Texts of tokens with nothing between them, and tokens with separators
Texts == SeqOf({".", "1", "e", "+", "a"}, 4) \cup SeqOf({"=", "<", "~", "a"}, 3)
Insides == SeqOf({"\n", "\r", "]", "a"}, 2) \cup {<<"\n", "\r", "\n">>, <<"\r", "\n", "\r", "a">>}
Units == {<<<<"\\", "n">>, <<"\\", "n">> >>, <<<<"\\", "9", "9">>, <<"\\", 99>> >>,
          <<<<"\\", "\n", "\r">>, "\n">>, <<<<"\\", "\"">>, "\"">>, <<<<"a">>, "a">>,
          <<<<"\\", "\\">>, "\\">>}
Strings ==
  {Txt!LongString(n, inside) : n \in {0, 2}, inside \in {w \in Insides : w = <<>> \/ Last(w) # "]"}}
    \cup {Txt!Quoted("\"", units) : units \in SeqOf(Units, 2)}
Separators ==
  {Txt!Separator(<<"\r", "\n">>), Txt!Separator(<<" ">>), Txt!LongComment(2, <<"\n", "]", "\r">>),
   Txt!LongComment(0, <<"a", "\n">>), Txt!ShortComment(<<"[", "=", "a">>), Txt!ShortComment(<<>>)}
Name == [text |-> <<"a", "n">>, tok |-> "name", content |-> <<"a", "n">>]

\* Orders of three values, and relations that are none
Values == {"a", "b", "c"}
Orders ==
  {less \in SUBSET (Values \X Values) :
     /\ \A v, w \in Values : ~ (<<v, w>> \in less /\ <<w, v>> \in less)
     /\ \A u, v, w \in Values : <<u, v>> \in less => <<u, w>> \in less \/ <<w, v>> \in less}
Relations == SUBSET ({"a", "b", Absent} \X {"a", "b", Absent})
AsTable(s) == [i \in 0..(Len(s) + 1) |-> IF i \in DOMAIN s THEN s[i] ELSE Absent]

\* Files, what is read of them, and streams in pieces
Files == SeqOf({"a", "\n"}, 5) \cup SeqOf({"1", "\n", " ", "a"}, 3)
Chunks == SeqOf({"a", "\n", "#"}, 4)
          \cup {unix \o <<"ESC">> \o s : unix \in {<<>>, <<"#", "a", "\n">>}, s \in SeqOf({"a", "\n"}, 5)}
Formats == {<<"n">>, <<"l">>, <<"a">>, <<"chars", 0>>, <<"chars", 2>>, <<"chars", 5>>}
Pieces == UNION {[1..n -> {<<"a">>, <<"b", "c">>, <<"x", "y", "z">>}] : n \in 0..3}

\* The lines of a text; nothing after the last end of a line is no line.
SplitLines(s) ==
  LET ends == SetToSortSeq({i \in DOMAIN s : s[i] = "\n"}, <)
      Start(i) == IF i = 1 THEN 1 ELSE ends[i - 1] + 1
      lines == [i \in DOMAIN ends |-> SubSeq(s, Start(i), ends[i] - 1)]
      last  == SubSeq(s, Start(Len(ends) + 1), Len(s))
  IN  IF last = <<>> THEN lines ELSE Append(lines, last)

\* Where each format takes its text from, one after the other
Firsts(s, C) == Max({n \in 0..Len(s) : \A i \in 1..n : s[i] \in C})
Takes(s, format) ==   \* <<what it passes over, what it gives, what it consumes>>
  LET line == IF s = <<>> THEN <<>> ELSE SplitLines(s)[1]
      blank == Firsts(s, {" ", "\n"})
      digits == Firsts(SubSeq(s, blank + 1, Len(s)), {"1"})
  IN  CASE format[1] = "n" -> <<blank, digits, blank + digits>>
        [] format[1] = "l" -> <<0, Len(line), Min({Len(line) + 1, Len(s)})>>
        [] format[1] = "a" -> <<0, Len(s), Len(s)>>
        [] format[1] = "chars" -> <<0, Min({format[2], Len(s)}), Min({format[2], Len(s)})>>
Gives(s, format) ==
  LET taken == Takes(s, format)
  IN  IF IF format[1] = "n" THEN taken[2] = 0 ELSE format[1] # "a" /\ s = <<>> THEN <<"nil">>
      ELSE SubSeq(s, taken[1] + 1, taken[1] + taken[2])
ReadsMean(s, formats) ==
  LET got == Gives(s, formats[1])
  IN  IF got = <<"nil">> \/ Len(formats) = 1 THEN <<got>>
      ELSE <<got, Gives(SubSeq(s, Takes(s, formats[1])[3] + 1, Len(s)), formats[2])>>

\* The second result is a number that cannot be read.
Late(s, formats) == formats[Len(formats)] = <<"n">> /\ Len(ReadsMean(s, formats)) = 2
                    /\ ReadsMean(s, formats)[2] = <<"nil">>

IsProblem(q) ==
  \/ \E src \in Subjects, pattern \in Patterns : q = <<"match", src, pattern>>
  \/ \E pat \in Malformed : q = <<"any pattern", <<"a", "b", "1">>, pat>>
  \/ \E src \in Subjects, pat \in SeqOf({"a", "b"}, 2), i \in -5..5 : q = <<"find", src, pat, i>>
  \/ \E i, j \in -4..4, len \in 0..3 : q = <<"sub", i, j, len>>
  \/ \E text \in Texts : q = <<"tokens", text>>
  \/ \E str \in Strings, sep \in Separators : q = <<"text", <<Name, str, sep, Name>> >>
  \/ \E s \in SeqOf(Values, 5), less \in Orders : q = <<"sort", s, less>>
  \/ \E s \in SeqOf({"a", "b"}, 5), less \in Relations : Len(s) = 5 /\ q = <<"any sort", s, less>>
  \/ \E s \in SeqOf(Values, 3), at \in 1..4 : at <= Len(s) + 1 /\ q = <<"insert", s, at>>
  \/ \E s \in Files : q = <<"lines", s>>
  \/ \E s \in Files, formats \in SeqOf(Formats, 2) :
       /\ formats # <<>> /\ (LateFailures \/ ~ Late(s, formats))
       /\ q = <<"read", s, formats>>
  \/ \E s \in Chunks : q = <<"file", s>>
  \/ \E pieces \in Pieces, n \in 0..7, m \in 0..2 : q = <<"pieces", pieces, n, m>>

-----------------------------------------------------------------------------
(* The answers *)

Max3 == 9     \* more substitutions than a subject can have
MatchIn(src, pattern, pat) ==
  <<Txt!Find(src, pat, 1), Txt!Substituted(src, pat, <<"%", "0">>, Max3),
    IF pattern.anchor THEN <<>> ELSE Txt!GMatch([src |-> src, pat |-> pat], 1)>>
InsertIn(t, len, at) ==
  <<t, Tab!TRemove(t, len + 1, at), Tab!TConcat(t, <<",">>, at, len + 1)>>
\* n characters, one, and m
ReadPieces(pieces, n, m) ==
  LET first == Str!ZRead(Str!ZInit(pieces), n)
      one   == Str!ZGetc(first.z)
      last  == Str!ZRead(one.z, m)
  IN  <<first.got, IF one.eoz THEN <<>> ELSE <<one.c>>, last.got, first.missing + last.missing>>

Solution(q) ==
  CASE q[1] = "match" -> MatchIn(q[2], q[3], Txt!WrittenPattern(q[3]))
    [] q[1] \in {"find", "any pattern"} -> Txt!Find(q[2], q[3], IF q[1] = "find" THEN q[4] ELSE 1)
    [] q[1] = "sub" -> <<Txt!StrSub(q[2], q[3], q[4]), Txt!StrByte(q[2], q[3], q[4])>>
    [] q[1] \in {"tokens", "text"} -> Txt!Tokens(IF q[1] = "text" THEN Txt!WrittenText(q[2]) ELSE q[2])
    [] q[1] \in {"sort", "any sort"} -> Tab!AuxSort(AsTable(q[2]), 1, Len(q[2]), q[3])
    [] q[1] = "insert" -> InsertIn(Tab!TInsert(AsTable(q[2]), Len(q[2]), q[3], "new"), Len(q[2]), q[3])
    [] q[1] = "lines" -> Str!Lines(q[2])
    [] q[1] = "read" -> Str!GRead(q[2], q[3])
    [] q[1] = "file" -> FlattenSeq(Str!LoadFile(q[2]))
    [] q[1] = "pieces" -> ReadPieces(q[2], q[3], q[4])

-----------------------------------------------------------------------------
(* What is right *)

Permuted(t, s) ==
  \A v \in Range(t) \cup Range(s) :
    Cardinality({i \in DOMAIN t : t[i] = v}) = Cardinality({i \in DOMAIN AsTable(s) : AsTable(s)[i] = v})

\* What orders the values of the table is enough: nothing outside it is moved, nor
\* does it matter what the comparison would say of it.
SortsWithin(a, s, less) ==
  /\ ~ a.error /\ a.t[0] = Absent /\ a.t[Len(s) + 1] = Absent
  /\ \A i, j \in DOMAIN s : i < j => <<a.t[j], a.t[i]>> \notin less
OrdersThem(less) ==
  \A v \in {"a", "b"} : <<v, v>> \notin less /\ ~ ({<<"a", "b">>, <<"b", "a">>} \subseteq less)

Matches(src, pattern, successive, a) ==
  /\ a[1] = Txt!FindMeans(src, pattern, 1)
  /\ a[2].text = src
  /\ a[2].n = IF pattern.anchor THEN Min({1, Len(a[1])}) ELSE Len(successive)
  /\ ~ pattern.anchor =>
       a[3] = [i \in DOMAIN successive |-> Txt!Whole(src, successive[i][1], successive[i][2])]

\* What is found lies in the subject.
Within(src, a) ==
  Len(a) < 2 \/ (1 <= a[1] /\ a[1] <= a[2] + 1 /\ a[2] <= Len(src))

FindsText(q, a) ==
  LET first == IF q[4] < 0 THEN Max({1, q[4] + Len(q[2]) + 1}) ELSE Min({Max({1, q[4]}), Len(q[2]) + 1})
      at == {s \in first..(Len(q[2]) + 1) : IsPrefix(q[3], SubSeq(q[2], s, Len(q[2])))}
  IN  a = IF at = {} THEN <<>> ELSE <<Min(at), Min(at) + Len(q[3]) - 1>>

\* the positions from i to j, negative ones counted from the end
Between(i, j, len) ==
  {n \in 1..len : n >= (IF i < 0 THEN i + len + 1 ELSE i) /\ n <= (IF j < 0 THEN j + len + 1 ELSE j)}

Inserted(s, at) == SubSeq(s, 1, at - 1) \o <<"new">> \o SubSeq(s, at, Len(s))

\* A binary chunk is read whole; in a text the lines stay as they are, but for a
\* first one with #, which becomes empty.
ReadsChunk(s, a) ==
  IF "ESC" \in Range(s) THEN a = SubSeq(s, SelectInSeq(s, LAMBDA c : c = "ESC"), Len(s))
  ELSE IF s # <<>> /\ s[1] = "#" THEN a[1] = "\n" /\ Tail(SplitLines(a)) = Tail(SplitLines(s))
  ELSE a = s

ReadsPieces(all, n, m, a) ==
  /\ a[1] \o a[2] \o a[3] = SubSeq(all, 1, Min({Len(all), n + 1 + m}))
  /\ a[4] = Max({0, n + m + Len(a[2]) - Len(all)})

Agrees(q, a) ==
  CASE q[1] = "match" -> Matches(q[2], q[3], Txt!Successive(q[2], q[3], 1), a)
    [] q[1] = "any pattern" -> Within(q[2], a)
    [] q[1] = "find" -> FindsText(q, a)
    [] q[1] = "sub" -> a[1] = Between(q[2], q[3], q[4]) /\ a[2] = a[1]
    [] q[1] = "tokens" -> a = Txt!LongestTokens(q[2])
    [] q[1] = "text" -> a = Txt!WrittenTokens(q[2])
    [] q[1] = "sort" -> Permuted(a.t, q[2]) /\ SortsWithin(a, q[2], q[3])
    [] q[1] = "any sort" -> Permuted(a.t, q[2]) /\ (OrdersThem(q[3]) => SortsWithin(a, q[2], q[3]))
    [] q[1] = "insert" ->
         /\ a[1] = [i \in DOMAIN AsTable(q[2]) |-> IF i = 0 THEN Absent ELSE Inserted(q[2], q[3])[i]]
         /\ a[2].value = "new" /\ Permuted(a[2].t, q[2])
         /\ a[3] = Tail(FlattenSeq([i \in 1..(Len(q[2]) - q[3] + 2) |->
                                     <<",", Inserted(q[2], q[3])[q[3] + i - 1]>>]))
    [] q[1] = "lines" -> a = SplitLines(q[2])
    [] q[1] = "read" -> a = ReadsMean(q[2], q[3])
    [] q[1] = "file" -> ReadsChunk(q[2], a)
    [] q[1] = "pieces" -> ReadsPieces(FlattenSeq(q[2]), q[3], q[4], a)
=============================================================================
