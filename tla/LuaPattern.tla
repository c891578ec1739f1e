----------------------------- MODULE LuaPattern -----------------------------
(***************************************************************************)
(* The string library of the Lua interpreter in the pgo lab (lstrlib.c):   *)
(* the matcher of patterns as it runs on the characters of a pattern, the  *)
(* functions built on it, and those that take positions.                   *)
(*                                                                         *)
(* Strings are sequences of characters, a position is an index, one past   *)
(* the end included.  Where the code gives NULL the model gives 0, where   *)
(* it calls luaL_error, -1: both are checked in the order the code does.   *)
(***************************************************************************)
EXTENDS Integers, Sequences, SequencesExt

CONSTANTS LUA_MAXCAPTURES,
          Code          \* character -> its code

NUL == "NUL"
NULL == 0
Raised == -1
UNFINISHED == -1
POSITION == -2

\* A C string ends with a zero; nothing may read beyond it.
At(str, i) == IF i = Len(str) + 1 THEN NUL ELSE str[i]
Text(str, from, to) == SubSeq(str, from, to - 1)

Digits == {"1", "2", "0"}
Alphas == {"a", "b", "x"}

---------------------------------------------------------------------------
\* Single characters.  The classes the patterns here use: %a, %d and their
\* complements.
MatchClass(c, cl) ==
  CASE cl = "a" -> c \in Alphas
    [] cl = "A" -> c \notin Alphas
    [] cl = "d" -> c \in Digits
    [] cl = "D" -> c \notin Digits
    [] OTHER -> cl = c

\* the loop of classend looks for the ] that ends a set
RECURSIVE SetEnd(_, _)
SetEnd(pat, p) ==
  IF At(pat, p) = NUL THEN Raised
  ELSE LET q == IF At(pat, p) = "%" /\ At(pat, p + 1) # NUL THEN p + 2 ELSE p + 1
       IN  IF At(pat, q) = "]" THEN q + 1 ELSE SetEnd(pat, q)

ClassEnd(pat, p) ==
  CASE At(pat, p) = "%" -> IF At(pat, p + 1) = NUL THEN Raised ELSE p + 2
    [] At(pat, p) = "[" -> SetEnd(pat, IF At(pat, p + 1) = "^" THEN p + 2 ELSE p + 1)
    [] OTHER -> p + 1

\* the loop of matchbracketclass: is c in the set, whose ] is at ec?
RECURSIVE InSet(_, _, _, _)
InSet(c, pat, p, ec) ==
  /\ p < ec
  /\ IF At(pat, p) = "%" THEN MatchClass(c, At(pat, p + 1)) \/ InSet(c, pat, p + 2, ec)
     ELSE IF At(pat, p + 1) = "-" /\ p + 2 < ec
     THEN \/ Code[At(pat, p)] <= Code[c] /\ Code[c] <= Code[At(pat, p + 2)]
          \/ InSet(c, pat, p + 3, ec)
     ELSE At(pat, p) = c \/ InSet(c, pat, p + 1, ec)

MatchBracketClass(c, pat, p, ec) ==
  IF At(pat, p + 1) = "^" THEN ~ InSet(c, pat, p + 2, ec) ELSE InSet(c, pat, p + 1, ec)

SingleMatch(c, pat, p, ep) ==
  CASE At(pat, p) = "." -> TRUE
    [] At(pat, p) = "%" -> MatchClass(c, At(pat, p + 1))
    [] At(pat, p) = "[" -> MatchBracketClass(c, pat, p, ep - 1)
    [] OTHER -> At(pat, p) = c

\* s < src_end && singlematch(*s, p, ep)
OneMore(m, s, p, ep) == s <= Len(m.src) /\ SingleMatch(m.src[s], m.pat, p, ep)

---------------------------------------------------------------------------
\* The matcher.  m is what it matches, [src, pat]; s and p are positions in
\* them; caps are the captures, [init, len].  It gives [at, caps].
RECURSIVE Match(_, _, _, _)

Failed(caps) == [at |-> NULL, caps |-> caps]
Error(caps)  == [at |-> Raised, caps |-> caps]

RECURSIVE Balance(_, _, _, _, _)
Balance(src, s, b, e, cont) ==
  IF s > Len(src) THEN NULL
  ELSE IF src[s] = e THEN IF cont = 1 THEN s + 1 ELSE Balance(src, s + 1, b, e, cont - 1)
  ELSE Balance(src, s + 1, b, e, IF src[s] = b THEN cont + 1 ELSE cont)

MatchBalance(m, s, p) ==
  IF At(m.pat, p) = NUL \/ At(m.pat, p + 1) = NUL THEN Raised
  ELSE IF At(m.src, s) # At(m.pat, p) THEN NULL
  ELSE Balance(m.src, s + 1, At(m.pat, p), At(m.pat, p + 1), 1)

RECURSIVE Longest(_, _, _, _)
Longest(m, s, p, ep) == IF OneMore(m, s, p, ep) THEN Longest(m, s + 1, p, ep) ELSE s

\* max_expand: from the longest repetition, which ends at e, down to none
RECURSIVE MaxExpand(_, _, _, _, _)
Shorter(m, s, e, ep, res) == IF res.at # NULL THEN res ELSE MaxExpand(m, s, e - 1, ep, res.caps)
MaxExpand(m, s, e, ep, caps) ==
  IF e < s THEN Failed(caps) ELSE Shorter(m, s, e, ep, Match(m, e, ep + 1, caps))

RECURSIVE MinExpand(_, _, _, _, _)
Longer(m, s, p, ep, res) ==
  IF res.at # NULL THEN res
  ELSE IF OneMore(m, s, p, ep) THEN MinExpand(m, s + 1, p, ep, res.caps)
  ELSE Failed(res.caps)
MinExpand(m, s, p, ep, caps) == Longer(m, s, p, ep, Match(m, s, ep + 1, caps))

Undone(res) == IF res.at = NULL THEN Failed(Front(res.caps)) ELSE res
StartCapture(m, s, p, caps, what) ==
  IF Len(caps) >= LUA_MAXCAPTURES THEN Error(caps)
  ELSE Undone(Match(m, s, p, Append(caps, [init |-> s, len |-> what])))

\* Mutant: a capture closed on a way that failed stays closed.
StaysClosed(m, s, p, caps) ==
  LET open == {i \in DOMAIN caps : caps[i].len = UNFINISHED}
  IN  IF open = {} THEN Error(caps)
      ELSE Match(m, s, p, [caps EXCEPT ![Max(open)].len = s - caps[Max(open)].init])

Reopened(l, res) == IF res.at = NULL THEN Failed([res.caps EXCEPT ![l].len = UNFINISHED]) ELSE res
EndCapture(m, s, p, caps) ==
  LET open == {i \in DOMAIN caps : caps[i].len = UNFINISHED}
      l    == Max(open)
  IN  IF open = {} THEN Error(caps)
      ELSE Reopened(l, Match(m, s, p, [caps EXCEPT ![l].len = s - caps[l].init]))

\* check_capture; a position capture has a length no text has
MatchCapture(m, s, l, caps) ==
  IF l = 0 \/ l > Len(caps) THEN Raised
  ELSE IF caps[l].len = UNFINISHED THEN Raised
  ELSE IF /\ caps[l].len # POSITION
          /\ Len(m.src) - s + 1 >= caps[l].len
          /\ Text(m.src, caps[l].init, caps[l].init + caps[l].len) = Text(m.src, s, s + caps[l].len)
       THEN s + caps[l].len ELSE NULL

Digit(c) == CASE c = "0" -> 0 [] c = "1" -> 1 [] c = "2" -> 2

Frontier(m, s, p, ep, caps) ==
  IF ep = Raised THEN Error(caps)
  ELSE IF \/ MatchBracketClass(IF s = 1 THEN NUL ELSE m.src[s - 1], m.pat, p, ep - 1)
          \/ ~ MatchBracketClass(At(m.src, s), m.pat, p, ep - 1)
       THEN Failed(caps) ELSE Match(m, s, ep, caps)

\* the default of match: a pattern item, which ends at ep
Optional(m, s, ep, caps, res) == IF res.at # NULL THEN res ELSE Match(m, s, ep + 1, caps)
Item(m, s, p, ep, caps) ==
  IF ep = Raised THEN Error(caps)
  ELSE CASE At(m.pat, ep) = "?" ->
              Optional(m, s, ep, caps, IF OneMore(m, s, p, ep) THEN Match(m, s + 1, ep + 1, caps)
                                       ELSE Failed(caps))
         [] At(m.pat, ep) = "*" -> MaxExpand(m, s, Longest(m, s, p, ep), ep, caps)
         [] At(m.pat, ep) = "+" ->
              IF OneMore(m, s, p, ep) THEN MaxExpand(m, s + 1, Longest(m, s, p, ep), ep, caps)
              ELSE Failed(caps)
         [] At(m.pat, ep) = "-" -> MinExpand(m, s, p, ep, caps)
         [] OTHER -> IF OneMore(m, s, p, ep) THEN Match(m, s + 1, ep, caps) ELSE Failed(caps)

\* "s = ...; if (s == NULL) return NULL; goto init"
Continue(m, s, p, caps) == IF s \in {NULL, Raised} THEN [at |-> s, caps |-> caps] ELSE Match(m, s, p, caps)

Match(m, s, p, caps) ==
  LET ch == At(m.pat, p)
      nx == At(m.pat, p + 1)
  IN  CASE ch = NUL -> [at |-> s, caps |-> caps]
        [] ch = "(" -> IF nx = ")" THEN StartCapture(m, s, p + 2, caps, POSITION)
                       ELSE StartCapture(m, s, p + 1, caps, UNFINISHED)
        [] ch = ")" -> EndCapture(m, s, p + 1, caps)
        [] ch = "%" /\ nx = "b" -> Continue(m, MatchBalance(m, s, p + 2), p + 4, caps)
        [] ch = "%" /\ nx = "f" ->
             IF At(m.pat, p + 2) # "[" THEN Error(caps)
             ELSE Frontier(m, s, p + 2, ClassEnd(m.pat, p + 2), caps)
        [] ch = "%" /\ nx \in Digits -> Continue(m, MatchCapture(m, s, Digit(nx), caps), p + 2, caps)
        [] ch = "$" /\ nx = NUL -> [at |-> IF s = Len(m.src) + 1 THEN s ELSE NULL, caps |-> caps]
        [] OTHER -> Item(m, s, p, ClassEnd(m.pat, p), caps)

---------------------------------------------------------------------------
\* What a match gives: push_onecapture and push_captures.  A match of s..e-1
\* without captures is its only one.
Capture(src, cap) ==
  CASE cap.len = UNFINISHED -> <<"raised">>
    [] cap.len = POSITION -> <<"position", cap.init>>
    [] OTHER -> Text(src, cap.init, cap.init + cap.len)
Captures(src, s, e, caps) ==
  IF caps = <<>> /\ s # NULL THEN <<Text(src, s, e)>> ELSE [i \in DOMAIN caps |-> Capture(src, caps[i])]

Anchored(pat) == pat # <<>> /\ pat[1] = "^"
Body(pat) == IF Anchored(pat) THEN Tail(pat) ELSE pat

\* posrelat
PosRelat(pos, len) == LET q == IF pos < 0 THEN pos + len + 1 ELSE pos IN IF q >= 0 THEN q ELSE 0

\* str_find_aux with a pattern: the first position that matches
RECURSIVE FindFrom(_, _, _)
FoundAt(m, s, anchor, res) ==
  IF res.at = Raised THEN <<"raised">>
  ELSE IF res.at # NULL THEN <<s, res.at - 1>> \o Captures(m.src, NULL, 0, res.caps)
  ELSE IF s <= Len(m.src) /\ ~ anchor THEN FindFrom(m, s + 1, anchor)
  ELSE <<>>
FindFrom(m, s, anchor) == FoundAt(m, s, anchor, Match(m, s, 1, <<>>))

\* lmemfind, from s on
RECURSIVE MemFind(_, _, _)
MemFind(src, s, pat) ==
  IF Len(pat) > Len(src) - s + 1 THEN <<>>
  ELSE IF Text(src, s, s + Len(pat)) = pat THEN <<s, s + Len(pat) - 1>>
  ELSE MemFind(src, s + 1, pat)

Specials == {"^", "$", "*", "+", "?", ".", "(", "[", "%", "-"}
Find(src, pat, init) ==
  LET i == PosRelat(init, Len(src))
      s == IF i < 1 THEN 1 ELSE IF i - 1 > Len(src) THEN Len(src) + 1 ELSE i
  IN  IF Range(pat) \cap Specials = {} THEN MemFind(src, s, pat)
      ELSE FindFrom([src |-> src, pat |-> Body(pat)], s, Anchored(pat))

\* gmatch, called to its end: what each call gives
RECURSIVE GMatch(_, _)
GMatchAt(m, s, res) ==
  IF res.at = Raised THEN <<<<"raised">>>>
  ELSE IF res.at = NULL THEN GMatch(m, s + 1)
  ELSE <<Captures(m.src, s, res.at, res.caps)>> \o GMatch(m, IF res.at = s THEN s + 1 ELSE res.at)
GMatch(m, s) == IF s > Len(m.src) + 1 THEN <<>> ELSE GMatchAt(m, s, Match(m, s, 1, <<>>))

\* add_s: %0 to %9 in a replacement; a % at its end copies the zero after it
RECURSIVE AddS(_, _, _)
AddS(new, i, values) ==
  IF i > Len(new) THEN <<>>
  ELSE IF new[i] # "%" THEN <<new[i]>> \o AddS(new, i + 1, values)
  ELSE IF At(new, i + 1) \notin Digits THEN <<At(new, i + 1)>> \o AddS(new, i + 2, values)
  ELSE LET l == Digit(new[i + 1]) + 1
       IN  (IF l > Len(values) THEN <<"raised">> ELSE values[l]) \o AddS(new, i + 2, values)

\* str_gsub with a string for a replacement: [text, n].  The values it may use
\* are the match and its captures.  A text with "raised" in it stands for the
\* error.
RECURSIVE GSub(_, _, _, _, _, _)
Value(m, s, new, res) ==
  CASE res.at = NULL   -> <<>>
    [] res.at = Raised -> <<"raised">>
    [] OTHER -> AddS(new, 1, <<Text(m.src, s, res.at)>> \o Captures(m.src, s, res.at, res.caps))
Copied(m, s, e) == IF e > s \/ s > Len(m.src) THEN <<>> ELSE <<m.src[s]>>
Rest(m, s, new, n, max, anchor) ==
  IF anchor \/ s > Len(m.src) + 1 THEN [text |-> Text(m.src, s, Len(m.src) + 1), n |-> n]
  ELSE GSub(m, s, new, n, max, anchor)
Joined(text, rest) == [rest EXCEPT !.text = text \o @]
Step(m, s, new, n, max, anchor, res) ==
  Joined(Value(m, s, new, res) \o Copied(m, s, res.at),
         Rest(m, IF res.at > s THEN res.at ELSE s + 1, new,
              IF res.at = NULL THEN n ELSE n + 1, max, anchor))
GSub(m, s, new, n, max, anchor) ==
  IF n >= max THEN [text |-> Text(m.src, s, Len(m.src) + 1), n |-> n]
  ELSE Step(m, s, new, n, max, anchor, Match(m, s, 1, <<>>))

Substituted(src, pat, new, max) ==
  GSub([src |-> src, pat |-> Body(pat)], 1, new, 0, max, Anchored(pat))

---------------------------------------------------------------------------
\* str_sub and str_byte: the positions of the characters they give
StrSub(i, j, len) ==
  LET start == Max({1, PosRelat(i, len)})
      end   == Min({len, PosRelat(j, len)})
  IN  start..end
StrByte(i, j, len) ==
  LET posi == PosRelat(i, len)
      pose == PosRelat(j, len)
  IN  (IF posi <= 0 THEN 1 ELSE posi)..(IF pose > len THEN len ELSE pose)
=============================================================================
