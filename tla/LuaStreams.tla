---------------------------- MODULE LuaStreams ----------------------------
(***************************************************************************)
(* What the Lua interpreter of the pgo lab reads from a stream that comes  *)
(* in pieces: the ZIO of the parser and the loader (lzio.c), the file of a *)
(* chunk (lauxlib.c), and the formats of io.read (liolib.c), which read    *)
(* through a C array of BUFSIZE.                                           *)
(*                                                                         *)
(* A stream is the sequence of what is left of it.                         *)
(***************************************************************************)
EXTENDS Integers, SequencesExt

CONSTANTS BUFSIZE,       \* LUAL_BUFFERSIZE
          NL, NUL, ESC   \* the end of a line, '\0', LUA_SIGNATURE[0]

From(s, i) == SubSeq(s, i, Len(s))

---------------------------------------------------------------------------
\* ZIO: [buffer, pieces], what is left of the piece at hand and the pieces the
\* reader is still to give; it gives an empty one, or none, at the end.
ZInit(pieces) == [buffer |-> <<>>, pieces |-> pieces]

\* luaZ_lookahead: with the first byte of the next piece, if there is one
ZLookahead(z) ==
  IF z.buffer # <<>> \/ z.pieces = <<>> THEN z
  ELSE [buffer |-> Head(z.pieces), pieces |-> IF Head(z.pieces) = <<>> THEN z.pieces ELSE Tail(z.pieces)]

\* zgetc and luaZ_fill
ZGetc(z) ==
  LET ahead == ZLookahead(z)
  IN  IF ahead.buffer = <<>> THEN [z |-> ahead, c |-> NUL, eoz |-> TRUE]
      ELSE [z |-> [ahead EXCEPT !.buffer = Tail(@)], c |-> Head(ahead.buffer), eoz |-> FALSE]

\* luaZ_read: [z, got, missing]
RECURSIVE ZReadOn(_, _, _)
ZReadOn(z, got, n) ==
  LET ahead == ZLookahead(z)
      m == Min({n, Len(ahead.buffer)})
  IN  IF n = 0 THEN [z |-> z, got |-> got, missing |-> 0]
      ELSE IF m = 0 THEN [z |-> ahead, got |-> got, missing |-> n]
      ELSE ZReadOn([ahead EXCEPT !.buffer = From(@, m + 1)], got \o SubSeq(ahead.buffer, 1, m), n - m)
ZRead(z, n) == ZReadOn(z, <<>>, n)

---------------------------------------------------------------------------
\* luaL_loadfile: the pieces that getF gives lua_load.  A first line with # is
\* left out but for its end; a binary chunk is read again from its signature.
RECURSIVE SkipTo(_, _)
SkipTo(s, c) == IF s = <<>> THEN <<>> ELSE IF Head(s) = c THEN s ELSE SkipTo(Tail(s), c)
RECURSIVE Blocks(_)
Blocks(s) == IF s = <<>> THEN <<>>
             ELSE <<SubSeq(s, 1, Min({BUFSIZE, Len(s)}))>> \o Blocks(From(s, BUFSIZE + 1))
LoadFile(s) ==
  LET unix == s # <<>> /\ s[1] = "#"
      line == IF unix THEN From(SkipTo(s, NL), 2) ELSE s
  IN  IF line # <<>> /\ line[1] = ESC THEN Blocks(SkipTo(s, ESC))
      ELSE (IF unix THEN <<<<NL>>>> ELSE <<>>) \o Blocks(line)

---------------------------------------------------------------------------
\* The formats of io.read: [got, rest, success]

\* fgets into the array; what is in it is taken to end at the first '\0'
FGets(s) ==
  LET n == Min({BUFSIZE - 1, Len(s)})
      ends == {i \in 1..n : s[i] = NL}
  IN  SubSeq(s, 1, IF ends = {} THEN n ELSE Min(ends))
UptoNul(p) == LET nuls == {i \in DOMAIN p : p[i] = NUL}
              IN  IF nuls = {} THEN p ELSE SubSeq(p, 1, Min(nuls) - 1)

RECURSIVE ReadLineOn(_, _)
ReadLineOn(s, got) ==
  LET p == FGets(s)
      l == UptoNul(p)
      rest == From(s, Len(p) + 1)
  IN  IF s = <<>> THEN [got |-> got, rest |-> s, success |-> got # <<>>]
      ELSE IF l = <<>> THEN ReadLineOn(rest, got)
      ELSE IF Last(l) # NL THEN ReadLineOn(rest, got \o l)
      ELSE [got |-> got \o Front(l), rest |-> rest, success |-> TRUE]
ReadLine(s) == ReadLineOn(s, <<>>)

\* io_readline until it gives nothing
RECURSIVE Lines(_)
Lines(s) == LET r == ReadLine(s) IN IF r.success THEN <<r.got>> \o Lines(r.rest) ELSE <<>>

RECURSIVE ReadCharsOn(_, _, _)
ReadCharsOn(s, got, n) ==
  LET rlen == Min({BUFSIZE, n})
      nr   == Min({rlen, Len(s)})
      all  == got \o SubSeq(s, 1, nr)
  IN  IF n > nr /\ nr = rlen THEN ReadCharsOn(From(s, nr + 1), all, n - nr)
      ELSE [got |-> all, rest |-> From(s, nr + 1), success |-> n = nr \/ all # <<>>]
ReadChars(s, n) == ReadCharsOn(s, <<>>, n)

\* fscanf of a number: white space, and as many digits as follow
Scanned(s, C) == LET other == {i \in DOMAIN s : s[i] \notin C}
                 IN  IF other = {} THEN Len(s) ELSE Min(other) - 1
ReadNumber(s) ==
  LET digits == From(s, Scanned(s, {" ", NL}) + 1)
      n == Scanned(digits, {"1", "2"})
  IN  [got |-> SubSeq(digits, 1, n), rest |-> From(digits, n + 1), success |-> n > 0]

\* a format is <<"n">>, <<"l">>, <<"a">> or <<"chars", n>>
Read(s, format) ==
  CASE format[1] = "n" -> ReadNumber(s)
    [] format[1] = "l" -> ReadLine(s)
    [] format[1] = "a" -> [ReadChars(s, Len(s) + 1) EXCEPT !.success = TRUE]
    [] format[1] = "chars" ->
         IF format[2] = 0 THEN [got |-> <<>>, rest |-> s, success |-> s # <<>>]
         ELSE ReadChars(s, format[2])

\* g_read: the results, on a stack that begins with the formats.  The result of
\* a format that fails gives its place to a nil; a number that fails has none.
RECURSIVE ReadAll(_, _, _, _)
ReadOne(formats, i, stack, r) ==
  IF r.success
  THEN IF i = Len(formats) THEN [stack |-> Append(stack, r.got), n |-> i]
       ELSE ReadAll(r.rest, formats, i + 1, Append(stack, r.got))
  ELSE [stack |-> Append(IF formats[i][1] = "n" THEN Front(stack) ELSE stack, <<"nil">>), n |-> i]
ReadAll(s, formats, i, stack) == ReadOne(formats, i, stack, Read(s, formats[i]))
Topmost(r) == From(r.stack, Len(r.stack) - r.n + 1)
GRead(s, formats) == Topmost(ReadAll(s, formats, 1, formats))
=============================================================================
