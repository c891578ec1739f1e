------------------------------ MODULE LuaChunk ------------------------------
(***************************************************************************)
(* Precompiled chunks of the Lua interpreter in the pgo lab: what ldump.c  *)
(* writes of a function and lundump.c makes of it, read in pieces through  *)
(* a ZIO.                                                                  *)
(*                                                                         *)
(* A chunk is a sequence of units, each what one DumpVar writes, or one    *)
(* item of a vector or a string.  A line, and the name and the extent of a *)
(* local variable, is a unit that says nothing.                            *)
(***************************************************************************)
EXTENDS LuaCode

CONSTANTS Header,           \* luaU_header: signature, version and sizes
          Chunkname,        \* the source of the program
          LUAI_MAXCCALLS

Z == INSTANCE LuaStreams WITH BUFSIZE <- 1, NL <- Nil, NUL <- Nil, ESC <- Header

---------------------------------------------------------------------------
\* Dump
DumpString(s) == IF s = Nil THEN <<0>> ELSE <<1, s>>
DumpVector(s) == <<Len(s)>> \o s

DumpConstant(v) ==
  CASE v = Nil -> <<"nil">>
    [] v \in {True, False} -> <<"boolean", v>>
    [] v \in Int -> <<"number", v>>
    [] OTHER -> <<"string">> \o DumpString(v)

RECURSIVE DumpFunction(_, _, _)
DumpConstants(f, strip) ==
  <<Len(f.k)>> \o FlattenSeq([i \in DOMAIN f.k |-> DumpConstant(f.k[i])])
    \o <<Len(f.p)>> \o FlattenSeq([i \in DOMAIN f.p |-> DumpFunction(f.p[i], Chunkname, strip)])

Blanks(n, strip) == DumpVector([i \in 1..(IF strip THEN 0 ELSE n) |-> "blank"])
DumpDebug(f, strip) ==
  Blanks(Len(f.code), strip) \o Blanks(f.numparams, strip)
    \o (IF strip THEN <<0>>
        ELSE <<Len(f.upvalues)>> \o FlattenSeq([i \in DOMAIN f.upvalues |-> DumpString("upvalue")]))

DumpFunction(f, p, strip) ==
  DumpString(IF p = Chunkname \/ strip THEN Nil ELSE Chunkname)
    \o <<"line", "line", Len(f.upvalues), f.numparams, f.is_vararg, f.maxstacksize>>
    \o DumpVector(f.code) \o DumpConstants(f, strip) \o DumpDebug(f, strip)

Dump(f, strip) == <<Header>> \o DumpFunction(f, Nil, strip)

---------------------------------------------------------------------------
\* Undump.  S is [z, x, error]: the ZIO, what was loaded last, and the error
\* that was raised, after which nothing is loaded any more.
Throw(S, why) == IF S.error = "" THEN [S EXCEPT !.error = why, !.x = 0] ELSE S

LoadedBlock(S, r) ==
  IF r.missing # 0 THEN Throw([S EXCEPT !.z = r.z], "unexpected end")
  ELSE [S EXCEPT !.z = r.z, !.x = r.got]
LoadBlock(S, n) == IF S.error # "" THEN [S EXCEPT !.x = 0] ELSE LoadedBlock(S, Z!ZRead(S.z, n))

Only(S) == IF S.error = "" THEN [S EXCEPT !.x = S.x[1]] ELSE S
LoadChar(S) == Only(LoadBlock(S, 1))
LoadInt(S) == LoadChar(S)      \* none that is written is negative

LoadString(S) ==
  LET size == LoadInt(S)
  IN  IF size.x = 0 THEN [size EXCEPT !.x = IF size.error = "" THEN Nil ELSE 0] ELSE Only(LoadBlock(size, 1))

LoadVector(S) == LET n == LoadInt(S) IN LoadBlock(n, n.x)

\* n things, each by LoadOne; x is then the sequence of them
LoadMany(n, LoadOne(_)) ==
  LET Next(acc, i) == LET S == LoadOne(acc.S) IN [S |-> S, list |-> Append(acc.list, S.x)]
      all == FoldLeft(Next, [S |-> n, list |-> <<>>], [i \in 1..n.x |-> i])
  IN  [all.S EXCEPT !.x = all.list]

ConstantOf(t) ==
  CASE t.error # "" -> t
    [] t.x = "nil" -> [t EXCEPT !.x = Nil]
    [] t.x \in {"boolean", "number"} -> LoadChar(t)
    [] t.x = "string" -> LoadString(t)
    [] OTHER -> Throw(t, "bad constant")
LoadConstant(S) == ConstantOf(LoadChar(S))

\* the fields of a function in the order they are loaded
Fields == <<"source", "linedefined", "lastlinedefined", "nups", "numparams", "is_vararg",
            "maxstacksize", "code", "k", "p", "lineinfo", "locvars", "upvalues">>

RECURSIVE LoadFunction(_, _, _)
LoadField(S, field, depth, p) ==
  CASE field = "source" -> LoadString(S)
    [] field \in {"linedefined", "lastlinedefined"} -> LoadInt(S)
    [] field \in {"nups", "numparams", "is_vararg", "maxstacksize"} -> LoadChar(S)
    [] field \in {"code", "lineinfo", "locvars"} -> LoadVector(S)
    [] field = "k" -> LoadMany(LoadInt(S), LoadConstant)
    [] field = "upvalues" -> LoadMany(LoadInt(S), LoadString)
    [] field = "p" -> LoadMany(LoadInt(S), LAMBDA U : LoadFunction(U, depth + 1, p))

\* what is loaded is taken for the function it was
ProtoOfFields(f, p) ==
  [code |-> f.code, k |-> f.k, p |-> f.p, numparams |-> f.numparams,
   is_vararg |-> f.is_vararg, maxstacksize |-> f.maxstacksize,
   upvalues |-> [i \in 1..f.nups |-> "upvalue"], failed |-> FALSE,
   source |-> IF f.source = Nil THEN p ELSE f.source]

Checked(S, f) == IF CheckCode(f) THEN [S EXCEPT !.x = f] ELSE Throw(S, "bad code")
Loaded(acc, p) == IF acc.S.error # "" THEN acc.S ELSE Checked(acc.S, ProtoOfFields(acc.f, p))

LoadFunction(S, depth, p) ==
  LET Next(acc, field) ==
        LET T == LoadField(acc.S, field, depth, p)
        IN  [S |-> T, f |-> [g \in DOMAIN acc.f \cup {field} |-> IF g = field THEN T.x ELSE acc.f[g]]]
  IN  IF depth > LUAI_MAXCCALLS THEN Throw(S, "code too deep")
      ELSE IF S.error # "" THEN S
      ELSE Loaded(FoldLeft(Next, [S |-> S, f |-> <<>>], Fields), p)

AfterHeader(S) ==
  IF S.error = "" /\ S.x # Header THEN Throw(S, "bad header") ELSE LoadFunction(S, 1, "=?")
Undump(pieces) == AfterHeader(LoadChar([z |-> Z!ZInit(pieces), x |-> 0, error |-> ""]))

\* the blocks a reader gives, of n units each
RECURSIVE InPieces(_, _)
InPieces(s, n) ==
  IF Len(s) <= n THEN <<s>> ELSE <<SubSeq(s, 1, n)>> \o InPieces(SubSeq(s, n + 1, Len(s)), n)
=============================================================================
