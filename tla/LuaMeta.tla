------------------------------ MODULE LuaMeta ------------------------------
(***************************************************************************)
(* Metamethods of the Lua interpreter in the pgo lab (lvm.c, ltm.c): what  *)
(* indexing, assignment and comparison of values with metatables do, and   *)
(* the flags in which a metatable remembers the events it has no field for.*)
(*                                                                         *)
(* An outcome is <<"value", v>>, <<"set", table>>, <<"call", handler,      *)
(* object>> or <<"error">>.  A handler that is no table is a function.     *)
(***************************************************************************)
EXTENDS Integers, FiniteSets

CONSTANTS Tables, Userdata,
          Handlers,      \* functions
          key, val,      \* a key that is no event, and its value
          Nil, NoTable,
          MAXTAGLOOP,
          MaxFields,     \* bound: of the fields that have a value
          OwnNewindex    \* bound: may an assignment store __newindex in a table
                         \* that is its own metatable?

Cached  == {"__index", "__newindex", "__eq"}    \* of the events up to TM_EQ
Ordered == {"__lt", "__le"}
Fields  == Cached \cup Ordered \cup {"__metatable", key}
Objects == Tables \cup Userdata

VARIABLES
  raw,    \* table -> field -> its value
  meta,   \* object -> its metatable
  flags   \* table -> events it is known to have no field for

vars == <<raw, meta, flags>>

---------------------------------------------------------------------------
\* fasttm and luaT_gettm: the field, Nil if there is none, and the flags then
FastTM(fl, mt, event) ==
  IF mt = NoTable \/ event \in fl[mt] THEN [tm |-> Nil, flags |-> fl]
  ELSE [tm |-> raw[mt][event],
        flags |-> IF raw[mt][event] = Nil THEN [fl EXCEPT ![mt] = @ \cup {event}] ELSE fl]

\* luaT_gettmbyobj
TMByObj(o, event) == IF meta[o] = NoTable THEN Nil ELSE raw[meta[o]][event]

\* luaV_gettable
RECURSIVE GetOn(_, _, _, _)
GetVia(o, k, loop, r) ==
  IF r.tm = Nil THEN [out |-> IF o \in Tables THEN <<"value", raw[o][k]>> ELSE <<"error">>, flags |-> r.flags]
  ELSE IF r.tm \in Handlers THEN [out |-> <<"call", r.tm, o>>, flags |-> r.flags]
  ELSE GetOn(r.tm, k, loop + 1, r.flags)
GetOn(o, k, loop, fl) ==
  IF loop = MAXTAGLOOP THEN [out |-> <<"error">>, flags |-> fl]
  ELSE IF o \notin Tables THEN GetVia(o, k, loop, [tm |-> TMByObj(o, "__index"), flags |-> fl])
  ELSE IF raw[o][k] # Nil THEN [out |-> <<"value", raw[o][k]>>, flags |-> fl]
  ELSE GetVia(o, k, loop, FastTM(fl, meta[o], "__index"))
Get(o, k) == GetOn(o, k, 0, flags)

\* luaV_settable; luaH_set makes the key, and clears the flags of the table
RECURSIVE SetOn(_, _, _, _)
SetVia(o, k, loop, r) ==
  IF r.tm = Nil THEN [out |-> IF o \in Tables THEN <<"set", o>> ELSE <<"error">>, flags |-> r.flags]
  ELSE IF r.tm \in Handlers THEN [out |-> <<"call", r.tm, o>>, flags |-> r.flags]
  ELSE SetOn(r.tm, k, loop + 1, r.flags)
Cleared(fl, t) == [fl EXCEPT ![t] = {}]

\* Mutant: the flags are not cleared.
KeepsFlags(fl, t) == fl

LuaHSet(fl, t) == Cleared(fl, t)
SetOn(o, k, loop, fl) ==
  IF loop = MAXTAGLOOP THEN [out |-> <<"error">>, flags |-> fl]
  ELSE IF o \notin Tables THEN SetVia(o, k, loop, [tm |-> TMByObj(o, "__newindex"), flags |-> fl])
  ELSE IF raw[o][k] # Nil THEN [out |-> <<"set", o>>, flags |-> LuaHSet(fl, o)]
  ELSE SetVia(o, k, loop, FastTM(LuaHSet(fl, o), meta[o], "__newindex"))
Set(o, k) == SetOn(o, k, 0, flags)

\* get_compTM of __eq, and luaV_equalval: <<handler or Nil>>, or the answer
SecondTM(r1, o, p) ==
  LET r2 == FastTM(r1.flags, meta[p], "__eq")
  IN  IF r1.tm = Nil \/ meta[o] = meta[p] THEN r1
      ELSE IF r2.tm = r1.tm THEN r2 ELSE [r2 EXCEPT !.tm = Nil]
CompTM(o, p) == SecondTM(FastTM(flags, meta[o], "__eq"), o, p)
Equal(o, p) ==
  IF o = p THEN [out |-> <<"equal">>, flags |-> flags]
  ELSE IF (o \in Tables) # (p \in Tables) THEN [out |-> <<"different">>, flags |-> flags]
  ELSE LET r == CompTM(o, p)
       IN  [out |-> IF r.tm = Nil THEN <<"different">> ELSE <<"call", r.tm, o>>, flags |-> r.flags]

\* call_orderTM, luaV_lessthan and lessequal, of two tables or two userdata;
\* __le may be the negation of __lt with the operands exchanged
OrderTM(o, p, event) == IF TMByObj(o, event) = TMByObj(p, event) THEN TMByObj(o, event) ELSE Nil
LessThan(o, p) == IF OrderTM(o, p, "__lt") = Nil THEN <<"error">> ELSE <<"call", OrderTM(o, p, "__lt"), o>>
LessEqual(o, p) ==
  IF OrderTM(o, p, "__le") # Nil THEN <<"call", OrderTM(o, p, "__le"), o>>
  ELSE IF OrderTM(p, o, "__lt") # Nil THEN <<"not", OrderTM(p, o, "__lt"), p>> ELSE <<"error">>

---------------------------------------------------------------------------
HasRoom == Cardinality({<<t, k>> \in Tables \X Fields : raw[t][k] # Nil}) < MaxFields
Store(t, k, v, room) ==
  /\ v # Nil /\ raw[t][k] = Nil => room
  /\ raw' = [raw EXCEPT ![t][k] = v]

ValuesOf(k) ==
  CASE k = key -> {val, Nil}
    [] k \in {"__index", "__newindex"} -> Handlers \cup Tables \cup {Nil}
    [] OTHER -> Handlers \cup {Nil}

GetTable(o, k) == flags' = Get(o, k).flags /\ UNCHANGED <<raw, meta>>
SetTable(o, k, v, room) ==
  /\ LET r == Set(o, k)
     IN  /\ OwnNewindex \/ ~ (k = "__newindex" /\ r.out[1] = "set" /\ meta[r.out[2]] = r.out[2])
         /\ flags' = r.flags
         /\ IF r.out[1] = "set" THEN Store(r.out[2], k, v, room) ELSE UNCHANGED raw
  /\ UNCHANGED meta
RawSet(t, k, v, room) ==     \* lua_rawset
  /\ Store(t, k, v, room) /\ flags' = LuaHSet(flags, t) /\ UNCHANGED meta
Compare(o, p) == flags' = Equal(o, p).flags /\ UNCHANGED <<raw, meta>>

\* luaB_setmetatable of a table, which a field __metatable protects, and
\* lua_setmetatable of a userdata
SetMetatable(o, mt) ==
  /\ o \in Tables => TMByObj(o, "__metatable") = Nil
  /\ meta' = [meta EXCEPT ![o] = mt]
  /\ UNCHANGED <<raw, flags>>

Init ==
  /\ raw = [t \in Tables |-> [k \in Fields |-> Nil]]
  /\ meta = [o \in Objects |-> NoTable]
  /\ flags = [t \in Tables |-> Cached]      \* luaH_new

Next ==
  LET room == HasRoom IN
  \/ \E o \in Objects :
       \/ GetTable(o, key)
       \/ \E k \in {"__newindex", key}, v \in Handlers \cup {Nil} : SetTable(o, k, v, room)
  \/ \E t \in Tables, k \in Fields : \E v \in ValuesOf(k) \ {raw[t][k]} : RawSet(t, k, v, room)
  \/ \E o \in Objects : \E p \in Objects \ {o} : Compare(o, p)
  \/ \E o \in Objects, mt \in Tables \cup {NoTable} : SetMetatable(o, mt)

Spec == Init /\ [][Next]_vars

---------------------------------------------------------------------------
\* What the events mean, from the fields alone: the handlers are followed from
\* object to object until there is none, or a function; a circle is an error.
Direct(o, k, event) == o \in Tables /\ (raw[o][k] # Nil \/ TMByObj(o, event) = Nil)
RECURSIVE Follow(_, _, _, _)
Follow(o, k, event, seen) ==
  IF o \in seen THEN <<"error">>
  ELSE IF Direct(o, k, event) THEN <<"object", o>>
  ELSE IF TMByObj(o, event) = Nil THEN <<"error">>
  ELSE IF TMByObj(o, event) \in Handlers THEN <<"call", TMByObj(o, event), o>>
  ELSE Follow(TMByObj(o, event), k, event, seen \cup {o})

GetMeans(o, k) ==
  LET f == Follow(o, k, "__index", {}) IN IF f[1] = "object" THEN <<"value", raw[f[2]][k]>> ELSE f
SetMeans(o, k) ==
  LET f == Follow(o, k, "__newindex", {}) IN IF f[1] = "object" THEN <<"set", f[2]>> ELSE f

\* Indexing and assignment find the handler the metatables have at the moment,
\* whatever is cached in their flags (luaV_gettable, luaV_settable, luaH_set).
HandlersAreFound ==
  \A o \in Objects, k \in {"__index", "__newindex", key} :
    Get(o, k).out = GetMeans(o, k) /\ Set(o, k).out = SetMeans(o, k)

\* A comparison has the same handler whichever operand comes first, and it is one
\* that both operands have (get_compTM, call_orderTM).
HandlersAreShared ==
  \A o, p \in Objects :
    LET eq == Equal(o, p).out
        eq2 == Equal(p, o).out
    IN  /\ eq[1] = eq2[1]
        /\ eq[1] = "call" => eq[2] = eq2[2] /\ eq[2] = TMByObj(o, "__eq") /\ eq[2] = TMByObj(p, "__eq")
        /\ LessThan(o, p)[1] = LessThan(p, o)[1]
        /\ LessEqual(o, p)[1] = LessEqual(p, o)[1]
=============================================================================
