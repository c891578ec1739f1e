---------------------------- MODULE MCLuaRuntime ----------------------------
(***************************************************************************)
(* Parts of the Lua interpreter, one at a time: every behaviour is of one  *)
(* of them.  Calls and coroutines have variables of their own, which stay  *)
(* as they begin in the other parts; those are in s1, s2 and s3.           *)
(***************************************************************************)
EXTENDS LuaCalls

CONSTANTS key1, key2, val1, val2, val3, Junk, Message, Object

\* Of the helpers; the last three are bounds
CONSTANTS LUAL_BUFFERSIZE, LIMIT, Referred, MaxRefs, MaxAdded

\* Of the tables
CONSTANTS Nil, Ints, Others, Hash, Vals, Fields, NoNode, Off, MAX_INT, MaxSizes

ASSUME KeysAssumption ==
  /\ Ints \subseteq 1..MAX_INT
  /\ Hash \in [Ints \cup Others -> Nat]
  /\ Nil \notin Ints \cup Others \cup Vals
  /\ Fields \subseteq (Ints \cup Others) \X Vals

ASSUME HelpersAssumption ==
  /\ LUAL_BUFFERSIZE \in Nat \ {0} /\ LIMIT \in Nat \ {0, 1}
  /\ IsFiniteSet(Referred) /\ MaxRefs \in Nat /\ MaxAdded \in Nat
  /\ \A v \in Referred : Nil # <<"value", v>>
  /\ \A n \in 1..MaxRefs : Nil # <<"free", n>>

VARIABLES part, s1, s2, s3

rest == <<s1, s2, s3>>

Unused == "unused"

Table == INSTANCE LuaTable WITH t <- s1, cursor <- s2
AuxLib == INSTANCE LuaAuxLib WITH
  pieces <- s1, buffer <- s2, added <- s3,
  t <- s1, held <- s2, Refs <- 1..MaxRefs, Values <- Referred, Absent <- Nil
\* key1 is a C function; key2, val1 and val3 are Lua functions, of which the last
\* has two parameters that may both be missing; val2 has a __call.
Proto(params, vararg) == [params |-> params, vararg |-> vararg, size |-> 2]
Protos == key2 :> Proto(1, FALSE) @@ val1 :> Proto(1, TRUE) @@ val3 :> Proto(2, TRUE)
Stack == INSTANCE LuaStack WITH
  L <- s1, G <- s2, Strings <- {Message}, CFunctions <- {key1}, Handler <- val2 :> key1,
  LUA_MINSTACK <- 2, EXTRA_STACK <- 1, BASIC_STACK_SIZE <- 4, LUAI_MAXCSTACK <- 5,
  HookNeeds <- 5, MaxCalls <- 3, MaxKept <- 1

MCInit ==
  /\ Init
  /\ \/ part = "calls" /\ s1 = Unused /\ s2 = Unused /\ s3 = Unused
     \/ part = "table" /\ Table!Init /\ s3 = Unused
     \/ part = "buffer" /\ AuxLib!BufferInit
     \/ part = "references" /\ AuxLib!RefsInit /\ s3 = Unused
     \/ part = "stack" /\ Stack!Init /\ s3 = Unused

MCNext ==
  /\ UNCHANGED part
  /\ \/ part = "calls" /\ Next /\ UNCHANGED rest
     \/ part = "table" /\ Table!Next /\ UNCHANGED <<vars, s3>>
     \/ part = "buffer" /\ AuxLib!BufferNext /\ UNCHANGED vars
     \/ part = "references" /\ AuxLib!RefsNext /\ UNCHANGED <<vars, s3>>
     \/ part = "stack" /\ Stack!Next /\ UNCHANGED <<vars, s3>>

MCSpec == MCInit /\ [][MCNext]_<<vars, part, rest>>

\* Only the stack of values
StackSpec == MCInit /\ part = "stack" /\ [][MCNext]_<<vars, part, rest>>

\* Keys of both kinds that collide; two values
MCHash == key1 :> 0 @@ key2 :> 2 @@ 1 :> 1 @@ 2 :> 2 @@ 4 :> 4
MCFields == {<<k, IF k \in {1, key1} THEN val1 ELSE val2>> : k \in Ints \cup Others}
MCSizes == [array |-> 1, hash |-> 3]

-----------------------------------------------------------------------------
(* Properties *)

\* luaH_set, newkey, luaH_next: a table is a map, whatever moves, dies, is reused
\* or resized in it, and a traversal visits every key that stays once.
Map == INSTANCE LuaMap WITH
  Keys <- Ints \cup Others,
  map  <- IF part = "table" THEN Table!AsMap ELSE [k \in Ints \cup Others |-> Nil],
  todo <- IF part = "table" THEN Table!Ahead ELSE {}
ImplementsMap == Map!Spec

\* luaH_getn, luaH_get, findindex, newkey: the length is a boundary, and every
\* element hangs on its own chain.
\* luaD_reallocstack, luaD_callhook, luaD_precall, lua_pcall: when the stack of
\* values moves, every pointer into it follows, and the parts of the active
\* functions lie in it one above the other.
ChainsAndPointers ==
  /\ part = "table" => Table!LengthIsABoundary /\ Table!EveryElementIsChained
  /\ part = "stack" => Stack!PointersFollow

\* lua_assert(ci->top <= L->stack_last) of luaD_precall and luaD_callhook.  A
\* function with variable arguments breaks it when two of its fixed parameters
\* are missing: room is made for its registers only, which begin above those.
TopsStayBelowLast == part = "stack" => Stack!TopsAreBelowLast

\* luaD_call, lua_resume, luaD_throw, luaV_execute: the running thread counts the
\* C calls of all threads, an error never jumps into a C function that has
\* returned, and nexeccalls are the Lua functions each execution returns from.
FramesAreActive ==
  CLevelsAreCounted /\ JumpsToActiveFrame /\ ExecuteOwnsItsFunctions

\* lua_remove, lua_pcall, luaD_precall, luaD_poscall, luaG_errormsg, OP_TAILCALL:
\* in the array that moves, each function keeps a list of values of its own, gets
\* the arguments and results meant for it, and a failed protected call leaves its
\* caller what it had below.
Frames == INSTANCE LuaFrames WITH
  frames    <- IF part = "stack" THEN Stack!AsFrames ELSE Stack!Outermost,
  protected <- IF part = "stack" THEN Stack!AsProtected ELSE <<>>,
  up        <- IF part = "stack" THEN s2.up ELSE Nil,
  field     <- IF part = "stack" THEN s2.field ELSE Nil,
  Known     <- {Message, Object, Nil, key1, key2, val1, val2, val3},
  CFunctions <- {key1}, Handler <- val2 :> key1
ImplementsFrames == Frames!Spec

\* luaL_prepbuffer, luaL_addvalue, adjuststack, luaL_ref, luaL_unref: a buffer is
\* what was added in its order and takes few stack slots; a reference is of its
\* own value until it is freed, and then the next one that is given.
HelpersKeepWhatTheyGot ==
  /\ part = "buffer" => AuxLib!InOrder /\ AuxLib!FewPieces
  /\ part = "references" => AuxLib!RefersToItsValue /\ AuxLib!KeysAreReused

\* lua_yield, auxresume: a yield cuts off no C function, and a coroutine that
\* ended, or failed, stays dead.
CoroutinesKeepTheirPlace == [][YieldCutsNoC /\ DeadStays]_<<vars, part, rest>>
=============================================================================
