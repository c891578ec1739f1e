----------------------------- MODULE LuaAuxLib -----------------------------
(***************************************************************************)
(* Two helpers for C functions in the Lua interpreter of the pgo lab       *)
(* (lauxlib.c), neither of which knows of the other.                       *)
(*                                                                         *)
(* String buffers: a C array, and pieces of the string on the Lua stack,   *)
(* of which there are few enough for the stack of any C function.          *)
(*                                                                         *)
(* References to Lua values (luaL_ref, luaL_unref): integer keys of a      *)
(* table.  The free ones are a list that begins at key FREELIST_REF, each  *)
(* with the next one for its value; the last has no value, so the table    *)
(* may have a hole.                                                        *)
(***************************************************************************)
EXTENDS Integers, SequencesExt

CONSTANTS LUAL_BUFFERSIZE,
          LIMIT,       \* the pieces a buffer may have: half of LUA_MINSTACK
          MaxAdded     \* bound: of the string that is built

VARIABLES
  pieces,  \* the strings on the Lua stack, the last on top; B->lvl of them
  buffer,  \* what is in B->buffer
  added    \* how many characters were added since luaL_buffinit: a character
           \* is the number it was added as

CONSTANTS Refs,      \* bound: the references there may be, 1..n
          Values,    \* what is referred to, once at a time
          Absent

FREELIST_REF == 0
NotHeld      == -2   \* LUA_NOREF

VARIABLES
  t,    \* key -> <<"value", v>>, <<"free", next>> or Absent
  held  \* value -> its reference, or NotHeld

---------------------------------------------------------------------------
(* Buffers *)

\* adjuststack: how many of the pieces become one.  One is joined with what is
\* above it while there are too many, or it is the shorter of the two.
ToGet(ps) ==
  LET lvl == Len(ps)
      Joins(n) == \/ n = 1
                  \/ lvl - n + 2 >= LIMIT
                  \/ Len(FlattenSeq(SubSeq(ps, lvl - n + 2, lvl))) > Len(ps[lvl - n + 1])
      Stops(n) == n >= 2 /\ ~ Joins(n)
  IN  IF lvl <= 1 THEN 1
      ELSE IF \E n \in 2..lvl : Stops(n) THEN Min({n \in 2..lvl : Stops(n)}) - 1 ELSE lvl
AdjustStack(ps) ==
  LET n == ToGet(ps)
  IN  SubSeq(ps, 1, Len(ps) - n) \o <<FlattenSeq(SubSeq(ps, Len(ps) - n + 1, Len(ps)))>>

\* emptybuffer
Emptied == IF buffer = <<>> THEN pieces ELSE Append(pieces, buffer)

\* luaL_addchar, with luaL_prepbuffer when the buffer is full
AddChar ==
  LET full == Len(buffer) = LUAL_BUFFERSIZE
  IN  /\ pieces' = IF full THEN AdjustStack(Emptied) ELSE pieces
      /\ buffer' = IF full THEN <<added + 1>> ELSE Append(buffer, added + 1)
      /\ added' = added + 1

\* Mutant: the buffer is not emptied first.
AddsBelow(length) ==
  /\ pieces' = IF length > 0 THEN AdjustStack(Append(pieces, [i \in 1..length |-> added + i])) ELSE pieces
  /\ added' = added + length /\ UNCHANGED buffer

\* luaL_addvalue of the string on top of the stack
AddValue(length) ==
  LET s == [i \in 1..length |-> added + i]
  IN  /\ IF length <= LUAL_BUFFERSIZE - Len(buffer)
         THEN buffer' = buffer \o s /\ UNCHANGED pieces
         ELSE buffer' = <<>> /\ pieces' = AdjustStack(Append(Emptied, s))
      /\ added' = added + length

\* luaL_pushresult, and luaL_buffinit for the next string
PushResult ==
  /\ added > 0
  /\ pieces' = <<FlattenSeq(Emptied)>> /\ buffer' = <<>> /\ UNCHANGED added
BuffInit ==
  /\ buffer = <<>> /\ Len(pieces) = 1
  /\ pieces' = <<>> /\ buffer' = <<>> /\ added' = 0

BufferInit == pieces = <<>> /\ buffer = <<>> /\ added = 0

BufferNext ==
  \/ added < MaxAdded /\ AddChar
  \/ \E length \in 0..Min({LUAL_BUFFERSIZE + 1, MaxAdded - added}) : AddValue(length)
  \/ PushResult
  \/ BuffInit

\* Whatever way a string is added in, in characters or in pieces of any
\* length, the pieces and the buffer have it in the order it came
\* (luaL_addvalue puts the buffer before the new value).
InOrder == FlattenSeq(pieces) \o buffer = [i \in 1..added |-> i]

\* A C function that builds a string has room for it: the buffer never fills
\* more than half of the stack it is sure to have (adjuststack).
FewPieces == Len(pieces) < LIMIT /\ Len(buffer) <= LUAL_BUFFERSIZE

---------------------------------------------------------------------------
(* References *)

\* lua_tointeger of what is in the table: 0 when it is no number
FirstFree == IF t[FREELIST_REF] = Absent THEN 0 ELSE t[FREELIST_REF][2]

\* lua_objlen: any n that has a value while n + 1 has none
Boundaries ==
  {n \in Refs \cup {0} : (n = 0 \/ t[n] # Absent) /\ (n + 1 \in Refs => t[n + 1] = Absent)}

\* luaL_ref; nil has a reference of its own, for which nothing is kept
Ref(v) ==
  /\ held[v] = NotHeld
  /\ \E ref \in IF FirstFree # 0 THEN {FirstFree} ELSE {n + 1 : n \in Boundaries} \cap Refs :
       /\ held' = [held EXCEPT ![v] = ref]
       /\ t' = [t EXCEPT ![FREELIST_REF] = IF FirstFree # 0 THEN t[ref] ELSE @,
                         ![ref] = <<"value", v>>]

\* luaL_unref
Unref(v) ==
  /\ held[v] # NotHeld
  /\ t' = [t EXCEPT ![held[v]] = t[FREELIST_REF], ![FREELIST_REF] = <<"free", held[v]>>]
  /\ held' = [held EXCEPT ![v] = NotHeld]

RefsInit ==
  /\ t = [ref \in Refs \cup {FREELIST_REF} |-> Absent]
  /\ held = [v \in Values |-> NotHeld]

RefsNext == \E v \in Values : Ref(v) \/ Unref(v)

\* A reference gives the value it was made for, until it is given up: none is
\* made twice, though the length of a table with a hole may be any boundary
\* (luaL_ref takes a new key only when no key is free).
RefersToItsValue == \A v \in Values : held[v] # NotHeld => t[held[v]] = <<"value", v>>

\* Free keys are used again: the table has no more of them than there were
\* values referred to at a time.
KeysAreReused == \A ref \in Refs : ref > Cardinality(Values) => t[ref] = Absent
=============================================================================
