------------------------------ MODULE LuaStack ------------------------------
(***************************************************************************)
(* The stack of a Lua thread in the pgo lab (ldo.c, lapi.c): an array that *)
(* moves when it grows or shrinks, with pointers into it from the thread,  *)
(* the active functions and the open upvalues, and the operations of C and *)
(* Lua functions on their own part of it.                                  *)
(*                                                                         *)
(* A pointer is <<block, offset>>; the array is at L.block.  What lies     *)
(* above the top is Junk.                                                  *)
(***************************************************************************)
EXTENDS Integers, Sequences, SequencesExt

CONSTANTS Nil, Junk, Message,
          Strings,        \* what C functions push; luaC_checkGC comes first
          CFunctions,
          Protos,         \* Lua function -> [params, vararg, size]
          Handler,        \* objects that are called by __call, and the function
          Object,         \* with a field
          LUA_MINSTACK, EXTRA_STACK, BASIC_STACK_SIZE, LUAI_MAXCSTACK,
          HookNeeds,      \* stack that a hook asks for
          MaxCalls,       \* bound: of active functions
          MaxKept         \* bound: values a function keeps below a call

VARIABLES
  L,   \* the thread: block, slots (offset -> value), top, base, ci (the active
       \* functions), open (pointers of open upvalues), jmps (protected calls),
       \* errfunc (an offset), hooked, stray
  G    \* [up, field, pushes]: the upvalue of the C functions, the field of
       \* Object, and what a behaviour pushes

MULTRET == -1
None    == -1     \* of errfunc, and of what a function does when a call returns
Throw   == -2     \* it goes on with luaD_throw

Plus(p, n)   == <<p[1], p[2] + n>>
Ptr(M, n)    == <<M.block, n>>       \* restorestack
Size(M)      == Cardinality(DOMAIN M.slots)
StackLast(M) == Size(M) - EXTRA_STACK - 1
Valid(M, p)  == p[1] = M.block /\ p[2] \in DOMAIN M.slots
Read(M, p)   == IF Valid(M, p) THEN M.slots[p[2]] ELSE Junk
Write(M, p, v) ==
  IF Valid(M, p) THEN [M EXCEPT !.slots[p[2]] = v] ELSE [M EXCEPT !.stray = TRUE]
\* values at offsets from p on
WriteAll(M, p, vs) ==
  IF vs = <<>> THEN M
  ELSE IF Valid(M, p) /\ Valid(M, Plus(p, Len(vs) - 1))
  THEN [M EXCEPT !.slots = [o \in DOMAIN @ |-> IF o - p[2] + 1 \in DOMAIN vs THEN vs[o - p[2] + 1] ELSE @[o]]]
  ELSE [M EXCEPT !.stray = TRUE]
Values(M, p, q) == [i \in 1..(q[2] - p[2]) |-> Read(M, Plus(p, i - 1))]
Nils(n) == [i \in 1..n |-> Nil]

\* L->top = p: what was above it is of no function
SetTop(M, p) == [M EXCEPT !.top = p, !.slots = [o \in DOMAIN @ |-> IF o < p[2] THEN @[o] ELSE Junk]]

CI(M)     == Last(M.ci)
SetCI(M, ci) == [M EXCEPT !.ci = Append(Front(@), ci)]
CITop(M, p)  == SetCI(M, [CI(M) EXCEPT !.top = p])
After(M, a)  == SetCI(M, [CI(M) EXCEPT !.after = a])
IsLua(M)  == Read(M, CI(M).func) \in DOMAIN Protos
GetTop(M) == M.top[2] - M.base[2]

---------------------------------------------------------------------------
(* The array *)

Moved(p, block) == <<block, p[2]>>

\* Mutant: the active functions below the current one are forgotten.
CorrectsLast(M, block) ==
  [M EXCEPT !.top  = Moved(@, block),
            !.open = [i \in DOMAIN @ |-> Moved(@[i], block)],
            !.ci[Len(M.ci)] = [@ EXCEPT !.top = Moved(@, block), !.base = Moved(@, block),
                                        !.func = Moved(@, block)],
            !.base = Moved(@, block)]

\* correctstack
CorrectStack(M, block) ==
  [M EXCEPT !.top  = Moved(@, block),
            !.open = [i \in DOMAIN @ |-> Moved(@[i], block)],
            !.ci   = [i \in DOMAIN @ |-> [@[i] EXCEPT !.top = Moved(@, block), !.base = Moved(@, block),
                                                      !.func = Moved(@, block)]],
            !.base = Moved(@, block)]

ReallocStack(M, newsize) ==
  CorrectStack([M EXCEPT !.block = 1 - @,
                         !.slots = [o \in 0..(newsize + EXTRA_STACK) |->
                                      IF o \in DOMAIN @ THEN @[o] ELSE Junk]], 1 - M.block)

GrowStack(M, n) == ReallocStack(M, IF n <= Size(M) THEN 2 * Size(M) ELSE Size(M) + n)
CheckStack(M, n) == IF StackLast(M) - M.top[2] <= n THEN GrowStack(M, n) ELSE M
MoveTop(M, n) == [M EXCEPT !.top = Plus(@, n)]
IncrTop(M) == MoveTop(CheckStack(M, 1), 1)

\* checkstacksizes, called by the collector with the highest top
Used(M) == Max({M.top[2]} \cup {M.ci[i].top[2] : i \in DOMAIN M.ci})
CheckStackSizes(M) ==
  IF 4 * Used(M) < Size(M) /\ 2 * (BASIC_STACK_SIZE + EXTRA_STACK) < Size(M)
  THEN ReallocStack(M, Size(M) \div 2) ELSE M
\* luaC_checkGC
CheckGC(M, steps) == IF steps THEN CheckStackSizes(M) ELSE M

---------------------------------------------------------------------------
(* Calls.  how is what a call meets: [gc: the collector visits the thread, *)
(* needs: the stack that a hook asks for].                                 *)

\* luaD_callhook: a hook finds the stack it may use, and leaves nothing
HookTop(M)   == CITop(M, Plus(M.top, LUA_MINSTACK))
AsIn(M, old) == CITop([M EXCEPT !.top = Ptr(M, old.top[2])], Ptr(M, CI(old).top[2]))
CallHook(M, how) ==
  IF M.hooked THEN AsIn(CheckStack(HookTop(CheckStack(M, LUA_MINSTACK)), how.needs), M) ELSE M

\* tryfuncTM; func is an offset
MoveUp(M, func) == IncrTop(WriteAll(M, Ptr(M, func + 1), Values(M, Ptr(M, func), M.top)))
SetFunc(M, func, f) == Write(M, Ptr(M, func), f)
TryFuncTM(M, func) ==
  IF M.slots[func] \in DOMAIN Handler THEN SetFunc(MoveUp(M, func), func, Handler[M.slots[func]]) ELSE M

Frame(func, base, top, nresults) ==
  [func |-> func, base |-> base, top |-> top, nresults |-> nresults, after |-> None]
NewCI(M, ci) == [M EXCEPT !.ci = Append(@, ci), !.base = ci.base]

\* luaD_precall of a C function, up to the call of it
NewC(M, func, nresults) ==
  NewCI(M, Frame(Ptr(M, func), Ptr(M, func + 1), Plus(M.top, LUA_MINSTACK), nresults))
EnterC(M, func, nresults, how) == CallHook(NewC(CheckStack(M, LUA_MINSTACK), func, nresults), how)

\* adjust_varargs, without the table `arg': the fixed parameters are copied
\* above the arguments, and the copied ones made nil
MoveFixed(M, params, fixed) ==
  MoveTop(WriteAll(WriteAll(M, M.top, Values(M, fixed, Plus(fixed, params))), fixed, Nils(params)), params)
AddMissing(M, n) == MoveTop(WriteAll(M, M.top, Nils(n)), n)
AdjustVarargs(M, p, func) ==
  MoveFixed(AddMissing(M, Max({0, p.params - (M.top[2] - func - 1)})), p.params, Ptr(M, func + 1))

\* luaD_precall of a Lua function
NewLua(M, base, func, size, nresults) ==
  [WriteAll(NewCI(M, Frame(func, base, Plus(base, size), nresults)), M.top, Nils(base[2] + size - M.top[2]))
     EXCEPT !.top = Plus(base, size)]
Adjusted(M, p, func) ==
  IF p.vararg THEN AdjustVarargs(M, p, func) ELSE SetTop(M, Ptr(M, Min({M.top[2], func + 1 + p.params})))
NewLuaOf(M, p, func, nresults) ==
  NewLua(M, IF p.vararg THEN Plus(M.top, -p.params) ELSE Ptr(M, func + 1), Ptr(M, func), p.size, nresults)
EnterLua(M, p, func, nresults, how) ==
  CallHook(NewLuaOf(Adjusted(CheckStack(M, p.size), p, func), p, func, nresults), how)

Enter(M, func, nresults, how) ==
  IF M.slots[func] \in CFunctions THEN EnterC(M, func, nresults, how)
  ELSE EnterLua(M, Protos[M.slots[func]], func, nresults, how)
Precall(M, func, nresults, how) == Enter(TryFuncTM(M, func), func, nresults, how)
Callable(v) == v \in CFunctions \cup DOMAIN Protos \cup DOMAIN Handler

\* luaD_poscall; the results are from firstResult on
Fit(vs, n) == IF n = MULTRET THEN vs ELSE SubSeq(vs \o Nils(n), 1, n)
Pop(M, ci, results) ==
  SetTop([WriteAll(M, ci.func, results) EXCEPT !.ci = Front(@), !.base = Last(Front(M.ci)).base],
         Plus(ci.func, Len(results)))
\* Mutant: missing results are not made nil.
NoNils(M, firstResult) ==
  LET had == Values(M, Ptr(M, firstResult), M.top)
  IN  Pop(M, CI(M), IF CI(M).nresults = MULTRET THEN had ELSE SubSeq(had, 1, Min({CI(M).nresults, Len(had)})))

MoveResults(M, firstResult) ==
  Pop(M, CI(M), Fit(Values(M, Ptr(M, firstResult), M.top), CI(M).nresults))
PosCall(M, firstResult, how) == MoveResults(CallHook(M, how), firstResult)     \* callrethooks

\* luaF_close: a pointer is open no more
CloseFrom(M, level) == [M EXCEPT !.open = SelectSeq(@, LAMBDA p : p[2] < level)]

\* adjustresults of lua_call and lua_pcall, or the end of OP_CALL and OP_RETURN
AdjustResults(M, nresults) ==
  IF nresults = MULTRET /\ M.top[2] >= CI(M).top[2] THEN CITop(M, M.top) ELSE M
Unprotected(M) ==
  IF M.jmps # <<>> /\ Last(M.jmps).level = Len(M.ci)
  THEN [M EXCEPT !.errfunc = Last(M.jmps).errfunc, !.jmps = Front(@)] ELSE M
Returned(M, nresults) ==
  IF CI(M).after = Throw THEN M
  ELSE IF ~ IsLua(M) THEN AdjustResults(Unprotected(M), nresults)
  ELSE IF nresults = MULTRET THEN M ELSE [M EXCEPT !.top = CI(M).top]
Return(M, firstResult, how) == Returned(CheckGC(PosCall(M, firstResult, how), how.gc), CI(M).nresults)

\* luaD_throw, luaD_seterrorobj and the rest of luaD_pcall
Restored(M, j) ==
  [M EXCEPT !.ci = Append(SubSeq(@, 1, j.level - 1), [@[j.level] EXCEPT !.after = None]),
            !.base = M.ci[j.level].base, !.errfunc = j.errfunc, !.jmps = Front(@)]
SetErrorObj(M, oldtop, error) == SetTop(WriteAll(M, Ptr(M, oldtop), <<error>>), Ptr(M, oldtop + 1))
UnwindTo(M, j, error) ==
  AdjustResults(SetErrorObj(Restored(CloseFrom(M, j.oldtop), j), j.oldtop, error), j.nresults)
Unwind(M, error) == UnwindTo(M, Last(M.jmps), error)

\* luaG_errormsg, with the message on top: the handler goes below it
PushHandler(M, handler) == After(IncrTop(WriteAll(M, Plus(M.top, -1), <<handler, Read(M, Plus(M.top, -1))>>)), Throw)
CallHandler(M, how) == Enter(M, M.top[2] - 2, 1, how)
Handled(M, error, handler, how) ==
  IF M.errfunc # None /\ handler \in CFunctions \cup DOMAIN Protos
  THEN CallHandler(PushHandler(M, handler), how)
  ELSE Unwind(M, IF M.errfunc = None THEN error ELSE Message)
ErrorMsg(M, how) == Handled(M, Read(M, Plus(M.top, -1)), Read(M, Ptr(M, M.errfunc)), how)

RunError(M, how) == ErrorMsg(IncrTop(Write(M, M.top, Message)), how)     \* luaG_runerror

---------------------------------------------------------------------------
(* What a C function does on its part of the stack (lapi.c) *)

InC   == ~ IsLua(L) /\ CI(L).after = None
InLua == IsLua(L) /\ CI(L).after = None

\* index2adr of an index into the stack
Index(idx) == IF idx > 0 THEN Plus(L.base, idx - 1) ELSE Plus(L.top, idx)
Indices    == ((-GetTop(L))..GetTop(L)) \ {0}
Value(idx) == IF Index(idx)[2] >= L.top[2] THEN Nil ELSE Read(L, Index(idx))
TopValue   == Value(-1)

Room == L.top[2] < CI(L).top[2]     \* what api_incr_top asks of the caller
Pushed(M, v) == [Write(M, M.top, v) EXCEPT !.top = Plus(@, 1)]
Popped(M, n) == SetTop(M, Plus(M.top, -n))

Push(v, how) == Room /\ L' = Pushed(IF v \in Strings THEN CheckGC(L, how.gc) ELSE L, v) /\ UNCHANGED G
PushCopy(idx) == Room /\ L' = Pushed(L, Value(idx)) /\ UNCHANGED G       \* lua_pushvalue
SetTopTo(idx) ==                                                        \* lua_settop
  /\ idx <= CI(L).top[2] - L.base[2]
  /\ L' = IF idx < 0 THEN SetTop(L, Plus(L.top, idx + 1))
          ELSE SetTop(WriteAll(L, L.top, Nils(Max({0, idx - GetTop(L)}))), Plus(L.base, idx))
  /\ UNCHANGED G
RemoveIdx(idx) == L' = Popped(WriteAll(L, Index(idx), Values(L, Plus(Index(idx), 1), L.top)), 1) /\ UNCHANGED G
InsertIdx(idx) ==
  /\ L' = WriteAll(L, Index(idx), <<TopValue>> \o Values(L, Index(idx), Plus(L.top, -1)))
  /\ UNCHANGED G
ReplaceIdx(idx) == L' = Popped(Write(L, Index(idx), TopValue), 1) /\ UNCHANGED G
RaiseCITop(M, size) == IF CI(M).top[2] < M.top[2] + size THEN CITop(M, Plus(M.top, size)) ELSE M
CheckStackFor(size) ==                                                  \* lua_checkstack
  /\ GetTop(L) + size <= LUAI_MAXCSTACK
  /\ L' = RaiseCITop(CheckStack(L, size), size) /\ UNCHANGED G

\* pseudo-indices: the upvalue of the running function
PushUpvalue    == Room /\ Len(L.ci) > 1 /\ L' = Pushed(L, G.up) /\ UNCHANGED G
ReplaceUpvalue == Len(L.ci) > 1 /\ G' = [G EXCEPT !.up = TopValue] /\ L' = Popped(L, 1)
GetUpvalue(idx) == Room /\ Value(idx) \in CFunctions /\ L' = Pushed(L, G.up) /\ UNCHANGED G
SetUpvalue(idx) == Value(idx) \in CFunctions /\ G' = [G EXCEPT !.up = TopValue] /\ L' = Popped(L, 1)

\* tables; the key is the Message
GetField(idx) == Room /\ Value(idx) = Object /\ L' = Pushed(L, G.field) /\ UNCHANGED G
SetField(idx) == Value(idx) = Object /\ G' = [G EXCEPT !.field = TopValue] /\ L' = Popped(L, 1)
GetTable(idx) ==
  /\ Value(idx) = Object
  /\ L' = Write(L, Plus(L.top, -1), IF TopValue = Message THEN G.field ELSE Nil)
  /\ UNCHANGED G
SetTable(idx) ==
  /\ Value(idx) = Object /\ GetTop(L) >= 2
  /\ Value(-2) = Message
  /\ G' = [G EXCEPT !.field = TopValue] /\ L' = Popped(L, 2)
NextField(idx) ==                                                       \* lua_next
  /\ Room /\ Value(idx) = Object /\ TopValue \in {Nil, Message}
  /\ L' = IF TopValue = Nil /\ G.field # Nil
          THEN Pushed(Write(L, Plus(L.top, -1), Message), G.field) ELSE Popped(L, 1)
  /\ UNCHANGED G

\* lua_call, lua_pcall, lua_error and return
MayCall == Len(L.ci) < G.calls
CallAt(M, func, nresults, how) ==
  IF Callable(M.slots[func]) THEN L' = Precall(M, func, nresults, how)
  ELSE M.jmps # <<>> /\ L' = RunError(M, how)
CApiCall(n, nresults) ==
  /\ MayCall /\ GetTop(L) - n - 1 \in 0..MaxKept
  /\ nresults # MULTRET => CI(L).top[2] - L.top[2] >= nresults - n
  /\ UNCHANGED G
Call(n, nresults, how) == CApiCall(n, nresults) /\ CallAt(L, L.top[2] - (n + 1), nresults, how)
PCall(n, nresults, errfunc, how) ==
  /\ CApiCall(n, nresults) /\ Len(L.jmps) < G.protected
  /\ LET func == L.top[2] - (n + 1)
         j == [level |-> Len(L.ci), oldtop |-> func, errfunc |-> L.errfunc, nresults |-> nresults]
     IN  CallAt([L EXCEPT !.jmps = Append(@, j),
                          !.errfunc = IF errfunc = 0 THEN None ELSE Index(errfunc)[2]], func, nresults, how)
Raise(how) == MayCall /\ L.jmps # <<>> /\ L' = ErrorMsg(L, how) /\ UNCHANGED G
ReturnC(n, how) == Len(L.ci) > 1 /\ L' = Return(L, L.top[2] - n, how) /\ UNCHANGED G

---------------------------------------------------------------------------
(* What a Lua function does on its registers (luaV_execute) *)

Register(a)  == Plus(L.base, a)
TopAt(a, n)  == SetTop(L, Plus(Register(a), n))
ThisProto    == Protos[Read(L, CI(L).func)]
Registers    == 0..(ThisProto.size - 1)
\* The compiler puts a call above the locals, so above what a closure captured.
CallsAt(a, n) ==
  /\ MayCall /\ a <= MaxKept /\ a + n \in Registers
  /\ \A i \in DOMAIN L.open : L.open[i][2] < Register(a)[2]

LoadK(a, v) == L' = Write(L, Register(a), v) /\ UNCHANGED G
OpCall(a, n, nresults, how) ==
  /\ CallsAt(a, n) /\ UNCHANGED G
  /\ CallAt(TopAt(a, n + 1), Register(a)[2], nresults, how)

\* A called Lua function takes the place of this one; a C function returns,
\* and OP_RETURN comes next.
MovedDown(M, ci, new, n) ==
  SetTop([WriteAll(M, ci.func, Values(M, new.func, M.top))
            EXCEPT !.ci = Append(Front(Front(@)), [ci EXCEPT !.base = Plus(new.base, -n), !.top = Plus(M.top, -n),
                                                             !.after = None]),
                   !.base = Plus(new.base, -n)], Plus(M.top, -n))
Replaced(M, ci) == MovedDown(CloseFrom(M, ci.base[2]), ci, CI(M), CI(M).func[2] - ci.func[2])
Tailed(M) == IF IsLua(M) THEN Replaced(M, Last(Front(M.ci))) ELSE M
OpTailCall(a, n, how) ==
  LET f == Register(a)[2]
  IN  /\ CallsAt(a, n) /\ UNCHANGED G
      /\ IF Callable(L.slots[f]) THEN L' = Tailed(Precall(After(TopAt(a, n + 1), f), f, MULTRET, how))
         ELSE L.jmps # <<>> /\ L' = RunError(TopAt(a, n + 1), how)
ReturnFrom(M, firstResult, how) == Return(CloseFrom(M, M.base[2]), firstResult, how)
OpReturn(a, n, how) ==
  /\ a + n - 1 \in Registers \cup {a - 1} /\ UNCHANGED G
  /\ L' = ReturnFrom(TopAt(a, n), Register(a)[2], how)
OpVarArg(a, n) ==
  LET had == L.base[2] - CI(L).func[2] - ThisProto.params - 1
      vs  == Values(L, Plus(L.base, -had), L.base)
  IN  /\ ThisProto.vararg /\ a + n - 1 \in Registers /\ UNCHANGED G
      /\ L' = WriteAll(L, Register(a), [i \in 1..n |-> IF i \in DOMAIN vs THEN vs[i] ELSE Nil])
FindUpval(a) ==
  /\ L.open = <<>>
  /\ L' = [L EXCEPT !.open = <<Register(a)>>] /\ UNCHANGED G

\* What follows when a message handler, or a C function that was called last,
\* has returned.
GoOn(how) ==
  /\ CI(L).after # None /\ UNCHANGED G
  /\ L' = IF CI(L).after = Throw THEN Unwind(L, TopValue)
          ELSE ReturnFrom(After(L, None), CI(L).after, how)

---------------------------------------------------------------------------
Hows == {how \in [gc : BOOLEAN, needs : {0, HookNeeds}] : how.needs # 0 => L.hooked}
NResults == {MULTRET, 1}

\* Bounds: a behaviour either uses all of the API in one function that the
\* program calls, or calls functions that do no more than push and pop values.
ListStep ==
  \/ \E idx \in Indices \cup {GetTop(L) + 1} : PushCopy(idx)
  \/ \E idx \in (-GetTop(L) - 1)..(GetTop(L) + 2) : SetTopTo(idx)
  \/ \E idx \in Indices : \/ RemoveIdx(idx) \/ InsertIdx(idx) \/ ReplaceIdx(idx)
                          \/ GetUpvalue(idx) \/ SetUpvalue(idx) \/ GetField(idx) \/ SetField(idx)
                          \/ GetTable(idx) \/ SetTable(idx) \/ NextField(idx)
  \/ PushUpvalue
  \/ GetTop(L) > 0 /\ ReplaceUpvalue
ApiStep ==
  \/ \E v \in G.pushes[Len(L.ci)], how \in Hows : how.needs = 0 /\ Push(v, how)
  \/ GetTop(L) > 0 /\ SetTopTo(-2)
  \/ G.lists /\ (ListStep \/ CheckStackFor(LUA_MINSTACK + 1))
CStep(how) ==
  \/ \E n \in 0..1, nresults \in NResults \cup {0} :
       /\ IF G.lists THEN GetTop(L) = 1 /\ n = 0 /\ nresults = 0 ELSE nresults \in NResults
       /\ \/ Call(n, nresults, how)
          \/ \E errfunc \in 0..1 : errfunc <= GetTop(L) - n - 1 /\ PCall(n, nresults, errfunc, how)
  \/ GetTop(L) > 0 /\ Raise(how)
  \/ \E n \in 0..GetTop(L) : ReturnC(n, how)
LuaStep(how) ==
  \/ \E a \in Registers, n \in 0..1 : OpTailCall(a, n, how) \/ OpCall(a, n, 1, how)
  \/ \E a \in Registers, n \in 0..2 : OpReturn(a, n, how)
RegisterStep ==
  \/ \E a \in Registers : \/ a > 0 /\ \E v \in G.pushes[Len(L.ci)] : LoadK(a, v)
                          \/ OpVarArg(a, 2)
  \/ FindUpval(0)
Next ==
  /\ \/ InC /\ ApiStep
     \/ InLua /\ RegisterStep
     \/ \E how \in Hows : \/ InC /\ CStep(how)
                          \/ InLua /\ LuaStep(how)
                          \/ GoOn(how)
  /\ ~ IsLua(L') => GetTop(L') <= G.most
  /\ G'.up \in {Nil, Object} /\ G'.field \in {Nil, Object}

\* lua_newstate: the program is a C function at the base
Init ==
  /\ L \in {[block |-> 0, slots |-> [o \in 0..(BASIC_STACK_SIZE + EXTRA_STACK - 1) |-> IF o = 0 THEN Nil ELSE Junk],
              top |-> <<0, 1>>, base |-> <<0, 1>>,
              ci |-> <<Frame(<<0, 0>>, <<0, 1>>, <<0, 1 + LUA_MINSTACK>>, 0)>>,
              open |-> <<>>, jmps |-> <<>>, errfunc |-> None, hooked |-> hooked, stray |-> FALSE] :
                hooked \in BOOLEAN}
  /\ \E f \in CFunctions \cup DOMAIN Protos \cup DOMAIN Handler :
       G = IF f \in CFunctions
           THEN [up |-> Nil, field |-> Nil, lists |-> TRUE, calls |-> 2, most |-> 3, protected |-> 0,
                 pushes |-> <<CFunctions, {Message, Object}>>]
           ELSE [up |-> Nil, field |-> Nil, lists |-> FALSE, most |-> 2,
                 protected |-> IF f \in DOMAIN Protos /\ Protos[f].vararg THEN 0 ELSE 1,
                 calls |-> IF L.hooked THEN 2 ELSE MaxCalls,
                 pushes |-> [i \in 1..MaxCalls |-> IF i = MaxCalls THEN {Message}
                                                   ELSE IF i > 1 THEN {f} ELSE CFunctions \cup {f}]]
  /\ G.lists => ~ L.hooked

vars == <<L, G>>
Spec == Init /\ [][Next]_vars

---------------------------------------------------------------------------
\* The values of the active functions: each has those from its base to the
\* function it calls, the last one those to the top.
End(i) == IF i < Len(L.ci) THEN L.ci[i + 1].func ELSE L.top
AsFrames ==
  [i \in DOMAIN L.ci |->
     LET ci == L.ci[i]
         fn == Read(L, ci.func)
     IN  [fn |-> fn, vals |-> Values(L, ci.base, End(i)), wants |-> ci.nresults,
          extra |-> IF fn \notin DOMAIN Protos THEN <<>>
                    ELSE IF Protos[fn].vararg THEN Values(L, Plus(ci.func, 1 + Protos[fn].params), ci.base)
                    ELSE <<>>,
          after |-> IF ci.after < 0 THEN ci.after ELSE ci.after - ci.base[2] + 1]]
Outermost == <<[fn |-> Nil, vals |-> <<>>, extra |-> <<>>, wants |-> 0, after |-> None]>>
AsProtected ==
  [i \in DOMAIN L.jmps |->
     LET j == L.jmps[i]
         e == IF i < Len(L.jmps) THEN L.jmps[i + 1].errfunc ELSE L.errfunc
     IN  [level |-> j.level, kept |-> j.oldtop - L.ci[j.level].base[2],
          handler |-> IF e = None THEN 0 ELSE e - L.ci[j.level].base[2] + 1]]

\* luaD_precall reserves the registers of a Lua function, but adjust_varargs sets
\* them above the parameters that were missing; one of them always has room.
Overrun(i) ==
  LET fn == Read(L, L.ci[i].func)
  IN  IF fn \in DOMAIN Protos /\ Protos[fn].vararg THEN Max({0, Protos[fn].params - 1}) ELSE 0

\* lua_assert(ci->top <= L->stack_last)
TopsAreBelowLast == \A i \in DOMAIN L.ci : L.ci[i].top[2] <= StackLast(L)

\* luaD_reallocstack, luaD_callhook, luaD_precall, lua_pcall: when the array
\* has moved every pointer has, none is used that has not, and the parts of the
\* active functions lie in it one above the other, below its end.
PointersFollow ==
  /\ ~ L.stray /\ L.base = CI(L).base /\ Valid(L, L.top)
  /\ \A i \in DOMAIN L.ci :
       /\ {L.ci[i].func[1], L.ci[i].base[1], L.ci[i].top[1]} = {L.block}
       /\ L.ci[i].func[2] < L.ci[i].base[2] /\ L.ci[i].base[2] <= L.ci[i].top[2]
       /\ L.ci[i].top[2] <= StackLast(L) + Overrun(i)
       /\ i < Len(L.ci) => L.ci[i].base[2] <= L.ci[i + 1].func[2]
  /\ \A k \in DOMAIN L.open : \E i \in DOMAIN L.ci :
       /\ Valid(L, L.open[k]) /\ Read(L, L.ci[i].func) \in DOMAIN Protos
       /\ L.ci[i].base[2] <= L.open[k][2] /\ L.open[k][2] < End(i)[2]
  /\ \A i \in DOMAIN L.jmps : L.jmps[i].level <= Len(L.ci) /\ L.jmps[i].oldtop < L.top[2]
=============================================================================
