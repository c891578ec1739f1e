------------------------------ MODULE LuaCalls ------------------------------
(***************************************************************************)
(* Calls, protected calls, errors and coroutines of the Lua interpreter in *)
(* the pgo lab (ldo.c, with lua_setlevel of lapi.c, luaG_errormsg of       *)
(* ldebug.c, the calls of lvm.c, the coroutine library of lbaselib.c and   *)
(* docall of lua.c).  All threads of Lua run on one C stack.  An error     *)
(* leaves C functions by longjmp, so what they count and save is put right *)
(* by the handler that catches it: the model keeps the C stack beside the  *)
(* fields of the threads, to see whether they agree with it.               *)
(*                                                                         *)
(* Values are left out: a coroutine's body and an error handler are Lua    *)
(* functions, "top" says whether values are left on the stack of a         *)
(* coroutine that runs nothing.  Errors are LUA_ERRRUN or LUA_ERRERR.      *)
(***************************************************************************)
EXTENDS Integers, FiniteSets, SequencesExt

CONSTANTS Main, Coroutines,
          BASIC_CI_SIZE, LUAI_MAXCALLS,    \* sizes of the CallInfo array
          LUAI_MAXCCALLS, Extra            \* C levels, and how many more for
                                           \* the handling of an overflow

ASSUME LimitsAssumption ==
  /\ Main \notin Coroutines
  /\ {BASIC_CI_SIZE, LUAI_MAXCALLS, LUAI_MAXCCALLS, Extra} \subseteq Nat \ {0, 1}
  /\ BASIC_CI_SIZE <= LUAI_MAXCALLS

Threads == Coroutines \cup {Main}

VARIABLES
  th,      \* thread -> its lua_State
  cstack,  \* the C functions that are active, the running one last
  raising  \* "msg" in luaG_errormsg, a status in luaD_throw, or "no"

vars == <<th, cstack, raising>>

\* A frame is a luaD_call ("call", or "handler" from luaG_errormsg) or a
\* lua_resume, n counting the Lua functions its luaV_execute runs (0: before
\* luaD_precall), or a luaD_pcall with what it saved.
Frame(kind, t, saved) ==
  [kind |-> kind, t |-> t, n |-> 0, ci |-> Len(saved.ci), nCcalls |-> saved.nCcalls,
   errfunc |-> saved.errfunc, previous |-> saved.errorJmp]

Top     == Last(cstack)
Running == Top.t
Caller  == Last(Front(cstack)).t
L       == th[Running]
CoStatus(co) ==
  CASE co = Running -> "running"
    [] co # Running /\ th[co].status = "yield" -> "suspended"
    [] co # Running /\ th[co].status = "ok" ->
         IF th[co].ci # <<>> THEN "normal" ELSE IF th[co].top THEN "suspended" ELSE "dead"
    [] OTHER -> "dead"

\* the C function on top returns to the Lua function that called it
Returned(s) == [s EXCEPT !.ci = IF Last(@) = "main" THEN @ ELSE Front(@)]

Idle == raising = "no"
InLua == Idle /\ Top.n > 0 /\ Last(L.ci) = "lua"
InC(f) == Idle /\ Top.n > 0 /\ Last(L.ci) = f

---------------------------------------------------------------------------
\* inc_ci and growCI in luaD_precall, then the new CallInfo
Enter(f) ==
  LET full == Len(L.ci) = L.size - 1
  IN  IF full /\ 2 * L.size > LUAI_MAXCALLS
      THEN /\ raising' = IF L.size > LUAI_MAXCALLS THEN "err" ELSE "msg"
           /\ th' = [th EXCEPT ![Running].size = IF @ > LUAI_MAXCALLS THEN @ ELSE 2 * @]
           /\ UNCHANGED cstack
      ELSE /\ th' = [th EXCEPT ![Running].size = IF full THEN 2 * @ ELSE @,
                               ![Running].ci = Append(@, f)]
           /\ cstack' = [cstack EXCEPT ![Len(cstack)].n = IF f = "lua" THEN @ + 1 ELSE @]
           /\ UNCHANGED raising

\* luaD_call, up to luaD_precall; s is the thread, c the C stack, before it
Call(kind, s, c) ==
  LET level == s.nCcalls + 1
  IN  /\ th' = [th EXCEPT ![Running] = [s EXCEPT !.nCcalls = level]]
      /\ cstack' = Append(c, Frame(kind, Running, s))
      /\ raising' = IF level = LUAI_MAXCCALLS THEN "msg"
                    ELSE IF level >= LUAI_MAXCCALLS + Extra THEN "err"
                    ELSE "no"

\* luaD_precall of a Lua function: OP_CALL, or the start of a luaD_call
CallLua  == InLua /\ Enter("lua")
Precall  == Idle /\ Top.n = 0 /\ Enter("lua")

\* callTMres: a metamethod is called by luaV_execute itself
CallTM   == InLua /\ Call("call", L, cstack)

\* OP_CALL of a C function: pcall, xpcall, coroutine.resume, wrap's, yield
CallC(f) == InLua /\ Enter(f)

\* luaD_pcall for pcall, xpcall and docall; pcall alone has no error handler
Protect ==
  \E f \in {"pcall", "xpcall", "main"} :
    /\ InC(f)
    /\ Call("call", [L EXCEPT !.errfunc = (f # "pcall"), !.errorJmp = Len(cstack) + 1],
            Append(cstack, Frame("pcall", Running, L)))

\* error, or any error of a Lua function
Raise == InLua /\ raising' = "msg" /\ UNCHANGED <<th, cstack>>

\* luaG_errormsg
ErrorMsg ==
  /\ raising = "msg"
  /\ IF L.errfunc THEN Call("handler", L, cstack)
     ELSE raising' = "run" /\ UNCHANGED <<th, cstack>>

---------------------------------------------------------------------------
\* Mutants: the level, or the jump buffer, is not put right.
RestoredButLevel(s, at) ==
  [s EXCEPT !.ci = SubSeq(@, 1, at.ci), !.errfunc = at.errfunc, !.errorJmp = at.previous]
RestoredButJump(s, at) ==
  [s EXCEPT !.ci = SubSeq(@, 1, at.ci), !.nCcalls = at.nCcalls, !.errfunc = at.errfunc]

\* luaD_pcall after an error, restore_stack_limit included
Restored(s, at) ==
  [s EXCEPT !.ci = SubSeq(@, 1, at.ci), !.nCcalls = at.nCcalls, !.errfunc = at.errfunc,
            !.errorJmp = at.previous,
            !.size = IF @ > LUAI_MAXCALLS /\ at.ci + 1 < LUAI_MAXCALLS THEN LUAI_MAXCALLS ELSE @]

\* luaD_throw, to the luaD_pcall that catches the error ...
Catch ==
  LET at == cstack[L.errorJmp]
  IN  /\ raising \in {"run", "err"} /\ L.errorJmp # 0 /\ at.kind = "pcall"
      /\ th' = [th EXCEPT ![Running] = Returned(Restored(@, at))]
      /\ cstack' = SubSeq(cstack, 1, L.errorJmp - 1)
      /\ raising' = "no"

\* ... or to the lua_resume of the coroutine, which dies; auxwrap raises the
\* error again
Die ==
  LET at == cstack[L.errorJmp]
      c  == SubSeq(cstack, 1, L.errorJmp - 1)
      by == Last(c).t
  IN  /\ raising \in {"run", "err"} /\ L.errorJmp # 0 /\ at.kind = "resume"
      /\ cstack' = c
      /\ raising' = IF Last(th[by].ci) = "wrap" THEN "msg" ELSE "no"
      /\ th' = [th EXCEPT ![Running].status = raising, ![Running].errorJmp = at.previous,
                          ![Running].nCcalls = @ - 1,
                          ![by] = IF Last(@.ci) = "wrap" THEN @ ELSE Returned(@)]

\* OP_RETURN to the Lua function that called this one
ReturnToLua ==
  /\ InLua /\ Top.n > 1
  /\ th' = [th EXCEPT ![Running].ci = Front(@)]
  /\ cstack' = [cstack EXCEPT ![Len(cstack)].n = @ - 1]
  /\ UNCHANGED raising

\* OP_RETURN to C: out of luaD_call, and of the luaD_pcall that made it
ReturnToC ==
  LET below == Last(Front(cstack))
      s == [L EXCEPT !.ci = Front(@), !.nCcalls = @ - 1]
  IN  /\ InLua /\ Top.n = 1 /\ Top.kind \in {"call", "handler"}
      /\ IF below.kind = "pcall"
         THEN /\ th' = [th EXCEPT ![Running] = Returned(
                          [s EXCEPT !.errfunc = below.errfunc, !.errorJmp = below.previous])]
              /\ cstack' = Front(Front(cstack))
         ELSE /\ th' = [th EXCEPT ![Running] = s]
              /\ cstack' = Front(cstack)
      /\ raising' = IF Top.kind = "handler" THEN "run" ELSE "no"

---------------------------------------------------------------------------
\* Coroutines

\* Mutant: the status is not asked for.
NotActive(co) == CoStatus(co) \in {"suspended", "dead"}

\* auxresume, lua_resume: what may be resumed
Resumable(co) == CoStatus(co) = "suspended"

\* auxresume that fails before it switches; the message of resume_error takes
\* the place of the body of a coroutine that was not started
CannotResume(f, co) ==
  /\ InC(f)
  /\ ~ Resumable(co) \/ L.nCcalls >= LUAI_MAXCCALLS
  /\ th' = [th EXCEPT ![Running] = IF f = "wrap" THEN @ ELSE Returned(@),
                      ![co] = IF ~ Resumable(co) THEN @
                              ELSE [th[co] EXCEPT !.nCcalls = L.nCcalls,
                                                  !.top = th[co].top /\ th[co].ci # <<>>]]
  /\ raising' = IF f = "wrap" THEN "msg" ELSE "no"
  /\ UNCHANGED cstack

\* lua_setlevel, lua_resume and resume, of a new coroutine or of one that
\* yielded, whose Lua functions one luaV_execute runs from now on
Resume(f, co) ==
  /\ InC(f)
  /\ Resumable(co) /\ L.nCcalls < LUAI_MAXCCALLS
  /\ LET s == th[co]
         yielded == s.status = "yield"
         ci == IF yielded THEN Front(s.ci) ELSE <<>>
         level == L.nCcalls + 1
     IN  /\ th' = [th EXCEPT ![co] = [@ EXCEPT !.status = "ok", !.ci = ci, !.nCcalls = level,
                                               !.baseCcalls = level,
                                               !.errorJmp = Len(cstack) + 1]]
         /\ cstack' = Append(cstack, [Frame("resume", co, s) EXCEPT !.n = Len(ci)])
  /\ UNCHANGED raising

\* lua_yield, which may leave no C function but lua_resume
CannotYield ==
  /\ InC("yield") /\ L.nCcalls > L.baseCcalls
  /\ raising' = "msg" /\ UNCHANGED <<th, cstack>>

SwitchBack(s) ==
  /\ th' = [th EXCEPT ![Running] = [s EXCEPT !.errorJmp = Top.previous, !.nCcalls = @ - 1],
                      ![Caller]  = Returned(@)]
  /\ cstack' = Front(cstack)
  /\ UNCHANGED raising

Yield ==
  /\ InC("yield") /\ L.nCcalls <= L.baseCcalls
  /\ SwitchBack([L EXCEPT !.status = "yield"])

\* OP_RETURN of the body
Finish ==
  /\ InLua /\ Top.n = 1 /\ Top.kind = "resume"
  /\ SwitchBack([L EXCEPT !.ci = <<>>, !.top = FALSE])

---------------------------------------------------------------------------
NewThread ==
  [status |-> "ok", ci |-> <<>>, size |-> BASIC_CI_SIZE, nCcalls |-> 0, baseCcalls |-> 0,
   errfunc |-> FALSE, errorJmp |-> 0, top |-> TRUE]

\* lua_cpcall of pmain, which calls docall
Init ==
  LET main == [NewThread EXCEPT !.ci = <<"main">>, !.nCcalls = 1, !.errorJmp = 1]
  IN  /\ th = [t \in Threads |-> IF t = Main THEN main ELSE NewThread]
      /\ cstack = <<Frame("pcall", Main, NewThread), [Frame("call", Main, main) EXCEPT !.n = 1]>>
      /\ raising = "no"

Next ==
  \/ CallLua \/ Precall \/ CallTM \/ Protect \/ Raise \/ ErrorMsg \/ Catch \/ Die
  \/ ReturnToLua \/ ReturnToC \/ CannotYield \/ Yield \/ Finish
  \/ \E f \in {"pcall", "xpcall", "resume", "wrap", "yield"} : CallC(f)
  \/ \E f \in {"resume", "wrap"}, co \in Coroutines : Resume(f, co) \/ CannotResume(f, co)

Spec == Init /\ [][Next]_vars

---------------------------------------------------------------------------
FramesOf(t, kinds) == {i \in DOMAIN cstack : cstack[i].t = t /\ cstack[i].kind \in kinds}
Counted == {"call", "handler", "resume"}

\* nCcalls of the running thread is the number of nested C calls, whatever
\* threads made them and whatever errors cut some off; so the C stack does not
\* grow beyond its limit (luaD_call, luaD_pcall, lua_resume, lua_setlevel), nor
\* a CallInfo array beyond twice its own (growCI).
CLevelsAreCounted ==
  /\ L.nCcalls = Cardinality({i \in DOMAIN cstack : cstack[i].kind \in Counted})
  /\ L.nCcalls <= LUAI_MAXCCALLS + Extra
  /\ L.size <= 2 * LUAI_MAXCALLS

\* The jump buffer of a thread is in its innermost protected frame that is
\* still active: luaD_throw never jumps into a C function that has returned,
\* nor over one that would have caught the error.
JumpsToActiveFrame ==
  \A t \in Threads :
    th[t].errorJmp = Max({0} \cup FramesOf(t, {"pcall", "resume"}))

\* Each luaV_execute counts the Lua functions it has to return from (nexeccalls;
\* after a yield one call runs them all): those of its thread that were called
\* since it began and before the next call from C began.  The second frame is
\* pmain's, which no luaV_execute runs.
Base(i) == IF cstack[i].kind = "resume" THEN 0 ELSE cstack[i].ci
Upto(i) ==
  IF i < Len(cstack) /\ cstack[i + 1].t = cstack[i].t THEN Base(i + 1) ELSE Len(th[cstack[i].t].ci)
ExecuteOwnsItsFunctions ==
  \A i \in DOMAIN cstack \ {2} :
    cstack[i].n = Cardinality({p \in Base(i) + 1..Upto(i) : th[cstack[i].t].ci[p] = "lua"})

\* A yield cuts off no C function: the frame it leaves is the lua_resume of
\* its coroutine, which runs all that the coroutine runs.
YieldCutsNoC ==
  \A co \in Coroutines : th[co].status = "ok" /\ th'[co].status = "yield" =>
    Top.kind = "resume" /\ Cardinality(FramesOf(co, Counted)) = 1

\* A coroutine that ended, or failed, stays dead.
DeadStays == \A co \in Coroutines : CoStatus(co) = "dead" => CoStatus(co)' = "dead"

TypeOK ==
  /\ raising \in {"no", "msg", "run", "err"}
  /\ \A t \in Threads : th[t].status \in {"ok", "yield", "run", "err"} /\ th[t].nCcalls \in Nat
=============================================================================
