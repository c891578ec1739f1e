------------------------------ MODULE LuaMain ------------------------------
(***************************************************************************)
(* The stand-alone interpreter of Lua in the pgo lab (lua.c): what its     *)
(* command line makes it run, how it calls a chunk and reports an error,   *)
(* its interactive mode, and the signal SIGINT, which may arrive between   *)
(* any two steps and stops a chunk through a hook (ldebug.c, lvm.c).       *)
(*                                                                         *)
(* An argument is a sequence of characters.  A task is [kind, narg].       *)
(***************************************************************************)
EXTENDS Integers, SequencesExt

CONSTANTS CommandLines,   \* sequences of arguments
          Inits,          \* what LUA_INIT may be: a sequence of no or one task
          MaxSignals      \* bound

VARIABLES
  todo,     \* the tasks pmain has not finished
  at,       \* what the program does
  stack,    \* of pmain, by the kinds of its values
  call,     \* of docall: [base, narg, clear]
  status,   \* of the last chunk, TRUE for an error
  seen,     \* [signals: SIGINTs handled by laction, stops: chunks that lstop ended]
  sigint,   \* what SIGINT does: "default" or "laction"
  hook      \* lstop is the hook of the state

vars == <<todo, at, stack, call, status, seen, sigint, hook>>

---------------------------------------------------------------------------
(* The command line *)

Char(s, k) == IF k <= Len(s) THEN s[k] ELSE "NUL"
NoTail(s) == Len(s) <= 2

\* collectargs: script is where it is in argv, 0 without one, -1 for an error
RECURSIVE CollectArgs(_, _, _)
CollectArgs(argv, i, has) ==
  LET found(n) == [has EXCEPT !.script = n]
      option == Char(argv[i], 2)
  IN  IF i > Len(argv) THEN found(0)
      ELSE IF Char(argv[i], 1) # "-" \/ option = "NUL" THEN found(i)
      ELSE IF option = "-" /\ NoTail(argv[i]) THEN found(IF i < Len(argv) THEN i + 1 ELSE 0)
      ELSE IF option \in {"i", "v"} /\ NoTail(argv[i])
           THEN CollectArgs(argv, i + 1, [has EXCEPT !.i = @ \/ option = "i", !.v = TRUE])
      ELSE IF option \in {"e", "l"} /\ (~ NoTail(argv[i]) \/ i < Len(argv))
           THEN CollectArgs(argv, IF NoTail(argv[i]) THEN i + 2 ELSE i + 1,
                            [has EXCEPT !.e = @ \/ option = "e"])
      ELSE found(-1)
Collected(argv) == CollectArgs(argv, 1, [script |-> 0, i |-> FALSE, v |-> FALSE, e |-> FALSE])

Task(kind, narg) == [kind |-> kind, narg |-> narg]

\* runargs: dostring and dolibrary, for the arguments before n
RECURSIVE RunArgs(_, _, _)
RunArgs(argv, i, n) ==
  LET option == Char(argv[i], 2)
      after == IF NoTail(argv[i]) THEN i + 2 ELSE i + 1
  IN  IF i >= n THEN <<>>
      ELSE CASE option = "e" -> <<Task("string", 0)>> \o RunArgs(argv, after, n)
             [] option = "l" -> <<Task("library", 1)>> \o RunArgs(argv, after, n)
             [] OTHER -> RunArgs(argv, i + 1, n)

\* handle_script and getargs
Script(argv, n) ==
  LET isStdin == argv[n] = <<"-">> /\ (n = 1 \/ argv[n - 1] # <<"-", "-">>)
  IN  Task(IF isStdin THEN "script from stdin" ELSE "script", Len(argv) - n)

\* What pmain runs, one after the other until one fails; tty is lua_stdin_is_tty().
Interactive(has, tty) ==
  IF has.i THEN <<Task("dotty", 0)>>
  ELSE IF has.script = 0 /\ ~ has.e /\ ~ has.v
       THEN IF tty THEN <<Task("dotty", 0)>> ELSE <<Task("stdin", 0)>>
  ELSE <<>>
PlanOf(argv, has, tty) ==
  IF has.script < 0 THEN <<Task("usage", 0)>>
  ELSE RunArgs(argv, 1, IF has.script > 0 THEN has.script ELSE Len(argv) + 1)
       \o (IF has.script > 0 THEN <<Script(argv, has.script)>> ELSE <<>>) \o Interactive(has, tty)
Plan(argv, tty) == PlanOf(argv, Collected(argv), tty)

---------------------------------------------------------------------------
(* The Lua stack *)

Pop(n) == SubSeq(stack, 1, Len(stack) - n)
InsertInto(s, i, v) == SubSeq(s, 1, i - 1) \o <<v>> \o SubSeq(s, i, Len(s))
This == Head(todo).kind

\* Ends the task; pmain gives up after an error, but not after one of stdin.
EndTask(failed, s) ==
  /\ todo' = IF failed THEN <<>> ELSE Tail(todo)
  /\ at' = "next" /\ stack' = s

Errors == {"message", "nil"}     \* of an error; a syntax error has a message

\* luaL_loadfile and luaL_loadbuffer leave a chunk or a message on s, under the
\* n arguments on its top (lua_insert(L, -(narg+1))), which go away if it is a
\* message (handle_script).
\* Mutant: the arguments stay.
LoadedUnder(s, n, failed) ==
  InsertInto(s, Len(s) - n + 1, IF failed THEN "message" ELSE "chunk")

Loaded(s, n, failed) ==
  IF failed THEN Append(SubSeq(s, 1, Len(s) - n), "message")
  ELSE InsertInto(s, Len(s) - n + 1, "chunk")

\* what goes on with a chunk that was loaded
Calling(n, clear, failed) ==
  /\ status' = failed
  /\ at' = IF failed THEN "report" ELSE "docall"
  /\ call' = [base |-> 0, narg |-> n, clear |-> clear]

\* dostring, dofile, dolibrary, handle_script
Begin ==
  /\ at = "next" /\ todo # <<>>
  /\ \/ /\ This \in {"string", "file", "stdin"}
        /\ \E failed \in BOOLEAN : stack' = Loaded(stack, 0, failed) /\ Calling(0, TRUE, failed)
     \/ /\ This = "library"
        /\ stack' = stack \o <<"chunk", "arg">> /\ Calling(1, TRUE, FALSE)
     \/ /\ This \in {"script", "script from stdin"}
        /\ LET n == Head(todo).narg
               args == stack \o [i \in 1..n |-> "arg"]
           IN  \E failed \in BOOLEAN : stack' = Loaded(args, n, failed) /\ Calling(n, FALSE, failed)
     \/ This = "dotty" /\ at' = "loadline" /\ UNCHANGED <<stack, call, status>>
     \/ This = "usage" /\ at' = "over" /\ status' = TRUE /\ UNCHANGED <<stack, call>>
  /\ UNCHANGED <<todo, seen, sigint, hook>>

\* docall up to lua_pcall
DoCall ==
  /\ at = "docall"
  /\ LET base == Len(stack) - call.narg
     IN  stack' = InsertInto(stack, base, "traceback") /\ call' = [call EXCEPT !.base = base]
  /\ sigint' = "laction" /\ at' = "running"
  /\ UNCHANGED <<todo, status, seen, hook>>

\* lua_pcall returns
PCalled(results, failed) ==
  /\ stack' = SubSeq(stack, 1, call.base) \o results
  /\ status' = failed /\ at' = "returned"

\* The chunk ends, with results or with an error.
Finish ==
  /\ at = "running" /\ ~ hook
  /\ \/ \E n \in 0..2 : PCalled(IF call.clear THEN <<>> ELSE [i \in 1..n |-> "result"], FALSE)
     \/ \E e \in Errors : PCalled(<<e>>, TRUE)
  /\ UNCHANGED <<todo, call, seen, sigint, hook>>

\* lstop, before the next instruction or call: the error ends the chunk, unless
\* the chunk catches it.
Stop ==
  /\ at = "running" /\ hook
  /\ hook' = FALSE /\ seen' = [seen EXCEPT !.stops = @ + 1]
  /\ \/ PCalled(<<"message">>, TRUE)
     \/ UNCHANGED <<stack, status, at>>
  /\ UNCHANGED <<todo, call, sigint>>

\* the rest of docall
Return ==
  /\ at = "returned"
  /\ sigint' = "default" /\ stack' = RemoveAt(stack, call.base) /\ at' = "report"
  /\ UNCHANGED <<todo, call, status, seen, hook>>

\* report, and what its callers do then
Report ==
  /\ at = "report"
  /\ LET left == IF status /\ Last(stack) # "nil" THEN Pop(1) ELSE stack
     IN  IF This = "dotty"
         THEN /\ at' = IF ~ status /\ left # <<>> THEN "print" ELSE "loadline"
              /\ stack' = left /\ UNCHANGED <<todo, status>>
         ELSE EndTask(status, left) /\ status' = (status /\ This # "stdin")
  /\ UNCHANGED <<call, seen, sigint, hook>>

\* loadline: pushline, luaL_loadbuffer and incomplete, again and again while the
\* text could go on; the lines are joined to one value.
LoadLine ==
  /\ at \in {"loadline", "more"}
  /\ \/ EndTask(FALSE, <<>>) /\ UNCHANGED <<call, status>>     \* no input
     \/ at' = "more" /\ stack' = <<"line">> /\ UNCHANGED <<todo, call, status>>
     \/ \E failed \in BOOLEAN :
          /\ stack' = RemoveAt(Loaded(<<"line">>, 0, failed), 1)
          /\ Calling(0, FALSE, failed) /\ UNCHANGED todo
  /\ UNCHANGED <<seen, sigint, hook>>

\* the end of dotty's loop: print is called without docall
PrintResults ==
  /\ at = "print"
  /\ at' = "loadline"
  /\ stack' \in IF hook THEN {<<"message">>} ELSE {<<>>, <<"message">>}
  /\ hook' = FALSE
  /\ seen' = IF hook THEN [seen EXCEPT !.stops = @ + 1] ELSE seen
  /\ UNCHANGED <<todo, call, status, sigint>>

Exit ==
  /\ at = "next" /\ todo = <<>>
  /\ at' = "over"
  /\ UNCHANGED <<todo, stack, call, status, seen, sigint, hook>>

\* laction, or the default action: the process ends
Signal ==
  /\ at # "over" /\ seen.signals < MaxSignals
  /\ IF sigint = "default" THEN at' = "over" /\ UNCHANGED <<sigint, hook, seen>>
     ELSE /\ sigint' = "default" /\ hook' = TRUE
          /\ seen' = [seen EXCEPT !.signals = @ + 1]
          /\ UNCHANGED at
  /\ UNCHANGED <<todo, stack, call, status>>

Over == at = "over" /\ UNCHANGED vars

Init ==
  /\ \E argv \in CommandLines, tty \in BOOLEAN, init \in Inits : todo = init \o Plan(argv, tty)
  /\ at = "next" /\ stack = <<"userdata">> /\ status = FALSE
  /\ call = [base |-> 0, narg |-> 0, clear |-> FALSE]
  /\ seen = [signals |-> 0, stops |-> 0] /\ sigint = "default" /\ hook = FALSE

Next == Begin \/ DoCall \/ Finish \/ Stop \/ Return \/ Report \/ LoadLine \/ PrintResults \/ Exit \/ Signal \/ Over

Spec == Init /\ [][Next]_vars

---------------------------------------------------------------------------
\* What a call finds on the stack is its message handler, its function and its
\* arguments (getargs, docall).
CallsItsChunk ==
  at = "running" =>
    /\ stack[call.base] = "traceback" /\ stack[call.base + 1] = "chunk"
    /\ Len(stack) = call.base + 1 + call.narg
    /\ \A i \in (call.base + 2)..Len(stack) : stack[i] = "arg"

\* What is reported is the error, and what is printed are the results, alone
\* (report, handle_script, dotty).
ShowsWhatItGot ==
  /\ at = "report" => (status <=> stack # <<>> /\ Last(stack) \in Errors)
  /\ at = "print" => \A i \in DOMAIN stack : stack[i] = "result"

\* Nothing is stopped without a signal of its own, and no later than the next code
\* that runs (laction, lstop).
StopsForSignals ==
  /\ seen.stops <= seen.signals /\ (hook => seen.stops < seen.signals)
  /\ sigint = "laction" => at \in {"running", "returned"}
=============================================================================
