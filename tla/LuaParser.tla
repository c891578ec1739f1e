------------------------------ MODULE LuaParser ------------------------------
(***************************************************************************)
(* The parser of the Lua interpreter in the pgo lab (lparser.c), which has *)
(* no tree: it generates the code of a program (LuaCode) while it reads it *)
(* once.  Here the program comes as the tree of what is read, and the      *)
(* operators follow the parser's rules in the order they read it.          *)
(*                                                                         *)
(* An expression is <<"nil">>, <<"true">>, <<"false">>, <<"num", n>>,      *)
(* <<"vararg">>, <<"var", name>>, <<"paren", e>>, <<"index", e, key>>,     *)
(* <<"call", e, args>>, <<"self", e, name, args>>, <<"closure", params,    *)
(* vararg, body>>, <<"un", op, e>>, <<"bin", op, e1, e2>> or <<"table",    *)
(* fields>>, a field being <<"item", e>> or <<"field", key, e>>.  The      *)
(* statements are those of Stat; a body is a sequence of them.             *)
(***************************************************************************)
EXTENDS LuaCode

\* All that is nested goes through Parse: an expression, a statement or a body
RECURSIVE Parse(_, _), ExpListFrom(_, _, _), Fields(_, _), SingleVarAux(_, _, _),
          Targets(_, _), StoreRest(_, _), Clauses(_, _, _)
Expr(fs, x) == Parse(fs, x)
Stat(fs, x) == Parse(fs, x)
Chunk(fs, body) == Parse(fs, <<"chunk", body>>)

---------------------------------------------------------------------------
\* Variables and blocks

\* new_localvar and adjustlocalvars, removevars
Activate(fs, names) ==
  [fs EXCEPT !.actvar = @ \o names, !.nactvar = @ + Len(names)]
RemoveVars(fs, level) == [fs EXCEPT !.actvar = SubSeq(@, 1, level), !.nactvar = level]

SearchVar(fs, n) == Max({-1} \cup {v \in 0..(fs.nactvar - 1) : fs.actvar[v + 1] = n})

MarkUpval(fs, level) ==
  LET inside == {i \in DOMAIN fs.bl : fs.bl[i].nactvar <= level}
  IN  IF inside = {} THEN fs ELSE [fs EXCEPT !.bl[Max(inside)].upval = TRUE]

IndexUpvalue(fs, v) ==
  LET up == <<v.k, v.info>>
  IN  IF up \in ToSet(fs.upvalues)
      THEN Exp(fs, "UPVAL", (CHOOSE i \in DOMAIN fs.upvalues : fs.upvalues[i] = up) - 1)
      ELSE Exp([fs EXCEPT !.upvalues = Append(@, up)], "UPVAL", Len(fs.upvalues))

SingleVarAux(fs, n, base) ==
  LET v  == SearchVar(fs, n)
      up == SingleVarAux(fs.prev[1], n, FALSE)
  IN  IF v >= 0 THEN Exp(IF base THEN fs ELSE MarkUpval(fs, v), "LOCAL", v)
      ELSE IF fs.prev = <<>> \/ up.e.k = "GLOBAL" THEN Exp(fs, "GLOBAL", 0)
      ELSE IndexUpvalue([fs EXCEPT !.prev = <<up>>], up.e)

SingleVar(fs, n) ==
  LET s == SingleVarAux(fs, n, TRUE)
      k == AddK(s, n)
  IN  IF s.e.k = "GLOBAL" THEN Exp(k, "GLOBAL", KIndex(k, n)) ELSE s

EnterBlock(fs, isbreakable) ==
  [Expect(fs, fs.freereg = fs.nactvar) EXCEPT
     !.bl = Append(@, [breaklist |-> {}, isbreakable |-> isbreakable,
                       nactvar |-> fs.nactvar, upval |-> FALSE])]

LeaveBlock(fs) ==
  LET bl   == Last(fs.bl)
      out  == RemoveVars([fs EXCEPT !.bl = Front(@)], bl.nactvar)
      shut == IF bl.upval THEN Code(out, "CLOSE", bl.nactvar, 0, 0) ELSE out
  IN  PatchToHere([Expect(shut, ~ (bl.isbreakable /\ bl.upval)) EXCEPT !.freereg = bl.nactvar],
                  bl.breaklist)

Block(fs, body) ==
  LET s == Chunk(EnterBlock(fs, FALSE), body)
  IN  LeaveBlock(Expect(s, Last(s.bl).breaklist = {}))

---------------------------------------------------------------------------
\* Expressions

ExpListFrom(fs, xs, i) ==
  LET s == Expr(fs, xs[i])
  IN  IF s.failed \/ i = Len(xs) THEN s ELSE ExpListFrom(Exp2NextReg(s), xs, i + 1)
ExpList(fs, xs) == IF xs = <<>> THEN Exp(fs, "VOID", 0) ELSE ExpListFrom(fs, xs, 1)

Nils(fs, n) == LoadNil(ReserveRegs(fs, n), fs.freereg, n)
AdjustAssign(fs, nvars, nexps) ==
  LET extra == nvars - nexps
      more  == Max({0, extra + 1})
      call  == SetReturns(fs, more)
      last  == IF fs.e.k = "VOID" THEN fs ELSE Exp2NextReg(fs)
  IN  IF HasMultRet(fs.e) THEN IF more > 1 THEN ReserveRegs(call, more - 1) ELSE call
      ELSE IF extra > 0 THEN Nils(last, extra) ELSE last

\* close_func and pushclosure; new is the function inside fs
PushClosure(new) ==
  LET end   == Ret(RemoveVars(new, 0), 0, 0)
      fs    == Expect([end.prev[1] EXCEPT !.p = Append(@, [end EXCEPT !.prev = <<>>])], ~ end.failed /\ CheckCode(end) /\ end.bl = <<>>)
      o(up) == IF up[1] = "LOCAL" THEN "MOVE" ELSE "GETUPVAL"
      ups   == [i \in DOMAIN end.upvalues |->
                  [op |-> o(end.upvalues[i]), a |-> 0, b |-> end.upvalues[i][2], c |-> 0]]
      made  == Code(fs, "CLOSURE", 0, Len(fs.p), 0)
  IN  Exp([made EXCEPT !.code = @ \o ups], "RELOCABLE", Pc(fs))

\* body and parlist; a vararg function has a hidden parameter "arg"
Body(fs, params, vararg, body) ==
  LET vars == IF vararg THEN Append(params, arg) ELSE params
      new  == [NewFunction EXCEPT !.prev = <<fs>>, !.is_vararg = IF vararg THEN {"HASARG", "ISVARARG"} ELSE {}, !.numparams = Len(params)]
  IN  PushClosure(Chunk(ReserveRegs(Activate(new, vars), Len(vars)), body))

\* funcargs; the function is in fs.e
CallOn(fs, base, n) ==
  Exp([Code(fs, "CALL", base, n + 1, 2) EXCEPT !.freereg = base + 1], "CALL", Pc(fs))
Closed(fs, base) == CallOn(fs, base, fs.freereg - (base + 1))
ArgsRead(list, base) ==
  IF HasMultRet(list.e) THEN CallOn(SetReturns(list, MULTRET), base, MULTRET)
  ELSE Closed(IF list.e.k = "VOID" THEN list ELSE Exp2NextReg(list), base)
FuncArgs(fs, args) == ArgsRead(ExpList(Expect(fs, fs.e.k = "NONRELOC"), args), fs.e.info)

\* constructor: c holds the table's register and the items counted so far;
\* the fields from the first of fs, with the last item read in s.e
CloseListField(s, c) ==
  IF s.e.k = "VOID" THEN [s |-> s, c |-> c]
  ELSE IF c.tostore = LFIELDS_PER_FLUSH
  THEN [s |-> Exp(SetList(Exp2NextReg(s), c.t, c.na, c.tostore), "VOID", 0),
        c |-> [c EXCEPT !.tostore = 0]]
  ELSE [s |-> Exp(Exp2NextReg(s), "VOID", 0), c |-> c]

LastListField(s, c) ==
  IF c.tostore = 0 THEN s
  ELSE IF HasMultRet(s.e) THEN SetList(SetReturns(s, MULTRET), c.t, c.na, MULTRET)
  ELSE SetList(IF s.e.k = "VOID" THEN s ELSE Exp2NextReg(s), c.t, c.na, c.tostore)

SetField(v, t, key, reg) ==
  Exp([Code(v, "SETTABLE", t, key, Operand(v.e)) EXCEPT !.freereg = reg], "VOID", 0)
KeyRead(k, t, x, reg) == SetField(Exp2RK(Expr(k, x)), t, Operand(k.e), reg)
RecField(fs, t, key, x) == KeyRead(Exp2RK(Expr(fs, key)), t, x, fs.freereg)

NextField(closed, field) ==
  IF field[1] = "item"
  THEN [s |-> Expr(closed.s, field[2]),
        c |-> [closed.c EXCEPT !.na = @ + 1, !.tostore = @ + 1]]
  ELSE [closed EXCEPT !.s = RecField(@, closed.c.t, field[2], field[3])]
Fields(at, fields) ==
  LET s == Expect(at.s, at.s.e.k = "VOID" \/ at.c.tostore > 0)
  IN  IF at.s.failed \/ fields = <<>> THEN LastListField(at.s, at.c)
      ELSE Fields(NextField(CloseListField(s, at.c), Head(fields)), Tail(fields))

Filled(t, fields) ==
  With(Fields([s |-> Exp(t, "VOID", 0), c |-> [t |-> t.e.info, na |-> 0, tostore |-> 0]], fields),
       t.e)
Constructor(fs, fields) ==
  Filled(Exp2NextReg(Exp(Code(fs, "NEWTABLE", 0, 0, 0), "RELOCABLE", Pc(fs))), fields)

IndexOf(t, x) == Indexed(Exp2Val(Expr(t, x)), t.e)
Second(s, op, x) == Posfix(Expr(s, x), op, s.e)

---------------------------------------------------------------------------
\* Assignments

\* Mutant: no copy of a variable that is assigned to.
NoCopy(fs, lhs, v) == [s |-> fs, lhs |-> lhs]

CheckConflict(fs, lhs, v) ==
  LET extra == fs.freereg
      hit(w) == w.k = "INDEXED" /\ v.info \in {w.info, w.aux}
      safe(r) == IF r = v.info THEN extra ELSE r
  IN  IF \E i \in DOMAIN lhs : hit(lhs[i])
      THEN [s |-> ReserveRegs(Code(fs, "MOVE", extra, v.info, 0), 1),
            lhs |-> [i \in DOMAIN lhs |->
                       IF hit(lhs[i]) THEN [lhs[i] EXCEPT !.info = safe(@), !.aux = safe(@)]
                       ELSE lhs[i]]]
      ELSE [s |-> fs, lhs |-> lhs]

\* the variables xs of an assignment: the state after them, and their expdescs
AddTarget(s, lhs) ==
  LET c == IF s.e.k = "LOCAL" THEN CheckConflict(s, lhs, s.e) ELSE [s |-> s, lhs |-> lhs]
  IN  [c EXCEPT !.lhs = Append(@, s.e)]
Targets(at, xs) ==
  IF at.s.failed \/ xs = <<>> THEN at ELSE Targets(AddTarget(Expr(at.s, Head(xs)), at.lhs), Tail(xs))

StoreRest(fs, lhs) ==
  IF fs.failed \/ lhs = <<>> THEN fs
  ELSE StoreRest(StoreVar(Exp(fs, "NONRELOC", fs.freereg - 1), Last(lhs)), Front(lhs))

\* when as many expressions as variables are read, the last is stored at once
Store(right, lhs, n) ==
  IF n = 0 THEN StoreRest(StoreVar(SetOneRet(right), Last(lhs)), Front(lhs))
  ELSE StoreRest([AdjustAssign(right, Len(lhs), Len(lhs) + n) EXCEPT !.freereg = @ - Max({0, n})],
                 lhs)
Assigned(left, exps) == Store(ExpList(left.s, exps), left.lhs, Len(exps) - Len(left.lhs))
Assignment(fs, vars, exps) == Assigned(Targets([s |-> fs, lhs |-> <<>>], vars), exps)

---------------------------------------------------------------------------
\* Statements

\* cond leaves the jumps taken when the condition is false in e.f
CondOf(s) == GoIfTrue(IF s.e.k = "NIL" THEN [s EXCEPT !.e.k = "FALSE"] ELSE s)
Cond(fs, x) == CondOf(Expr(fs, x))

Break(fs) ==
  LET at == Max({i \in DOMAIN fs.bl : fs.bl[i].isbreakable})
      s  == IF \E i \in (at + 1)..Len(fs.bl) : fs.bl[i].upval
            THEN Code(fs, "CLOSE", fs.bl[at].nactvar, 0, 0) ELSE fs
  IN  [Jump(s) EXCEPT !.bl[at].breaklist = @ \cup JumpList(s)]

JumpBack(s, pc) == PatchList(Jump(s), JumpList(s), pc)
WhileBody(test, body, pc) ==
  PatchToHere(LeaveBlock(JumpBack(Block(EnterBlock(test, TRUE), body), pc)), test.e.f)
While(fs, x, body) == WhileBody(Cond(GetLabel(fs), x), body, Pc(fs))

Until(test, pc) ==
  LeaveBlock(IF ~ Last(test.bl).upval THEN PatchList(LeaveBlock(test), test.e.f, pc)
             ELSE JumpBack(LeaveBlock(PatchToHere(Break(test), test.e.f)), pc))
Repeat(fs, body, x) ==
  Until(Cond(Chunk(EnterBlock(EnterBlock(GetLabel(fs), TRUE), FALSE), body), x), Pc(fs))

LoopBody(s, names, body, list) ==
  PatchToHere(LeaveBlock(Block(ReserveRegs(Activate(EnterBlock(s, FALSE), names), Len(names)), body)),
              list)
NumLoop(s, base, pc) == PatchList(Code(s, "FORLOOP", base, 0, 0), {Pc(s)}, pc + 1)
ForBody(fs0, base, names, body, isnum) ==
  LET fs == Activate(fs0, <<hidden, hidden, hidden>>)
  IN  IF isnum THEN NumLoop(LoopBody(Code(fs, "FORPREP", base, 0, 0), names, body, {Pc(fs)}),
                            base, Pc(fs))
      ELSE JumpBack(Code(LoopBody(Jump(fs), names, body, JumpList(fs)), "TFORLOOP", base, 0, Len(names)),
                    Pc(fs) + 1)

\* exps are the initial value, the limit and the step, if there is one
LoadOne(k) == ReserveRegs(Code(k, "LOADK", k.freereg, KIndex(k, 1), 0), 1)
ForNum(fs, name, exps, body) ==
  LET regs == Exp2NextReg(ExpList(EnterBlock(fs, TRUE), exps))
  IN  LeaveBlock(ForBody(IF Len(exps) = 3 THEN regs ELSE LoadOne(AddK(regs, 1)),
                         fs.freereg, <<name>>, body, TRUE))

ForList(fs, names, exps, body) ==
  LET regs == AdjustAssign(ExpList(EnterBlock(fs, TRUE), exps), 3, Len(exps))
  IN  LeaveBlock(ForBody(CheckStack(regs, 3), fs.freereg, names, body, FALSE))

\* ifstat: clauses are <<cond, body>>, and <<body>> for else; escape the jumps
\* at the end of those before
Clause(s, clauses, escape, exit) ==
  LET next == PatchToHere(Jump(s), exit)
      out  == escape \cup JumpList(s)
  IN  CASE Len(clauses) = 1 -> PatchToHere(s, escape \cup exit)
        [] Len(clauses) > 1 /\ Len(clauses[2]) = 1 -> PatchToHere(Block(next, clauses[2][1]), out)
        [] OTHER -> Clauses(next, Tail(clauses), out)
Tested(test, clauses, escape) == Clause(Block(test, clauses[1][2]), clauses, escape, test.e.f)
Clauses(fs, clauses, escape) == Tested(Cond(fs, clauses[1][1]), clauses, escape)

StoreLocal(s, reg) == StoreVar(s, [s.e EXCEPT !.k = "LOCAL", !.info = reg])
LocalFunction(fs, name, params, vararg, body) ==
  StoreLocal(Body(Activate(ReserveRegs(fs, 1), <<name>>), params, vararg, body), fs.freereg)

FunctionOf(v, params, vararg, body) == StoreVar(Body(v, params, vararg, body), v.e)
Function(fs, name, params, vararg, body) == FunctionOf(SingleVar(fs, name), params, vararg, body)

\* the values to return are those of s, n expressions
TailCall(m) == Expect([m EXCEPT !.code[m.e.info].op = "TAILCALL"], m.code[m.e.info].a = m.nactvar)
RetOne(s) == Ret(s, s.e.info, 1)
RetAll(s, n) == Ret(Expect(s, n = s.freereg - s.nactvar), s.nactvar, n)
Returned(s, n) ==
  CASE n = 0 -> Ret(s, 0, 0)
    [] HasMultRet(s.e) ->
         Ret(IF s.e.k = "CALL" /\ n = 1 THEN TailCall(SetReturns(s, MULTRET)) ELSE SetReturns(s, MULTRET),
             s.nactvar, MULTRET)
    [] n = 1 /\ ~ HasMultRet(s.e) -> RetOne(Exp2AnyReg(s))
    [] OTHER -> RetAll(Exp2NextReg(s), n)
Return(fs, exps) == Returned(ExpList(fs, exps), Len(exps))

CallStat(s) == [s EXCEPT !.code[s.e.info].c = 1]

Finish(fs) ==
  [Expect(fs, fs.maxstacksize >= fs.freereg /\ fs.freereg >= fs.nactvar) EXCEPT !.freereg = fs.nactvar]

\* simpleexp, prefixexp, primaryexp and subexpr; chunk; statement
Parse(fs, x) ==
  CASE x[1] = "nil"   -> Exp(fs, "NIL", 0)
    [] x[1] = "true"  -> Exp(fs, "TRUE", 0)
    [] x[1] = "false" -> Exp(fs, "FALSE", 0)
    [] x[1] = "num"   -> Exp(fs, "KNUM", x[2])
    [] x[1] = "vararg" -> Exp(Code(fs, "VARARG", 0, 1, 0), "VARARG", Pc(fs))
    [] x[1] = "var"   -> SingleVar(fs, x[2])
    [] x[1] = "paren" -> DischargeVars(Expr(fs, x[2]))
    [] x[1] = "index" -> IndexOf(Exp2AnyReg(Expr(fs, x[2])), x[3])
    [] x[1] = "call"  -> FuncArgs(Exp2NextReg(Expr(fs, x[2])), x[3])
    [] x[1] = "self"  -> FuncArgs(Self(Expr(fs, x[2]), x[3]), x[4])
    [] x[1] = "table" -> Constructor(fs, x[2])
    [] x[1] = "closure" -> Body(fs, x[2], x[3], x[4])
    [] x[1] = "un"    -> Prefix(Expr(fs, x[3]), x[2])
    [] x[1] = "bin"   -> Second(Infix(Expr(fs, x[3]), x[2]), x[2], x[4])
    [] x[1] = "chunk" ->
         IF fs.failed \/ x[2] = <<>> THEN fs
         ELSE Chunk(Finish(Stat(fs, Head(x[2]))), Tail(x[2]))
    [] x[1] = "local"    -> Activate(AdjustAssign(ExpList(fs, x[3]), Len(x[2]), Len(x[3])), x[2])
    [] x[1] = "assign"   -> Assignment(fs, x[2], x[3])
    [] x[1] = "callstat" -> CallStat(Expr(fs, x[2]))
    [] x[1] = "do"       -> Block(fs, x[2])
    [] x[1] = "if"       -> Clauses(fs, x[2], {})
    [] x[1] = "while"    -> While(fs, x[2], x[3])
    [] x[1] = "repeat"   -> Repeat(fs, x[2], x[3])
    [] x[1] = "fornum"   -> ForNum(fs, x[2], x[3], x[4])
    [] x[1] = "forlist"  -> ForList(fs, x[2], x[3], x[4])
    [] x[1] = "localfunction" -> LocalFunction(fs, x[2], x[3], x[4], x[5])
    [] x[1] = "function" -> Function(fs, x[2], x[3], x[4], x[5])
    [] x[1] = "return"   -> Return(fs, x[2])
    [] x[1] = "break"    -> Break(fs)

\* luaY_parser
CloseMain(s) == Expect(s, CheckCode(s) /\ s.bl = <<>> /\ s.upvalues = <<>>)
Compile(body) ==
  CloseMain(Ret(RemoveVars(Chunk([NewFunction EXCEPT !.is_vararg = {"ISVARARG"}], body), 0), 0, 0))
=============================================================================
