------------------------------- MODULE LuaCode -------------------------------
(***************************************************************************)
(* The code generator of the Lua interpreter in the pgo lab (lcode.c):     *)
(* instructions for expressions, with the lists of jumps that wait for     *)
(* their target.                                                           *)
(*                                                                         *)
(* Every operator takes the state fs of a function under compilation and   *)
(* returns it changed; fs.e is the expdesc at hand.  Positions in the code *)
(* count from 1 and a jump holds its target, not an offset.  A list of     *)
(* jumps, linked through the instructions in C, is a set of positions.     *)
(* An assertion that fails is remembered in fs.failed.                     *)
(***************************************************************************)
EXTENDS Integers, FiniteSets, SequencesExt

CONSTANTS Nil, True, False,      \* Lua values; the others are numbers and names
          self, arg, hidden,     \* names the parser makes up
          LFIELDS_PER_FLUSH

NO_REG == 255
BITRK  == 256      \* operands from here on are constants
RK(i)  == BITRK + i
IsK(r) == r >= BITRK

\* FuncState and its Proto: open_func, but for the function around it
NewFunction ==
  [code |-> <<>>, k |-> <<>>, p |-> <<>>, upvalues |-> <<>>, numparams |-> 0,
   is_vararg |-> {}, maxstacksize |-> 2, freereg |-> 0, nactvar |-> 0, actvar |-> <<>>,
   bl |-> <<>>, lasttarget |-> 0, jpc |-> {}, failed |-> FALSE, prev |-> <<>>,
   e |-> [k |-> "VOID", info |-> 0, aux |-> 0, t |-> {}, f |-> {}]]

Pc(fs) == Len(fs.code) + 1
Exp(fs, kind, info) == [fs EXCEPT !.e = [k |-> kind, info |-> info, aux |-> 0, t |-> {}, f |-> {}]]
With(fs, e) == [fs EXCEPT !.e = e]
Becomes(fs, kind, info) == [fs EXCEPT !.e.k = kind, !.e.info = info]
Expect(fs, p) == [fs EXCEPT !.failed = @ \/ ~ p]

IsTest(i)    == i.op \in {"EQ", "LT", "LE", "TEST", "TESTSET", "TFORLOOP"}
HasJumps(e)  == e.t # e.f
IsNumeral(e) == e.k = "KNUM" /\ ~ HasJumps(e)

---------------------------------------------------------------------------
\* Jumps

\* getjumpcontrol
Control(fs, j) == IF j > 1 /\ IsTest(fs.code[j - 1]) THEN j - 1 ELSE j

\* need_value
NeedValue(fs, list) == \E j \in list : fs.code[Control(fs, j)].op # "TESTSET"

\* patchtestreg of a TESTSET
TestReg(i, reg) ==
  IF reg # NO_REG /\ reg # i.b THEN [i EXCEPT !.a = reg]
  ELSE [i EXCEPT !.op = "TEST", !.a = i.b, !.b = 0]

\* patchlistaux: a jump that produces a value goes to vtarget
PatchListAux(fs, list, vtarget, reg, dtarget) ==
  LET sets == {j \in list : fs.code[Control(fs, j)].op = "TESTSET"}
  IN  [fs EXCEPT !.code = [i \in DOMAIN @ |->
         IF i \in list THEN [@[i] EXCEPT !.b = IF i \in sets THEN vtarget ELSE dtarget]
         ELSE IF i + 1 \in sets THEN TestReg(@[i], reg)
         ELSE @[i]]]

RemoveValues(fs, list) ==
  [fs EXCEPT !.code = [i \in DOMAIN @ |->
     IF i + 1 \in list /\ @[i].op = "TESTSET" THEN TestReg(@[i], NO_REG) ELSE @[i]]]

\* dischargejpc and luaK_code
Code(fs, op, a, b, c) ==
  [PatchListAux(fs, fs.jpc, Pc(fs), NO_REG, Pc(fs)) EXCEPT
     !.jpc = {}, !.code = Append(@, [op |-> op, a |-> a, b |-> b, c |-> c])]

GetLabel(fs) == [fs EXCEPT !.lasttarget = Pc(fs)]
PatchToHere(fs, list) == [GetLabel(fs) EXCEPT !.jpc = @ \cup list]
PatchList(fs, list, target) ==
  IF target = Pc(fs) THEN PatchToHere(fs, list) ELSE PatchListAux(fs, list, target, NO_REG, target)

\* luaK_jump, which holds on to the jumps to here: the list it returns, and fs
JumpList(fs) == {Pc(fs)} \cup fs.jpc
Jump(fs) == Code([fs EXCEPT !.jpc = {}], "JMP", 0, 0, 0)

\* condjump leaves a jump that depends on a test
CondJump(fs, op, a, b, c) == Jump(Code(fs, op, a, b, c))
CondJumpList(fs) == {Pc(fs) - 1}

---------------------------------------------------------------------------
\* Registers and constants

CheckStack(fs, n)  == [fs EXCEPT !.maxstacksize = Max({@, fs.freereg + n})]
ReserveRegs(fs, n) == [CheckStack(fs, n) EXCEPT !.freereg = @ + n]

FreeReg(fs, reg) ==
  IF IsK(reg) \/ reg < fs.nactvar THEN fs
  ELSE Expect([fs EXCEPT !.freereg = @ - 1], reg = fs.freereg - 1)

FreeExp(fs, e) == IF e.k = "NONRELOC" THEN FreeReg(fs, e.info) ELSE fs

\* addk
AddK(fs, v) == IF \E i \in DOMAIN fs.k : fs.k[i] = v THEN fs ELSE [fs EXCEPT !.k = Append(@, v)]
KIndex(fs, v) == CHOOSE i \in DOMAIN fs.k : fs.k[i] = v

\* luaK_nil joins a LOADNIL just before, unless a jump leads here
LoadNil(fs, from, n) ==
  LET last == Last(fs.code)
      alone == Pc(fs) > fs.lasttarget
  IN  IF alone /\ Pc(fs) = 1 /\ from >= fs.nactvar THEN fs
      ELSE IF alone /\ Pc(fs) > 1 /\ last.op = "LOADNIL" /\ last.a <= from /\ from <= last.b + 1
      THEN [fs EXCEPT !.code[Pc(fs) - 1].b = Max({@, from + n - 1})]
      ELSE Code(fs, "LOADNIL", from, from + n - 1, 0)

---------------------------------------------------------------------------
\* Calls and tables

MULTRET == -1
HasMultRet(e) == e.k \in {"CALL", "VARARG"}

SetReturns(fs, nresults) ==
  CASE fs.e.k = "CALL"   -> [fs EXCEPT !.code[fs.e.info].c = nresults + 1]
    [] fs.e.k = "VARARG" -> ReserveRegs([fs EXCEPT !.code[fs.e.info].a = fs.freereg,
                                                   !.code[fs.e.info].b = nresults + 1], 1)
    [] OTHER             -> fs

Ret(fs, first, nret) == Code(fs, "RETURN", first, nret + 1, 0)

SetList(fs, base, nelems, tostore) ==
  [Code(Expect(fs, tostore # 0), "SETLIST", base, IF tostore = MULTRET THEN 0 ELSE tostore,
        (nelems - 1) \div LFIELDS_PER_FLUSH + 1) EXCEPT !.freereg = base + 1]

---------------------------------------------------------------------------
\* Expressions: where a value is and how it gets into a register

SetOneRet(fs) ==
  CASE fs.e.k = "CALL"   -> Becomes(fs, "NONRELOC", fs.code[fs.e.info].a)
    [] fs.e.k = "VARARG" -> [Becomes(fs, "RELOCABLE", fs.e.info) EXCEPT !.code[fs.e.info].b = 2]
    [] OTHER             -> fs

Loading == [UPVAL |-> "GETUPVAL", GLOBAL |-> "GETGLOBAL", INDEXED |-> "GETTABLE"]
DischargeVars(fs) ==
  CASE fs.e.k = "LOCAL" -> Becomes(fs, "NONRELOC", fs.e.info)
    [] fs.e.k \in DOMAIN Loading ->
         Becomes(Code(IF fs.e.k = "INDEXED" THEN FreeReg(FreeReg(fs, fs.e.aux), fs.e.info) ELSE fs,
                      Loading[fs.e.k], 0, fs.e.info, fs.e.aux), "RELOCABLE", Pc(fs))
    [] OTHER -> SetOneRet(fs)

\* the state of discharge2reg when variables are discharged
IntoReg(fs, reg) ==
  CASE fs.e.k = "NIL" -> LoadNil(fs, reg, 1)
    [] fs.e.k \in {"FALSE", "TRUE"} ->
         Code(fs, "LOADBOOL", reg, IF fs.e.k = "TRUE" THEN 1 ELSE 0, 0)
    [] fs.e.k = "KNUM" ->
         Code(AddK(fs, fs.e.info), "LOADK", reg, KIndex(AddK(fs, fs.e.info), fs.e.info), 0)
    [] fs.e.k = "K" -> Code(fs, "LOADK", reg, fs.e.info, 0)
    [] fs.e.k = "RELOCABLE" -> [fs EXCEPT !.code[fs.e.info].a = reg]
    [] fs.e.k = "NONRELOC" /\ reg # fs.e.info -> Code(fs, "MOVE", reg, fs.e.info, 0)
    [] OTHER -> fs
Moved(s, reg) == IF s.e.k \in {"VOID", "JMP"} THEN s ELSE Becomes(s, "NONRELOC", reg)
Discharge2Reg(fs, reg) == Moved(IntoReg(DischargeVars(fs), reg), reg)

Discharge2AnyReg(fs) ==
  IF fs.e.k = "NONRELOC" THEN fs ELSE Discharge2Reg(ReserveRegs(fs, 1), fs.freereg)

CodeLabel(fs, a, b, jump) == Code(GetLabel(fs), "LOADBOOL", a, b, jump)

\* exp2reg: the jumps of e that carry no value go to a LOADBOOL
OwnJump(d)   == IF d.e.k = "JMP" THEN [d EXCEPT !.e.t = @ \cup d.e.info] ELSE d
Needs(s)     == NeedValue(s, s.e.t) \/ NeedValue(s, s.e.f)
LoadBools(j, reg) == CodeLabel(CodeLabel(j, reg, 0, 1), reg, 1, 0)
ToLists(g, e, reg, pf) ==
  PatchListAux(PatchListAux(g, e.f, Pc(g), reg, pf), e.t, Pc(g), reg, pf + 1)
JoinJumps(s, reg) ==
  LET falls == s.e.k # "JMP"
  IN  CASE ~ HasJumps(s.e) -> s
        [] HasJumps(s.e) /\ Needs(s) ->
             ToLists(GetLabel(PatchToHere(LoadBools(IF falls THEN Jump(s) ELSE s, reg),
                                          IF falls THEN JumpList(s) ELSE {})),
                     s.e, reg, IF falls THEN Pc(s) + 1 ELSE Pc(s))
        [] OTHER -> ToLists(GetLabel(s), s.e, reg, 0)
Exp2Reg(fs, reg) == Exp(JoinJumps(OwnJump(Discharge2Reg(fs, reg)), reg), "NONRELOC", reg)

ToNextReg(s) == Exp2Reg(ReserveRegs(FreeExp(s, s.e), 1), FreeExp(s, s.e).freereg)
Exp2NextReg(fs) == ToNextReg(DischargeVars(fs))

ToAnyReg(s) ==
  LET own == s.e.k = "NONRELOC" /\ s.e.info >= s.nactvar
  IN  IF s.e.k = "NONRELOC" /\ ~ HasJumps(s.e) THEN s
      ELSE Exp2Reg(IF own THEN s ELSE ReserveRegs(FreeExp(s, s.e), 1),
                   IF own THEN s.e.info ELSE FreeExp(s, s.e).freereg)
Exp2AnyReg(fs) == ToAnyReg(DischargeVars(fs))

Exp2Val(fs) == IF HasJumps(fs.e) THEN Exp2AnyReg(fs) ELSE DischargeVars(fs)

\* luaK_exp2RK; afterwards Operand gives its result
Constants == [TRUE |-> True, FALSE |-> False, NIL |-> Nil]
ToRK(s) ==
  LET v == IF s.e.k = "KNUM" THEN s.e.info ELSE Constants[s.e.k]
  IN  CASE s.e.k \in DOMAIN Constants \cup {"KNUM"} -> Becomes(AddK(s, v), "K", KIndex(AddK(s, v), v))
        [] s.e.k = "K" -> s
        [] OTHER       -> ToAnyReg(s)
Exp2RK(fs) == ToRK(Exp2Val(fs))

Operand(e) == IF e.k = "K" THEN RK(e.info) ELSE e.info

\* luaK_indexed; fs.e is the key
Indexed(fs, t) ==
  LET At(s) == With(s, [t EXCEPT !.k = "INDEXED", !.aux = Operand(s.e)]) IN At(Exp2RK(fs))

\* luaK_self of a name
SelfOf(s, key) ==
  LET func == FreeExp(s, s.e).freereg
      k    == AddK(ReserveRegs(FreeExp(s, s.e), 2), key)
  IN  Exp(Code(k, "SELF", func, s.e.info, RK(KIndex(k, key))), "NONRELOC", func)
Self(fs, key) == SelfOf(Exp2AnyReg(fs), key)

\* luaK_storevar
StoreReg(s, op, info) == FreeExp(Code(s, op, s.e.info, info, 0), s.e)
StoreRK(s, var) == FreeExp(Code(s, "SETTABLE", var.info, var.aux, Operand(s.e)), s.e)
StoreVar(fs, var) ==
  CASE var.k = "LOCAL"   -> Exp2Reg(FreeExp(fs, fs.e), var.info)
    [] var.k = "INDEXED" -> StoreRK(Exp2RK(fs), var)
    [] OTHER -> StoreReg(Exp2AnyReg(fs), IF var.k = "UPVAL" THEN "SETUPVAL" ELSE "SETGLOBAL", var.info)

---------------------------------------------------------------------------
\* Logical operators

\* invertjump: e is a comparison
InvertJump(fs) ==
  LET j == CHOOSE x \in fs.e.info : TRUE
  IN  [fs EXCEPT !.code[Control(fs, j)].a = 1 - @]

\* jumponcond; the jumps it leaves are CondJumpList
TestSet(d, cond) == CondJump(FreeExp(d, d.e), "TESTSET", NO_REG, d.e.info, cond)
JumpOnCond(fs, cond) ==
  LET i == fs.code[fs.e.info]
  IN  IF fs.e.k = "RELOCABLE" /\ i.op = "NOT"
      THEN CondJump([fs EXCEPT !.code = Front(@)], "TEST", i.b, 0, 1 - cond)
      ELSE TestSet(Discharge2AnyReg(fs), cond)

AlwaysTrue  == {"K", "KNUM", "TRUE"}
AlwaysFalse == {"NIL", "FALSE"}

\* go through if e is true, jump if it is false: the state and the jumps
TrueCode(fs) ==
  CASE fs.e.k \in AlwaysTrue -> fs
    [] fs.e.k = "FALSE" -> Jump(fs)
    [] fs.e.k = "JMP"   -> InvertJump(fs)
    [] OTHER            -> JumpOnCond(fs, 0)
FalseJumps(fs, s) ==
  CASE fs.e.k \in AlwaysTrue -> {}
    [] fs.e.k = "FALSE" -> JumpList(fs)
    [] fs.e.k = "JMP"   -> fs.e.info
    [] OTHER            -> CondJumpList(s)
ThenTrue(fs, s) == PatchToHere([s EXCEPT !.e.f = @ \cup FalseJumps(fs, s), !.e.t = {}], fs.e.t)
GoIfTrue(fs) == LET d == DischargeVars(fs) IN ThenTrue(d, TrueCode(d))

\* go through if e is false
FalseCode(fs) ==
  CASE fs.e.k \in AlwaysFalse -> fs
    [] fs.e.k = "TRUE" -> Jump(fs)
    [] fs.e.k = "JMP"  -> fs
    [] OTHER           -> JumpOnCond(fs, 1)
TrueJumps(fs, s) ==
  CASE fs.e.k \in AlwaysFalse -> {}
    [] fs.e.k = "TRUE" -> JumpList(fs)
    [] fs.e.k = "JMP"  -> fs.e.info
    [] OTHER           -> CondJumpList(s)
ThenFalse(fs, s) == PatchToHere([s EXCEPT !.e.t = @ \cup TrueJumps(fs, s), !.e.f = {}], fs.e.f)
GoIfFalse(fs) == LET d == DischargeVars(fs) IN ThenFalse(d, FalseCode(d))

Negate(d) == Becomes(Code(FreeExp(d, d.e), "NOT", 0, d.e.info, 0), "RELOCABLE", Pc(d))
NotCode(fs) ==
  CASE fs.e.k \in AlwaysFalse -> Becomes(fs, "TRUE", 0)
    [] fs.e.k \in AlwaysTrue  -> Becomes(fs, "FALSE", 0)
    [] fs.e.k = "JMP"         -> InvertJump(fs)
    [] OTHER                  -> Negate(Discharge2AnyReg(fs))
SwapLists(s) == [s EXCEPT !.e.t = s.e.f, !.e.f = s.e.t]
NoValues(s)  == RemoveValues(RemoveValues(s, s.e.f), s.e.t)
CodeNot(fs)  == NoValues(SwapLists(NotCode(DischargeVars(fs))))

---------------------------------------------------------------------------
\* Operators

\* constfolding of an addition
Folds(e1, e2) == IsNumeral(e1) /\ IsNumeral(e2)

\* Mutant: the first operand is freed first, whichever register is the higher one.
FreesInOrder(e2, s1, op) ==
  Becomes(Code(FreeExp(FreeExp(s1, s1.e), e2), op, 0, Operand(s1.e), Operand(e2)), "RELOCABLE", Pc(s1))

\* codearith, when its second operand, and then its first, are in registers
\* or constants
ArithOf(e2, s1, op) ==
  LET o1 == Operand(s1.e)
      o2 == Operand(e2)
      freed == IF o1 > o2 THEN FreeExp(FreeExp(s1, s1.e), e2) ELSE FreeExp(FreeExp(s1, e2), s1.e)
  IN  Becomes(Code(freed, op, 0, o1, o2), "RELOCABLE", Pc(s1))
FirstOperand(s2, op, e1) == ArithOf(s2.e, Exp2RK(With(s2, e1)), op)
CodeArith(fs, op, e1) ==
  IF op = "ADD" /\ Folds(e1, fs.e) THEN With(fs, [e1 EXCEPT !.info = @ + fs.e.info])
  ELSE FirstOperand(Exp2RK(fs), op, e1)

\* codecomp; > is < with its operands exchanged
CompOf(e1, s2, op, cond) ==
  LET freed == FreeExp(FreeExp(s2, s2.e), e1)
      o1 == Operand(e1)
      o2 == Operand(s2.e)
  IN  IF cond = 0 /\ op # "EQ" THEN CondJump(freed, op, 1, o2, o1)
      ELSE CondJump(freed, op, cond, o1, o2)
Compared(s, e1) == With(s, [e1 EXCEPT !.k = "JMP", !.info = CondJumpList(s)])
SecondOperand(s1, op, cond, e2) ==
  Compared(CompOf(s1.e, Exp2RK(With(s1, e2)), op, cond), s1.e)
CodeComp(fs, op, cond, e1) == SecondOperand(Exp2RK(With(fs, e1)), op, cond, fs.e)

\* luaK_prefix
UnaryOf(s, op) ==
  Becomes(Code(FreeExp(s, s.e), IF op = "minus" THEN "UNM" ELSE "LEN", 0, s.e.info, 0),
          "RELOCABLE", Pc(s))
Prefix(fs, op) ==
  CASE op = "not" -> CodeNot(fs)
    [] op = "minus" /\ IsNumeral(fs.e) -> [fs EXCEPT !.e.info = - @]
    [] OTHER -> UnaryOf(Exp2AnyReg(fs), op)

\* luaK_infix, after the first operand
Infix(fs, op) ==
  CASE op = "and" -> GoIfTrue(fs)
    [] op = "or"  -> GoIfFalse(fs)
    [] op = "concat" -> Exp2NextReg(fs)
    [] op = "add" /\ IsNumeral(fs.e) -> fs
    [] OTHER -> Exp2RK(fs)

\* luaK_posfix, after the second one; e1 is the first.  A concatenation on
\* the right takes e1 in; <<op, cond>> of a comparison
Concat(v, e1) ==
  LET i == v.code[v.e.info]
  IN  IF v.e.k = "RELOCABLE" /\ i.op = "CONCAT"
      THEN With([FreeExp(Expect(v, e1.info = i.b - 1), e1) EXCEPT !.code[v.e.info].b = e1.info],
                [e1 EXCEPT !.k = "RELOCABLE", !.info = v.e.info])
      ELSE CodeArith(Exp2NextReg(v), "CONCAT", e1)
Comparison == [eq |-> <<"EQ", 1>>, ne |-> <<"EQ", 0>>, lt |-> <<"LT", 1>>, le |-> <<"LE", 1>>,
               gt |-> <<"LT", 0>>, ge |-> <<"LE", 0>>]
Posfix(fs, op, e1) ==
  CASE op = "and" -> [Expect(DischargeVars(fs), e1.t = {}) EXCEPT !.e.f = @ \cup e1.f]
    [] op = "or"  -> [Expect(DischargeVars(fs), e1.f = {}) EXCEPT !.e.t = @ \cup e1.t]
    [] op = "concat" -> Concat(Exp2Val(fs), e1)
    [] op = "add" -> CodeArith(fs, "ADD", e1)
    [] OTHER -> CodeComp(fs, Comparison[op][1], Comparison[op][2], e1)

---------------------------------------------------------------------------
\* The checker of generated code, symbexec of ldebug.c without the tracing of a
\* register.  The compiler asserts that the code of every function passes it.

\* operands that are registers, or registers or constants
RegB   == {"MOVE", "LOADNIL", "GETTABLE", "SELF", "UNM", "NOT", "LEN", "CONCAT", "TEST", "TESTSET"}
RegC   == {"CONCAT"}
RKB    == {"SETTABLE", "ADD", "EQ", "LT", "LE"}
RKC    == RKB \cup {"GETTABLE", "SELF"}
ConstB == {"LOADK", "GETGLOBAL", "SETGLOBAL"}
Jumps  == {"JMP", "FORLOOP", "FORPREP"}

IsReg(p, r)  == r < p.maxstacksize
IsRK(p, x)   == IF IsK(x) THEN x - BITRK \in DOMAIN p.k ELSE IsReg(p, x)

\* what follows must take the values up to the top
TakesAll(p, pc) ==
  p.code[pc + 1].op \in {"CALL", "TAILCALL", "RETURN", "SETLIST"} /\ p.code[pc + 1].b = 0

CheckInstruction(p, pc) ==
  LET i == p.code[pc]
      rb == i.b
      rc == i.c
  IN  /\ IsReg(p, i.a)
      /\ i.op \in RegB => IsReg(p, rb)
      /\ i.op \in RegC => IsReg(p, rc)
      /\ i.op \in RKB => IsRK(p, rb)
      /\ i.op \in RKC => IsRK(p, rc)
      /\ i.op \in ConstB => rb \in DOMAIN p.k
      /\ i.op \in Jumps => rb \in DOMAIN p.code
      /\ IsTest(i) => pc + 2 \in DOMAIN p.code /\ p.code[pc + 1].op = "JMP"
      /\ i.op = "LOADBOOL" /\ rc = 1 => pc + 2 \in DOMAIN p.code
      /\ i.op \in {"GETUPVAL", "SETUPVAL"} => rb < Len(p.upvalues)
      /\ i.op = "SELF" => IsReg(p, i.a + 1)
      /\ i.op = "CONCAT" => rb < rc
      /\ i.op = "TFORLOOP" => rc >= 1 /\ IsReg(p, i.a + 2 + rc)
      /\ i.op \in {"FORLOOP", "FORPREP"} => IsReg(p, i.a + 3)
      /\ i.op \in {"CALL", "TAILCALL"} =>
           /\ rb # 0 => IsReg(p, i.a + rb - 1)
           /\ IF rc - 1 = MULTRET THEN TakesAll(p, pc) ELSE rc > 1 => IsReg(p, i.a + rc - 2)
      /\ i.op = "RETURN" /\ rb > 1 => IsReg(p, i.a + rb - 2)
      /\ i.op = "SETLIST" /\ rb > 0 => IsReg(p, i.a + rb)
      /\ i.op = "CLOSURE" =>
           /\ rb \in DOMAIN p.p
           /\ pc + Len(p.p[rb].upvalues) < Len(p.code)
           /\ \A j \in 1..Len(p.p[rb].upvalues) : p.code[pc + j].op \in {"GETUPVAL", "MOVE"}
      /\ i.op = "VARARG" =>
           "ISVARARG" \in p.is_vararg /\ IF rb - 1 = MULTRET THEN TakesAll(p, pc) ELSE IsReg(p, i.a + rb - 2)

CheckCode(p) ==
  /\ p.numparams + (IF "HASARG" \in p.is_vararg THEN 1 ELSE 0) <= p.maxstacksize
  /\ p.code # <<>> /\ Last(p.code).op = "RETURN"
  /\ \A pc \in DOMAIN p.code : CheckInstruction(p, pc)
=============================================================================
