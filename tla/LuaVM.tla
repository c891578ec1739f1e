-------------------------------- MODULE LuaVM --------------------------------
(***************************************************************************)
(* The virtual machine of the Lua interpreter in the pgo lab: luaV_execute *)
(* of lvm.c over the code of a program, one instruction a step,            *)
(* with luaD_precall, luaD_poscall and adjust_varargs of ldo.c and the     *)
(* upvalues of lfunc.c.                                                    *)
(*                                                                         *)
(* Each call has registers of its own where the program lets those of      *)
(* caller and callee overlap, so a call leaves Junk in the registers of    *)
(* its caller from the called function on.  Tables and closures are        *)
(* objects of the heap.  Two functions are built in: emit shows its        *)
(* arguments and returns them, inext is the generator of an array's        *)
(* elements.  There are no metamethods and the collector does not run.  A  *)
(* number made by .. stands for the string of its digits.                  *)
(***************************************************************************)
EXTENDS LuaCode

CONSTANTS Programs,      \* the programs to run
          Loadable,      \* the functions a program may be read as: what it is
                         \* compiled to, or that loaded from a chunk
          Intended,       \* what it shows and how it ends, from its text alone
          Addresses,     \* a sequence: the objects in the order they are made
          emit, inext,   \* names of the global functions, and those themselves
          Junk,          \* what a call leaves in a register
          MaxRegs        \* bound on the registers of a call

VARIABLES
  program,   \* as LuaParser reads it
  main,      \* what it is compiled to
  frames,    \* the calls that are active (CallInfo and registers)
  heap,      \* tables and closures
  upvals,    \* UpVal: open ones point at a register
  globals,
  out,       \* what emit has shown
  status     \* "read" (to be read), "running", "done" or "error"

vars == <<program, main, frames, heap, upvals, globals, out, status>>

\* a main program's result: what it shows, and how it ends
Truth(v)    == v \notin {Nil, False}
Bool(b)     == IF b THEN True ELSE False
IsObject(v) == v \in ToSet(Addresses)
IsNumber(v) == v \notin ToSet(Addresses) \cup {Nil, True, False, emit, inext, Junk, arg, self}
Place(v, seq)   == CHOOSE i \in DOMAIN seq : seq[i] = v
Object(h, v)    == h[Place(v, Addresses)]
IsTable(h, v)   == IsObject(v) /\ Object(h, v).kind = "table"
IsClosure(h, v) == IsObject(v) /\ Object(h, v).kind = "closure"
NewTable == [kind |-> "table", items |-> <<>>]
TableGet(h, t, k) == LET s == Object(h, t).items IN IF k \in DOMAIN s THEN s[k] ELSE Nil
TableSet(h, t, k, v) ==
  LET n == Place(t, Addresses)
      s == h[n].items
      others == DOMAIN s \ {k}
  IN  [h EXCEPT ![n].items = IF v = Nil THEN [x \in others |-> s[x]]
                             ELSE [x \in others \cup {k} |-> IF x = k THEN v ELSE s[x]]]
Border(items) == CHOOSE n \in 0..Cardinality(DOMAIN items) :
                   1..n \subseteq DOMAIN items /\ n + 1 \notin DOMAIN items

\* the results of the functions that are built in
BuiltIn(h, f, args) ==
  LET n == args[2] + 1
      v == TableGet(h, args[1], n)
  IN  IF f = emit THEN args ELSE IF v = Nil THEN <<Nil>> ELSE <<n, v>>

---------------------------------------------------------------------------
Depth   == Len(frames)
Frame   == Last(frames)
R(i)    == Frame.regs[i]
Closure == Object(heap, Frame.closure)
ProtoOf(path) == FoldLeft(LAMBDA p, i : p.p[i], main, path)
Proto   == ProtoOf(Closure.path)
I       == Proto.code[Frame.pc]
K(i)    == Proto.k[i]
RKOf(x) == IF IsK(x) THEN K(x - BITRK) ELSE R(x)
Executes(ops) == status = "running" /\ I.op \in ops

\* registers from a on hold the values vs, and up to n of them nil
Fill(regs, a, vs, n) ==
  [r \in DOMAIN regs |-> IF r \in a..(a + Len(vs) - 1) THEN vs[r - a + 1]
                         ELSE IF r \in a..(a + n - 1) THEN Nil ELSE regs[r]]
\* luaD_poscall: a call from register a on returns vs, n of them wanted
Results(f, a, vs, n) ==
  LET kept == IF n = MULTRET THEN vs ELSE SubSeq(vs, 1, Min({n, Len(vs)}))
      used == [r \in DOMAIN f.regs |-> IF r >= a THEN Junk ELSE f.regs[r]]
  IN  [f EXCEPT !.regs = Fill(used, a, kept, n), !.top = a + Len(vs)]

\* values from register a on: b - 1 of them, or up to the top
Values(a, b) == [j \in 1..(IF b = 0 THEN Frame.top - a ELSE b - 1) |-> R(a + j - 1)]

Goto(pc, regs) == frames' = [frames EXCEPT ![Depth].pc = pc, ![Depth].regs = regs]
Next1 == Frame.pc + 1
Put(a, v) == Goto(Next1, [Frame.regs EXCEPT ![a] = v])
Failure ==
  status' = "error" /\ UNCHANGED <<program, main, frames, heap, upvals, globals, out>>

UpValue(u) == IF u.open THEN frames[u.frame].regs[u.reg] ELSE u.v
\* Mutant: the lowest register is missed.
CloseAbove(level) ==
  [u \in DOMAIN upvals |->
     IF upvals[u].open /\ upvals[u].frame = Depth /\ upvals[u].reg > level
     THEN [upvals[u] EXCEPT !.open = FALSE, !.v = UpValue(upvals[u])] ELSE upvals[u]]

\* luaF_close
CloseFrom(level) ==
  [u \in DOMAIN upvals |->
     IF upvals[u].open /\ upvals[u].frame = Depth /\ upvals[u].reg >= level
     THEN [upvals[u] EXCEPT !.open = FALSE, !.v = UpValue(upvals[u])] ELSE upvals[u]]

---------------------------------------------------------------------------
\* Instructions that only set a register
Load ==
  /\ Executes({"MOVE", "LOADK", "LOADBOOL", "LOADNIL", "GETUPVAL", "GETGLOBAL", "NOT", "VARARG"})
  /\ LET n  == IF I.b = 0 THEN Len(Frame.varargs) ELSE I.b - 1
         vs == SubSeq(Frame.varargs, 1, Min({n, Len(Frame.varargs)}))
     IN  CASE I.op = "MOVE"      -> Put(I.a, R(I.b))
           [] I.op = "LOADK"     -> Put(I.a, K(I.b))
           [] I.op = "NOT"       -> Put(I.a, Bool(~ Truth(R(I.b))))
           [] I.op = "GETUPVAL"  -> Put(I.a, UpValue(upvals[Closure.ups[I.b + 1]]))
           [] I.op = "GETGLOBAL" -> Put(I.a, IF K(I.b) \in DOMAIN globals THEN globals[K(I.b)]
                                             ELSE Nil)
           [] I.op = "LOADNIL"   -> Goto(Next1, Fill(Frame.regs, I.a, <<>>, I.b - I.a + 1))
           [] I.op = "LOADBOOL"  -> Goto(Next1 + I.c, [Frame.regs EXCEPT ![I.a] = Bool(I.b = 1)])
           [] I.op = "VARARG"    ->
                frames' = [frames EXCEPT ![Depth].pc = Next1,
                                         ![Depth].regs = Fill(@, I.a, vs, n),
                                         ![Depth].top = IF I.b = 0 THEN I.a + n ELSE @]
  /\ UNCHANGED <<program, main, heap, upvals, globals, out, status>>

\* Arithmetic, comparison and concatenation
Operands == IF I.op = "CONCAT" THEN [j \in 1..(I.c - I.b + 1) |-> R(I.b + j - 1)]
            ELSE IF I.op = "UNM" THEN <<R(I.b)>> ELSE <<RKOf(I.b), RKOf(I.c)>>
Fails == I.op # "EQ" /\ \E j \in DOMAIN Operands : ~ IsNumber(Operands[j])
Join(x, y) == x * (CHOOSE p \in {10, 100, 1000, 10000} : p > y /\ (p = 10 \/ p <= 10 * y)) + y
Digits(vs) == FoldLeft(Join, 0, vs)

Arith ==
  /\ Executes({"ADD", "UNM", "CONCAT"})
  /\ IF Fails THEN Failure
     ELSE /\ CASE I.op = "ADD" -> Put(I.a, Operands[1] + Operands[2])
               [] I.op = "UNM" -> Put(I.a, - Operands[1])
               \* luaV_concat leaves what it makes in the operands' registers
               [] I.op = "CONCAT" ->
                    Goto(Next1, [Fill(Frame.regs, I.b, Operands, 0) EXCEPT
                                   ![I.b] = Digits(Operands), ![I.a] = Digits(Operands)])
          /\ UNCHANGED <<program, main, heap, upvals, globals, out, status>>

Length ==
  /\ Executes({"LEN"})
  /\ IF ~ IsTable(heap, R(I.b)) THEN Failure
     ELSE /\ Put(I.a, Border(Object(heap, R(I.b)).items))
          /\ UNCHANGED <<program, main, heap, upvals, globals, out, status>>

\* Jumps: a test skips the jump that follows it or takes it
Target == Proto.code[Next1].b
Holds ==
  CASE I.op = "EQ" -> (Operands[1] = Operands[2]) = (I.a = 1)
    [] I.op = "LT" -> (Operands[1] < Operands[2]) = (I.a = 1)
    [] I.op = "LE" -> (Operands[1] <= Operands[2]) = (I.a = 1)
    [] I.op = "TEST"    -> Truth(R(I.a)) = (I.c = 1)
    [] I.op = "TESTSET" -> Truth(R(I.b)) = (I.c = 1)

Jmp == Executes({"JMP"}) /\ Goto(I.b, Frame.regs)
       /\ UNCHANGED <<program, main, heap, upvals, globals, out, status>>

Test ==
  /\ Executes({"EQ", "LT", "LE", "TEST", "TESTSET"})
  /\ IF I.op \in {"LT", "LE"} /\ Fails THEN Failure
     ELSE /\ IF ~ Holds THEN Goto(Next1 + 1, Frame.regs)
             ELSE Goto(Target, IF I.op = "TESTSET" THEN [Frame.regs EXCEPT ![I.a] = R(I.b)]
                               ELSE Frame.regs)
          /\ UNCHANGED <<program, main, heap, upvals, globals, out, status>>

\* the index, the limit and the step are in three registers from a on
ForPrep ==
  /\ Executes({"FORPREP"})
  /\ IF \E r \in I.a..(I.a + 2) : ~ IsNumber(R(r)) THEN Failure
     ELSE /\ Goto(I.b, [Frame.regs EXCEPT ![I.a] = @ - R(I.a + 2)])
          /\ UNCHANGED <<program, main, heap, upvals, globals, out, status>>

ForLoop ==
  /\ Executes({"FORLOOP"})
  /\ LET idx == R(I.a) + R(I.a + 2)
     IN  IF IF R(I.a + 2) > 0 THEN idx <= R(I.a + 1) ELSE R(I.a + 1) <= idx
         THEN Goto(I.b, [Frame.regs EXCEPT ![I.a] = idx, ![I.a + 3] = idx])
         ELSE Goto(Next1, Frame.regs)
  /\ UNCHANGED <<program, main, heap, upvals, globals, out, status>>

\* the generator is called in the three registers after the loop's own
TForLoop ==
  /\ Executes({"TFORLOOP"})
  /\ IF R(I.a) # inext \/ ~ IsTable(heap, R(I.a + 1)) THEN Failure
     ELSE LET vs == BuiltIn(heap, inext, <<R(I.a + 1), R(I.a + 2)>>)
              f  == Results(Frame, I.a + 3, vs, I.c)
          IN  /\ frames' = [frames EXCEPT ![Depth] =
                   IF f.regs[I.a + 3] = Nil THEN [f EXCEPT !.pc = @ + 2]
                   ELSE [f EXCEPT !.pc = Target, !.regs[I.a + 2] = f.regs[I.a + 3]]]
              /\ UNCHANGED <<program, main, heap, upvals, globals, out, status>>

---------------------------------------------------------------------------
\* Tables, globals and upvalues
GetTable ==
  /\ Executes({"GETTABLE", "SELF"})
  /\ IF ~ IsTable(heap, R(I.b)) THEN Failure
     ELSE /\ Goto(Next1, LET regs == IF I.op = "SELF" THEN [Frame.regs EXCEPT ![I.a + 1] = R(I.b)]
                                     ELSE Frame.regs
                         IN  [regs EXCEPT ![I.a] = TableGet(heap, R(I.b), RKOf(I.c))])
          /\ UNCHANGED <<program, main, heap, upvals, globals, out, status>>

SetTable ==
  /\ Executes({"SETTABLE"})
  /\ IF ~ IsTable(heap, R(I.a)) \/ RKOf(I.b) = Nil THEN Failure
     ELSE /\ heap' = TableSet(heap, R(I.a), RKOf(I.b), RKOf(I.c))
          /\ Goto(Next1, Frame.regs)
          /\ UNCHANGED <<program, main, upvals, globals, out, status>>

StoreList ==
  /\ Executes({"SETLIST"})
  /\ LET vs == Values(I.a + 1, IF I.b = 0 THEN 0 ELSE I.b + 1)
         at(j) == (I.c - 1) * LFIELDS_PER_FLUSH + j
     IN  heap' = FoldLeft(LAMBDA h, j : TableSet(h, R(I.a), at(j), vs[j]), heap,
                          [j \in 1..Len(vs) |-> j])
  /\ Goto(Next1, Frame.regs)
  /\ UNCHANGED <<program, main, upvals, globals, out, status>>

MakeTable ==
  /\ Executes({"NEWTABLE"}) /\ Len(heap) < Len(Addresses)
  /\ heap' = Append(heap, NewTable)
  /\ Put(I.a, Addresses[Len(heap) + 1])
  /\ UNCHANGED <<program, main, upvals, globals, out, status>>

SetGlobal ==
  /\ Executes({"SETGLOBAL"})
  /\ globals' = [n \in DOMAIN globals \cup {K(I.b)} |-> IF n = K(I.b) THEN R(I.a) ELSE globals[n]]
  /\ Goto(Next1, Frame.regs)
  /\ UNCHANGED <<program, main, heap, upvals, out, status>>

SetUpval ==
  /\ Executes({"SETUPVAL"})
  /\ LET u == Closure.ups[I.b + 1]
     IN  IF upvals[u].open
         THEN /\ frames' = [frames EXCEPT ![upvals[u].frame].regs[upvals[u].reg] = R(I.a),
                                          ![Depth].pc = Next1]
              /\ UNCHANGED upvals
         ELSE /\ upvals' = [upvals EXCEPT ![u].v = R(I.a)]
              /\ Goto(Next1, Frame.regs)
  /\ UNCHANGED <<program, main, heap, globals, out, status>>

Close == /\ Executes({"CLOSE"})
         /\ upvals' = CloseFrom(I.a)
         /\ Goto(Next1, Frame.regs)
         /\ UNCHANGED <<program, main, heap, globals, out, status>>

\* a closure shares the upvalues of its function and the open ones of this
\* call (luaF_findupval), and makes the others
MakeClosure ==
  /\ Executes({"CLOSURE"}) /\ Len(heap) < Len(Addresses)
  /\ LET ups  == Proto.p[I.b].upvalues
         open(reg) == {u \in DOMAIN upvals : upvals[u].open /\ upvals[u].frame = Depth
                                             /\ upvals[u].reg = reg}
         new  == SetToSeq({Proto.code[Frame.pc + j].b : j \in
                   {j \in DOMAIN ups : Proto.code[Frame.pc + j].op = "MOVE"
                                       /\ open(Proto.code[Frame.pc + j].b) = {}}})
         find(p) == IF p.op = "GETUPVAL" THEN Closure.ups[p.b + 1]
                    ELSE IF open(p.b) # {} THEN CHOOSE u \in open(p.b) : TRUE
                    ELSE Len(upvals) + Place(p.b, new)
     IN  /\ upvals' = upvals \o [j \in DOMAIN new |->
                        [open |-> TRUE, frame |-> Depth, reg |-> new[j], v |-> Nil]]
         /\ heap' = Append(heap, [kind |-> "closure", path |-> Append(Closure.path, I.b),
                                  ups |-> [j \in DOMAIN ups |-> find(Proto.code[Frame.pc + j])]])
         /\ Goto(Next1 + Len(ups), [Frame.regs EXCEPT ![I.a] = Addresses[Len(heap) + 1]])
  /\ UNCHANGED <<program, main, globals, out, status>>

---------------------------------------------------------------------------
\* Calls

\* luaD_precall of a Lua function, adjust_varargs included
Enter(f, args, ret, nresults) ==
  LET p  == ProtoOf(Object(heap, f).path)
      np == p.numparams
      fixed == SubSeq(args, 1, Min({np, Len(args)}))
      nils  == [r \in 0..(MaxRegs - 1) |-> Nil]
  IN  [closure |-> f, pc |-> 1, regs |-> Fill(nils, 0, fixed, 0), top |-> 0, ret |-> ret,
       nresults |-> nresults,
       varargs |-> IF p.is_vararg # {} THEN SubSeq(args, np + 1, Len(args)) ELSE <<>>]

Call ==
  /\ Executes({"CALL", "TAILCALL"})
  /\ LET f    == R(I.a)
         args == Values(I.a + 1, IF I.b = 0 THEN 0 ELSE I.b)
         tail == I.op = "TAILCALL"
     IN  CASE f \in {emit, inext} ->
                /\ out' = IF f = emit THEN Append(out, args) ELSE out
                /\ frames' = [frames EXCEPT ![Depth] =
                                [Results(@, I.a, BuiltIn(heap, f, args), I.c - 1) EXCEPT !.pc = @ + 1]]
                /\ UNCHANGED <<program, main, heap, upvals, globals, status>>
           [] IsClosure(heap, f) /\ ~ tail ->
                /\ frames' = Append([frames EXCEPT ![Depth].pc = @ + 1],
                                    Enter(f, args, I.a, I.c - 1))
                /\ UNCHANGED <<program, main, heap, upvals, globals, out, status>>
           [] IsClosure(heap, f) /\ tail ->
                /\ frames' = Append(Front(frames), Enter(f, args, Frame.ret, Frame.nresults))
                /\ upvals' = CloseFrom(0)
                /\ UNCHANGED <<program, main, heap, globals, out, status>>
           [] OTHER -> Failure

Leave ==
  /\ Executes({"RETURN"})
  /\ LET vs == Values(I.a, I.b)
         up == Front(frames)
     IN  /\ upvals' = CloseFrom(0)
         /\ IF Depth = 1
            THEN /\ status' = "done" /\ out' = Append(out, vs)
                 /\ UNCHANGED frames
            ELSE /\ frames' = [up EXCEPT ![Depth - 1] = Results(@, Frame.ret, vs, Frame.nresults)]
                 /\ UNCHANGED <<status, out>>
  /\ UNCHANGED <<program, main, heap, globals>>

---------------------------------------------------------------------------
Init ==
  /\ program \in Programs
  /\ main = NewFunction
  /\ heap = <<[kind |-> "closure", path |-> <<>>, ups |-> <<>>]>>
  /\ frames = <<[closure |-> Addresses[1], pc |-> 1, regs |-> [r \in 0..(MaxRegs - 1) |-> Nil],
                 top |-> 0, ret |-> 0, nresults |-> MULTRET, varargs |-> <<>>]>>
  /\ upvals = <<>>
  /\ globals = [n \in {emit, inext} |-> n]
  /\ out = <<>>
  /\ status = "read"

\* f_parser: luaY_parser or luaU_undump
Read ==
  /\ status = "read"
  /\ main' \in Loadable[program]
  /\ status' = "running"
  /\ UNCHANGED <<program, frames, heap, upvals, globals, out>>

Next ==
  \/ Read \/ Load \/ Arith \/ Length \/ Jmp \/ Test \/ ForPrep \/ ForLoop \/ TForLoop
  \/ GetTable \/ SetTable \/ StoreList \/ MakeTable \/ SetGlobal \/ SetUpval
  \/ Close \/ MakeClosure \/ Call \/ Leave
  \/ status \in {"done", "error"} /\ UNCHANGED vars

Spec == Init /\ [][Next]_vars /\ WF_vars(Next)

---------------------------------------------------------------------------
\* A compiled program shows, returns and fails as its text says: what is kept
\* on hold by lcode.c (jumps, registers, NOTs, LOADNILs) changes nothing.
ComputesItsMeaning ==
  status \in {"done", "error"} => [out |-> out, status |-> status] = Intended[program]

\* The compiler's assertions hold (lua_assert in lparser.c, lcode.c), and the
\* code it generates passes luaG_checkcode.
AssertionsHold == ~ main.failed

\* An upvalue is open only while the call whose register it is is active, and
\* functions that keep the same variable share one upvalue (luaF_findupval).
OpenUpvaluesAreLive ==
  \A u, w \in DOMAIN upvals :
    upvals[u].open =>
      /\ upvals[u].frame <= Len(frames)
      /\ upvals[w].open /\ upvals[w].frame = upvals[u].frame /\ upvals[w].reg = upvals[u].reg
         => u = w
=============================================================================
