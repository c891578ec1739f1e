------------------------------ MODULE LuaMeaning ------------------------------
(***************************************************************************)
(* What a Lua program means: an evaluation of the tree LuaParser reads,    *)
(* from left to right, that knows nothing of registers, jumps or upvalues. *)
(* A variable is a cell; an environment is the sequence of the <<name,     *)
(* cell>> in scope, and the extra arguments of the function.               *)
(*                                                                         *)
(* A state st holds the cells, the heap, the globals, what was shown, the  *)
(* values just computed, and why evaluation stops: "no", "break",          *)
(* "return" or "error".                                                    *)
(***************************************************************************)
EXTENDS Integers, FiniteSets, SequencesExt

CONSTANTS Nil, True, False, Addresses, emit, inext, arg, self

\* An expression, a statement, or what is left to do of one
RECURSIVE Eval(_, _, _)
EvalList(st, env, xs) == Eval(st, env, <<"list", xs>>)
Run(st, env, body)    == Eval(st, env, <<"body", body>>)

Place(x, seq) == CHOOSE i \in DOMAIN seq : seq[i] = x
Going(st)   == st.stop = "no"
Error(st)   == [st EXCEPT !.stop = "error"]
Values(st, vs) == [st EXCEPT !.vals = vs]
One(st)     == IF st.vals = <<>> THEN Nil ELSE st.vals[1]
Single(st)  == Values(st, <<One(st)>>)
Truth(v)    == v \notin {Nil, False}
Bool(b)     == IF b THEN True ELSE False
IsObject(v) == v \in ToSet(Addresses)
IsNumber(v) == v \notin ToSet(Addresses) \cup {Nil, True, False, emit, inext, arg, self}
Kind(st, v) == IF IsObject(v) THEN st.heap[Place(v, Addresses)].kind ELSE "none"
Object(st, v) == st.heap[Place(v, Addresses)]
New(st, o)  == Values([st EXCEPT !.heap = Append(@, o)], <<Addresses[Len(st.heap) + 1]>>)
Get(st, t, k) == LET s == Object(st, t).items IN IF k \in DOMAIN s THEN s[k] ELSE Nil
Set(st, t, k, v) ==
  LET s == Object(st, t).items
      others == DOMAIN s \ {k}
      items == IF v = Nil THEN [x \in others |-> s[x]]
               ELSE [x \in others \cup {k} |-> IF x = k THEN v ELSE s[x]]
  IN  IF Kind(st, t) # "table" \/ k = Nil THEN Error(st)
      ELSE [st EXCEPT !.heap[Place(t, Addresses)].items = items]
Border(items) == CHOOSE n \in 0..Cardinality(DOMAIN items) :
                   1..n \subseteq DOMAIN items /\ n + 1 \notin DOMAIN items

\* the environment with new variables, and the state with their cells
Declared(st, env, names) ==
  [env EXCEPT !.vars = @ \o [i \in DOMAIN names |-> <<names[i], Len(st.cells) + i>>]]
Fresh(st, names, vs) ==
  [st EXCEPT !.cells = @ \o [i \in DOMAIN names |-> IF i <= Len(vs) THEN vs[i] ELSE Nil]]
CellsOf(env, name) == {i \in DOMAIN env.vars : env.vars[i][1] = name}
Cell(env, name) == env.vars[Max(CellsOf(env, name))][2]

Returned(st) ==
  CASE st.stop = "return" -> [st EXCEPT !.stop = "no"]
    [] st.stop = "no"     -> Values(st, <<>>)
    [] OTHER              -> st
Enter(st, c, args) ==
  Returned(Run(Fresh(st, c.params, args),
               Declared(st, [vars |-> c.vars, more |-> SubSeq(args, Len(c.params) + 1, Len(args))],
                        c.params), c.body))
NextItem(v, n) == IF v = Nil THEN <<Nil>> ELSE <<n, v>>
Apply(st, f, args) ==
  CASE f = emit  -> Values([st EXCEPT !.out = Append(@, args)], args)
    [] f = inext -> Values(st, NextItem(Get(st, args[1], args[2] + 1), args[2] + 1))
    [] Kind(st, f) = "closure" -> Enter(st, Object(st, f), args)
    [] OTHER -> Error(st)

\* the values of the rest of a list follow v
Follow(s, v) == [s EXCEPT !.vals = <<v>> \o @]
ListFrom(s, env, rest) ==
  IF ~ Going(s) \/ rest = <<>> THEN s ELSE Follow(EvalList(s, env, rest), One(s))

\* the fields of table t, n items of which are stored
RECURSIVE PutItems(_, _, _, _)
PutItems(st, t, n, vs) ==
  IF vs = <<>> THEN st ELSE PutItems(Set(st, t, n + 1, Head(vs)), t, n + 1, Tail(vs))
Item(s, env, t, rest, n) ==
  IF ~ Going(s) THEN s
  ELSE Eval(PutItems(s, t, n, IF rest = <<>> THEN s.vals ELSE <<One(s)>>), env,
            <<"fields", t, rest, n + 1>>)
FieldValue(s, env, t, key, rest, n) ==
  IF Going(s) THEN Eval(Set(s, t, key, One(s)), env, <<"fields", t, rest, n>>) ELSE s
Field(s, env, t, x, rest, n) ==
  IF Going(s) THEN FieldValue(Eval(s, env, x), env, t, One(s), rest, n) ELSE s
Fields(st, env, t, fields, n) ==
  CASE fields = <<>> \/ ~ Going(st) -> Values(st, <<t>>)
    [] fields # <<>> /\ fields[1][1] = "item" ->
         Item(Eval(st, env, fields[1][2]), env, t, Tail(fields), n)
    [] OTHER -> Field(Eval(st, env, fields[1][2]), env, t, fields[1][3], Tail(fields), n)
TableOf(s, env, fields) == Eval(s, env, <<"fields", s.vals[1], fields, 0>>)

Join(x, y) == x * (CHOOSE p \in {10, 100, 1000, 10000} : p > y /\ (p = 10 \/ p <= 10 * y)) + y

Binary(st, op, a, b) ==
  CASE op = "eq" -> Values(st, <<Bool(a = b)>>)
    [] op = "ne" -> Values(st, <<Bool(a # b)>>)
    [] op \notin {"eq", "ne"} /\ ~ (IsNumber(a) /\ IsNumber(b)) -> Error(st)
    [] op = "add" -> Values(st, <<a + b>>)
    [] op = "concat" -> Values(st, <<Join(a, b)>>)
    [] op = "lt" -> Values(st, <<Bool(a < b)>>)
    [] op = "le" -> Values(st, <<Bool(a <= b)>>)
    [] op = "gt" -> Values(st, <<Bool(a > b)>>)
    [] op = "ge" -> Values(st, <<Bool(a >= b)>>)
Right(s, op, v) == IF Going(s) THEN Binary(s, op, v, One(s)) ELSE s

\* "and" and "or" leave out their second operand when the first decides
Left(s, env, op, x) ==
  CASE ~ Going(s) -> s
    [] Going(s) /\ op \in {"and", "or"} ->
         IF Truth(One(s)) = (op = "or") THEN Single(s) ELSE Eval(s, env, <<"paren", x>>)
    [] OTHER -> Right(Eval(s, env, x), op, One(s))

Unary(st, op, a) ==
  CASE ~ Going(st) -> st
    [] Going(st) /\ op = "not" -> Values(st, <<Bool(~ Truth(a))>>)
    [] Going(st) /\ op = "minus" /\ IsNumber(a) -> Values(st, << - a>>)
    [] Going(st) /\ op = "len" /\ Kind(st, a) = "table" ->
         Values(st, <<Border(Object(st, a).items)>>)
    [] OTHER -> Error(st)

Lookup(s) ==
  CASE ~ Going(s) -> s
    [] Going(s) /\ Kind(s, s.vals[1]) # "table" -> Error(s)
    [] OTHER -> Values(s, <<IF Len(s.vals) = 1 THEN Nil ELSE Get(s, s.vals[1], s.vals[2])>>)

WithArgs(s, f, first) == IF Going(s) THEN Apply(s, f, first \o s.vals) ELSE s
CallOf(s, env, args) == IF Going(s) THEN WithArgs(EvalList(s, env, args), One(s), <<>>) ELSE s
Method(s, env, name, args) ==
  CASE ~ Going(s) -> s
    [] Going(s) /\ Kind(s, One(s)) # "table" -> Error(s)
    [] OTHER -> WithArgs(EvalList(s, env, args), Get(s, One(s), name), <<One(s)>>)

ClosureOf(env, params, body) ==
  [kind |-> "closure", params |-> params, body |-> body, vars |-> env.vars]

ValueOf(st, env, name) ==
  CASE CellsOf(env, name) # {} -> st.cells[Cell(env, name)]
    [] CellsOf(env, name) = {} /\ name \in DOMAIN st.globals -> st.globals[name]
    [] OTHER -> Nil

---------------------------------------------------------------------------
\* A target is <<"var", name>> or <<"index", table, key>>; the last is stored first
Target(s, env, rest, found) ==
  IF Going(s) THEN Eval(s, env, <<"targets", rest, Append(found, <<"index">> \o s.vals)>>) ELSE s
TargetsOf(st, env, vars, found) ==
  CASE vars = <<>> -> Values(st, found)
    [] vars # <<>> /\ vars[1][1] = "var" ->
         Eval(st, env, <<"targets", Tail(vars), Append(found, vars[1])>>)
    [] OTHER -> Target(EvalList(st, env, Tail(vars[1])), env, Tail(vars), found)

StoreIn(st, env, x, v) ==
  CASE x[1] = "index" -> Set(st, x[2], x[3], v)
    [] x[1] = "var" /\ CellsOf(env, x[2]) # {} -> [st EXCEPT !.cells[Cell(env, x[2])] = v]
    [] OTHER -> [st EXCEPT !.globals = [n \in DOMAIN @ \cup {x[2]} |-> IF n = x[2] THEN v ELSE @[n]]]
RECURSIVE StoreAll(_, _, _, _)
StoreAll(st, env, xs, vs) ==
  IF xs = <<>> \/ ~ Going(st) THEN st
  ELSE StoreAll(StoreIn(st, env, Last(xs), IF Len(xs) <= Len(vs) THEN vs[Len(xs)] ELSE Nil),
                env, Front(xs), vs)
Assigned(s, env, targets) == IF Going(s) THEN StoreAll(s, env, targets, s.vals) ELSE s
Assign(s, env, exps) == IF Going(s) THEN Assigned(EvalList(s, env, exps), env, s.vals) ELSE s

\* a loop x, after its body; again is what it does next
After(s, env, again) ==
  CASE Going(s) -> Eval(s, env, again)
    [] s.stop = "break" -> [s EXCEPT !.stop = "no"]
    [] OTHER -> s
Loop(c, env, x) ==
  IF Going(c) /\ Truth(One(c)) THEN After(Run(c, env, x[3]), env, x) ELSE c

\* the condition sees the variables of the body: it comes as its last statement
Until(s, env, x) ==
  IF s.stop = "again" THEN Eval([s EXCEPT !.stop = "no"], env, x)
  ELSE IF s.stop = "break" THEN [s EXCEPT !.stop = "no"] ELSE s
Check(c) == IF Going(c) /\ ~ Truth(One(c)) THEN [c EXCEPT !.stop = "again"] ELSE c

\* the index is i, the limit and the step are x[4] and x[5]
Count(st, env, x, i) ==
  IF IF x[5] > 0 THEN i > x[4] ELSE x[4] > i THEN st
  ELSE After(Run(Fresh(st, <<x[2]>>, <<i>>), Declared(st, env, <<x[2]>>), x[6]), env,
             [x EXCEPT ![3] = i + x[5]])
Counting(s, env, name, body) ==
  LET vs == IF Len(s.vals) = 2 THEN Append(s.vals, 1) ELSE s.vals
  IN  IF ~ Going(s) THEN s
      ELSE IF Len(vs) < 3 \/ \E i \in 1..3 : ~ IsNumber(vs[i]) THEN Error(s)
      ELSE Eval(s, env, <<"count", name>> \o SubSeq(vs, 1, 3) \o <<body>>)

\* of an array, from element x[4] on
Each(st, env, x) ==
  LET vs == NextItem(Get(st, x[3], x[4] + 1), x[4] + 1)
  IN  IF vs[1] = Nil THEN st
      ELSE After(Run(Fresh(st, x[2], vs), Declared(st, env, x[2]), x[5]), env, [x EXCEPT ![4] = vs[1]])
Listing(s, env, names, body) ==
  CASE ~ Going(s) -> s
    [] Going(s) /\ (s.vals[1] # inext \/ Len(s.vals) < 3 \/ Kind(s, s.vals[2]) # "table") -> Error(s)
    [] OTHER -> Eval(s, env, <<"each", names, s.vals[2], s.vals[3], body>>)

Choose(c, env, clauses) ==
  CASE ~ Going(c) -> c
    [] Going(c) /\ Truth(One(c)) -> Run(c, env, clauses[1][2])
    [] OTHER -> Eval(c, env, <<"if", Tail(clauses)>>)

Defined(s, env, name) == StoreAll(s, env, <<<<"var", name>>>>, s.vals)
Return(s) == IF Going(s) THEN [s EXCEPT !.stop = "return"] ELSE s

\* what follows a statement, and the declarations of local variables
Then(s, env, rest) == IF Going(s) THEN Run(s, env, rest) ELSE s
Local(s, env, names, rest) ==
  IF Going(s) THEN Run(Fresh(s, names, s.vals), Declared(s, env, names), rest) ELSE s
LocalFunction(s, env, f, rest) == Run([s EXCEPT !.cells[Len(s.cells)] = One(s)], env, rest)
Body(st, env, s, rest) ==
  CASE s[1] = "local" -> Local(EvalList(st, env, s[3]), env, s[2], rest)
    [] s[1] = "localfunction" ->
         LET inner == Declared(st, env, <<s[2]>>)
         IN  LocalFunction(New(Fresh(st, <<s[2]>>, <<>>), ClosureOf(inner, s[3], s[5])), inner, s, rest)
    [] OTHER -> Then(Eval(st, env, s), env, rest)

---------------------------------------------------------------------------
Eval(st, env, x) ==
  CASE x[1] = "nil"     -> Values(st, <<Nil>>)
    [] x[1] = "true"    -> Values(st, <<True>>)
    [] x[1] = "false"   -> Values(st, <<False>>)
    [] x[1] = "num"     -> Values(st, <<x[2]>>)
    [] x[1] = "vararg"  -> Values(st, env.more)
    [] x[1] = "var"     -> Values(st, <<ValueOf(st, env, x[2])>>)
    [] x[1] = "paren"   -> LET One1(s) == IF Going(s) THEN Single(s) ELSE s IN One1(Eval(st, env, x[2]))
    [] x[1] = "index"   -> Lookup(EvalList(st, env, <<x[2], x[3]>>))
    [] x[1] = "call"    -> CallOf(Eval(st, env, x[2]), env, x[3])
    [] x[1] = "self"    -> Method(Eval(st, env, x[2]), env, x[3], x[4])
    [] x[1] = "table"   -> TableOf(New(st, [kind |-> "table", items |-> <<>>]), env, x[2])
    [] x[1] = "fields"  -> Fields(st, env, x[2], x[3], x[4])
    [] x[1] = "closure" -> New(st, ClosureOf(env, x[2], x[4]))
    [] x[1] = "un"      -> LET Of(s) == Unary(s, x[2], One(s)) IN Of(Eval(st, env, x[3]))
    [] x[1] = "bin"     -> Left(Eval(st, env, x[3]), env, x[2], x[4])
    [] x[1] = "list"    -> IF x[2] = <<>> THEN Values(st, <<>>)
                           ELSE ListFrom(Eval(st, env, Head(x[2])), env, Tail(x[2]))
    [] x[1] = "targets" -> TargetsOf(st, env, x[2], x[3])
    [] x[1] = "assign"  -> Assign(Eval(st, env, <<"targets", x[2], <<>>>>), env, x[3])
    [] x[1] = "callstat" -> Eval(st, env, x[2])
    [] x[1] = "do"      -> Run(st, env, x[2])
    [] x[1] = "if"      -> CASE x[2] = <<>> -> st
                             [] x[2] # <<>> /\ Len(x[2][1]) = 1 -> Run(st, env, x[2][1][1])
                             [] OTHER -> Choose(Eval(st, env, x[2][1][1]), env, x[2])
    [] x[1] = "while"   -> Loop(Eval(st, env, x[2]), env, x)
    [] x[1] = "repeat"  -> Until(Run(st, env, Append(x[2], <<"until", x[3]>>)), env, x)
    [] x[1] = "until"   -> Check(Eval(st, env, x[2]))
    [] x[1] = "fornum"  -> Counting(EvalList(st, env, x[3]), env, x[2], x[4])
    [] x[1] = "count"   -> Count(st, env, x, x[3])
    [] x[1] = "forlist" -> Listing(EvalList(st, env, x[3]), env, x[2], x[4])
    [] x[1] = "each"    -> Each(st, env, x)
    [] x[1] = "function" -> Defined(New(st, ClosureOf(env, x[3], x[5])), env, x[2])
    [] x[1] = "return"  -> Return(EvalList(st, env, x[2]))
    [] x[1] = "break"   -> [st EXCEPT !.stop = "break"]
    [] x[1] = "body"    -> IF x[2] = <<>> THEN st ELSE Body(st, env, Head(x[2]), Tail(x[2]))

\* what a program shows, with what it returns at the end, and how it ends
Shown(st) ==
  IF st.stop = "error" THEN [out |-> st.out, status |-> "error"]
  ELSE [out |-> Append(st.out, IF st.stop = "return" THEN st.vals ELSE <<>>), status |-> "done"]
Meaning(program) ==
  Shown(Run([cells |-> <<>>, heap |-> <<[kind |-> "closure"]>>, vals |-> <<>>, out |-> <<>>,
             globals |-> [n \in {emit, inext} |-> n], stop |-> "no"],
            [vars |-> <<>>, more |-> <<>>], program))
=============================================================================
