---------------------------- MODULE MCLuaLanguage ----------------------------
(***************************************************************************)
(* Programs for the compiler and the virtual machine of Lua: each compiled *)
(* program, or one loaded from a chunk, must do what LuaMeaning says.  And *)
(* other parts of the interpreter: every behaviour is of a program or of   *)
(* one of them, which keeps its variables in s1, s2, ...                   *)
(***************************************************************************)
EXTENDS LuaVM, LuaParser

CONSTANTS a, b, t, g, fun, obj1, obj2, obj3, obj4, obj5, obj6

MCAddresses == <<obj1, obj2, obj3, obj4, obj5, obj6>>

M == INSTANCE LuaMeaning

\* The tree of a program
Num(n)      == <<"num", n>>
Var(n)      == <<"var", n>>
P(x)        == <<"paren", x>>
Not(x)      == <<"un", "not", x>>
Bin(op, x, y) == <<"bin", op, x, y>>
CallOf(x, ys) == <<"call", x, ys>>
Emit(xs)    == CallOf(Var(emit), xs)
At(x, y)    == <<"index", x, y>>
Fn(params, body) == <<"closure", params, FALSE, body>>
Local(names, xs) == <<"local", names, xs>>
Assign(vs, xs)   == <<"assign", vs, xs>>
Show(xs)    == <<"callstat", Emit(xs)>>
Give(xs)    == <<"return", xs>>
If(x, then, else) == <<"if", <<<<x, then>>, <<else>>>>>>
Items(xs)   == <<"table", [j \in DOMAIN xs |-> <<"item", xs[j]>>]>>
Name(n)     == <<"name", n>>

---------------------------------------------------------------------------
\* Conditions: which operands are evaluated, and what the whole is.  No false
\* is on the left of "and", nor true on the left of "or".
Leaves == {Num(1), <<"nil">>, Emit(<<Num(2)>>), Emit(<<Var(g)>>), Var(a)}
Rights == Leaves \cup {<<"true">>, <<"false">>, Bin("lt", Var(a), Num(3)), Not(Var(a))}
And(S, U) == {P(Bin("and", x, y)) : x \in S, y \in U}
Or(S, U)  == {P(Bin("or", x, y)) : x \in S, y \in U}
Compare   == {P(Bin(op, x, y)) : op \in {"eq", "ne", "lt", "le", "gt", "ge"},
                                 x \in {Num(3), Var(a)}, y \in {Emit(<<Num(5)>>), <<"nil">>}}
Simple    == And(Leaves, Rights) \cup Or(Leaves, Rights) \cup Compare
Nested    == {Not(x) : x \in Simple} \cup And(Simple, {Var(g), Emit(<<Num(2)>>)})
             \cup Or(Simple, {Var(g), Emit(<<Num(2)>>)})
Conditions == UNION {
  { <<Local(<<a>>, <<Num(5)>>), Give(<<x>>)>>,
    <<Local(<<a>>, <<Num(5)>>), If(x, <<Show(<<Num(7)>>)>>, <<Show(<<Num(8)>>)>>)>> }
    : x \in Simple \cup Nested}

---------------------------------------------------------------------------
\* Multiple assignments and multiple results
Targets3 == {Var(a), Var(b), At(Var(t), Var(a)), At(Var(t), Var(b)), Var(g)}
Sources  == {<<Num(2), Num(3)>>, <<Var(b), Var(a)>>, <<Emit(<<Num(1), Num(2)>>)>>,
             <<Num(2), Emit(<<Num(4), Num(5)>>), Num(6)>>, <<Var(a), Bin("add", Var(a), Num(1))>>}
Assignments ==
  {<<Local(<<t, a, b>>, <<Items(<<Num(7), Num(8), Num(9)>>), Num(1), Num(2)>>),
     Assign(<<v, w>>, xs),
     Give(<<Var(a), Var(b), Var(g), At(Var(t), Num(1)), At(Var(t), Num(2)), At(Var(t), Num(3))>>)>>
   : v \in Targets3, w \in Targets3, xs \in Sources}

Many  == Emit(<<Num(1), Num(2)>>)
Lists == {<<>>, <<Many>>, <<Num(9), Many>>, <<Many, Num(9)>>, <<P(Many)>>, <<<<"vararg">>>>,
          <<Num(8), <<"vararg">>>>, <<Num(3), Num(4), Num(5), Many>>}
Results3 ==
  UNION {{ <<<<"localfunction", fun, <<a>>, TRUE, <<Show(xs), Give(xs)>>>>,
             Give(<<CallOf(Var(fun), ys)>>)>>,
           <<<<"localfunction", fun, <<>>, TRUE, <<Local(<<a, b>>, xs), Show(<<Var(b), Var(a)>>)>>>>,
             Local(<<t>>, <<Items(ys)>>),
             Give(<<CallOf(Var(fun), <<Num(6), Num(7)>>), <<"un", "len", Var(t)>>>>)>> }
         : xs \in Lists, ys \in Lists}

---------------------------------------------------------------------------
\* Loops whose variables a function keeps, left in every way
Keep(n)  == Assign(<<Var(fun)>>, <<Fn(<<>>, <<Assign(<<Var(n)>>, <<Bin("add", Var(n), Num(1))>>),
                                            Give(<<Var(n)>>)>>)>>)
Bump(n)  == Assign(<<Var(n)>>, <<Bin("add", Var(n), Num(1))>>)
First(x) == If(Bin("eq", Var(fun), <<"nil">>), <<x>>, <<>>)
Exits    == {<<>>, <<If(Bin("eq", Var(a), Num(2)), <<<<"break">>>>, <<>>)>>,
             <<<<"do", <<Local(<<t>>, <<Var(a)>>), First(Keep(t)),
                         If(Bin("gt", Var(t), Num(1)), <<<<"break">>>>, <<>>)>>>>>>}
Bodies   == {s \o e : s \in {<<>>, <<Local(<<b>>, <<Var(a)>>), First(Keep(b)), Bump(b)>>}, e \in Exits}
Loops ==
  UNION {{<<Local(<<a>>, <<Num(0)>>),
            <<"while", Bin("lt", Var(a), Num(3)), <<Bump(a)>> \o s>>, Show(<<Var(a)>>)>>,
          <<<<"fornum", a, <<Num(1), Num(3)>>, <<First(Keep(a))>> \o s>>>>,
          <<<<"fornum", a, <<Num(3), Num(1), <<"un", "minus", Num(2)>>>>, <<Show(<<Var(a)>>)>> \o s>>>>,
          <<<<"forlist", <<a, g>>, <<Var(inext), Items(<<Num(4), Num(5)>>), Num(0)>>,
              <<Show(<<Var(a), Var(g)>>)>> \o s>>>>,
          <<Local(<<a>>, <<Num(0)>>),
            <<"repeat", <<Bump(a), Local(<<b>>, <<Bin("add", Var(a), Num(0))>>)>> \o s,
              Bin("gt", Var(b), Num(1))>>>>} : s \in Bodies}
Kept == {p \o <<If(Var(fun), <<Show(<<CallOf(Var(fun), <<>>), CallOf(Var(fun), <<>>)>>)>>, <<>>)>> : p \in Loops}

---------------------------------------------------------------------------
\* Functions inside functions, methods, expressions of every other kind
Others ==
  { \* two functions share a variable of the one around them
    <<Local(<<a>>, <<Num(1)>>),
      Local(<<fun, g>>, <<Fn(<<>>, <<Bump(a)>>), Fn(<<>>, <<Give(<<Var(a)>>)>>)>>),
      <<"callstat", CallOf(Var(fun), <<>>)>>, Bump(a), Give(<<CallOf(Var(g), <<>>)>>)>>,
    \* an upvalue of an upvalue, kept when both functions have returned
    <<Assign(<<Var(g)>>, <<Fn(<<a>>, <<Local(<<b>>, <<Num(4)>>), Give(<<Fn(<<>>, <<
        Give(<<Fn(<<>>, <<Bump(a), Bump(b), Give(<<Var(a), Var(b)>>)>>)>>)>>)>>)>>)>>),
      Local(<<fun>>, <<CallOf(CallOf(Var(g), <<Num(1)>>), <<>>)>>),
      Show(<<CallOf(Var(fun), <<>>)>>), Give(<<CallOf(Var(fun), <<>>)>>)>>,
    \* recursion by tail calls, and one that is not
    <<<<"localfunction", fun, <<a, b>>, FALSE, <<
        If(Bin("eq", Var(a), Num(0)), <<Give(<<Var(b)>>)>>, <<>>),
        Give(<<CallOf(Var(fun), <<Bin("add", Var(a), Num(-1)), Bin("add", Var(b), Var(a))>>)>>)>>>>,
      Give(<<CallOf(Var(fun), <<Num(3), Num(0)>>)>>)>>,
    <<<<"function", g, <<a>>, FALSE, <<
        If(Bin("gt", Num(2), Var(a)), <<Give(<<Var(a)>>)>>, <<>>),
        Give(<<Bin("add", CallOf(Var(g), <<Bin("add", Var(a), Num(-1))>>),
                   CallOf(Var(g), <<Bin("add", Var(a), Num(-2))>>))>>)>>>>,
      Give(<<CallOf(Var(g), <<Num(4)>>)>>)>>,
    \* a tail call leaves a variable that is kept
    <<Local(<<a>>, <<Num(5)>>),
      <<"localfunction", fun, <<b>>, FALSE, <<Assign(<<Var(g)>>, <<Fn(<<>>, <<Give(<<Var(b)>>)>>)>>),
                                            Give(<<Emit(<<Var(b), Var(a)>>)>>)>>>>,
      Show(<<CallOf(Var(fun), <<Num(6)>>)>>), Give(<<CallOf(Var(g), <<>>)>>)>>,
    <<Local(<<t>>, <<<<"table", <<<<"item", Num(3)>>, <<"field", Num(5), Many>>, <<"item", Num(4)>>,
                                  <<"item", Num(5)>>, <<"field", <<"true">>, Fn(<<self, a>>,
                                     <<Give(<<At(Var(self), Num(2)), Var(a)>>)>>)>>>>>>>>),
      Give(<<CallOf(At(Var(t), <<"true">>), <<Var(t), Num(6)>>), <<"un", "len", Var(t)>>,
             At(Var(t), Num(5))>>)>>,
    \* errors
    <<Show(<<Num(1)>>), Give(<<Bin("add", Num(1), Var(g))>>)>>,
    <<Local(<<a>>, <<At(Var(g), Num(1))>>)>>, <<<<"callstat", CallOf(Var(g), <<>>)>>>>,
    <<Show(<<Bin("lt", <<"nil">>, Num(1))>>)>>, <<Assign(<<At(Var(g), Num(1))>>, <<Num(1)>>)>>,
    <<Give(<<<<"un", "len", Var(g)>>>>)>>,
    <<<<"fornum", a, <<Num(1), Var(g)>>, <<>>>>>>, <<<<"forlist", <<a>>, <<Var(emit)>>, <<>>>>>> }
  \cup {<<Local(<<a, b>>, <<Num(5), Num(6)>>), Give(<<x>>)>> : x \in
          {Bin("concat", Var(a), Bin("concat", Num(1), Bin("concat", y, z))) :
             y \in {Num(2), Var(b)}, z \in {Num(3), Emit(<<Num(4)>>), <<"nil">>}}
          \cup {Bin("add", y, Bin("add", z, w)) :
                  y \in {Num(1), Var(a), Emit(<<Num(2)>>)}, z \in {Num(3), Emit(<<Num(4)>>)},
                  w \in {Num(5), Var(b), <<"un", "minus", Var(a)>>, Not(Var(a))}}}

MCPrograms  == Conditions \cup Assignments \cup Results3 \cup Kept \cup Others

---------------------------------------------------------------------------
\* Conditions of constants, three operators deep
Constant  == {Num(1), <<"true">>, <<"false">>}
Deeper(S) == {Bin(op, P(x), y) : op \in {"and", "or"}, x \in S, y \in Constant}
MCBooleans == {<<Give(<<x>>)>> : x \in Deeper(Deeper(Deeper(Constant)))}

MCMeaning   == [p \in MCPrograms |-> M!Meaning(p)]
BoolCompiled == [p \in MCBooleans |-> {Compile(p)}]
BoolMeaning  == [p \in MCBooleans |-> M!Meaning(p)]

---------------------------------------------------------------------------
(* The other parts *)

CONSTANTS LateFailures, OwnNewindex, Header, Chunkname, h1, h2, stdin, stdout, Loader, t1, t2, key, val, Sentinel

VARIABLES part, s1, s2, s3, s4, s5, s6, s7, s8

rest == <<s1, s2, s3, s4, s5, s6, s7, s8>>
allvars == <<vars, part, rest>>

Idle == "idle"

Chunks == INSTANCE LuaChunk WITH LUAI_MAXCCALLS <- 6
Library == INSTANCE MCLuaLibrary WITH Absent <- Nil
Files == INSTANCE LuaIO WITH
  os <- s1, open <- s2, env <- s3, default <- s4, held <- s5, iterators <- s6, Handles <- {h1, h2}

\* Modules a and a.b in Lua and C files on two templates, of which some do not
\* load or lack a function
Disk(lua, c, bad, functions, preload) ==
  [lua |-> lua, c |-> c, bad |-> bad, open |-> functions, preload |-> preload]
A  == <<"a">>
AB == <<"a", "b">>
Disks ==
  {Disk({<<A, 1>>, <<AB, 2>>}, {}, {}, {}, {}), Disk({<<A, 1>>, <<AB, 1>>}, {}, {<<AB, 1>>}, {}, {}),
   Disk({}, {<<A, 1>>, <<AB, 1>>}, {<<AB, 1>>}, {<<<<A, 1>>, AB>>}, {A}),
   Disk({<<A, 2>>}, {<<A, 1>>}, {}, {<<<<A, 1>>, AB>>, <<<<A, 1>>, A>>}, {})}
Packages == INSTANCE LuaPackage WITH
  disk <- s1, loaded <- s2, tables <- s3, running <- s4, libs <- s5, starts <- s6,
  Names <- {A, AB}, Templates <- {1, 2}, MaxTables <- 3, MaxDepth <- 3, Absent <- Nil

\* Two tables and a userdata; handlers may be fun
Events == INSTANCE LuaMeta WITH
  raw <- s1, meta <- s2, flags <- s3, Tables <- {t1, t2}, Userdata <- {obj1}, Handlers <- {fun},
  NoTable <- hidden, MAXTAGLOOP <- 5, MaxFields <- 2

\* Command lines of up to three arguments, wrong ones included
Words == {<<"-", "e">>, <<"-", "e", "x">>, <<"x">>, <<"-">>, <<"-", "-">>, <<"-", "i">>,
          <<"-", "l">>, <<"-", "v">>, <<"-", "v", "x">>}
Interpreter == INSTANCE LuaMain WITH
  todo <- s1, at <- s2, stack <- s3, call <- s4, status <- s5, seen <- s6, sigint <- s7, hook <- s8,
  CommandLines <- UNION {[1..n -> Words] : n \in 0..3},
  Inits <- {<<>>} \cup {<<[kind |-> k, narg |-> 0]>> : k \in {"string", "file"}}, MaxSignals <- 2

-----------------------------------------------------------------------------
\* luaU_dump, stripped or not, and luaU_undump through a ZIO of pieces
Pieces(p, strip) == Chunks!Dump(Compile(p), strip)
Undumped(units, n) == Chunks!Undump(Chunks!InPieces(units, n))
Compact == Others \cup Kept
MCLoadable ==
  [p \in MCPrograms |-> {Compile(p)} \cup
     IF p \in Compact THEN {Undumped(Pieces(p, strip), 5).x : strip \in BOOLEAN} ELSE {}]

\* chunks that are cut off, or whole
Whole == {Pieces(p, strip) : p \in Others, strip \in BOOLEAN}
IsCut(q) == \E units \in Whole : \E n \in DOMAIN units :
              q = <<"chunk", SubSeq(units, 1, n), n = Len(units)>>

NoProgram ==
  /\ program = <<>> /\ main = NewFunction /\ frames = <<>> /\ heap = <<>> /\ upvals = <<>>
  /\ globals = <<>> /\ out = <<>> /\ status = Idle

\* command lines that follow the grammar of print_usage, as
\* <<"command", options, "--" or "", script and arguments>>
Options == {<<"string", <<"-", "e", "x">> >>, <<"string", <<"-", "e">>, <<"-", "i">> >>,
            <<"library", <<"-", "l">>, <<"x">> >>, <<"library", <<"-", "l", "x">> >>,
            <<"i", <<"-", "i">> >>, <<"v", <<"-", "v">> >>}
IsCommand(q) ==
  \E options \in SeqOf(Options, 3), stop \in {"", "--"}, args \in SeqOf({<<"x">>, <<"-">>, <<"-", "i">>}, 2) :
    /\ args # <<>> /\ args[1] = <<"-", "i">> => stop = "--"
    /\ q = <<"command", options, stop, args>>
Written(q) ==
  FlattenSeq([i \in DOMAIN q[2] |-> Tail(q[2][i])])
  \o (IF q[3] = "--" THEN <<<<"-", "-">> >> ELSE <<>>) \o q[4]
Commanded(q) ==     \* without a terminal
  LET Has(k) == \E i \in DOMAIN q[2] : q[2][i][1] = k
      Of(o) == IF o[1] \in {"i", "v"} THEN <<>> ELSE <<[kind |-> o[1], narg |-> IF o[1] = "library" THEN 1 ELSE 0]>>
      script == [kind |-> IF q[4] # <<>> /\ q[4][1] = <<"-">> /\ q[3] = "" THEN "script from stdin" ELSE "script",
                 narg |-> Len(q[4]) - 1]
  IN  FlattenSeq([i \in DOMAIN q[2] |-> Of(q[2][i])]) \o (IF q[4] = <<>> THEN <<>> ELSE <<script>>)
      \o IF Has("i") THEN <<[kind |-> "dotty", narg |-> 0]>>
         ELSE IF Has("string") \/ Has("v") \/ q[4] # <<>> THEN <<>>
         ELSE <<[kind |-> "stdin", narg |-> 0]>>

\* a problem in s1, its solution in s2
Solve ==
  /\ s2 = Nil
  /\ s2' = CASE s1[1] = "chunk" -> Undumped(s1[2], 3)
             [] s1[1] = "command" -> Interpreter!Plan(Written(s1), FALSE)
             [] OTHER -> Library!Solution(s1)
  /\ UNCHANGED <<s1, s3, s4, s5, s6, s7, s8>>
Solved == s2 # Nil /\ UNCHANGED rest

Unused4 == s4 = Idle /\ s5 = Idle /\ s6 = Idle
Unused7 == s7 = Idle /\ s8 = Idle

LInit ==
  \/ part = "program" /\ Init /\ s1 = Idle /\ s2 = Idle /\ s3 = Idle /\ Unused4 /\ Unused7
  \/ /\ part = "library" /\ NoProgram /\ (Library!IsProblem(s1) \/ IsCut(s1) \/ IsCommand(s1))
     /\ s2 = Nil /\ s3 = Idle /\ Unused4 /\ Unused7
  \/ part = "files" /\ NoProgram /\ Files!Init /\ Unused7
  \/ part = "packages" /\ NoProgram /\ Packages!Init /\ Unused7
  \/ part = "metamethods" /\ NoProgram /\ Events!Init /\ Unused4 /\ Unused7
  \/ part = "interpreter" /\ NoProgram /\ Interpreter!Init

LNext ==
  /\ UNCHANGED part
  /\ \/ part = "program" /\ Next /\ UNCHANGED rest
     \/ part = "library" /\ (Solve \/ Solved) /\ UNCHANGED vars
     \/ part = "files" /\ Files!Next /\ UNCHANGED <<vars, s7, s8>>
     \/ part = "packages" /\ Packages!Next /\ UNCHANGED <<vars, s7, s8>>
     \/ part = "metamethods" /\ Events!Next /\ UNCHANGED <<vars, s4, s5, s6, s7, s8>>
     \/ part = "interpreter" /\ Interpreter!Next /\ UNCHANGED vars

LSpec == LInit /\ [][LNext]_allvars

\* only one of the parts
ProgramSpec == part = "program" /\ LInit /\ [][LNext]_allvars
LibrarySpec == part = "library" /\ LInit /\ [][LNext]_allvars
EventsSpec  == part = "metamethods" /\ LInit /\ [][LNext]_allvars

-----------------------------------------------------------------------------
\* str_find_aux, gmatch, str_gsub, llex, auxsort, tinsert, g_read, luaU_undump:
\* patterns mean what they are written for, texts have the tokens of their lines,
\* sorts permute, a file is read by its formats, a chunk that is cut off is an
\* error wherever it is cut, and a command line runs what it names (collectargs).
ResultsAgree ==
  part = "library" /\ s2 # Nil =>
    CASE s1[1] = "chunk" -> s2.error = IF s1[3] THEN "" ELSE "unexpected end"
      [] s1[1] = "command" -> s2 = Commanded(s1)
      [] OTHER -> Library!Agrees(s1, s2)

\* No stream is used or closed after it was closed, nor closed in the way of
\* another kind, and none stays open that nobody will close (liolib.c, lauxlib.c).
FilesCloseOnce == part = "files" => Files!NothingUndefined /\ Files!OpenMeansOwned

\* Each module is run once and under its own name, however modules require each
\* other, fail and try again, in Lua or in C (ll_require, ll_module, findfile).
ModulesLoadOnce ==
  part = "packages" => Packages!RunOnce /\ Packages!MarkedIsLoading /\ Packages!ModulesAreNamed

\* An event reaches the handler that the metatables have for it at the moment,
\* whatever was cached of them, and the same from both operands (luaV_gettable,
\* luaV_settable, get_compTM, luaH_set).
EventsReachTheirHandlers ==
  part = "metamethods" => Events!HandlersAreFound /\ Events!HandlersAreShared

\* lua.c calls its chunks with their arguments and its own message handler, shows
\* their errors and results and nothing else, and stops code for a signal only.
InterpreterStaysInStep ==
  part = "interpreter" =>
    Interpreter!CallsItsChunk /\ Interpreter!ShowsWhatItGot /\ Interpreter!StopsForSignals
=============================================================================
