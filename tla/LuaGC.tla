------------------------------- MODULE LuaGC -------------------------------
(***************************************************************************)
(* The incremental collector of the Lua interpreter in the pgo lab         *)
(* (lgc.c, with the parts of lfunc.c, lstring.c and lstate.c that create,  *)
(* resurrect and free objects) under a running program: the mutator's      *)
(* actions are the places of lvm.c and lapi.c that store a reference.      *)
(*                                                                         *)
(* A list of the C code is a set here: the order in which the gray list is *)
(* popped, the finalizers are called and the heap is swept is free, and    *)
(* the sweep frees or whitens one object at a time.  A stack slot that is  *)
(* popped holds Scalar, which stands for every value that is not           *)
(* collectable, nil included.  A table's entries are its hash nodes.       *)
(* "white" is the current white and "dead" the other one, so flipping the  *)
(* current white in atomic turns the one into the other.                   *)
(***************************************************************************)
EXTENDS Naturals, FiniteSets

CONSTANTS Main,        \* the main thread
          Registry,    \* the table of globals and the registry, a root
          Coroutines, OtherTables, Closures, Upvals, Userdata, Strings,
          Slots,       \* the slots of a stack
          Scalar,
          Closed,      \* "where" of an upvalue that owns its value
          None,        \* no metatable, no upvalue
          Shapes,      \* bound: the entries a table may be given
          MaxEntries   \* bound: how many it holds at a time

Threads == Coroutines \cup {Main}
Tables  == OtherTables \cup {Registry}
Values  == Threads \cup Tables \cup Closures \cup Userdata \cup Strings
Object  == Values \cup Upvals

ASSUME KindsAssumption ==
  /\ IsFiniteSet(Object) /\ IsFiniteSet(Slots)
  /\ Scalar \notin Object /\ None \notin Object /\ Closed \notin Threads \X Slots
  /\ Shapes \in [Tables -> SUBSET ((Values \cup {Scalar}) \X (Values \cup {Scalar}))]

\* An object is of one kind.
ASSUME DisjointAssumption ==
  /\ Threads \cap (Tables \cup Closures \cup Upvals \cup Userdata \cup Strings) = {}
  /\ Tables \cap (Closures \cup Upvals \cup Userdata \cup Strings) = {}
  /\ Closures \cap (Upvals \cup Userdata \cup Strings) = {}
  /\ Upvals \cap (Userdata \cup Strings) = {}
  /\ Userdata \cap Strings = {}

VARIABLES
  m,          \* global_State: the mark of every object, the lists of gray ones
  gcstate, tmudata,
  unswept,    \* what the sweep has not reached yet
  heap,       \* the objects that are allocated
  finalized,  \* userdata with FINALIZEDBIT
  calls,      \* history: calls of a userdata's finalizer, since it was allocated
  full,       \* "run" in luaC_fullgc, "handler" in a finalizer it calls
  stack,      \* thread -> slot -> value
  running,    \* the thread that runs
  entries,    \* table -> set of <<key, value>>
  mode,       \* table -> {"k", "v"}: what its metatable makes weak
  metatable,  \* userdata -> table or None; such a metatable has __gc
  upval,      \* closure -> its upvalue or None
  where,      \* upvalue -> <<thread, slot>> while it is open, or Closed
  own         \* upvalue -> its value once it is closed

cycle    == <<gcstate, tmudata, unswept, finalized, calls, full>>
tables   == <<entries, mode, metatable>>
upvalues == <<upval, where, own>>
vars == <<m, cycle, heap, stack, running, tables, upvalues>>

White == {"white", "dead"}
Dead(o)  == m.color[o] = "dead"
Open     == {u \in Upvals \cap heap : where[u] # Closed}
\* Mutant: what survives a sweep stays as it was marked.
WhitenTheDead(color, S) ==
  [o \in Object |-> IF o \in S /\ color[o] = "dead" THEN "white" ELSE color[o]]
Whiten(color, S) == [o \in Object |-> IF o \in S THEN "white" ELSE color[o]]
OpenOf(t) == {u \in Open : where[u][1] = t}
Content(u) == IF where[u] = Closed THEN own[u] ELSE stack[where[u][1]][where[u][2]]

---------------------------------------------------------------------------
\* What an object refers to: of the entries of a table, the sides that count

StrongSides(t) ==     \* those that are not weak
  UNION {(IF "k" \in mode[t] THEN {} ELSE {e[1]}) \cup
         (IF "v" \in mode[t] THEN {} ELSE {e[2]}) : e \in entries[t]}
AllSides(t) == UNION {{e[1], e[2]} : e \in entries[t]}
OnStack(t) == {stack[t][s] : s \in Slots}

Refs(o, sides) ==
  {r \in Object :
     \/ o \in Threads  /\ r \in OnStack(o) \cup {Registry}
     \/ o \in Tables   /\ r \in sides
     \/ o \in Closures /\ r \in {Registry, upval[o]}
     \/ o \in Upvals   /\ r = Content(o)
     \/ o \in Userdata /\ r = metatable[o]}
StrongRefs(o) == Refs(o, StrongSides(o))
AllRefs(o)    == Refs(o, AllSides(o))

\* roots and what next leads to from them: what is in every set that has the
\* roots and does not lead out of itself
Reach(roots, next) ==
  LET rest   == (UNION {next[x] : x \in DOMAIN next}) \ roots
      closed == {S \in SUBSET rest : \A x \in roots \cup S : next[x] \subseteq roots \cup S}
  IN  roots \cup {o \in rest : \A S \in closed : o \in S}

---------------------------------------------------------------------------
\* Marking.  Every operator takes the collector's fields h and returns them.

Whites(h, S) == {o \in S : h.color[o] \in White}
Leads(h, S)  == Whites(h, UNION {StrongRefs(o) : o \in S})

WeakTable(o) == o \in Tables /\ mode[o] # {}
\* never black while it is marked: no barrier watches it
StaysGray(o) ==
  o \in Threads \cup Strings \/ WeakTable(o) \/ (o \in Upvals /\ where[o] # Closed)

\* reallymarkobject of what is white in S.  A userdata marks its metatable at
\* once, and an upvalue its value; others wait on the gray list.
OnList(o) == o \in Threads \cup Tables \cup Closures
AtOnce(h, S) ==
  LET first  == Whites(h, S)
      second == first \cup Leads(h, {o \in first : ~ OnList(o)})
  IN  second \cup Leads(h, {o \in second : ~ OnList(o)})

Mark(h, S) ==
  LET new == AtOnce(h, S \cap Object)
  IN  [h EXCEPT !.color = [o \in Object |->
                             IF o \notin new THEN @[o]
                             ELSE IF OnList(o) \/ StaysGray(o) THEN "gray" ELSE "black"],
                !.gray = @ \cup {o \in new : OnList(o)}]

\* propagatemark of the gray object o: tables that are weak and threads stay
\* gray, on lists of their own
Propagate1(h, o) ==
  Mark([h EXCEPT !.gray = @ \ {o},
                 !.color[o] = IF StaysGray(o) THEN @ ELSE "black",
                 !.grayagain = IF o \in Threads THEN @ \cup {o} ELSE @,
                 !.weak = IF WeakTable(o) THEN @ \cup {o} ELSE @], StrongRefs(o))

\* propagateall, when S was marked: each gray object, and each white one that
\* comes to be marked, is traversed once.
PropagateAll(h, S) ==
  LET new == Reach(h.gray \cup Whites(h, S \cap Object), [o \in h.gray \cup Whites(h, Object) |-> Whites(h, StrongRefs(o))])
  IN  [color |-> [o \in Object |-> IF o \notin new THEN h.color[o]
                                   ELSE IF StaysGray(o) THEN "gray" ELSE "black"],
       gray |-> {},
       grayagain |-> h.grayagain \cup (new \cap Threads),
       weak |-> h.weak \cup {o \in new : WeakTable(o)}]

MarkRoot(h) ==
  Mark([h EXCEPT !.gray = {}, !.grayagain = {}, !.weak = {}], {Main, Registry})

---------------------------------------------------------------------------
\* Barriers

BarrierF(h, o, v) ==
  IF ~ (v # Scalar /\ h.color[o] = "black" /\ h.color[v] \in White) THEN h
  ELSE IF gcstate = "propagate" THEN Mark(h, {v})
  ELSE [h EXCEPT !.color[o] = "white"]

\* Mutant: no barrier
NoBarrierBack(h, t, vs) == h

BarrierBack(h, t, vs) ==
  IF h.color[t] = "black" /\ \E v \in vs \ {Scalar} : h.color[v] \in White
  THEN [h EXCEPT !.color[t] = "gray", !.grayagain = @ \cup {t}]
  ELSE h

\* Mutant: a gray upvalue stays as it is when it is closed.
LeaveGray(h, u, v) == h

\* luaC_linkupval of an upvalue that holds v
LinkUpval(h, u, v) ==
  IF h.color[u] # "gray" THEN h
  ELSE IF gcstate = "propagate" THEN BarrierF([h EXCEPT !.color[u] = "black"], u, v)
  ELSE [h EXCEPT !.color[u] = "white"]

---------------------------------------------------------------------------
\* The mutator.  It runs between two steps of the collector; in a full
\* collection that is only inside a finalizer.

MayRun == full # "run"
Held == OnStack(running) \cup {Registry}

Put(s, v) == stack' = [stack EXCEPT ![running][s] = v]

\* A slot is overwritten by a value the program can get at: what it holds, an
\* entry of a table, the content of a closure's upvalue, a metatable.
Readable ==
  Held \cup {Scalar}
       \cup (UNION {AllSides(t) : t \in Held \cap Tables})
       \cup {Content(u) : u \in {upval[f] : f \in Held \cap Closures} \ {None}}
       \cup ({metatable[d] : d \in Held \cap Userdata} \ {None})

Load(s) ==
  /\ MayRun
  /\ \E v \in Readable : Put(s, v)
  /\ UNCHANGED <<m, cycle, heap, running, tables, upvalues>>

\* luaC_link, luaS_newudata: the new object has the current white, which is
\* the colour of every object that is not allocated
New(s, o) ==
  /\ MayRun
  /\ o \in (Coroutines \cup OtherTables \cup Userdata) \ heap
  /\ heap' = heap \cup {o}
  /\ Put(s, o)
  /\ UNCHANGED <<m, cycle, running, tables, upvalues>>

\* luaS_newlstr: an equal string is returned, alive again if it was dead
Intern(s, str) ==
  /\ MayRun
  /\ heap' = heap \cup {str}
  /\ m' = [m EXCEPT !.color[str] = IF Dead(str) THEN "white" ELSE @]
  /\ Put(s, str)
  /\ UNCHANGED <<cycle, running, tables, upvalues>>

\* luaF_findupval: the open upvalue of slot v, alive again if it was dead, or
\* a new one
FindUpval(u, v) ==
  IF \E x \in Open : where[x] = <<running, v>>
  THEN /\ u \in Open /\ where[u] = <<running, v>>
       /\ m' = [m EXCEPT !.color[u] = IF Dead(u) THEN "white" ELSE @]
       /\ UNCHANGED where
  ELSE /\ u \in Upvals \ heap
       /\ where' = [where EXCEPT ![u] = <<running, v>>]
       /\ UNCHANGED m

\* OP_CLOSURE: over the variable in slot v, or over the upvalue of the running
\* closure e
NewClosure(s, f, v, u) ==
  /\ MayRun
  /\ f \notin heap
  /\ FindUpval(u, v)
  /\ heap'  = heap \cup {f, u}
  /\ upval' = [upval EXCEPT ![f] = u]
  /\ Put(s, f)
  /\ UNCHANGED <<cycle, running, tables, own>>

Inherit(s, f, e) ==
  /\ MayRun
  /\ f \notin heap /\ e \in Held
  /\ heap'  = heap \cup {f}
  /\ upval' = [upval EXCEPT ![f] = upval[e]]
  /\ Put(s, f)
  /\ UNCHANGED <<m, cycle, running, tables, where, own>>

\* luaV_settable, lua_rawset: a new key (newkey) and the value meet the back
\* barrier
SetTable(t, k, v) ==
  /\ MayRun
  /\ t \in Held /\ {k, v} \subseteq Held \cup {Scalar}
  /\ entries' = [entries EXCEPT ![t] = {e \in @ : e[1] # k} \cup {<<k, v>>}]
  /\ Cardinality(entries'[t]) <= MaxEntries
  /\ m' = BarrierBack(m, t, {v} \cup (IF \E e \in entries[t] : e[1] = k THEN {} ELSE {k}))
  /\ UNCHANGED <<cycle, heap, stack, running, mode, metatable, upvalues>>

\* t[k] = nil, for a key the program holds or finds in a traversal
Erase(t, e) ==
  /\ MayRun
  /\ t \in Held /\ e \in entries[t]
  /\ entries' = [entries EXCEPT ![t] = @ \ {e}]
  /\ UNCHANGED <<m, cycle, heap, stack, running, mode, metatable, upvalues>>

\* lua_setmetatable of a table, to a metatable that is kept elsewhere
SetMode(t, w) ==
  /\ MayRun
  /\ t \in Held
  /\ mode' = [mode EXCEPT ![t] = w]
  /\ UNCHANGED <<m, cycle, heap, stack, running, entries, metatable, upvalues>>

\* lua_setmetatable of a userdata
SetMetatable(d, t) ==
  /\ MayRun
  /\ d \in Held /\ t \in (Held \cap Tables) \cup {None}
  /\ metatable' = [metatable EXCEPT ![d] = t]
  /\ m' = IF t = None THEN m ELSE BarrierF(m, d, t)
  /\ UNCHANGED <<cycle, heap, stack, running, entries, mode, upvalues>>

\* OP_SETUPVAL
SetUpval(f) ==
  /\ MayRun
  /\ f \in Held
  /\ \E v \in Held \cup {Scalar} :
       LET u == upval[f]
       IN  /\ IF where[u] = Closed
              THEN own' = [own EXCEPT ![u] = v] /\ UNCHANGED stack
              ELSE /\ stack' = [stack EXCEPT ![where[u][1]][where[u][2]] = v]
                   /\ UNCHANGED own
           /\ m' = BarrierF(m, u, v)
  /\ UNCHANGED <<cycle, heap, running, tables, upval, where>>

\* luaF_close of the upvalue in slot s, which is popped: it is freed if it is
\* dead, and owns its value from now on if not
Leave(s) ==
  /\ MayRun
  /\ \E u \in Open :
       /\ where[u] = <<running, s>>
       /\ where' = [where EXCEPT ![u] = Closed]
       /\ IF Dead(u)
          THEN /\ heap' = heap \ {u}
               /\ m' = [m EXCEPT !.color[u] = "white"]
               /\ UNCHANGED own
          ELSE /\ own' = [own EXCEPT ![u] = Content(u)]
               /\ m' = LinkUpval(m, u, Content(u))
               /\ UNCHANGED heap
  /\ Put(s, Scalar)
  /\ UNCHANGED <<cycle, running, tables, upval>>

\* lua_resume and lua_yield, with a value that lua_xmove moves to slot s
Switch(c, s) ==
  /\ MayRun
  /\ \/ running = Main /\ c \in Held \cap Coroutines
     \/ running # Main /\ c = Main
  /\ running' = c
  /\ \E v \in Held \cup {Scalar} : stack' = [stack EXCEPT ![c][s] = v]
  /\ UNCHANGED <<m, cycle, heap, tables, upvalues>>

---------------------------------------------------------------------------
\* The collector: one action per case of singlestep

\* freeobj of the objects S.  The open upvalues of a thread that is freed are
\* freed if they are dead and own their value from now on if not.  What is
\* freed is left as a new object finds it.
Free(S) ==
  LET loose == UNION {OpenOf(t) : t \in S \cap Threads}
      gone  == S \cup {u \in loose : Dead(u)}
      Clear(f, empty) == [x \in DOMAIN f |-> IF x \in gone THEN empty ELSE f[x]]
  IN  /\ heap'  = heap \ gone
      /\ own'   = [u \in Upvals |-> IF u \in loose \ gone THEN Content(u)
                                    ELSE IF u \in gone THEN Scalar ELSE own[u]]
      /\ where' = [u \in Upvals |-> IF u \in loose \cup gone THEN Closed ELSE where[u]]
      /\ stack' = Clear(stack, [s \in Slots |-> Scalar])
      /\ entries' = Clear(entries, {})
      /\ mode'  = Clear(mode, {})
      /\ metatable' = Clear(metatable, None)
      /\ upval' = Clear(upval, None)
      /\ calls' = Clear(calls, 0)
      /\ finalized' = finalized \ gone
      /\ UNCHANGED running

Start ==
  /\ gcstate = "pause" /\ gcstate' = "propagate"
  /\ m' = MarkRoot(m)
  /\ UNCHANGED <<tmudata, unswept, finalized, calls, full, heap, stack, running,
                 tables, upvalues>>

Propagate(o) ==
  /\ gcstate = "propagate" /\ o \in m.gray
  /\ m' = Propagate1(m, o)
  /\ UNCHANGED <<cycle, heap, stack, running, tables, upvalues>>

\* atomic, first part: remark what no barrier watches, then the weak tables
\* and the running thread, then what the barriers and the threads kept gray
Remarked ==
  LET values == {Content(u) : u \in {x \in Open : m.color[x] = "gray"}}
      first  == PropagateAll(m, values)
      second == PropagateAll([first EXCEPT !.gray = first.weak, !.weak = {}], {running})
  IN  PropagateAll([second EXCEPT !.gray = second.grayagain, !.grayagain = {}], {})

\* Mutant: FINALIZEDBIT is ignored.
UnusedAgain(h) == {d \in (Userdata \cap heap) \ tmudata : h.color[d] \in White}

\* luaC_separateudata: what is not marked and was not separated before
Unused(h) == {d \in (Userdata \cap heap) \ (tmudata \cup finalized) : h.color[d] \in White}

\* Mutant: a finalized userdata goes as a key, too.
ClearedOnBothSides(color, fin, v, iskey) ==
  /\ v # Scalar /\ v \notin Strings
  /\ color[v] \in White \/ v \in fin

\* iscleared: strings are never weak, a finalized userdata stays as a key only
IsCleared(color, fin, v, iskey) ==
  /\ v # Scalar /\ v \notin Strings
  /\ color[v] \in White \/ (~ iskey /\ v \in fin)

\* atomic, second part: separate the unreachable userdata with a finalizer,
\* mark what they need, clear the weak tables, flip the current white
Atomic ==
  /\ gcstate = "propagate" /\ m.gray = {}
  /\ LET before == Remarked
         unused == Unused(before)
         fin    == finalized \cup unused
         tm     == tmudata \cup {d \in unused : metatable[d] # None}
         h      == PropagateAll([before EXCEPT !.color = Whiten(@, tm)], tm)
         weak   == UNION {entries[t] : t \in h.weak}
         live   == {e \in weak : ~ IsCleared(h.color, fin, e[1], TRUE)}
         kept   == {e \in live : ~ IsCleared(h.color, fin, e[2], FALSE)}
         seen   == {e[1] : e \in weak} \cup {e[2] : e \in live}
         marked == Mark(h, seen \cap Strings)
     IN  /\ finalized' = fin
         /\ tmudata' = tm
         /\ entries' = [t \in Tables |-> entries[t] \cap (IF t \in h.weak THEN kept ELSE entries[t])]
         /\ m' = [marked EXCEPT !.color =
                   [o \in Object |-> IF o \in heap /\ @[o] = "white" THEN "dead" ELSE @[o]]]
  /\ gcstate' = "sweepstring"
  /\ unswept' = heap \ (Open \cup tmudata')
  /\ UNCHANGED <<calls, full, heap, stack, running, mode, metatable, upvalues>>

\* sweepwholelist of the buckets that hold the strings S
SweepStrings(S) ==
  /\ gcstate = "sweepstring" /\ S \subseteq unswept \cap Strings
  /\ S = {} => unswept \cap Strings = {}
  /\ m' = [m EXCEPT !.color = Whiten(@, S)]
  /\ heap' = heap \ {o \in S : Dead(o)}
  /\ unswept' = unswept \ S
  /\ gcstate' = IF unswept' \cap Strings = {} THEN "sweep" ELSE gcstate
  /\ UNCHANGED <<tmudata, finalized, calls, full, stack, running, tables, upvalues>>

\* sweeplist at the object o, the open upvalues of a thread before the thread
Sweep(o) ==
  /\ gcstate = "sweep" /\ o \in unswept
  /\ LET swept == {o} \cup (IF o \in Threads THEN OpenOf(o) ELSE {})
     IN  /\ Free({x \in swept : Dead(x)})
         /\ m' = [m EXCEPT !.color = Whiten(@, swept)]
  /\ unswept' = unswept \ {o}
  /\ gcstate' = IF unswept' = {} THEN "finalize" ELSE gcstate
  /\ UNCHANGED <<tmudata, full>>

\* GCTM: back to the list of userdata, then the finalizer.  What the finalizer
\* does is mutator actions; it may keep the userdata in a variable (slot s).
Finalize(d) ==
  /\ gcstate = "finalize" /\ d \in tmudata
  /\ tmudata' = tmudata \ {d}
  /\ m' = [m EXCEPT !.color[d] = "white"]
  /\ IF metatable[d] = None THEN UNCHANGED <<stack, calls, full>>
     ELSE /\ calls' = [calls EXCEPT ![d] = @ + 1]
          /\ full'  = IF full = "run" THEN "handler" ELSE full
          /\ UNCHANGED stack \/ \E s \in Slots : Put(s, d)
  /\ UNCHANGED <<gcstate, unswept, finalized, heap, running, tables, upvalues>>

\* the finalizer returns to luaC_fullgc
Return ==
  /\ full = "handler" /\ full' = "run"
  /\ UNCHANGED <<m, gcstate, tmudata, unswept, finalized, calls, heap, stack,
                 running, tables, upvalues>>

EndCycle ==
  /\ gcstate = "finalize" /\ tmudata = {}
  /\ gcstate' = "pause" /\ full' = "no"
  /\ UNCHANGED <<m, tmudata, unswept, finalized, calls, heap, stack, running,
                 tables, upvalues>>

\* luaC_fullgc: sweep everything back to white, or finish the sweep, then mark
\* from the roots; the rest of the cycle follows at once (MayRun)
FullGC ==
  /\ MayRun
  /\ Free({o \in heap \ tmudata : Dead(o)})
  /\ m' = MarkRoot([m EXCEPT !.color = Whiten(@, Object \ tmudata)])
  /\ unswept' = {} /\ gcstate' = "propagate" /\ full' = "run"
  /\ UNCHANGED tmudata

Step ==
  \/ Start \/ Return \/ EndCycle
  \/ \E o \in Object : Propagate(o) \/ Sweep(o)
  \/ \E S \in SUBSET Strings : SweepStrings(S)
  \/ \E d \in Userdata : Finalize(d)

Collect == Step \/ Atomic

Mutate ==
  \/ \E s \in Slots : Load(s) \/ Leave(s)
  \/ \E s \in Slots, o \in Object : New(s, o)
  \/ \E s \in Slots, str \in Strings : Intern(s, str)
  \/ \E s, v \in Slots, f \in Closures, u \in Upvals : NewClosure(s, f, v, u)
  \/ \E s \in Slots, e, f \in Closures : Inherit(s, f, e)
  \/ \E t \in Tables : \E e \in Shapes[t] : SetTable(t, e[1], e[2]) \/ Erase(t, e)
  \/ \E t \in OtherTables, w \in SUBSET {"k", "v"} : SetMode(t, w)
  \/ \E d \in Userdata, t \in Tables \cup {None} : SetMetatable(d, t)
  \/ \E f \in Closures : SetUpval(f)
  \/ \E c \in Threads, s \in Slots : Switch(c, s)

Init ==
  /\ m = [color |-> [o \in Object |-> "white"], gray |-> {}, grayagain |-> {}, weak |-> {}]
  /\ gcstate = "pause" /\ tmudata = {} /\ unswept = {} /\ heap = {Main, Registry}
  /\ finalized = {} /\ calls = [d \in Userdata |-> 0] /\ full = "no"
  /\ stack = [t \in Threads |-> [s \in Slots |-> Scalar]] /\ running = Main
  /\ entries = [t \in Tables |-> {}] /\ mode = [t \in Tables |-> {}]
  /\ metatable = [d \in Userdata |-> None] /\ upval = [f \in Closures |-> None]
  /\ where = [u \in Upvals |-> Closed] /\ own = [u \in Upvals |-> Scalar]

Next == Collect \/ Mutate \/ FullGC

Spec == Init /\ [][Next]_vars

\* The program goes on allocating, so luaC_checkGC goes on stepping the
\* collector.  The last conjunct is weak fairness of Atomic, in a form that
\* TLC evaluates without ENABLED: Atomic is enabled in just these states, and
\* none of them follows it.
Fairness == WF_vars(Step) /\ []<>(~ (gcstate = "propagate" /\ m.gray = {}))

FairSpec == Spec /\ Fairness

---------------------------------------------------------------------------
Roots == {Main, Registry, running}
KeptSides(t) == StrongSides(t) \cup (AllSides(t) \cap Strings)
Live == Reach(Roots, [o \in Object |-> StrongRefs(o)])

\* Every field has its type.
Colors == White \cup {"gray", "black"}
Fields ==
  [color : [Object -> Colors], gray : SUBSET (Threads \cup Tables \cup Closures),
   grayagain : SUBSET (Threads \cup Tables), weak : SUBSET Tables]

TypeOK ==
  /\ m \in Fields
  /\ gcstate \in {"pause", "propagate", "sweepstring", "sweep", "finalize"}
  /\ full \in {"no", "run", "handler"}
  /\ heap \subseteq Object /\ unswept \subseteq heap
  /\ tmudata \subseteq Userdata /\ finalized \subseteq Userdata /\ calls \in [Userdata -> Nat]
  /\ stack \in [Threads -> [Slots -> Values \cup {Scalar}]] /\ running \in Threads
  /\ entries \in [Tables -> SUBSET ((Values \cup {Scalar}) \X (Values \cup {Scalar}))]
  /\ mode \in [Tables -> SUBSET {"k", "v"}]
  /\ metatable \in [Userdata -> Tables \cup {None}]
  /\ upval \in [Closures -> Upvals \cup {None}]
  /\ where \in [Upvals -> {Closed} \cup (Threads \X Slots)]
  /\ own \in [Upvals -> Values \cup {Scalar}]

\* Nothing the program or a pending finalizer can get at has been freed or is
\* condemned, weak entries included, and no upvalue points into the stack of a
\* freed thread (sweeplist, luaE_freethread, cleartable, the barriers).  What
\* is condemned is gone when the sweep is over.
NothingDangles ==
  LET used == Reach(Roots \cup tmudata, [o \in Object |-> AllRefs(o)])
  IN  /\ used \subseteq {o \in heap : ~ Dead(o)}
      /\ {where[u][1] : u \in used \cap Open} \subseteq heap
      /\ gcstate \in {"sweepstring", "sweep"} \/ \A o \in heap : ~ Dead(o)

\* While marking, no black object refers to a white one except through a weak
\* entry: what the barriers restore.  A userdata that still waits for its
\* finalizer is marked again by marktmu.
NoBlackToWhite ==
  gcstate = "propagate" =>
    \A o \in heap \ tmudata : m.color[o] = "black" =>
      \A r \in StrongRefs(o) : m.color[r] \notin White

\* A finalizer is called once at most in the life of a userdata, however often
\* the program gets it back (FINALIZEDBIT, luaC_separateudata, GCTM).
FinalizedOnce == \A d \in Userdata : calls[d] <= 1

\* markroot, atomic, cleartable: a full collection condemns everything that is
\* not in use, or about to be used by a finalizer, and nothing else; and clearing
\* the weak tables removes no entry whose key and value are in use without them,
\* except for a value that was finalized in an earlier cycle.
Lost == UNION {entries[t] \ entries'[t] : t \in Tables}
CondemnsExactly ==
  [][gcstate = "propagate" /\ gcstate' = "sweepstring" =>
       /\ full = "run" =>
            {o \in heap : m'.color[o] = "dead"} = heap \ Reach(Roots \cup tmudata', [o \in Object |-> Refs(o, KeptSides(o))])
       /\ \A e \in Lost : {e[1], e[2]} \cap Object \subseteq Live => e[2] \in finalized]_vars

\* What the program cannot get at is freed, or comes back to it.
GarbageIsFreed ==
  \A o \in Object : o \in heap \ Live ~> o \notin heap \ Live
=============================================================================
