-------------------------- MODULE LuaCalls_proofs --------------------------
(***************************************************************************)
(* Proofs about the calls and coroutines of Lua, for any number of         *)
(* coroutines and any limits: the inductive invariant, the shapes of a     *)
(* step that keep it (a step leaves frames, or the frame on top goes on    *)
(* with other functions, or it calls, or it resumes a coroutine, or it     *)
(* cuts the C stack), and the actions, each of which has one of them.      *)
(***************************************************************************)
EXTENDS LuaCalls, FiniteSetTheorems, SequenceTheorems, TLAPS

-----------------------------------------------------------------------------
(* The inductive invariant *)

\* The frames among the first n that count a C level, and those of thread t that
\* hold a jump buffer.
LevelsIn(c, n) == {i \in 1..n : c[i].kind \in Counted}
Levels(n)   == LevelsIn(cstack, n)
Jumps(t, n) == {i \in 1..n : cstack[i].t = t /\ cstack[i].kind \in {"pcall", "resume"}}

\* Frame m has the innermost of these, or there is none and m is 0.
Innermost(m, t, n) ==
  \/ m = 0 /\ Jumps(t, n) = {}
  \/ m \in Jumps(t, n) /\ \A j \in Jumps(t, n) : j <= m

FrameSet ==
  [kind : {"call", "handler", "resume", "pcall"}, t : Threads, n : Nat, ci : Nat,
   nCcalls : Nat, errfunc : BOOLEAN, previous : Nat]

Functions == {"lua", "main", "pcall", "xpcall", "resume", "wrap", "yield"}

ThreadSet ==
  [status : {"ok", "yield", "run", "err"}, ci : Seq(Functions), size : Nat, nCcalls : Nat,
   baseCcalls : Nat, errfunc : BOOLEAN, errorJmp : Nat, top : BOOLEAN]

TypeInv ==
  /\ th \in [Threads -> ThreadSet]
  /\ cstack \in Seq(FrameSet)
  /\ raising \in {"no", "msg", "run", "err"}

\* pmain is below everything, and an error is always inside of docall's call.
BottomInv ==
  /\ Len(cstack) >= 2
  /\ cstack[1].kind = "pcall" /\ cstack[1].t = Main
  /\ cstack[2].kind = "call" /\ cstack[2].t = Main /\ cstack[2].n = 1 /\ cstack[2].ci = 1
  /\ IF Len(cstack) = 2 THEN raising = "no" /\ th[Main].ci = <<"main">>
     ELSE cstack[3].kind = "pcall" /\ cstack[3].t = Main /\ cstack[3].ci = 1

\* It is the first function of the main thread, and of no other.
MainInv ==
  /\ Len(th[Main].ci) >= 1
  /\ \A t \in Threads : \A p \in DOMAIN th[t].ci :
       th[t].ci[p] = "main" <=> t = Main /\ p = 1

\* The C stack is made of one piece for each thread that is running or normal,
\* which begins with its lua_resume.
PieceInv ==
  /\ \A i \in 2..Len(cstack) : cstack[i].kind # "resume" => cstack[i].t = cstack[i - 1].t
  /\ \A i \in 2..Len(cstack) : cstack[i].kind = "resume" =>
       /\ cstack[i].t \in Coroutines
       /\ cstack[i - 1].n > 0
       /\ \A j \in 1..i - 1 : cstack[j].t # cstack[i].t
  /\ \A i, j \in DOMAIN cstack : i <= j /\ cstack[i].t = cstack[j].t =>
       \A k \in i..j : cstack[k].t = cstack[i].t
  /\ \A i \in DOMAIN cstack : cstack[i].t # Main =>
       \E r \in 1..i : cstack[r].kind = "resume" /\ cstack[r].t = cstack[i].t

\* The threads on the C stack have no status, and those that are normal called
\* what resumed the next one.  One that yielded has called nothing from C.
StatusInv ==
  /\ \A i \in DOMAIN cstack :
       /\ th[cstack[i].t].status = "ok"
       /\ cstack[i].t # Running =>
            /\ th[cstack[i].t].ci # <<>>
            /\ Last(th[cstack[i].t].ci) \in {"resume", "wrap"}
  /\ \A t \in Threads : th[t].status = "yield" =>
       /\ th[t].ci # <<>> /\ Last(th[t].ci) = "yield"
       /\ \A p \in 1..Len(th[t].ci) - 1 : th[t].ci[p] = "lua"

\* What a thread counts is the number of C levels up to its last frame, whatever
\* threads they belong to; what luaD_pcall saved, the levels below it.
IsLast(i) == i = Len(cstack) \/ cstack[i + 1].t # cstack[i].t

LevelInv ==
  /\ \A i \in DOMAIN cstack :
       /\ IsLast(i) => th[cstack[i].t].nCcalls = Cardinality(Levels(i))
       /\ cstack[i].kind = "pcall" => cstack[i].nCcalls = Cardinality(Levels(i - 1))
       /\ cstack[i].kind = "resume" => th[cstack[i].t].baseCcalls = Cardinality(Levels(i))
  /\ th[Main].baseCcalls = 0

\* No level is beyond the limit, and the last one is in an error.
LimitInv ==
  /\ L.nCcalls <= LUAI_MAXCCALLS + Extra
  /\ raising # "err" => L.nCcalls < LUAI_MAXCCALLS + Extra
  /\ \A t \in Threads : th[t].size <= 2 * LUAI_MAXCALLS

\* The chain of jump buffers of each thread.
JumpInv ==
  /\ \A t \in Threads : Innermost(th[t].errorJmp, t, Len(cstack))
  /\ \A i \in DOMAIN cstack : cstack[i].kind \in {"pcall", "resume"} =>
       Innermost(cstack[i].previous, cstack[i].t, i - 1)

\* luaD_pcall calls a function at once, and pcall, xpcall or docall called it.
ProtectedInv ==
  \A i \in DOMAIN cstack : cstack[i].kind = "pcall" =>
    /\ cstack[i].n = 0
    /\ i < Len(cstack) /\ cstack[i + 1].kind = "call"
    /\ i > 1 => /\ cstack[i + 1].ci = cstack[i].ci
                /\ cstack[i - 1].n > 0
                /\ cstack[i].ci \in DOMAIN th[cstack[i].t].ci
                /\ th[cstack[i].t].ci[cstack[i].ci] \in {"pcall", "xpcall", "main"}
                /\ th[cstack[i].t].ci[cstack[i].ci] = "main" => i = 3

\* The ci of a thread is divided among its frames, and C functions are at the
\* ends of their parts.
Owned(i) == {p \in Base(i) + 1..Upto(i) : th[cstack[i].t].ci[p] = "lua"}

OwnerInv ==
  /\ \A i \in DOMAIN cstack :
       /\ Base(i) <= Upto(i) /\ Upto(i) <= Len(th[cstack[i].t].ci)
       /\ i # 2 => cstack[i].n = Cardinality(Owned(i))
       /\ i > 2 /\ cstack[i].n = 0 => Base(i) = Upto(i)
       /\ \A p \in Base(i) + 1..Upto(i) - 1 : th[cstack[i].t].ci[p] = "lua"
  /\ \A i, j \in DOMAIN cstack : i < j /\ cstack[i].t = cstack[j].t => Upto(i) <= Base(j)

IInv ==
  /\ TypeInv
  /\ BottomInv
  /\ MainInv
  /\ PieceInv
  /\ StatusInv
  /\ LevelInv
  /\ LimitInv
  /\ JumpInv
  /\ ProtectedInv
  /\ OwnerInv

-----------------------------------------------------------------------------
(* What the invariant says of the state at hand *)

USE LimitsAssumption DEF Threads

\* What the type invariant says of one frame and of one thread.
LEMMA Types ==
  ASSUME TypeInv
  PROVE  /\ Len(cstack) \in Nat /\ DOMAIN cstack = 1..Len(cstack)
         /\ \A i \in 1..Len(cstack) :
              /\ cstack[i] \in FrameSet
              /\ cstack[i].kind \in {"call", "handler", "resume", "pcall"}
              /\ cstack[i].t \in Threads /\ cstack[i].n \in Nat /\ cstack[i].ci \in Nat
              /\ cstack[i].nCcalls \in Nat /\ cstack[i].errfunc \in BOOLEAN
              /\ cstack[i].previous \in Nat
         /\ \A t \in Threads :
              /\ th[t] \in ThreadSet
              /\ th[t].status \in {"ok", "yield", "run", "err"}
              /\ th[t].ci \in Seq(Functions) /\ Len(th[t].ci) \in Nat
              /\ DOMAIN th[t].ci = 1..Len(th[t].ci)
              /\ th[t].size \in Nat /\ th[t].nCcalls \in Nat /\ th[t].baseCcalls \in Nat
              /\ th[t].errfunc \in BOOLEAN /\ th[t].errorJmp \in Nat /\ th[t].top \in BOOLEAN
<1>1. Len(cstack) \in Nat /\ DOMAIN cstack = 1..Len(cstack)
  BY DEF TypeInv
<1>2. ASSUME NEW i \in 1..Len(cstack)
      PROVE  /\ cstack[i] \in FrameSet
             /\ cstack[i].kind \in {"call", "handler", "resume", "pcall"}
             /\ cstack[i].t \in Threads /\ cstack[i].n \in Nat /\ cstack[i].ci \in Nat
             /\ cstack[i].nCcalls \in Nat /\ cstack[i].errfunc \in BOOLEAN
             /\ cstack[i].previous \in Nat
  <2>1. cstack[i] \in FrameSet
    BY DEF TypeInv
  <2> QED
    BY <2>1, Zenon DEF FrameSet
<1>3. ASSUME NEW t \in Threads
      PROVE  /\ th[t] \in ThreadSet
             /\ th[t].status \in {"ok", "yield", "run", "err"}
             /\ th[t].ci \in Seq(Functions) /\ Len(th[t].ci) \in Nat
             /\ DOMAIN th[t].ci = 1..Len(th[t].ci)
             /\ th[t].size \in Nat /\ th[t].nCcalls \in Nat /\ th[t].baseCcalls \in Nat
             /\ th[t].errfunc \in BOOLEAN /\ th[t].errorJmp \in Nat /\ th[t].top \in BOOLEAN
  <2>1. th[t] \in ThreadSet
    BY DEF TypeInv
  <2>2. th[t].ci \in Seq(Functions)
    BY <2>1 DEF ThreadSet
  <2> QED
    BY <2>1, <2>2 DEF ThreadSet
<1> QED
  BY <1>1, <1>2, <1>3

\* The innermost C frame is of the running thread, and counts and bounds its calls.
LEMMA TopFrame ==
  ASSUME IInv
  PROVE  LET n == Len(cstack) IN
         /\ n \in Nat /\ n >= 2 /\ n \in DOMAIN cstack
         /\ Top = cstack[n] /\ Running = cstack[n].t /\ L = th[cstack[n].t]
         /\ Running \in Threads
         /\ Top.kind # "pcall" /\ Top.kind \in Counted
         /\ L.status = "ok"
         /\ Base(n) <= Len(L.ci) /\ Upto(n) = Len(L.ci)
         /\ L.nCcalls = Cardinality(Levels(n))
<1> USE DEF IInv
<1>1. Len(cstack) \in Nat /\ Len(cstack) >= 2 /\ DOMAIN cstack = 1..Len(cstack)
  BY Types DEF BottomInv
<1>2. Top = cstack[Len(cstack)] /\ Running = cstack[Len(cstack)].t
      /\ L = th[cstack[Len(cstack)].t]
  BY DEF Top, Last, Running, L
<1>3. Running \in Threads
  BY <1>1, <1>2, Types
<1>4. Top.kind # "pcall" /\ Top.kind \in Counted
  BY <1>1, <1>2, Types DEF ProtectedInv, Counted
<1>5. L.status = "ok"
  BY <1>1, <1>2 DEF StatusInv
<1>6. Base(Len(cstack)) <= Len(L.ci) /\ Upto(Len(cstack)) = Len(L.ci)
  BY <1>1, <1>2 DEF OwnerInv, Upto
<1>7. L.nCcalls = Cardinality(Levels(Len(cstack)))
  BY <1>1, <1>2 DEF LevelInv, IsLast
<1> QED
  BY <1>1, <1>2, <1>3, <1>4, <1>5, <1>6, <1>7

\* A Lua function runs: the frame on top runs the last functions of its thread,
\* all of them in Lua.
LEMMA LuaRuns ==
  ASSUME IInv, InLua, NEW n, n = Len(cstack)
  PROVE  /\ raising = "no" /\ n >= 3
         /\ L.ci # <<>> /\ Last(L.ci) = "lua" /\ L.ci[Len(L.ci)] = "lua"
         /\ Top.n = Len(L.ci) - Base(n)
         /\ L.ci # <<"main">> /\ Len(L.ci) >= 1
<1>1. /\ n \in Nat /\ n >= 2 /\ n \in DOMAIN cstack /\ Top = cstack[n] /\ L = th[cstack[n].t]
      /\ Running = cstack[n].t /\ Running \in Threads
      /\ Base(n) <= Len(L.ci) /\ Upto(n) = Len(L.ci)
  BY TopFrame
<1>2. /\ L.ci \in Seq(Functions) /\ Len(L.ci) \in Nat /\ Base(n) \in Nat /\ Top.n \in Nat
      /\ cstack[n].ci \in Nat
  BY <1>1, Types DEF IInv, Base
<1>3. raising = "no" /\ Top.n > 0 /\ Last(L.ci) = "lua"
  BY DEF InLua, Idle
<1>4. n >= 3
  <2>1. CASE n = 2
    <3>1. L.ci = <<"main">>
      BY <1>1, <2>1 DEF IInv, BottomInv
    <3> QED
      BY <1>3, <3>1 DEF Last
  <2> QED
    BY <1>1, <2>1
<1>5. Top.n = Cardinality(Owned(n))
  BY <1>1, <1>4 DEF IInv, OwnerInv
<1>6. Len(L.ci) >= 1
  <2>1. CASE Len(L.ci) = 0
    <3>1. Owned(n) = {}
      BY <1>1, <1>2, <2>1 DEF Owned
    <3> QED
      BY <1>3, <1>5, <3>1, FS_EmptySet
  <2> QED
    BY <1>2, <2>1
<1>7. L.ci[Len(L.ci)] = "lua"
  BY <1>3 DEF Last
<1>8. Owned(n) = Base(n) + 1..Len(L.ci)
  <2>1. \A p \in Base(n) + 1..Len(L.ci) - 1 : L.ci[p] = "lua"
    BY <1>1, Zenon DEF IInv, OwnerInv
  <2>2. \A p \in Base(n) + 1..Upto(n) : th[cstack[n].t].ci[p] = "lua"
    BY ONLY <1>1, <1>2, <1>7, <2>1
  <2> QED
    BY <1>1, <2>2, Zenon DEF Owned
<1>9. Cardinality(Owned(n)) = Len(L.ci) - Base(n)
  <2>1. Base(n) + 1 \in Int /\ Len(L.ci) \in Int
    BY <1>2
  <2>2. Cardinality(Base(n) + 1..Len(L.ci)) =
          IF Base(n) + 1 > Len(L.ci) THEN 0 ELSE Len(L.ci) - (Base(n) + 1) + 1
    BY ONLY <2>1, FS_Interval
  <2> QED
    BY ONLY <1>1, <1>2, <1>8, <2>2
<1>10. L.ci # <<>> /\ L.ci # <<"main">>
  BY <1>6, <1>7
<1> QED
  BY <1>3, <1>4, <1>5, <1>6, <1>7, <1>9, <1>10

\* A C function runs, called from Lua or by the host: it is the last function of
\* the frame on top.
LEMMA CRuns ==
  ASSUME IInv, NEW f \in Functions \ {"lua"}, InC(f), NEW n, n = Len(cstack)
  PROVE  /\ raising = "no"
         /\ L.ci # <<>> /\ Last(L.ci) = f /\ L.ci[Len(L.ci)] = f /\ Len(L.ci) >= 1
         /\ n = 2 => f = "main"
         /\ f = "main" => n = 2 /\ L.ci = <<"main">>
         /\ n >= 3 => Base(n) < Len(L.ci)
         /\ Top.n > 0
<1>1. /\ n \in Nat /\ n >= 2 /\ n \in DOMAIN cstack /\ Top = cstack[n] /\ L = th[cstack[n].t]
      /\ Running = cstack[n].t /\ Running \in Threads
      /\ Base(n) <= Len(L.ci) /\ Upto(n) = Len(L.ci)
  BY TopFrame
<1>2. /\ L.ci \in Seq(Functions) /\ Len(L.ci) \in Nat /\ Base(n) \in Nat /\ Top.n \in Nat
      /\ cstack[n].ci \in Nat
  BY <1>1, Types DEF IInv, Base
<1>3. raising = "no" /\ Top.n > 0 /\ Last(L.ci) = f
  BY DEF InC, Idle
<1>4. n >= 3 => Top.n = Cardinality(Owned(n))
  BY <1>1 DEF IInv, OwnerInv
<1>5. CASE n = 2
  <2>1. L.ci = <<"main">>
    BY <1>1, <1>5, Zenon DEF IInv, BottomInv
  <2>2. Last(L.ci) = "main" /\ Len(L.ci) = 1 /\ L.ci # <<>> /\ L.ci[1] = "main"
    BY <2>1 DEF Last
  <2> QED
    BY <1>3, <1>5, <2>1, <2>2
<1>6. CASE n >= 3
  <2>1. Base(n) < Len(L.ci)
    <3>1. CASE Base(n) >= Len(L.ci)
      <4>1. Owned(n) = {}
        BY <1>1, <1>2, <3>1 DEF Owned
      <4> QED
        BY <1>3, <1>4, <1>6, <4>1, FS_EmptySet
    <3> QED
      BY <1>2, <3>1
  <2>2. Len(L.ci) >= 1 /\ L.ci[Len(L.ci)] = f /\ L.ci # <<>>
    BY <1>2, <1>3, <2>1 DEF Last
  <2>3. f # "main"
    <3>1. CASE f = "main"
      <4>1. Len(L.ci) = 1
        <5>1. Len(L.ci) \in DOMAIN th[Running].ci
          BY <1>1, <1>2, <2>2
        <5> QED
          BY <1>1, <2>2, <3>1, <5>1, Zenon DEF IInv, MainInv
      <4>2. Base(n) = 0
        BY <1>2, <2>1, <4>1
      <4>3. Owned(n) = {}
        BY <1>1, <1>2, <2>2, <3>1, <4>1, <4>2 DEF Owned
      <4> QED
        BY <1>3, <1>4, <1>6, <4>3, FS_EmptySet
    <3> QED
      BY <3>1
  <2> QED
    BY <1>2, <1>3, <1>6, <2>1, <2>2, <2>3
<1> QED
  BY <1>1, <1>5, <1>6

\* The frames of a thread are next to each other.
LEMMA OnePiece ==
  ASSUME IInv, NEW i \in DOMAIN cstack, NEW j \in DOMAIN cstack, i <= j,
         cstack[i].t = cstack[j].t, NEW m \in i..j
  PROVE  cstack[m].t = cstack[i].t
BY DEF IInv, PieceInv

-----------------------------------------------------------------------------
(* How C levels are counted *)

\* Each frame that counts is one more level.
LEMMA Counting ==
  ASSUME NEW c
  PROVE  /\ \A n \in Nat : Cardinality(LevelsIn(c, n)) \in Nat
         /\ \A n \in Nat \ {0} : Cardinality(LevelsIn(c, n)) =
              Cardinality(LevelsIn(c, n - 1)) + (IF c[n].kind \in Counted THEN 1 ELSE 0)
         /\ \A m, n \in Nat : m <= n => Cardinality(LevelsIn(c, m)) <= Cardinality(LevelsIn(c, n))
         /\ \A m, n \in Nat : m < n /\ c[n].kind \in Counted =>
              Cardinality(LevelsIn(c, m)) < Cardinality(LevelsIn(c, n))
<1>1. ASSUME NEW n \in Nat
      PROVE  IsFiniteSet(LevelsIn(c, n)) /\ Cardinality(LevelsIn(c, n)) \in Nat
  <2> 1 \in Int /\ n \in Int
    OBVIOUS
  <2>1. IsFiniteSet(1..n)
    BY ONLY 1 \in Int, n \in Int, FS_Interval
  <2>2. LevelsIn(c, n) \in SUBSET (1..n)
    BY DEF LevelsIn
  <2>3. IsFiniteSet(LevelsIn(c, n))
    BY <2>1, <2>2, FS_Subset
  <2> QED
    BY <2>3, FS_CardinalityType
<1>2. ASSUME NEW n \in Nat \ {0}
      PROVE  Cardinality(LevelsIn(c, n)) =
               Cardinality(LevelsIn(c, n - 1)) + (IF c[n].kind \in Counted THEN 1 ELSE 0)
  <2>1. IsFiniteSet(LevelsIn(c, n - 1))
    BY <1>1
  <2>2. CASE c[n].kind \in Counted
    <3>1. LevelsIn(c, n) = LevelsIn(c, n - 1) \cup {n} /\ n \notin LevelsIn(c, n - 1)
      BY <2>2 DEF LevelsIn
    <3> QED
      BY <2>1, <2>2, <3>1, FS_AddElement, Zenon
  <2>3. CASE c[n].kind \notin Counted
    <3>1. LevelsIn(c, n) = LevelsIn(c, n - 1)
      BY <2>3 DEF LevelsIn
    <3> QED
      BY <1>1, <2>3, <3>1
  <2> QED
    BY <2>2, <2>3
<1>3. ASSUME NEW m \in Nat, NEW n \in Nat, m <= n
      PROVE  /\ Cardinality(LevelsIn(c, m)) <= Cardinality(LevelsIn(c, n))
             /\ m < n /\ c[n].kind \in Counted =>
                  Cardinality(LevelsIn(c, m)) < Cardinality(LevelsIn(c, n))
  <2>1. IsFiniteSet(LevelsIn(c, n)) /\ LevelsIn(c, m) \in SUBSET LevelsIn(c, n)
    BY <1>1, <1>3 DEF LevelsIn
  <2>2. /\ Cardinality(LevelsIn(c, m)) <= Cardinality(LevelsIn(c, n))
        /\ Cardinality(LevelsIn(c, n)) = Cardinality(LevelsIn(c, m)) => LevelsIn(c, n) = LevelsIn(c, m)
    BY <2>1, FS_Subset
  <2>3. m < n /\ c[n].kind \in Counted => LevelsIn(c, n) # LevelsIn(c, m)
    BY DEF LevelsIn
  <2> QED
    BY <1>1, <2>2, <2>3
<1> QED
  BY <1>1, <1>2, <1>3

\* The same from a frame to the next.
LEMMA CountingNext ==
  ASSUME NEW c, NEW n \in Nat
  PROVE  Cardinality(LevelsIn(c, n + 1)) =
           Cardinality(LevelsIn(c, n)) + (IF c[n + 1].kind \in Counted THEN 1 ELSE 0)
<1>1. n + 1 \in Nat \ {0} /\ n + 1 - 1 = n
  OBVIOUS
<1> QED
  BY <1>1, Counting

\* Frames that are as they were count as they did.
LEMMA CountedAlike ==
  ASSUME NEW c, NEW d, NEW n \in Nat, \A i \in 1..n : c[i] = d[i]
  PROVE  LevelsIn(c, n) = LevelsIn(d, n)
BY DEF LevelsIn

-----------------------------------------------------------------------------
(* Steps that leave frames *)

\* Thread t has a frame among the first k.
Has(t, k) == \E i \in 1..k : cstack[i].t = t

\* A thread off the C stack that cannot be resumed stays as it is and does not
\* run, and only a lua_resume's own thread yields.
Keeps ==
  /\ \A t \in Threads : ~ Has(t, Len(cstack)) /\ ~ Resumable(t) =>
       th'[t] = th[t] /\ t # Running'
  /\ \A t \in Threads : th'[t].status = "yield" =>
       th[t].status = "yield" \/ (t = Running /\ Top.kind = "resume")

\* So does a step that goes on with a frame that is there, and changes no thread
\* but those that have one.
LEMMA StepKeeps ==
  ASSUME IInv, NEW k \in 1..Len(cstack), Running' = cstack[k].t,
         \A t \in Threads : Has(t, Len(cstack)) \/ Resumable(t) \/ th'[t] = th[t],
         \A t \in Threads : th'[t].status = "yield" =>
           th[t].status = "yield" \/ (t = Running /\ Top.kind = "resume")
  PROVE  Keeps
BY DEF Keeps, Has

\* Frame k is the last one now.  Its thread goes on with its level and its jump
\* buffer, without some of the functions that frames above k ran, or a C function
\* that returned; threads that leave the stack keep to themselves.
UnwoundTo(k) ==
  LET R == cstack[k].t
  IN  /\ k \in 2..Len(cstack)
      /\ cstack[k].kind # "pcall"
      /\ cstack' = SubSeq(cstack, 1, k)
      /\ th' \in [Threads -> ThreadSet]
      /\ raising' \in {"no", "msg", "run", "err"}
      /\ \A t \in Threads : Has(t, k) /\ t # R => th'[t] = th[t]
      /\ \A t \in Threads : ~ Has(t, k) =>
           /\ th'[t].errorJmp = 0
           /\ \A p \in DOMAIN th'[t].ci : th'[t].ci[p] # "main"
           /\ th'[t].status = "yield" =>
                /\ th'[t].ci # <<>> /\ Last(th'[t].ci) = "yield"
                /\ \A p \in 1..Len(th'[t].ci) - 1 : th'[t].ci[p] = "lua"
      /\ \A t \in Threads : th'[t].size <= 2 * LUAI_MAXCALLS
      /\ th'[R].status = "ok" /\ th'[R].baseCcalls = th[R].baseCcalls
      /\ th'[R].nCcalls = Cardinality(Levels(k))
      /\ Innermost(th'[R].errorJmp, R, k)
      /\ Len(th'[R].ci) \in Base(k)..Upto(k)
      /\ \A p \in 1..Len(th'[R].ci) : th'[R].ci[p] = th[R].ci[p]
      /\ \A p \in Len(th'[R].ci) + 1..Upto(k) : th[R].ci[p] # "lua" /\ th[R].ci[p] # "main"
      /\ k = 2 => raising' = "no"
      /\ raising' # "err" => Cardinality(Levels(k)) < LUAI_MAXCCALLS + Extra
      /\ Cardinality(Levels(k)) <= LUAI_MAXCCALLS + Extra

\* Cutting the C stack back to a frame k, with the threads as they were left there,
\* keeps every part of the invariant: what was true of the frames up to k still is.
LEMMA Unwind ==
  ASSUME IInv, NEW k, UnwoundTo(k)
  PROVE  IInv'
<1> USE DEF IInv
<1> DEFINE R == cstack[k].t
<1>1. /\ k \in Nat /\ k >= 2 /\ k <= Len(cstack) /\ Len(cstack) \in Nat
      /\ DOMAIN cstack = 1..Len(cstack) /\ k \in DOMAIN cstack
      /\ R \in Threads
  BY Types DEF UnwoundTo
<1>2. /\ Len(cstack') = k /\ DOMAIN cstack' = 1..k
      /\ \A i \in 1..k : cstack'[i] = cstack[i]
  BY <1>1 DEF UnwoundTo, TypeInv
<1>3. /\ Running' = R /\ L' = th'[R]
  BY <1>1, <1>2 DEF Running, Top, Last, L
<1>4. TypeInv'
  <2>1. cstack' \in Seq(FrameSet)
    BY <1>1 DEF TypeInv, UnwoundTo
  <2> QED
    BY <2>1 DEF TypeInv, UnwoundTo
<1>5. ASSUME NEW i \in 1..k
      PROVE  /\ Base(i)' = Base(i) /\ Base(i) \in Nat
             /\ cstack[i].t \in Threads
             /\ cstack[i].t # R => th'[cstack[i].t] = th[cstack[i].t]
  <2>1. i \in 1..Len(cstack)
    BY <1>1
  <2>2. cstack[i].ci \in Nat /\ cstack[i].t \in Threads
    BY <2>1, Types
  <2> QED
    BY <1>2, <2>2, Zenon DEF Base, UnwoundTo, Has
<1>6. ASSUME NEW i \in 1..k, NEW j \in 1..k, i <= j, cstack[i].t = R
      PROVE  cstack[j].t = R
  <2>1. i \in DOMAIN cstack /\ i <= k /\ j \in i..k
    BY <1>1, <1>6
  <2>2. \A m \in i..k : cstack[m].t = cstack[k].t
    <3>1. \A p, q \in DOMAIN cstack : p <= q /\ cstack[p].t = cstack[q].t =>
            \A m \in p..q : cstack[m].t = cstack[p].t
      BY Zenon DEF PieceInv
    <3>2. k \in DOMAIN cstack /\ cstack[i].t = cstack[k].t
      BY <1>1, <1>6
    <3> QED
      BY ONLY <2>1, <3>1, <3>2
  <2> QED
    BY <2>1, <2>2
<1>7. ASSUME NEW i \in 1..k, i < k
      PROVE  Upto(i)' = Upto(i) /\ i + 1 \in 1..k
  <2>1. i < Len(cstack) /\ i < Len(cstack') /\ i + 1 \in 1..k /\ i \in 1..k
    BY <1>1, <1>2, <1>7
  <2>2. cstack'[i] = cstack[i] /\ cstack'[i + 1] = cstack[i + 1]
    BY <1>2, <2>1
  <2>3. CASE cstack[i + 1].t = cstack[i].t
    <3>1. Base(i + 1)' = Base(i + 1)
      BY <1>5, <2>1
    <3> QED
      BY ONLY <2>1, <2>2, <2>3, <3>1 DEF Upto
  <2>4. CASE cstack[i + 1].t # cstack[i].t
    <3>1. cstack[i].t # R
      BY <1>1, <1>6, <2>1, <2>4
    <3>2. th'[cstack[i].t] = th[cstack[i].t]
      BY <1>5, <3>1
    <3>3. cstack'[i + 1].t # cstack'[i].t /\ th'[cstack'[i].t] = th[cstack[i].t]
      BY <2>2, <2>4, <3>2
    <3> QED
      BY ONLY <2>1, <2>4, <3>3 DEF Upto
  <2> QED
    BY <2>1, <2>3, <2>4
<1>8. Upto(k)' = Len(th'[R].ci)
  BY ONLY <1>1, <1>2 DEF Upto
<1>9. /\ Len(th'[R].ci) \in Nat /\ Base(k) <= Len(th'[R].ci) /\ Len(th'[R].ci) <= Upto(k)
      /\ Upto(k) \in Nat /\ Upto(k) <= Len(th[R].ci) /\ Len(th[R].ci) \in Nat
      /\ DOMAIN th[R].ci = 1..Len(th[R].ci) /\ DOMAIN th'[R].ci = 1..Len(th'[R].ci)
      /\ \A p \in 1..Len(th'[R].ci) : th'[R].ci[p] = th[R].ci[p]
  <2>1. th'[R] \in ThreadSet /\ th[R] \in ThreadSet
    BY <1>1 DEF UnwoundTo, TypeInv
  <2>2. th'[R].ci \in Seq(Functions) /\ th[R].ci \in Seq(Functions)
    BY <2>1, Zenon DEF ThreadSet
  <2>3. Base(k) \in Nat /\ Upto(k) <= Len(th[R].ci)
    BY <1>1, <1>5 DEF OwnerInv
  <2>4. k + 1 \in 1..Len(cstack) => Base(k + 1) \in Nat
    BY Types DEF Base
  <2>5. Upto(k) \in Nat
    BY <1>1, <2>2, <2>4 DEF Upto
  <2>6. /\ Len(th'[R].ci) \in Base(k)..Upto(k)
        /\ \A p \in 1..Len(th'[R].ci) : th'[R].ci[p] = th[R].ci[p]
    BY DEF UnwoundTo
  <2>7. /\ Len(th'[R].ci) \in Nat /\ DOMAIN th'[R].ci = 1..Len(th'[R].ci)
        /\ Len(th[R].ci) \in Nat /\ DOMAIN th[R].ci = 1..Len(th[R].ci)
    BY ONLY <2>2
  <2>8. Base(k) <= Len(th'[R].ci) /\ Len(th'[R].ci) <= Upto(k)
    BY ONLY <2>3, <2>5, <2>6
  <2> QED
    BY ONLY <2>3, <2>5, <2>6, <2>7, <2>8
<1>10. ASSUME NEW i \in 1..k, i < k
       PROVE  /\ Upto(i) <= Len(th[cstack[i].t].ci) /\ Base(i) <= Upto(i) /\ Upto(i) \in Nat
              /\ cstack[i].t = R => Upto(i) <= Len(th'[R].ci)
  <2>1. i \in DOMAIN cstack /\ i < k
    BY <1>1, <1>10
  <2>2. Base(i) <= Upto(i) /\ Upto(i) <= Len(th[cstack[i].t].ci)
    BY <2>1 DEF OwnerInv
  <2>3. Upto(i) \in Nat
    <3>1. Base(i + 1) \in Nat
      BY <1>5, <1>7, <1>10
    <3>2. Len(th[cstack[i].t].ci) \in Nat
      BY <1>5, Types, Zenon
    <3> QED
      BY <3>1, <3>2 DEF Upto
  <2>4. cstack[i].t = R => Upto(i) <= Base(k)
    BY <1>1, <2>1, Zenon DEF OwnerInv
  <2>5. cstack[i].t = R => Upto(i) <= Len(th'[R].ci)
    <3> Base(k) \in Nat
      BY <1>1, <1>5
    <3> QED
      BY ONLY Base(k) \in Nat, <1>9, <2>3, <2>4
  <2> QED
    BY ONLY <2>2, <2>3, <2>5
<1>11. ASSUME NEW i \in 1..k
       PROVE  /\ \A p \in Base(i) + 1..Upto(i)' : th'[cstack[i].t].ci[p] = th[cstack[i].t].ci[p]
              /\ Upto(i)' \in Nat /\ Base(i) <= Upto(i)' /\ Upto(i)' <= Upto(i)
              /\ Upto(i)' <= Len(th'[cstack[i].t].ci)
  <2>1. CASE i = k
    BY <1>1, <1>5, <1>8, <1>9, <2>1
  <2>2. CASE i < k
    <3>1. Upto(i)' = Upto(i) /\ Upto(i) \in Nat /\ Base(i) <= Upto(i) /\ Base(i) \in Nat
      BY <1>5, <1>7, <1>10, <2>2
    <3>2. CASE cstack[i].t = R
      <4>1. Upto(i) <= Len(th'[R].ci)
        BY <1>10, <2>2, <3>2
      <4> QED
        BY ONLY <1>9, <3>1, <3>2, <4>1
    <3>3. CASE cstack[i].t # R
      <4>1. th'[cstack[i].t] = th[cstack[i].t] /\ Upto(i) <= Len(th[cstack[i].t].ci)
        BY <1>5, <1>10, <2>2, <3>3
      <4> QED
        BY ONLY <3>1, <4>1
    <3> QED
      BY <3>2, <3>3
  <2> QED
    BY <1>1, <2>1, <2>2
<1>12. ASSUME NEW i \in 1..k
       PROVE  Owned(i)' = Owned(i)
  <2>1. Owned(i)' = {p \in Base(i) + 1..Upto(i)' : th'[cstack[i].t].ci[p] = "lua"}
    BY <1>2, <1>5 DEF Owned
  <2>2. Owned(i)' = {p \in Base(i) + 1..Upto(i)' : th[cstack[i].t].ci[p] = "lua"}
    BY <1>11, <2>1, Zenon
  <2>3. CASE i < k
    BY <1>7, <2>2, <2>3 DEF Owned
  <2>4. CASE i = k
    <3>1. \A p \in Len(th'[R].ci) + 1..Upto(k) : th[R].ci[p] # "lua"
      BY Zenon DEF UnwoundTo
    <3>2. Base(k) \in Nat
      BY <1>1, <1>5
    <3>3. \A p \in Base(k) + 1..Upto(k) : th[R].ci[p] = "lua" => p \in Base(k) + 1..Upto(k)'
      BY ONLY <1>8, <1>9, <3>1, <3>2
    <3>4. \A p \in Base(k) + 1..Upto(k)' : p \in Base(k) + 1..Upto(k)
      BY ONLY <1>8, <1>9, <3>2
    <3> QED
      BY ONLY <2>2, <2>4, <3>3, <3>4 DEF Owned
  <2> QED
    BY <1>1, <2>3, <2>4
<1>13. OwnerInv'
  <2>1. ASSUME NEW i \in 1..k
        PROVE  /\ Base(i)' <= Upto(i)' /\ Upto(i)' <= Len(th'[cstack'[i].t].ci)
               /\ i # 2 => cstack'[i].n = Cardinality(Owned(i)')
               /\ i > 2 /\ cstack'[i].n = 0 => Base(i)' = Upto(i)'
               /\ \A p \in Base(i)' + 1..Upto(i)' - 1 : th'[cstack'[i].t].ci[p] = "lua"
    <3>1. /\ cstack'[i] = cstack[i] /\ Base(i)' = Base(i) /\ Base(i) \in Nat /\ Owned(i)' = Owned(i)
          /\ Upto(i)' \in Nat /\ Base(i) <= Upto(i)' /\ Upto(i)' <= Upto(i)
          /\ Upto(i)' <= Len(th'[cstack[i].t].ci)
      BY <1>2, <1>5, <1>11, <1>12
    <3>2. i \in DOMAIN cstack
      BY <1>1
    <3>3. /\ i # 2 => cstack[i].n = Cardinality(Owned(i))
          /\ i > 2 /\ cstack[i].n = 0 => Base(i) = Upto(i)
          /\ \A p \in Base(i) + 1..Upto(i) - 1 : th[cstack[i].t].ci[p] = "lua"
      BY <3>2 DEF OwnerInv
    <3>4. Upto(i) \in Nat
      BY <1>1, <1>9, <1>10
    <3>5. \A p \in Base(i) + 1..Upto(i)' - 1 : th'[cstack[i].t].ci[p] = "lua"
      <4>1. \A p \in Base(i) + 1..Upto(i)' : th'[cstack[i].t].ci[p] = th[cstack[i].t].ci[p]
        BY <1>11, Zenon
      <4>2. \A p \in Base(i) + 1..Upto(i)' - 1 :
              p \in Base(i) + 1..Upto(i) - 1 /\ p \in Base(i) + 1..Upto(i)'
        BY ONLY <3>1, <3>4
      <4> QED
        BY <3>3, <4>1, <4>2
    <3> QED
      BY ONLY <3>1, <3>3, <3>4, <3>5
  <2>2. ASSUME NEW i \in 1..k, NEW j \in 1..k, i < j, cstack'[i].t = cstack'[j].t
        PROVE  Upto(i)' <= Base(j)'
    <3>1. Upto(i) <= Base(j)
      BY <1>1, <1>2, <2>2 DEF OwnerInv
    <3>2. i < k /\ Base(j)' = Base(j)
      BY <1>1, <1>5, <2>2
    <3>3. Upto(i)' = Upto(i)
      BY <1>7, <3>2
    <3> QED
      BY ONLY <3>1, <3>2, <3>3
  <2> QED
    BY ONLY <1>2, <2>1, <2>2 DEF OwnerInv
<1>14. MainInv'
  <2>1. R = Main => Len(th'[R].ci) >= 1
    <3>1. CASE R = Main /\ k = 2
      <4>1. Base(2) = 1
        BY <1>1, <3>1 DEF Base, BottomInv
      <4> QED
        BY <1>9, <3>1, <4>1
    <3>2. CASE R = Main /\ k > 2
      <4>1. Base(2) = 1 /\ cstack[2].t = Main
        BY <1>1, <3>2 DEF Base, BottomInv
      <4>2. Base(2) <= Upto(2) /\ Upto(2) <= Base(k)
        BY <1>1, <3>2, <4>1 DEF OwnerInv
      <4>3. Upto(2) \in Nat /\ Base(k) \in Nat
        BY <1>1, <1>5, <1>10, <3>2
      <4> QED
        BY ONLY <1>9, <4>1, <4>2, <4>3, <3>2
    <3> QED
      BY <1>1, <3>1, <3>2
  <2>2. ASSUME NEW t \in Threads, NEW p \in DOMAIN th'[t].ci
        PROVE  th'[t].ci[p] = "main" <=> t = Main /\ p = 1
    <3>1. CASE t = R
      <4>1. p \in DOMAIN th[R].ci /\ th'[R].ci[p] = th[R].ci[p]
        <5>1. p \in DOMAIN th'[R].ci
          BY ONLY <3>1, p \in DOMAIN th'[t].ci
        <5>2. p \in 1..Len(th'[R].ci) /\ p \in 1..Len(th[R].ci)
          BY ONLY <1>9, <5>1
        <5> QED
          BY ONLY <1>9, <5>2, Zenon
      <4>2. th[R].ci[p] = "main" <=> R = Main /\ p = 1
        BY <1>1, <4>1 DEF MainInv
      <4> QED
        BY ONLY <3>1, <4>1, <4>2
    <3>2. CASE t # R /\ Has(t, k)
      <4>1. th'[t] = th[t]
        BY <3>2 DEF UnwoundTo
      <4> QED
        BY <4>1 DEF MainInv
    <3>3. CASE ~ Has(t, k)
      <4>1. th'[t].ci[p] # "main"
        BY <3>3 DEF UnwoundTo
      <4>2. t # Main
        BY <1>1, <3>3 DEF Has, BottomInv
      <4> QED
        BY <4>1, <4>2
    <3> QED
      BY <3>1, <3>2, <3>3
  <2>3. Len(th'[Main].ci) >= 1
    <3>1. CASE R # Main
      <4>1. Has(Main, k)
        BY <1>1 DEF Has, BottomInv
      <4>2. th'[Main] = th[Main]
        BY <3>1, <4>1, Zenon DEF UnwoundTo
      <4> QED
        BY <4>2 DEF MainInv
    <3> QED
      BY <2>1, <3>1
  <2> QED
    BY <2>2, <2>3 DEF MainInv
<1>15. BottomInv'
  <2>1. /\ Len(cstack') >= 2
        /\ cstack'[1].kind = "pcall" /\ cstack'[1].t = Main
        /\ cstack'[2].kind = "call" /\ cstack'[2].t = Main /\ cstack'[2].n = 1 /\ cstack'[2].ci = 1
    BY <1>1, <1>2 DEF BottomInv
  <2>2. CASE k = 2
    <3>1. R = Main /\ Base(2) = 1 /\ raising' = "no"
      BY <1>1, <2>2 DEF BottomInv, Base, UnwoundTo
    <3>2. Upto(2) = 1
      <4>1. CASE Len(cstack) = 2
        BY <3>1, <4>1 DEF BottomInv, Upto
      <4>2. CASE Len(cstack) > 2
        BY <1>1, <3>1, <4>2 DEF BottomInv, Upto, Base
      <4> QED
        BY <1>1, <4>1, <4>2
    <3>3. Len(th'[Main].ci) = 1
      <4>1. Len(th'[R].ci) \in Nat /\ Base(k) <= Len(th'[R].ci) /\ Len(th'[R].ci) <= Upto(k)
        BY ONLY <1>9
      <4>2. Base(k) = 1 /\ Upto(k) = 1 /\ Base(k) \in Int /\ Upto(k) \in Int
        BY ONLY <2>2, <3>1, <3>2
      <4>3. Len(th'[R].ci) \in Nat /\ 1 <= Len(th'[R].ci) /\ Len(th'[R].ci) <= 1
        BY ONLY <4>1, <4>2, Zenon
      <4>4. \A x \in Nat : 1 <= x /\ x <= 1 => x = 1
        OBVIOUS
      <4> QED
        BY ONLY <3>1, <4>3, <4>4, Zenon
    <3>4. th'[Main].ci[1] = "main" /\ th'[Main].ci \in Seq(Functions)
      <4>1. 1 \in DOMAIN th'[Main].ci
        <5>1. DOMAIN th'[R].ci = 1..Len(th'[R].ci)
          BY ONLY <1>9
        <5> QED
          BY ONLY <3>1, <3>3, <5>1
      <4>2. th'[Main] \in ThreadSet
        BY DEF UnwoundTo
      <4> QED
        BY <1>14, <4>1, <4>2 DEF MainInv, ThreadSet
    <3>5. th'[Main].ci = <<"main">>
      BY <3>3, <3>4
    <3> QED
      BY <1>2, <2>1, <2>2, <3>1, <3>5 DEF BottomInv
  <2>3. CASE k > 2
    <3>1. cstack'[3] = cstack[3] /\ Len(cstack') # 2 /\ Len(cstack) # 2
      BY <1>1, <1>2, <2>3
    <3> QED
      BY <2>1, <3>1 DEF BottomInv
  <2> QED
    BY <1>1, <2>2, <2>3
<1>16. PieceInv'
  <2>1. ASSUME NEW i \in 2..k
        PROVE  /\ cstack'[i].kind # "resume" => cstack'[i].t = cstack'[i - 1].t
               /\ cstack'[i].kind = "resume" =>
                    /\ cstack'[i].t \in Coroutines
                    /\ cstack'[i - 1].n > 0
                    /\ \A j \in 1..i - 1 : cstack'[j].t # cstack'[i].t
    <3>1. i \in 2..Len(cstack) /\ cstack'[i] = cstack[i] /\ cstack'[i - 1] = cstack[i - 1]
          /\ \A j \in 1..i - 1 : cstack'[j] = cstack[j]
      BY <1>1, <1>2
    <3> QED
      BY <3>1 DEF PieceInv
  <2>2. ASSUME NEW i \in 1..k, NEW j \in 1..k, i <= j, cstack'[i].t = cstack'[j].t,
               NEW m \in i..j
        PROVE  cstack'[m].t = cstack'[i].t
    <3>1. i \in DOMAIN cstack /\ j \in DOMAIN cstack /\ cstack[i].t = cstack[j].t /\ m \in 1..k
      BY <1>1, <1>2, <2>2
    <3>2. cstack[m].t = cstack[i].t
      BY <2>2, <3>1 DEF PieceInv
    <3> QED
      BY <1>2, <3>1, <3>2
  <2>3. ASSUME NEW i \in 1..k, cstack'[i].t # Main
        PROVE  \E r \in 1..i : cstack'[r].kind = "resume" /\ cstack'[r].t = cstack'[i].t
    <3>1. i \in DOMAIN cstack /\ cstack[i].t # Main
      BY <1>1, <1>2, <2>3
    <3>2. PICK r \in 1..i : cstack[r].kind = "resume" /\ cstack[r].t = cstack[i].t
      BY <3>1 DEF PieceInv
    <3>3. r \in 1..k
      BY <1>1
    <3> QED
      BY <1>2, <3>2, <3>3
  <2> QED
    BY ONLY <1>2, <2>1, <2>2, <2>3 DEF PieceInv
<1>17. ASSUME NEW i \in 1..k, cstack[i].t # R
       PROVE  cstack[i].t # Running /\ th'[cstack[i].t] = th[cstack[i].t]
  <2>1. CASE cstack[i].t = Running
    <3>1. cstack[i].t = cstack[Len(cstack)].t
      BY <2>1 DEF Running, Top, Last
    <3>2. k \in i..Len(cstack) /\ i \in DOMAIN cstack /\ Len(cstack) \in DOMAIN cstack
          /\ i <= Len(cstack)
      BY <1>1
    <3> QED
      BY <1>17, <3>1, <3>2 DEF PieceInv
  <2> QED
    BY <1>5, <1>17, <2>1
<1>18. StatusInv'
  <2>1. ASSUME NEW i \in 1..k
        PROVE  /\ th'[cstack'[i].t].status = "ok"
               /\ cstack'[i].t # R =>
                    /\ th'[cstack'[i].t].ci # <<>>
                    /\ Last(th'[cstack'[i].t].ci) \in {"resume", "wrap"}
    <3>1. CASE cstack[i].t = R
      BY <1>2, <3>1, Zenon DEF UnwoundTo
    <3>2. CASE cstack[i].t # R
      BY <1>1, <1>2, <1>17, <3>2 DEF StatusInv
    <3> QED
      BY <3>1, <3>2
  <2>2. ASSUME NEW t \in Threads, th'[t].status = "yield"
        PROVE  /\ th'[t].ci # <<>> /\ Last(th'[t].ci) = "yield"
               /\ \A p \in 1..Len(th'[t].ci) - 1 : th'[t].ci[p] = "lua"
    <3>1. CASE ~ Has(t, k)
      BY <2>2, <3>1 DEF UnwoundTo
    <3>2. CASE Has(t, k) /\ t # R
      <4>1. th'[t] = th[t]
        BY <3>2, Zenon DEF UnwoundTo
      <4> QED
        BY <2>2, <4>1 DEF StatusInv
    <3> QED
      BY <2>2, <3>1, <3>2 DEF UnwoundTo
  <2> QED
    BY ONLY <1>2, <1>3, <2>1, <2>2 DEF StatusInv
<1>19. \A i \in 0..k : LevelsIn(cstack', i) = Levels(i)
  BY <1>1, <1>2, CountedAlike DEF Levels
<1>20. LevelInv'
  <2>1. ASSUME NEW i \in 1..k, IsLast(i)'
        PROVE  th'[cstack'[i].t].nCcalls = Cardinality(Levels(i)')
    <3>1. CASE i = k
      BY <1>2, <1>19, <3>1 DEF UnwoundTo, Levels
    <3>2. CASE i < k
      <4>1. cstack'[i + 1].t # cstack'[i].t /\ i + 1 \in 1..k
        BY <1>1, <1>2, <2>1, <3>2 DEF IsLast
      <4>2. cstack[i + 1].t # cstack[i].t /\ i \in DOMAIN cstack
        BY <1>1, <1>2, <4>1
      <4>3. th[cstack[i].t].nCcalls = Cardinality(Levels(i))
        BY <4>2 DEF LevelInv, IsLast
      <4>4. cstack[i].t # R
        BY <1>1, <1>6, <4>1, <4>2
      <4>5. th'[cstack[i].t] = th[cstack[i].t]
        BY <1>5, <4>4
      <4> QED
        BY <1>2, <1>19, <4>3, <4>5 DEF Levels
    <3> QED
      BY <1>1, <3>1, <3>2
  <2>2. ASSUME NEW i \in 1..k
        PROVE  /\ cstack'[i].kind = "pcall" => cstack'[i].nCcalls = Cardinality(Levels(i - 1)')
               /\ cstack'[i].kind = "resume" =>
                    th'[cstack'[i].t].baseCcalls = Cardinality(Levels(i)')
    <3>1. /\ i \in DOMAIN cstack /\ cstack'[i] = cstack[i]
          /\ Levels(i)' = Levels(i) /\ Levels(i - 1)' = Levels(i - 1)
      BY <1>1, <1>2, <1>19 DEF Levels
    <3>2. th'[cstack[i].t].baseCcalls = th[cstack[i].t].baseCcalls
      BY <1>5, Zenon DEF UnwoundTo
    <3> QED
      BY <3>1, <3>2 DEF LevelInv
  <2>3. th'[Main].baseCcalls = 0
    <3>1. th'[cstack[1].t].baseCcalls = th[cstack[1].t].baseCcalls
      <4>1. 1 \in 1..k /\ th'[R].baseCcalls = th[R].baseCcalls
        BY <1>1 DEF UnwoundTo
      <4> QED
        BY <1>5, <4>1
    <3> QED
      BY <3>1 DEF LevelInv, BottomInv
  <2> QED
    BY ONLY <1>2, <2>1, <2>2, <2>3 DEF LevelInv
<1>21. LimitInv'
  BY <1>3 DEF LimitInv, UnwoundTo
<1>22. ASSUME NEW t, NEW n \in 0..k
       PROVE  Jumps(t, n)' = Jumps(t, n)
  BY <1>1, <1>2 DEF Jumps
<1>23. JumpInv'
  <2>1. ASSUME NEW t \in Threads
        PROVE  Innermost(th'[t].errorJmp, t, k)
    <3>1. CASE t = R
      BY <3>1 DEF UnwoundTo
    <3>2. CASE ~ Has(t, k)
      <4>1. th'[t].errorJmp = 0
        BY <3>2 DEF UnwoundTo
      <4> QED
        BY <3>2, <4>1 DEF Has, Innermost, Jumps
    <3>3. CASE t # R /\ Has(t, k)
      <4>1. PICK i \in 1..k : cstack[i].t = t
        BY <3>3 DEF Has
      <4>2. th'[t] = th[t] /\ Innermost(th[t].errorJmp, t, Len(cstack))
        BY <3>3 DEF UnwoundTo, JumpInv
      <4>3. ASSUME NEW j \in Jumps(t, Len(cstack)), j > k
            PROVE  FALSE
        <5>1. /\ i \in DOMAIN cstack /\ j \in DOMAIN cstack /\ i <= j /\ k \in i..j
              /\ cstack[i].t = cstack[j].t
          BY <1>1, <4>1, <4>3 DEF Jumps
        <5> QED
          BY <3>3, <4>1, <5>1 DEF PieceInv
      <4>4. Jumps(t, Len(cstack)) = Jumps(t, k)
        BY <1>1, <4>3 DEF Jumps
      <4> QED
        BY <4>2, <4>4 DEF Innermost
    <3> QED
      BY <3>1, <3>2, <3>3
  <2>2. ASSUME NEW t \in Threads
        PROVE  Innermost(th[t].errorJmp, t, Len(cstack))'
    BY <1>1, <1>2, <1>22, <2>1 DEF Innermost
  <2>3. ASSUME NEW i \in 1..k, cstack'[i].kind \in {"pcall", "resume"}
        PROVE  Innermost(cstack[i].previous, cstack[i].t, i - 1)'
    <3>1. Innermost(cstack[i].previous, cstack[i].t, i - 1)
      BY <1>1, <1>2, <2>3 DEF JumpInv
    <3>2. Jumps(cstack[i].t, i - 1)' = Jumps(cstack'[i].t, i - 1)
      BY <1>1, <1>2 DEF Jumps
    <3> QED
      BY <1>1, <1>2, <3>1 DEF Innermost, Jumps
  <2> QED
    BY ONLY <1>2, <2>2, <2>3 DEF JumpInv
<1>24. ProtectedInv'
  <2>1. ASSUME NEW i \in 1..k, cstack'[i].kind = "pcall"
        PROVE  /\ cstack'[i].n = 0
               /\ i < k /\ cstack'[i + 1].kind = "call"
               /\ i > 1 => /\ cstack'[i + 1].ci = cstack'[i].ci
                           /\ cstack'[i - 1].n > 0
                           /\ cstack'[i].ci \in DOMAIN th'[cstack'[i].t].ci
                           /\ th'[cstack'[i].t].ci[cstack'[i].ci] \in {"pcall", "xpcall", "main"}
                           /\ th'[cstack'[i].t].ci[cstack'[i].ci] = "main" => i = 3
    <3>1. i \in DOMAIN cstack /\ cstack'[i] = cstack[i] /\ cstack[i].kind = "pcall"
      BY <1>1, <1>2, <2>1
    <3>2. i < k /\ i + 1 \in 1..k /\ cstack'[i + 1] = cstack[i + 1]
      BY <1>1, <1>2, <2>1, <3>1 DEF UnwoundTo
    <3>3. /\ cstack[i].n = 0
          /\ cstack[i + 1].kind = "call"
          /\ i > 1 => /\ cstack[i + 1].ci = cstack[i].ci
                      /\ cstack[i - 1].n > 0
                      /\ cstack[i].ci \in DOMAIN th[cstack[i].t].ci
                      /\ th[cstack[i].t].ci[cstack[i].ci] \in {"pcall", "xpcall", "main"}
                      /\ th[cstack[i].t].ci[cstack[i].ci] = "main" => i = 3
      BY <3>1, Zenon DEF ProtectedInv
    <3>4. i > 1 => i - 1 \in 1..k /\ cstack'[i - 1] = cstack[i - 1]
      BY <1>1, <1>2
    <3>5. ASSUME i > 1
          PROVE  /\ cstack[i].ci \in DOMAIN th'[cstack[i].t].ci
                 /\ th'[cstack[i].t].ci[cstack[i].ci] = th[cstack[i].t].ci[cstack[i].ci]
      <4>1. CASE cstack[i].t = R
        <5>1. cstack[i].ci = Base(i)
          BY <3>1 DEF Base
        <5>2. cstack[i].ci \in 1..Len(th[R].ci)
          <6>1. cstack[i].ci \in DOMAIN th[R].ci
            BY ONLY <3>3, <3>5, <4>1
          <6>2. DOMAIN th[R].ci = 1..Len(th[R].ci)
            BY ONLY <1>9
          <6> QED
            BY ONLY <6>1, <6>2
        <5>3. Base(i) \in Nat /\ Upto(i) \in Nat /\ Base(i) <= Upto(i) /\ Upto(i) <= Len(th'[R].ci)
          BY ONLY <1>5, <1>10, <3>2, <4>1
        <5>4. cstack[i].ci \in 1..Len(th'[R].ci)
          BY ONLY <1>9, <5>1, <5>2, <5>3
        <5>5. /\ cstack[i].ci \in DOMAIN th'[R].ci
              /\ th'[R].ci[cstack[i].ci] = th[R].ci[cstack[i].ci]
          BY ONLY <1>9, <5>4, Zenon
        <5> QED
          BY <4>1, <5>5
      <4>2. CASE cstack[i].t # R
        BY <1>5, <3>3, <3>5, <4>2
      <4> QED
        BY <4>1, <4>2
    <3> QED
      BY ONLY <3>1, <3>2, <3>3, <3>4, <3>5
  <2> QED
    BY ONLY <1>2, <2>1 DEF ProtectedInv
<1> QED
  BY <1>4, <1>13, <1>14, <1>15, <1>16, <1>18, <1>20, <1>21, <1>23, <1>24

\* A sequence without its last function.
LEMMA Fronts ==
  ASSUME NEW s \in Seq(Functions), s # <<>>
  PROVE  /\ Len(s) \in Nat \ {0} /\ Len(Front(s)) = Len(s) - 1 /\ Front(s) \in Seq(Functions)
         /\ \A p \in 1..Len(s) - 1 : Front(s)[p] = s[p]
         /\ Last(s) = s[Len(s)]
<1>1. Len(s) \in Nat \ {0} /\ Last(s) = s[Len(s)]
  BY DEF Last
<1>2. Front(s) = SubSeq(s, 1, Len(s) - 1)
  BY DEF Front
<1>3. 1 \in Int /\ Len(s) - 1 \in Int /\ \A i \in 1..Len(s) - 1 : s[i] \in Functions
  BY <1>1
<1>4. /\ SubSeq(s, 1, Len(s) - 1) \in Seq(Functions)
      /\ Len(SubSeq(s, 1, Len(s) - 1)) = IF 1 <= Len(s) - 1 THEN Len(s) - 1 - 1 + 1 ELSE 0
      /\ \A i \in 1..Len(s) - 1 - 1 + 1 : SubSeq(s, 1, Len(s) - 1)[i] = s[1 + i - 1]
  BY ONLY <1>3, SubSeqProperties
<1>5. \A p \in 1..Len(s) - 1 : p \in 1..Len(s) - 1 - 1 + 1 /\ 1 + p - 1 = p
  BY <1>1
<1>6. Len(Front(s)) = Len(s) - 1 /\ Front(s) \in Seq(Functions)
  <2>1. PICK n \in Nat \ {0} : n = Len(s)
    BY <1>1
  <2>2. Len(SubSeq(s, 1, Len(s) - 1)) = IF 1 <= n - 1 THEN n - 1 - 1 + 1 ELSE 0
    BY <1>4, <2>1
  <2>3. Len(SubSeq(s, 1, Len(s) - 1)) = n - 1
    BY ONLY <2>2
  <2> QED
    BY ONLY <1>2, <1>4, <2>1, <2>3
<1>7. \A p \in 1..Len(s) - 1 : Front(s)[p] = s[p]
  BY ONLY <1>2, <1>4, <1>5
<1> QED
  BY <1>1, <1>6, <1>7

\* The functions a that remain of b after a C function returned, if one did.
LEMMA Shortened ==
  ASSUME NEW a, NEW b \in Seq(Functions), NEW m \in Nat, m <= Len(b),
         \/ a = b
         \/ a = Front(b) /\ m < Len(b) /\ Last(b) \notin {"lua", "main"}
  PROVE  /\ Len(a) \in m..Len(b)
         /\ \A p \in 1..Len(a) : a[p] = b[p]
         /\ \A p \in Len(a) + 1..Len(b) : b[p] # "lua" /\ b[p] # "main"
<1>1. CASE a = b
  BY <1>1
<1>2. CASE a = Front(b) /\ m < Len(b) /\ Last(b) \notin {"lua", "main"}
  <2>1. b # <<>>
    BY <1>2
  <2>2. /\ Len(b) \in Nat \ {0} /\ Len(a) = Len(b) - 1
        /\ \A p \in 1..Len(b) - 1 : a[p] = b[p]
        /\ b[Len(b)] \notin {"lua", "main"}
    BY <1>2, <2>1, Fronts, Zenon
  <2> QED
    BY <1>2, <2>2
<1> QED
  BY <1>1, <1>2

\* A thread without frames protects nothing and has no pmain.
LEMMA OffStack ==
  ASSUME IInv, NEW t \in Threads, ~ Has(t, Len(cstack))
  PROVE  /\ th[t].errorJmp = 0
         /\ \A p \in DOMAIN th[t].ci : th[t].ci[p] # "main"
         /\ th[t].status = "yield" =>
              /\ th[t].ci # <<>> /\ Last(th[t].ci) = "yield"
              /\ \A p \in 1..Len(th[t].ci) - 1 : th[t].ci[p] = "lua"
<1> USE DEF IInv
<1>1. Len(cstack) \in Nat /\ Len(cstack) >= 2
  BY Types DEF BottomInv
<1>2. Jumps(t, Len(cstack)) = {}
  BY DEF Has, Jumps
<1>3. th[t].errorJmp = 0
  BY <1>2 DEF JumpInv, Innermost
<1>4. t # Main
  BY <1>1 DEF Has, BottomInv
<1> QED
  BY <1>3, <1>4 DEF MainInv, StatusInv

\* The C stack stays, and perhaps a C function of the running thread returns.
Stayed ==
  /\ cstack' = cstack
  /\ th' \in [Threads -> ThreadSet]
  /\ raising' \in {"no", "msg", "run", "err"}
  /\ Len(cstack) = 2 => raising' = "no"
  /\ raising' = "err" \/ L.nCcalls < LUAI_MAXCCALLS + Extra
  /\ \A t \in Threads : t # Running =>
       \/ th'[t] = th[t]
       \/ /\ ~ Has(t, Len(cstack)) /\ Resumable(t)
          /\ th'[t].errorJmp = th[t].errorJmp
          /\ th'[t].ci = th[t].ci
          /\ th'[t].status = th[t].status
  /\ \A t \in Threads : th'[t].size <= 2 * LUAI_MAXCALLS
  /\ th'[Running].status = L.status
  /\ th'[Running].nCcalls = L.nCcalls
  /\ th'[Running].baseCcalls = L.baseCcalls
  /\ th'[Running].errorJmp = L.errorJmp
  /\ \/ th'[Running].ci = L.ci
     \/ /\ th'[Running].ci = Front(L.ci)
        /\ Base(Len(cstack)) < Len(L.ci)
        /\ Last(L.ci) \notin {"lua", "main"}

\* A step that only changes the calls above the base of the running C frame.
LEMMA Stays ==
  ASSUME IInv, Stayed
  PROVE  IInv' /\ Keeps
<1> DEFINE n == Len(cstack)
<1>1. /\ n \in Nat /\ n >= 2 /\ n \in DOMAIN cstack /\ Top = cstack[n]
      /\ Running = cstack[n].t /\ L = th[cstack[n].t] /\ Running \in Threads
      /\ Top.kind # "pcall" /\ L.status = "ok"
      /\ Base(n) <= Len(L.ci) /\ Upto(n) = Len(L.ci) /\ L.nCcalls = Cardinality(Levels(n))
  BY TopFrame
<1>2. /\ L.ci \in Seq(Functions) /\ Len(L.ci) \in Nat /\ Base(n) \in Nat
      /\ cstack[n].ci \in Nat
  BY <1>1, Types, Zenon DEF IInv, Base
<1>3. cstack' = SubSeq(cstack, 1, n)
  BY <1>1 DEF IInv, TypeInv, Stayed
<1>4. ASSUME NEW t \in Threads, Has(t, n), t # cstack[n].t
      PROVE  th'[t] = th[t]
  BY <1>1, <1>4 DEF Stayed
<1>5. ASSUME NEW t \in Threads, ~ Has(t, n)
      PROVE  /\ th'[t].errorJmp = 0
             /\ \A p \in DOMAIN th'[t].ci : th'[t].ci[p] # "main"
             /\ th'[t].status = "yield" =>
                  /\ th'[t].ci # <<>> /\ Last(th'[t].ci) = "yield"
                  /\ \A p \in 1..Len(th'[t].ci) - 1 : th'[t].ci[p] = "lua"
  <2>1. t # Running
    BY <1>1, <1>5 DEF Has
  <2>2. /\ th'[t].errorJmp = th[t].errorJmp
        /\ th'[t].ci = th[t].ci
        /\ th'[t].status = th[t].status
    BY <2>1 DEF Stayed
  <2> QED
    BY <1>5, <2>2, OffStack
<1>6. Innermost(th'[cstack[n].t].errorJmp, cstack[n].t, n)
  BY <1>1 DEF Stayed, IInv, JumpInv
<1>7. /\ Len(th'[cstack[n].t].ci) \in Base(n)..Upto(n)
      /\ \A p \in 1..Len(th'[cstack[n].t].ci) : th'[cstack[n].t].ci[p] = th[cstack[n].t].ci[p]
      /\ \A p \in Len(th'[cstack[n].t].ci) + 1..Upto(n) :
           th[cstack[n].t].ci[p] # "lua" /\ th[cstack[n].t].ci[p] # "main"
  <2>1. \/ th'[cstack[n].t].ci = L.ci
        \/ /\ th'[cstack[n].t].ci = Front(L.ci) /\ Base(n) < Len(L.ci)
           /\ Last(L.ci) \notin {"lua", "main"}
    BY <1>1 DEF Stayed
  <2>2. /\ Len(th'[cstack[n].t].ci) \in Base(n)..Len(L.ci)
        /\ \A p \in 1..Len(th'[cstack[n].t].ci) : th'[cstack[n].t].ci[p] = L.ci[p]
        /\ \A p \in Len(th'[cstack[n].t].ci) + 1..Len(L.ci) : L.ci[p] # "lua" /\ L.ci[p] # "main"
    <3>1. Base(n) \in Nat /\ L.ci \in Seq(Functions) /\ Base(n) <= Len(L.ci)
      BY <1>1, <1>2
    <3>2. PICK a : a = th'[cstack[n].t].ci
      OBVIOUS
    <3>3. PICK b \in Seq(Functions) : b = L.ci
      BY <3>1
    <3>4. PICK m \in Nat : m = Base(n)
      BY <3>1
    <3>5. /\ m <= Len(b)
          /\ a = b \/ (a = Front(b) /\ m < Len(b) /\ Last(b) \notin {"lua", "main"})
      BY ONLY <2>1, <3>1, <3>2, <3>3, <3>4
    <3>6. /\ Len(a) \in m..Len(b)
          /\ \A p \in 1..Len(a) : a[p] = b[p]
          /\ \A p \in Len(a) + 1..Len(b) : b[p] # "lua" /\ b[p] # "main"
      BY ONLY <3>5, Shortened
    <3> QED
      BY ONLY <3>2, <3>3, <3>4, <3>6
  <2> QED
    BY ONLY <1>1, <2>2, Zenon
<1>8. Cardinality(Levels(n)) <= LUAI_MAXCCALLS + Extra
  BY <1>1 DEF IInv, LimitInv
<1>9. /\ n \in 2..Len(cstack) /\ cstack[n].kind # "pcall"
      /\ th'[cstack[n].t].status = "ok" /\ th'[cstack[n].t].baseCcalls = th[cstack[n].t].baseCcalls
      /\ th'[cstack[n].t].nCcalls = Cardinality(Levels(n))
      /\ n = 2 => raising' = "no"
      /\ raising' # "err" => Cardinality(Levels(n)) < LUAI_MAXCCALLS + Extra
  BY <1>1 DEF Stayed
<1>10. UnwoundTo(n)
  BY <1>3, <1>4, <1>5, <1>6, <1>7, <1>8, <1>9, Zenon DEF Stayed, UnwoundTo
<1>11. Keeps
  <2>1. Running' = cstack[n].t /\ n \in 1..Len(cstack)
    BY <1>1 DEF Stayed, Running, Top
  <2>2. \A t \in Threads : Has(t, n) \/ Resumable(t) \/ th'[t] = th[t]
    BY <1>1 DEF Stayed, Has
  <2>3. \A t \in Threads : th'[t].status = th[t].status
    BY <1>1, Zenon DEF Stayed
  <2> QED
    BY <2>1, <2>2, <2>3, StepKeeps
<1> QED
  BY <1>10, <1>11, Unwind

-----------------------------------------------------------------------------
(* Steps of one execution *)

\* The main thread keeps pmain below all that is called.
LEMMA MainBase ==
  ASSUME IInv, NEW k \in 2..Len(cstack), cstack[k].t = Main
  PROVE  Base(k) >= 1
<1> USE DEF IInv
<1>1. k \in DOMAIN cstack /\ 2 \in DOMAIN cstack /\ Base(2) = 1 /\ cstack[2].t = Main
  BY Types DEF BottomInv, Base
<1>2. CASE k = 2
  BY <1>1, <1>2
<1>3. CASE k > 2
  <2>1. 2 < k /\ cstack[2].t = cstack[k].t
    BY <1>1, <1>3
  <2>2. Base(2) <= Upto(2) /\ Upto(2) <= Base(k)
    BY <1>1, <2>1 DEF OwnerInv
  <2>3. cstack[k].ci \in Nat /\ cstack[3].ci \in Nat /\ Len(th[Main].ci) \in Nat
    BY <1>1, <1>3, Types
  <2>4. Base(k) \in Nat /\ Upto(2) \in Nat
    BY <1>1, <2>3 DEF Base, Upto
  <2> QED
    BY <1>1, <2>2, <2>4
<1> QED
  BY <1>1, <1>2, <1>3

\* The frame on top runs the functions above its base, up to m in Lua, and one C
\* function if there is one more.  All else stays.
Ran(m) ==
  LET n == Len(cstack)
      a == th'[Running].ci
  IN  /\ n >= 3
      /\ cstack' \in Seq(FrameSet) /\ Len(cstack') = n
      /\ \A i \in 1..n - 1 : cstack'[i] = cstack[i]
      /\ cstack'[n].kind = cstack[n].kind /\ cstack'[n].t = cstack[n].t
      /\ cstack'[n].ci = cstack[n].ci
      /\ cstack'[n].previous = cstack[n].previous
      /\ cstack'[n].n = m - Base(n)
      /\ raising = "no" /\ raising' = "no"
      /\ th' \in [Threads -> ThreadSet]
      /\ \A t \in Threads : t # Running => th'[t] = th[t]
      /\ th'[Running].size <= 2 * LUAI_MAXCALLS
      /\ th'[Running].status = L.status
      /\ th'[Running].nCcalls = L.nCcalls
      /\ th'[Running].baseCcalls = L.baseCcalls
      /\ th'[Running].errorJmp = L.errorJmp
      /\ \A p \in 1..Base(n) : a[p] = L.ci[p]
      /\ m \in Base(n) + 1..Len(a) /\ Len(a) <= m + 1
      /\ \A p \in Base(n) + 1..m : a[p] = "lua"
      /\ \A p \in m + 1..Len(a) : a[p] # "lua" /\ a[p] # "main"

\* A step that only changes the running thread and pushes or pops no C frame.
LEMMA Runs ==
  ASSUME IInv, NEW m, Ran(m)
  PROVE  IInv' /\ Keeps
<1> USE DEF IInv
<1>0. PICK n \in Nat : n = Len(cstack) /\ n >= 3 /\ DOMAIN cstack = 1..n
  <2>1. Len(cstack) \in Nat /\ DOMAIN cstack = 1..Len(cstack)
    BY Types
  <2>2. Len(cstack) >= 3
    BY DEF Ran
  <2> QED
    BY <2>1, <2>2, Zenon
<1> DEFINE R == cstack[n].t
           a == th'[R].ci
<1>1. /\ n = Len(cstack) /\ n \in Nat /\ n >= 3 /\ DOMAIN cstack = 1..n /\ n \in DOMAIN cstack /\ Running = R
      /\ L = th[R] /\ R \in Threads /\ Top = cstack[n] /\ Top.kind # "pcall" /\ L.status = "ok"
      /\ Base(n) <= Len(L.ci) /\ Upto(n) = Len(L.ci) /\ L.nCcalls = Cardinality(Levels(n))
  BY <1>0, TopFrame
<1>2. /\ Len(cstack') = n /\ DOMAIN cstack' = 1..n
      /\ \A i \in 1..n : i < n => cstack'[i] = cstack[i]
      /\ \A i \in 1..n : /\ cstack'[i].kind = cstack[i].kind /\ cstack'[i].t = cstack[i].t
                         /\ cstack'[i].ci = cstack[i].ci
                         /\ cstack'[i].previous = cstack[i].previous
  <2>1. Len(cstack') = n /\ cstack' \in Seq(FrameSet)
    BY <1>0 DEF Ran
  <2>2. ASSUME NEW i \in 1..n, i < n
        PROVE  cstack'[i] = cstack[i]
    <3>1. i \in 1..n - 1
      BY <1>1, <2>2
    <3> QED
      BY <1>0, <3>1 DEF Ran
  <2>3. /\ cstack'[n].kind = cstack[n].kind /\ cstack'[n].t = cstack[n].t
        /\ cstack'[n].ci = cstack[n].ci
        /\ cstack'[n].previous = cstack[n].previous
    BY <1>0 DEF Ran
  <2>4. \A i \in 1..n : i < n \/ i = n
    BY <1>1
  <2>5. DOMAIN cstack' = 1..n
    BY <2>1
  <2> QED
    BY <2>1, <2>2, <2>3, <2>4, <2>5
<1>3. Running' = R /\ L' = th'[R]
  BY <1>1, <1>2 DEF Running, Top, Last, L
<1>4. TypeInv'
  BY DEF TypeInv, Ran
<1>5. ASSUME NEW i \in 1..n
      PROVE  /\ Base(i)' = Base(i) /\ Base(i) \in Nat
             /\ cstack[i].t \in Threads
             /\ cstack[i].t # R => th'[cstack[i].t] = th[cstack[i].t]
  <2>1. cstack[i].ci \in Nat /\ cstack[i].t \in Threads
    BY <1>0, Types
  <2>2. cstack[i].t # R => th'[cstack[i].t] = th[cstack[i].t]
    BY <1>1, <2>1, Zenon DEF Ran
  <2>3. Base(i)' = Base(i) /\ Base(i) \in Nat
    BY <1>2, <2>1 DEF Base
  <2> QED
    BY <2>1, <2>2, <2>3
<1>6. /\ a \in Seq(Functions) /\ Len(a) \in Nat /\ DOMAIN a = 1..Len(a) /\ m \in Nat
      /\ m \in Base(n) + 1..Len(a) /\ Len(a) <= m + 1 /\ Base(n) \in Nat
      /\ L.ci \in Seq(Functions) /\ Len(L.ci) \in Nat /\ DOMAIN L.ci = 1..Len(L.ci)
      /\ \A p \in 1..Base(n) : a[p] = L.ci[p]
      /\ \A p \in Base(n) + 1..m : a[p] = "lua"
      /\ \A p \in m + 1..Len(a) : a[p] # "lua" /\ a[p] # "main"
      /\ cstack'[n].n = m - Base(n)
  <2>1. th'[R] \in ThreadSet /\ th[R] \in ThreadSet
    BY <1>1, Zenon DEF Ran, TypeInv
  <2>2. a \in Seq(Functions) /\ th[R].ci \in Seq(Functions)
    BY <2>1, Zenon DEF ThreadSet
  <2>3. L.ci \in Seq(Functions) /\ Len(L.ci) \in Nat /\ DOMAIN L.ci = 1..Len(L.ci)
    BY <1>1, <2>2
  <2>4. Base(n) \in Nat
    BY <1>1, <1>5
  <2>5. /\ m \in Base(n) + 1..Len(a) /\ Len(a) <= m + 1
        /\ \A p \in 1..Base(n) : a[p] = L.ci[p]
        /\ \A p \in Base(n) + 1..m : a[p] = "lua"
        /\ \A p \in m + 1..Len(a) : a[p] # "lua" /\ a[p] # "main"
        /\ cstack'[n].n = m - Base(n)
    BY <1>1, Zenon DEF Ran
  <2>6. Len(a) \in Nat /\ DOMAIN a = 1..Len(a)
    BY ONLY <2>2
  <2>7. m \in Nat
    BY ONLY <2>4, <2>5, <2>6
  <2> QED
    BY ONLY <2>2, <2>3, <2>4, <2>5, <2>6, <2>7
<1>7. \A i \in 1..n : i < n => Upto(i)' = Upto(i) /\ Upto(i) \in Nat
  <2>1. ASSUME NEW i \in 1..n, i < n
        PROVE  Upto(i)' = Upto(i) /\ Upto(i) \in Nat
    <3>1. i + 1 \in 1..n /\ i < Len(cstack) /\ i < Len(cstack')
      BY <1>1, <1>2, <2>1
    <3>2. cstack'[i].t = cstack[i].t /\ cstack'[i + 1].t = cstack[i + 1].t
      BY <1>2, <3>1, Zenon
    <3>3. CASE cstack[i + 1].t = cstack[i].t
      <4>1. Base(i + 1)' = Base(i + 1) /\ Base(i + 1) \in Nat
        BY <1>5, <3>1
      <4> QED
        BY ONLY <3>1, <3>2, <3>3, <4>1 DEF Upto
    <3>4. CASE cstack[i + 1].t # cstack[i].t
      <4>1. cstack[i].t # R
        <5>1. CASE cstack[i].t = R
          <6>1. i \in DOMAIN cstack /\ n \in DOMAIN cstack /\ i <= n /\ i + 1 \in i..n
            BY <1>1, <3>1
          <6>2. \A j \in i..n : cstack[j].t = cstack[i].t
            BY <5>1, <6>1, Zenon DEF PieceInv
          <6> QED
            BY <3>4, <6>1, <6>2
        <5> QED
          BY <5>1
      <4>2. th'[cstack'[i].t] = th[cstack[i].t]
        BY <1>5, <3>2, <4>1
      <4>3. Len(th[cstack[i].t].ci) \in Nat
        BY <1>5, Types, Zenon
      <4>4. cstack'[i + 1].t # cstack'[i].t
        BY <3>2, <3>4
      <4> QED
        BY ONLY <3>1, <3>4, <4>2, <4>3, <4>4 DEF Upto
    <3> QED
      BY <3>3, <3>4
  <2> QED
    BY <2>1
<1>8. Upto(n)' = Len(a)
  BY ONLY <1>1, <1>2 DEF Upto
<1>9. ASSUME NEW i \in 1..n, i < n
      PROVE  /\ Base(i) <= Upto(i) /\ Upto(i) <= Len(th'[cstack[i].t].ci)
             /\ \A p \in 1..Upto(i) : th'[cstack[i].t].ci[p] = th[cstack[i].t].ci[p]
  <2>1. i \in DOMAIN cstack /\ n \in DOMAIN cstack
    BY <1>1
  <2>2. Base(i) <= Upto(i) /\ Upto(i) <= Len(th[cstack[i].t].ci)
    BY <2>1 DEF OwnerInv
  <2>3. CASE cstack[i].t = R
    <3>1. Upto(i) <= Base(n)
      BY <1>9, <2>1, <2>3 DEF OwnerInv
    <3>2. Upto(i) \in Nat
      BY <1>7, <1>9
    <3>3. Upto(i) <= Len(a) /\ \A p \in 1..Upto(i) : p \in 1..Base(n)
      BY ONLY <1>6, <3>1, <3>2
    <3>4. \A p \in 1..Upto(i) : a[p] = th[R].ci[p]
      BY <1>1, <1>6, <3>3, Zenon
    <3> QED
      BY <2>2, <2>3, <3>3, <3>4
  <2>4. CASE cstack[i].t # R
    <3>1. th'[cstack[i].t] = th[cstack[i].t]
      BY <1>5, <2>4
    <3> QED
      BY <2>2, <3>1
  <2> QED
    BY <2>3, <2>4
<1>10. ASSUME NEW i \in 1..n, i < n
       PROVE  Owned(i)' = Owned(i)
  <2>1. Owned(i)' = {p \in Base(i) + 1..Upto(i) : th'[cstack[i].t].ci[p] = "lua"}
    BY <1>2, <1>5, <1>7, <1>10, Zenon DEF Owned
  <2>2. Base(i) \in Nat /\ Upto(i) \in Nat
    BY <1>5, <1>7, <1>10
  <2>3. \A p \in Base(i) + 1..Upto(i) : p \in 1..Upto(i)
    BY ONLY <2>2
  <2>4. \A p \in Base(i) + 1..Upto(i) : th'[cstack[i].t].ci[p] = th[cstack[i].t].ci[p]
    BY <1>9, <1>10, <2>3
  <2> QED
    BY ONLY <2>1, <2>4 DEF Owned
<1>11. Owned(n)' = Base(n) + 1..m /\ Cardinality(Owned(n)') = m - Base(n)
  <2>1. Owned(n)' = {p \in Base(n) + 1..Len(a) : a[p] = "lua"}
    BY <1>1, <1>2, <1>5, <1>8, Zenon DEF Owned
  <2>2. \A p \in Base(n) + 1..Len(a) : a[p] = "lua" <=> p \in Base(n) + 1..m
    BY ONLY <1>6
  <2>3. \A p \in Base(n) + 1..m : p \in Base(n) + 1..Len(a)
    BY ONLY <1>6
  <2>4. Owned(n)' = Base(n) + 1..m
    BY ONLY <2>1, <2>2, <2>3
  <2>5. Base(n) + 1 \in Int /\ m \in Int /\ ~ (Base(n) + 1 > m)
    BY ONLY <1>6
  <2>6. Cardinality(Base(n) + 1..m) =
          IF Base(n) + 1 > m THEN 0 ELSE m - (Base(n) + 1) + 1
    BY ONLY <2>5, FS_Interval
  <2>7. Cardinality(Base(n) + 1..m) = m - Base(n)
    BY ONLY <1>6, <2>5, <2>6
  <2> QED
    BY <2>4, <2>7
<1>12. OwnerInv'
  <2>1. ASSUME NEW i \in 1..n, i < n
        PROVE  /\ Base(i)' <= Upto(i)' /\ Upto(i)' <= Len(th'[cstack'[i].t].ci)
               /\ i # 2 => cstack'[i].n = Cardinality(Owned(i)')
               /\ i > 2 /\ cstack'[i].n = 0 => Base(i)' = Upto(i)'
               /\ \A p \in Base(i)' + 1..Upto(i)' - 1 : th'[cstack'[i].t].ci[p] = "lua"
    <3>1. /\ cstack'[i] = cstack[i] /\ Base(i)' = Base(i) /\ Base(i) \in Nat /\ Owned(i)' = Owned(i)
          /\ Upto(i)' = Upto(i) /\ Upto(i) \in Nat /\ i \in DOMAIN cstack
      BY <1>1, <1>2, <1>5, <1>7, <1>10, <2>1
    <3>2. /\ Base(i) <= Upto(i)
          /\ i # 2 => cstack[i].n = Cardinality(Owned(i))
          /\ i > 2 /\ cstack[i].n = 0 => Base(i) = Upto(i)
          /\ \A p \in Base(i) + 1..Upto(i) - 1 : th[cstack[i].t].ci[p] = "lua"
      BY <3>1, Zenon DEF OwnerInv
    <3>3. \A p \in Base(i) + 1..Upto(i) - 1 : p \in 1..Upto(i)
      BY ONLY <3>1
    <3>4. \A p \in Base(i) + 1..Upto(i) - 1 : th'[cstack[i].t].ci[p] = "lua"
      BY <1>9, <2>1, <3>2, <3>3, Zenon
    <3>5. Upto(i) <= Len(th'[cstack[i].t].ci)
      BY <1>9, <2>1
    <3> QED
      BY ONLY <3>1, <3>2, <3>4, <3>5
  <2>2. /\ Base(n)' <= Upto(n)' /\ Upto(n)' <= Len(th'[cstack'[n].t].ci)
        /\ n # 2 => cstack'[n].n = Cardinality(Owned(n)')
        /\ n > 2 /\ cstack'[n].n = 0 => Base(n)' = Upto(n)'
        /\ \A p \in Base(n)' + 1..Upto(n)' - 1 : th'[cstack'[n].t].ci[p] = "lua"
    <3>1. Base(n)' = Base(n) /\ cstack'[n].t = R
      BY <1>1, <1>2, <1>5
    <3>2. \A p \in Base(n) + 1..Len(a) - 1 : p \in Base(n) + 1..m
      BY ONLY <1>6
    <3>3. Base(n) <= Len(a) /\ Len(a) <= Len(a) /\ m - Base(n) # 0
      BY ONLY <1>6
    <3>4. \A p \in Base(n) + 1..Len(a) - 1 : a[p] = "lua"
      BY ONLY <1>6, <3>2, Zenon
    <3>5. cstack'[n].n = m - Base(n)
      BY ONLY <1>6
    <3> QED
      BY ONLY <1>8, <1>11, <3>1, <3>3, <3>4, <3>5
  <2>3. ASSUME NEW i \in 1..n, NEW j \in 1..n, i < j, cstack'[i].t = cstack'[j].t
        PROVE  Upto(i)' <= Base(j)'
    <3>1. Upto(i) <= Base(j)
      BY <1>1, <1>2, <2>3, Zenon DEF OwnerInv
    <3>2. i < n /\ Base(j)' = Base(j)
      BY <1>1, <1>5, <2>3
    <3>3. Upto(i)' = Upto(i)
      BY <1>7, <3>2
    <3> QED
      BY ONLY <3>1, <3>2, <3>3
  <2>4. \A i \in 1..n : i < n \/ i = n
    BY <1>1
  <2> QED
    BY ONLY <1>2, <2>1, <2>2, <2>3, <2>4 DEF OwnerInv
<1>13. MainInv'
  <2>1. R = Main => Base(n) >= 1
    BY <1>1, MainBase
  <2>2. ASSUME NEW p \in DOMAIN a
        PROVE  a[p] = "main" <=> R = Main /\ p = 1
    <3>1. CASE p \in 1..Base(n)
      <4>1. a[p] = L.ci[p] /\ p \in DOMAIN L.ci
        <5>1. Base(n) \in Nat /\ Base(n) <= Len(L.ci) /\ Len(L.ci) \in Nat
              /\ DOMAIN L.ci = 1..Len(L.ci)
          BY <1>1, <1>6
        <5>2. p \in DOMAIN L.ci
          BY ONLY <3>1, <5>1
        <5>3. \A q \in 1..Base(n) : a[q] = L.ci[q]
          BY ONLY <1>6, Zenon
        <5> QED
          BY <3>1, <5>2, <5>3
      <4> QED
        BY <1>1, <4>1 DEF MainInv
    <3>2. CASE p \notin 1..Base(n)
      <4>1. p # 1 \/ R # Main
        BY <1>6, <2>1, <3>2
      <4>2. p \in Base(n) + 1..m \/ p \in m + 1..Len(a)
        BY ONLY <1>6, <3>2, p \in DOMAIN a
      <4>3. a[p] # "main"
        BY <1>6, <4>2, Zenon
      <4> QED
        BY <4>1, <4>3
    <3> QED
      BY <3>1, <3>2
  <2>3. ASSUME NEW t \in Threads, t # R
        PROVE  th'[t] = th[t]
    BY <1>1, <2>3 DEF Ran
  <2>4. Len(th'[Main].ci) >= 1
    <3>1. CASE R = Main
      <4>1. Len(a) >= 1
        BY ONLY <1>6, <2>1, <3>1
      <4> QED
        BY <3>1, <4>1
    <3>2. CASE R # Main
      BY <2>3, <3>2 DEF MainInv
    <3> QED
      BY <3>1, <3>2
  <2>5. ASSUME NEW t \in Threads, NEW p \in DOMAIN th'[t].ci
        PROVE  th'[t].ci[p] = "main" <=> t = Main /\ p = 1
    <3>1. CASE t = R
      BY <2>2, <3>1
    <3>2. CASE t # R
      BY <2>3, <3>2 DEF MainInv
    <3> QED
      BY <3>1, <3>2
  <2> QED
    BY <2>4, <2>5 DEF MainInv
<1>14. BottomInv'
  <2>1. /\ 1 \in 1..n /\ 2 \in 1..n /\ 3 \in 1..n /\ 1 < n /\ 2 < n /\ n # 2 /\ n >= 2
        /\ Len(cstack) # 2
    BY <1>0
  <2>2. /\ cstack'[1] = cstack[1] /\ cstack'[2] = cstack[2]
        /\ cstack'[3].kind = cstack[3].kind /\ cstack'[3].t = cstack[3].t
        /\ cstack'[3].ci = cstack[3].ci
    BY <1>2, <2>1
  <2> QED
    BY <1>2, <2>1, <2>2 DEF BottomInv
<1>15. PieceInv'
  <2>1. ASSUME NEW i \in 2..n
        PROVE  /\ cstack'[i].kind # "resume" => cstack'[i].t = cstack'[i - 1].t
               /\ cstack'[i].kind = "resume" =>
                    /\ cstack'[i].t \in Coroutines
                    /\ cstack'[i - 1].n > 0
                    /\ \A j \in 1..i - 1 : cstack'[j].t # cstack'[i].t
    <3>1. /\ i \in 2..Len(cstack) /\ cstack'[i].t = cstack[i].t /\ cstack'[i].kind = cstack[i].kind
          /\ cstack'[i - 1] = cstack[i - 1] /\ \A j \in 1..i - 1 : cstack'[j].t = cstack[j].t
      BY <1>0, <1>2
    <3> QED
      BY <3>1 DEF PieceInv
  <2>2. ASSUME NEW i \in 1..n, NEW j \in 1..n, i <= j, cstack'[i].t = cstack'[j].t,
               NEW q \in i..j
        PROVE  cstack'[q].t = cstack'[i].t
    <3>1. i \in DOMAIN cstack /\ j \in DOMAIN cstack /\ cstack[i].t = cstack[j].t /\ q \in 1..n
      BY <1>0, <1>2, <2>2
    <3>2. cstack[q].t = cstack[i].t
      BY <2>2, <3>1 DEF PieceInv
    <3> QED
      BY <1>2, <3>1, <3>2
  <2>3. ASSUME NEW i \in 1..n, cstack'[i].t # Main
        PROVE  \E r \in 1..i : cstack'[r].kind = "resume" /\ cstack'[r].t = cstack'[i].t
    <3>1. i \in DOMAIN cstack /\ cstack[i].t # Main
      BY <1>0, <1>2, <2>3
    <3>2. PICK r \in 1..i : cstack[r].kind = "resume" /\ cstack[r].t = cstack[i].t
      BY <3>1 DEF PieceInv
    <3>3. r \in 1..n
      BY <1>0
    <3> QED
      BY <1>2, <3>2, <3>3
  <2> QED
    BY ONLY <1>2, <2>1, <2>2, <2>3 DEF PieceInv
<1>16. StatusInv'
  <2>1. ASSUME NEW i \in 1..n
        PROVE  /\ th'[cstack'[i].t].status = "ok"
               /\ cstack'[i].t # R =>
                    /\ th'[cstack'[i].t].ci # <<>>
                    /\ Last(th'[cstack'[i].t].ci) \in {"resume", "wrap"}
    <3>1. CASE cstack[i].t = R
      BY <1>1, <1>2, <3>1, Zenon DEF Ran
    <3>2. CASE cstack[i].t # R
      <4>1. th'[cstack'[i].t] = th[cstack[i].t] /\ i \in DOMAIN cstack /\ cstack[i].t # Running
        BY <1>1, <1>2, <1>5, <3>2, Zenon
      <4> QED
        BY <4>1 DEF StatusInv
    <3> QED
      BY <3>1, <3>2
  <2>2. ASSUME NEW t \in Threads, th'[t].status = "yield"
        PROVE  /\ th'[t].ci # <<>> /\ Last(th'[t].ci) = "yield"
               /\ \A p \in 1..Len(th'[t].ci) - 1 : th'[t].ci[p] = "lua"
    <3>1. t # R
      BY <1>1, <2>2 DEF Ran
    <3>2. th'[t] = th[t]
      BY <1>1, <3>1 DEF Ran
    <3> QED
      BY <2>2, <3>2 DEF StatusInv
  <2> QED
    BY ONLY <1>2, <1>3, <2>1, <2>2 DEF StatusInv
<1>17. \A i \in 0..n : Levels(i)' = Levels(i)
  BY <1>0, <1>2 DEF Levels, LevelsIn
<1>18. ASSUME NEW t \in Threads
       PROVE  /\ th'[t].nCcalls = th[t].nCcalls /\ th'[t].baseCcalls = th[t].baseCcalls
              /\ th'[t].errorJmp = th[t].errorJmp
  BY <1>1, Zenon DEF Ran
<1>19. LevelInv'
  <2>1. ASSUME NEW i \in 1..n
        PROVE  /\ IsLast(i)' => th'[cstack'[i].t].nCcalls = Cardinality(Levels(i)')
               /\ cstack'[i].kind = "resume" =>
                    th'[cstack'[i].t].baseCcalls = Cardinality(Levels(i)')
    <3>1. /\ Levels(i)' = Levels(i) /\ cstack'[i].t = cstack[i].t
          /\ cstack'[i].kind = cstack[i].kind
          /\ th'[cstack[i].t].nCcalls = th[cstack[i].t].nCcalls
          /\ th'[cstack[i].t].baseCcalls = th[cstack[i].t].baseCcalls
      BY <1>0, <1>2, <1>5, <1>17, <1>18
    <3>2. IsLast(i)' => IsLast(i)
      <4>1. i = n \/ i + 1 \in 1..n
        BY <1>0
      <4>2. CASE i = n
        BY <1>0, <4>2 DEF IsLast
      <4>3. CASE i + 1 \in 1..n
        <5>1. cstack'[i + 1].t = cstack[i + 1].t
          BY <1>2, <4>3
        <5> QED
          BY ONLY <1>0, <1>2, <3>1, <5>1 DEF IsLast
      <4> QED
        BY <4>1, <4>2, <4>3
    <3> QED
      BY <1>0, <3>1, <3>2 DEF LevelInv
  <2>2. ASSUME NEW i \in 1..n, cstack'[i].kind = "pcall"
        PROVE  cstack'[i].nCcalls = Cardinality(Levels(i - 1)')
    <3>1. i < n
      BY <1>1, <1>2, <2>2
    <3>2. cstack'[i] = cstack[i] /\ Levels(i - 1)' = Levels(i - 1) /\ i \in DOMAIN cstack
      BY <1>0, <1>2, <1>17, <3>1
    <3> QED
      BY <2>2, <3>2 DEF LevelInv
  <2>3. th'[Main].baseCcalls = 0
    BY <1>18 DEF LevelInv
  <2> QED
    BY ONLY <1>2, <2>1, <2>2, <2>3 DEF LevelInv
<1>20. LimitInv'
  <2>1. \A t \in Threads : th'[t].size <= 2 * LUAI_MAXCALLS
    BY <1>1, Zenon DEF Ran, LimitInv
  <2>2. L'.nCcalls = L.nCcalls /\ raising = "no" /\ raising' = "no"
    BY <1>1, <1>3, <1>18 DEF Ran
  <2> QED
    BY <2>1, <2>2 DEF LimitInv
<1>21. ASSUME NEW t, NEW i \in 0..n
       PROVE  Jumps(t, i)' = Jumps(t, i)
  BY <1>0, <1>2 DEF Jumps
<1>22. JumpInv'
  <2>1. ASSUME NEW t \in Threads
        PROVE  Innermost(th[t].errorJmp, t, Len(cstack))'
    <3>1. Innermost(th[t].errorJmp, t, n)
      BY <1>0 DEF JumpInv
    <3>2. Jumps(t, n)' = Jumps(t, n) /\ th'[t].errorJmp = th[t].errorJmp
      BY <1>0, <1>18, <1>21
    <3> QED
      BY <1>2, <3>1, <3>2 DEF Innermost
  <2>2. ASSUME NEW i \in 1..n, cstack'[i].kind \in {"pcall", "resume"}
        PROVE  Innermost(cstack[i].previous, cstack[i].t, i - 1)'
    <3>1. Innermost(cstack[i].previous, cstack[i].t, i - 1)
      BY <1>0, <1>2, <2>2, Zenon DEF JumpInv
    <3>2. Jumps(cstack[i].t, i - 1)' = Jumps(cstack[i].t, i - 1)
      BY <1>0, <1>2 DEF Jumps
    <3>3. cstack'[i].previous = cstack[i].previous
      BY <1>2
    <3> QED
      BY <3>1, <3>2, <3>3 DEF Innermost
  <2> QED
    BY ONLY <1>2, <2>1, <2>2 DEF JumpInv
<1>23. ProtectedInv'
  <2>1. ASSUME NEW i \in 1..n, cstack'[i].kind = "pcall"
        PROVE  /\ cstack'[i].n = 0
               /\ i < n /\ cstack'[i + 1].kind = "call"
               /\ i > 1 => /\ cstack'[i + 1].ci = cstack'[i].ci
                           /\ cstack'[i - 1].n > 0
                           /\ cstack'[i].ci \in DOMAIN th'[cstack'[i].t].ci
                           /\ th'[cstack'[i].t].ci[cstack'[i].ci] \in {"pcall", "xpcall", "main"}
                           /\ th'[cstack'[i].t].ci[cstack'[i].ci] = "main" => i = 3
    <3>1. i < n /\ i + 1 \in 1..n
      BY <1>1, <1>2, <2>1
    <3>2. /\ i \in DOMAIN cstack /\ cstack'[i] = cstack[i] /\ cstack[i].kind = "pcall"
          /\ cstack'[i + 1].kind = cstack[i + 1].kind /\ cstack'[i + 1].ci = cstack[i + 1].ci
          /\ i > 1 => cstack'[i - 1] = cstack[i - 1]
      BY <1>0, <1>2, <2>1, <3>1
    <3>3. /\ cstack[i].n = 0
          /\ cstack[i + 1].kind = "call"
          /\ i > 1 => /\ cstack[i + 1].ci = cstack[i].ci
                      /\ cstack[i - 1].n > 0
                      /\ cstack[i].ci \in DOMAIN th[cstack[i].t].ci
                      /\ th[cstack[i].t].ci[cstack[i].ci] \in {"pcall", "xpcall", "main"}
                      /\ th[cstack[i].t].ci[cstack[i].ci] = "main" => i = 3
      BY <3>2, Zenon DEF ProtectedInv
    <3>4. ASSUME i > 1
          PROVE  /\ cstack[i].ci \in DOMAIN th'[cstack[i].t].ci
                 /\ th'[cstack[i].t].ci[cstack[i].ci] = th[cstack[i].t].ci[cstack[i].ci]
      <4>1. cstack[i].ci = Base(i) /\ Base(i) \in Nat /\ Upto(i) \in Nat
        BY <1>5, <1>7, <3>1, <3>2 DEF Base
      <4>2. Base(i) <= Upto(i) /\ Upto(i) <= Len(th'[cstack[i].t].ci)
            /\ \A p \in 1..Upto(i) : th'[cstack[i].t].ci[p] = th[cstack[i].t].ci[p]
        BY <1>9, <3>1, Zenon
      <4>3. DOMAIN th'[cstack[i].t].ci = 1..Len(th'[cstack[i].t].ci)
            /\ Len(th'[cstack[i].t].ci) \in Nat
        <5>1. th'[cstack[i].t] \in ThreadSet
          BY <1>5, Zenon DEF Ran
        <5>2. th'[cstack[i].t].ci \in Seq(Functions)
          BY ONLY <5>1 DEF ThreadSet
        <5> QED
          BY ONLY <5>2
      <4>4. Base(i) >= 1
        <5>1. Base(i) \in DOMAIN th[cstack[i].t].ci
          BY <3>3, <3>4, <4>1
        <5>2. DOMAIN th[cstack[i].t].ci = 1..Len(th[cstack[i].t].ci)
          BY <1>5, Types
        <5> QED
          BY <5>1, <5>2
      <4>5. Base(i) \in 1..Upto(i) /\ Base(i) \in 1..Len(th'[cstack[i].t].ci)
        BY ONLY <4>1, <4>2, <4>3, <4>4
      <4> QED
        BY <4>1, <4>2, <4>3, <4>5, Zenon
    <3> QED
      BY ONLY <3>1, <3>2, <3>3, <3>4
  <2> QED
    BY ONLY <1>2, <2>1 DEF ProtectedInv
<1>25. Keeps
  <2>1. Running' = cstack[n].t /\ n \in 1..Len(cstack)
    BY <1>1, <1>3
  <2>2. \A t \in Threads : t # R => th'[t] = th[t]
    BY <1>1 DEF Ran
  <2>3. th'[R].status = th[R].status
    BY <1>1 DEF Ran
  <2>4. \A t \in Threads : Has(t, Len(cstack)) \/ th'[t] = th[t]
    BY <1>1, <2>2 DEF Has
  <2> QED
    BY <2>1, <2>2, <2>3, <2>4, StepKeeps
<1> QED
  BY <1>25, <1>4, <1>12, <1>13, <1>14, <1>15, <1>16, <1>19, <1>20, <1>22, <1>23

-----------------------------------------------------------------------------
(* Calls from C *)

\* The same of another stack, c.
JumpsIn(c, t, n) == {i \in 1..n : c[i].t = t /\ c[i].kind \in {"pcall", "resume"}}
InnermostIn(c, m, t, n) ==
  \/ m = 0 /\ JumpsIn(c, t, n) = {}
  \/ m \in JumpsIn(c, t, n) /\ \A j \in JumpsIn(c, t, n) : j <= m

\* The running thread has more frames above its last one; none of the new ones
\* runs anything yet, and a luaD_pcall has called.
Called(n, q, R, len) ==
  /\ n = Len(cstack) /\ q = Len(cstack') /\ R = Running /\ len = Len(L.ci)
  /\ cstack' \in Seq(FrameSet) /\ n < q
  /\ \A i \in 1..n : cstack'[i] = cstack[i]
  /\ \A i \in n + 1..q :
       /\ cstack'[i].t = R /\ cstack'[i].n = 0 /\ cstack'[i].ci = len
       /\ cstack'[i].kind \in {"call", "handler", "pcall"}
       /\ cstack'[i].kind = "pcall" =>
            /\ i = n + 1 /\ i < q /\ cstack'[i + 1].kind = "call"
            /\ cstack'[i].nCcalls = Cardinality(LevelsIn(cstack', i - 1))
            /\ InnermostIn(cstack', cstack'[i].previous, R, i - 1)
            /\ Top.n > 0 /\ L.ci # <<>> /\ Last(L.ci) \in {"pcall", "xpcall", "main"}
            /\ Last(L.ci) = "main" => n = 2
  /\ n = 2 => cstack'[3].kind = "pcall" /\ L.ci = <<"main">>
  /\ th' \in [Threads -> ThreadSet]
  /\ \A t \in Threads : t # R => th'[t] = th[t]
  /\ th'[R].ci = L.ci /\ th'[R].status = L.status /\ th'[R].baseCcalls = L.baseCcalls
  /\ th'[R].size = L.size
  /\ th'[R].nCcalls = Cardinality(LevelsIn(cstack', q))
  /\ InnermostIn(cstack', th'[R].errorJmp, R, q)
  /\ raising' \in {"no", "msg", "run", "err"}
  /\ th'[R].nCcalls <= LUAI_MAXCCALLS + Extra
  /\ raising' # "err" => th'[R].nCcalls < LUAI_MAXCCALLS + Extra

\* A step that pushes C frames for the running thread: a call, a handler, a pcall.
LEMMA Calls ==
  ASSUME IInv, NEW n, NEW q, NEW R, NEW len, Called(n, q, R, len)
  PROVE  IInv' /\ Keeps
<1> USE DEF IInv
<1>1. n = Len(cstack) /\ n \in Nat /\ n >= 2 /\ DOMAIN cstack = 1..n /\ n \in 1..n
  <2>1. n = Len(cstack)
    BY DEF Called
  <2> QED
    BY <2>1, Types DEF BottomInv
<1>2. q = Len(cstack') /\ q \in Nat /\ n < q /\ DOMAIN cstack' = 1..q /\ q \in n + 1..q
  <2>1. q = Len(cstack') /\ n < q /\ cstack' \in Seq(FrameSet)
    BY DEF Called
  <2>2. q \in Nat /\ DOMAIN cstack' = 1..q
    BY ONLY <2>1
  <2> QED
    BY ONLY <1>1, <2>1, <2>2
<1>3. /\ R \in Threads /\ R = cstack[n].t /\ R = Running /\ L = th[R] /\ L.status = "ok"
      /\ Top.kind # "pcall" /\ Upto(n) = Len(L.ci) /\ Base(n) <= Len(L.ci)
  <2>1. R = Running
    BY DEF Called
  <2> QED
    BY <1>1, <2>1, TopFrame
<1>4. len \in Nat /\ len = Len(L.ci) /\ DOMAIN L.ci = 1..len /\ L.ci \in Seq(Functions)
  <2>1. len = Len(L.ci)
    BY DEF Called
  <2> QED
    BY <1>3, <2>1, Types
<1>5. \A i \in 1..n : cstack'[i] = cstack[i] /\ i \in 1..q
  BY <1>1, <1>2 DEF Called
<1>6. \A i \in n + 1..q :
        /\ cstack'[i].t = R /\ cstack'[i].n = 0 /\ cstack'[i].ci = len
        /\ cstack'[i].kind \in {"call", "handler", "pcall"}
        /\ cstack'[i].kind = "pcall" =>
             /\ i = n + 1 /\ i < q /\ cstack'[i + 1].kind = "call"
             /\ cstack'[i].nCcalls = Cardinality(LevelsIn(cstack', i - 1))
             /\ InnermostIn(cstack', cstack'[i].previous, R, i - 1)
             /\ Top.n > 0 /\ L.ci # <<>> /\ Last(L.ci) \in {"pcall", "xpcall", "main"}
             /\ Last(L.ci) = "main" => n = 2
  BY Zenon DEF Called
<1>7. /\ \A i \in 1..q : i <= n \/ i \in n + 1..q
      /\ \A i \in 1..q : i <= n => i \in 1..n
      /\ \A i \in n + 1..q : i \in 1..q /\ n < i
  BY <1>1, <1>2
<1>7a. \A i \in n..q : cstack'[i].t = R
  <2>1. cstack'[n].t = R
    BY ONLY <1>1, <1>3, <1>5
  <2>2. \A i \in n + 1..q : cstack'[i].t = R
    BY ONLY <1>6
  <2>3. \A i \in n..q : i = n \/ i \in n + 1..q
    BY ONLY <1>1, <1>2
  <2> QED
    BY ONLY <2>1, <2>2, <2>3
<1>8. /\ \A t \in Threads : t # R => th'[t] = th[t]
      /\ \A t \in Threads : /\ th'[t].ci = th[t].ci /\ th'[t].status = th[t].status
                            /\ th'[t].baseCcalls = th[t].baseCcalls /\ th'[t].size = th[t].size
  <2>1. \A t \in Threads : t # R => th'[t] = th[t]
    BY DEF Called
  <2>2. /\ th'[R].ci = th[R].ci /\ th'[R].status = th[R].status
        /\ th'[R].baseCcalls = th[R].baseCcalls /\ th'[R].size = th[R].size
    BY <1>3 DEF Called
  <2> QED
    BY <2>1, <2>2
<1>9. Running' = R /\ L' = th'[R]
  <2>1. cstack'[q].t = R
    BY <1>2, <1>6
  <2> QED
    BY <1>2, <2>1 DEF Running, Top, Last, L
<1>10. TypeInv'
  BY DEF TypeInv, Called
<1>11. \A i \in 1..n : Base(i)' = Base(i) /\ Base(i) \in Nat /\ cstack[i].t \in Threads
  <2>1. ASSUME NEW i \in 1..n
        PROVE  Base(i)' = Base(i) /\ Base(i) \in Nat /\ cstack[i].t \in Threads
    <3>1. cstack[i].ci \in Nat /\ cstack[i].t \in Threads
      BY <1>1, Types
    <3> QED
      BY <1>5, <3>1 DEF Base
  <2> QED
    BY <2>1
<1>12. \A i \in n + 1..q : Base(i)' = len
  BY <1>6 DEF Base
<1>13. \A i \in n + 1..q : Upto(i)' = len
  <2>1. ASSUME NEW i \in n + 1..q
        PROVE  Upto(i)' = len
    <3>1. CASE i < q
      <4>1. i + 1 \in n + 1..q
        BY <1>1, <1>2, <3>1
      <4>2. cstack'[i + 1].t = cstack'[i].t /\ Base(i + 1)' = len
        BY <1>6, <1>12, <4>1
      <4> QED
        BY ONLY <1>2, <3>1, <4>2 DEF Upto
    <3>2. CASE i = q
      <4>1. cstack'[i].t = R /\ th'[R].ci = L.ci
        BY <1>3, <1>6, <1>8
      <4> QED
        BY ONLY <1>2, <1>4, <3>2, <4>1 DEF Upto
    <3> QED
      BY <1>2, <3>1, <3>2
  <2> QED
    BY <2>1
<1>14. \A i \in 1..n : Upto(i)' = Upto(i) /\ Upto(i) \in Nat
  <2>1. ASSUME NEW i \in 1..n, i < n
        PROVE  Upto(i)' = Upto(i) /\ Upto(i) \in Nat
    <3>1. i + 1 \in 1..n /\ i < q
      BY <1>1, <1>2, <2>1
    <3>2. cstack'[i].t = cstack[i].t /\ cstack'[i + 1].t = cstack[i + 1].t
          /\ Base(i + 1)' = Base(i + 1) /\ Base(i + 1) \in Nat
      BY <1>5, <1>11, <3>1
    <3>3. th'[cstack[i].t].ci = th[cstack[i].t].ci /\ Len(th[cstack[i].t].ci) \in Nat
      BY <1>8, <1>11, Types, Zenon
    <3> QED
      BY ONLY <1>1, <1>2, <2>1, <3>1, <3>2, <3>3 DEF Upto
  <2>2. Upto(n)' = Upto(n) /\ Upto(n) \in Nat
    <3>1. n + 1 \in n + 1..q
      BY <1>1, <1>2
    <3>2. cstack'[n + 1].t = cstack'[n].t /\ Base(n + 1)' = len
      BY <1>1, <1>3, <1>5, <1>6, <1>12, <3>1, Zenon
    <3>3. Upto(n)' = len
      BY ONLY <1>2, <3>2 DEF Upto
    <3> QED
      BY <1>3, <1>4, <3>3
  <2> QED
    BY <1>1, <2>1, <2>2
<1>15. OwnerInv'
  <2>1. ASSUME NEW i \in 1..n
        PROVE  /\ Base(i)' <= Upto(i)' /\ Upto(i)' <= Len(th'[cstack'[i].t].ci)
               /\ i # 2 => cstack'[i].n = Cardinality(Owned(i)')
               /\ i > 2 /\ cstack'[i].n = 0 => Base(i)' = Upto(i)'
               /\ \A p \in Base(i)' + 1..Upto(i)' - 1 : th'[cstack'[i].t].ci[p] = "lua"
    <3>1. /\ cstack'[i] = cstack[i] /\ Base(i)' = Base(i) /\ Upto(i)' = Upto(i)
          /\ th'[cstack[i].t].ci = th[cstack[i].t].ci /\ i \in DOMAIN cstack
      BY <1>1, <1>5, <1>8, <1>11, <1>14, Zenon
    <3>2. Owned(i)' = Owned(i)
      BY ONLY <3>1 DEF Owned
    <3> QED
      BY <3>1, <3>2 DEF OwnerInv
  <2>2. ASSUME NEW i \in n + 1..q
        PROVE  /\ Base(i)' <= Upto(i)' /\ Upto(i)' <= Len(th'[cstack'[i].t].ci)
               /\ i # 2 => cstack'[i].n = Cardinality(Owned(i)')
               /\ i > 2 /\ cstack'[i].n = 0 => Base(i)' = Upto(i)'
               /\ \A p \in Base(i)' + 1..Upto(i)' - 1 : th'[cstack'[i].t].ci[p] = "lua"
    <3>1. /\ Base(i)' = len /\ Upto(i)' = len /\ cstack'[i].n = 0
          /\ th'[cstack'[i].t].ci = L.ci
      BY <1>3, <1>6, <1>8, <1>12, <1>13
    <3>2. \A p \in len + 1..len : FALSE
      BY ONLY <1>4
    <3>3. \A p \in len + 1..len - 1 : FALSE
      BY ONLY <1>4
    <3>4. Owned(i)' = {}
      BY ONLY <3>1, <3>2 DEF Owned
    <3>5. len <= len /\ len <= Len(th'[cstack'[i].t].ci)
      BY <1>4, <3>1
    <3> QED
      BY <3>1, <3>3, <3>4, <3>5, FS_EmptySet
  <2>3. ASSUME NEW i \in 1..q, NEW j \in 1..q, i < j, cstack'[i].t = cstack'[j].t
        PROVE  Upto(i)' <= Base(j)'
    <3>1. CASE j <= n
      <4>1. i \in 1..n /\ j \in 1..n
        BY <1>1, <2>3, <3>1
      <4>2. Upto(i) <= Base(j)
        BY <1>1, <1>5, <2>3, <4>1, Zenon DEF OwnerInv
      <4> QED
        BY <1>11, <1>14, <4>1, <4>2
    <3>2. CASE j \in n + 1..q
      <4>1. Base(j)' = len /\ cstack'[i].t = R
        BY <1>6, <1>12, <2>3, <3>2
      <4>2. CASE i \in 1..n
        <5>1. Upto(i) <= Len(th[cstack[i].t].ci) /\ cstack[i].t = R
          BY <1>1, <1>5, <4>1, <4>2, Zenon DEF OwnerInv
        <5>2. Upto(i)' = Upto(i)
          BY <1>14, <4>2
        <5> QED
          BY ONLY <1>3, <1>4, <4>1, <5>1, <5>2
      <4>3. CASE i \in n + 1..q
        BY <1>4, <1>13, <4>1, <4>3
      <4> QED
        BY <1>7, <4>2, <4>3
    <3> QED
      BY <1>7, <3>1, <3>2
  <2>4. \A i \in 1..q : i \in 1..n \/ i \in n + 1..q
    BY <1>7
  <2> QED
    BY ONLY <1>2, <2>1, <2>2, <2>3, <2>4 DEF OwnerInv
<1>16. MainInv'
  BY <1>8 DEF MainInv
<1>17. BottomInv'
  <2>1. /\ 1 \in 1..n /\ 2 \in 1..n /\ q >= 2 /\ q # 2
        /\ n = 2 => 3 \in n + 1..q
        /\ n # 2 => 3 \in 1..n
    BY <1>1, <1>2
  <2>2. cstack'[3].kind = "pcall" /\ cstack'[3].t = Main /\ cstack'[3].ci = 1
    <3>1. CASE n = 2
      <4>1. cstack'[3].t = R /\ cstack'[3].ci = len /\ cstack'[3].kind = "pcall" /\ L.ci = <<"main">>
        BY <1>6, <2>1, <3>1 DEF Called
      <4>2. R = Main
        BY <1>3, <3>1, Zenon DEF BottomInv
      <4>3. len = 1
        BY <1>4, <4>1
      <4> QED
        BY <4>1, <4>2, <4>3
    <3>2. CASE n # 2
      BY <1>1, <1>5, <2>1, <3>2 DEF BottomInv
    <3> QED
      BY <3>1, <3>2
  <2>3. cstack'[1] = cstack[1] /\ cstack'[2] = cstack[2]
    BY <1>5, <2>1
  <2> QED
    BY <1>2, <2>1, <2>2, <2>3 DEF BottomInv
<1>18. \A i \in 1..n : cstack[i].t = R => \A j \in 1..n : i <= j => cstack[j].t = R
  <2>1. ASSUME NEW i \in 1..n, cstack[i].t = R, NEW j \in 1..n, i <= j
        PROVE  cstack[j].t = R
    <3>1. i \in DOMAIN cstack /\ n \in DOMAIN cstack /\ i <= n /\ j \in i..n
      BY <1>1, <2>1
    <3>2. cstack[i].t = cstack[n].t
      BY <1>3, <2>1
    <3> QED
      BY <2>1, <3>1, <3>2, OnePiece
  <2> QED
    BY <2>1
<1>19. PieceInv'
  <2>1. ASSUME NEW i \in 2..q
        PROVE  /\ cstack'[i].kind # "resume" => cstack'[i].t = cstack'[i - 1].t
               /\ cstack'[i].kind = "resume" =>
                    /\ cstack'[i].t \in Coroutines
                    /\ cstack'[i - 1].n > 0
                    /\ \A j \in 1..i - 1 : cstack'[j].t # cstack'[i].t
    <3>1. CASE i <= n
      <4>1. /\ i \in 2..Len(cstack) /\ cstack'[i] = cstack[i]
            /\ cstack'[i - 1] = cstack[i - 1] /\ \A j \in 1..i - 1 : cstack'[j] = cstack[j]
        BY <1>1, <1>5, <3>1
      <4>2. /\ cstack[i].kind # "resume" => cstack[i].t = cstack[i - 1].t
            /\ cstack[i].kind = "resume" =>
                 /\ cstack[i].t \in Coroutines
                 /\ cstack[i - 1].n > 0
                 /\ \A j \in 1..i - 1 : cstack[j].t # cstack[i].t
        BY <4>1 DEF PieceInv
      <4> QED
        BY ONLY <4>1, <4>2
    <3>2. CASE i \in n + 1..q
      <4>1. cstack'[i].kind # "resume" /\ cstack'[i].t = R
        BY <1>6, <3>2
      <4>2. i - 1 \in n..q
        BY ONLY <1>1, <1>2, <3>2
      <4>3. cstack'[i - 1].t = R
        BY ONLY <1>7a, <4>2
      <4> QED
        BY <4>1, <4>3
    <3> QED
      BY <1>1, <1>2, <3>1, <3>2
  <2>2. ASSUME NEW i \in 1..q, NEW j \in 1..q, i <= j, cstack'[i].t = cstack'[j].t,
               NEW m \in i..j
        PROVE  cstack'[m].t = cstack'[i].t
    <3>1. CASE j <= n
      <4>1. i \in 1..n /\ j \in 1..n /\ m \in 1..n /\ m \in i..j
        BY <1>1, <2>2, <3>1
      <4>2. i \in DOMAIN cstack /\ j \in DOMAIN cstack /\ cstack[i].t = cstack[j].t
        BY <1>1, <1>5, <2>2, <4>1
      <4>3. \A k \in i..j : cstack[k].t = cstack[i].t
        BY <2>2, <4>2, Zenon DEF PieceInv
      <4> QED
        BY <1>5, <4>1, <4>3
    <3>2. CASE j \in n + 1..q
      <4>1. cstack'[i].t = R
        BY <1>6, <2>2, <3>2
      <4>2. CASE m \in n + 1..q
        BY <1>6, <4>1, <4>2
      <4>3. CASE m <= n
        <5>1. i \in 1..n /\ m \in 1..n /\ i <= m
          BY <1>1, <4>3
        <5>2. cstack[m].t = R
          BY <1>5, <1>18, <4>1, <5>1
        <5> QED
          BY <1>5, <4>1, <5>1, <5>2
      <4>4. m <= n \/ m \in n + 1..q
        BY <1>1, <1>2
      <4> QED
        BY <4>2, <4>3, <4>4
    <3> QED
      BY <1>7, <3>1, <3>2
  <2>3. ASSUME NEW i \in 1..q, cstack'[i].t # Main
        PROVE  \E r \in 1..i : cstack'[r].kind = "resume" /\ cstack'[r].t = cstack'[i].t
    <3>1. PICK j \in 1..n : j <= i /\ cstack[j].t = cstack'[i].t
      <4>1. CASE i <= n
        BY <1>1, <1>5, <4>1
      <4>2. CASE i \in n + 1..q
        <5>1. n \in 1..n /\ n <= i /\ cstack[n].t = cstack'[i].t
          BY <1>1, <1>3, <1>6, <4>2
        <5> QED
          BY <5>1
      <4> QED
        BY <1>7, <4>1, <4>2
    <3>2. PICK r \in 1..j : cstack[r].kind = "resume" /\ cstack[r].t = cstack[j].t
      BY <1>1, <2>3, <3>1, Zenon DEF PieceInv
    <3>3. r \in 1..n /\ r \in 1..i
      BY <1>1, <3>1
    <3> QED
      BY <1>5, <3>1, <3>2, <3>3
  <2> QED
    BY ONLY <1>2, <2>1, <2>2, <2>3 DEF PieceInv
<1>20. StatusInv'
  <2>1. ASSUME NEW i \in 1..q
        PROVE  /\ th'[cstack'[i].t].status = "ok"
               /\ cstack'[i].t # R =>
                    /\ th'[cstack'[i].t].ci # <<>>
                    /\ Last(th'[cstack'[i].t].ci) \in {"resume", "wrap"}
    <3>1. CASE i \in 1..n
      <4>1. /\ i \in DOMAIN cstack /\ cstack'[i].t = cstack[i].t
            /\ th'[cstack[i].t].ci = th[cstack[i].t].ci
            /\ th'[cstack[i].t].status = th[cstack[i].t].status
        BY <1>1, <1>5, <1>8, <1>11, <3>1, Zenon
      <4> QED
        BY <1>3, <4>1 DEF StatusInv
    <3>2. CASE i \in n + 1..q
      BY <1>3, <1>6, <1>8, <3>2
    <3> QED
      BY <1>7, <3>1, <3>2
  <2>2. ASSUME NEW t \in Threads, th'[t].status = "yield"
        PROVE  /\ th'[t].ci # <<>> /\ Last(th'[t].ci) = "yield"
               /\ \A p \in 1..Len(th'[t].ci) - 1 : th'[t].ci[p] = "lua"
    BY <1>8, <2>2 DEF StatusInv
  <2> QED
    BY ONLY <1>2, <1>9, <2>1, <2>2 DEF StatusInv
<1>21. \A i \in 0..n : LevelsIn(cstack', i) = Levels(i)
  BY <1>1, <1>5 DEF Levels, LevelsIn
<1>22. LevelInv'
  <2>1. ASSUME NEW i \in 1..q, IsLast(i)'
        PROVE  th'[cstack'[i].t].nCcalls = Cardinality(Levels(i)')
    <3>1. CASE i = q
      <4>1. cstack'[i].t = R /\ th'[R].nCcalls = Cardinality(LevelsIn(cstack', q))
        BY <1>2, <1>6, <3>1 DEF Called
      <4> QED
        BY <3>1, <4>1 DEF Levels
    <3>2. CASE i < q
      <4>1. cstack'[i + 1].t # cstack'[i].t
        BY <1>2, <2>1, <3>2 DEF IsLast
      <4>2. i < n
        <5>1. CASE i >= n
          <6>1. i + 1 \in n + 1..q
            BY ONLY <1>1, <1>2, <3>2, <5>1
          <6>2. cstack'[i].t = R
            <7>1. i \in n..q
              BY ONLY <1>1, <1>2, <3>2, <5>1, i \in 1..q
            <7> QED
              BY ONLY <1>7a, <7>1
          <6> QED
            BY <1>6, <4>1, <6>1, <6>2
        <5> QED
          BY <1>1, <5>1
      <4>3. i \in 1..n /\ i + 1 \in 1..n
        BY <1>1, <4>2
      <4>4. cstack[i + 1].t # cstack[i].t
        BY <1>5, <4>1, <4>3
      <4>5. th[cstack[i].t].nCcalls = Cardinality(Levels(i))
        BY <1>1, <4>3, <4>4, Zenon DEF LevelInv, IsLast
      <4>6. cstack[i].t # R
        <5>1. CASE cstack[i].t = R
          <6>1. cstack[i + 1].t = R
            BY <1>1, <1>18, <4>3, <5>1
          <6> QED
            BY <4>4, <5>1, <6>1
        <5> QED
          BY <5>1
      <4>7. th'[cstack[i].t] = th[cstack[i].t] /\ Levels(i)' = Levels(i) /\ cstack'[i] = cstack[i]
        BY <1>1, <1>5, <1>8, <1>11, <1>21, <4>3, <4>6 DEF Levels
      <4> QED
        BY <4>5, <4>7
    <3> QED
      BY <1>2, <3>1, <3>2
  <2>2. ASSUME NEW i \in 1..q
        PROVE  /\ cstack'[i].kind = "pcall" => cstack'[i].nCcalls = Cardinality(Levels(i - 1)')
               /\ cstack'[i].kind = "resume" =>
                    th'[cstack'[i].t].baseCcalls = Cardinality(Levels(i)')
    <3>1. CASE i \in 1..n
      <4>1. /\ i \in DOMAIN cstack /\ cstack'[i] = cstack[i]
            /\ Levels(i)' = Levels(i) /\ Levels(i - 1)' = Levels(i - 1)
            /\ th'[cstack[i].t].baseCcalls = th[cstack[i].t].baseCcalls
        <5>1. i \in 0..n /\ i - 1 \in 0..n
          BY <1>1, <3>1
        <5>2. Levels(i)' = Levels(i) /\ Levels(i - 1)' = Levels(i - 1)
          BY ONLY <1>21, <5>1 DEF Levels
        <5> QED
          BY <1>1, <1>5, <1>8, <1>11, <3>1, <5>2, Zenon
      <4> QED
        BY <4>1 DEF LevelInv
    <3>2. CASE i \in n + 1..q
      BY <1>6, <3>2 DEF Levels
    <3> QED
      BY <1>7, <3>1, <3>2
  <2>3. th'[Main].baseCcalls = 0
    BY <1>8 DEF LevelInv
  <2> QED
    BY ONLY <1>2, <2>1, <2>2, <2>3 DEF LevelInv
<1>23. LimitInv'
  BY <1>8, <1>9 DEF LimitInv, Called
<1>24. ASSUME NEW t, NEW i \in 0..n
       PROVE  Jumps(t, i)' = Jumps(t, i)
  BY <1>1, <1>5 DEF Jumps
<1>25. JumpInv'
  <2>1. ASSUME NEW t \in Threads
        PROVE  Innermost(th[t].errorJmp, t, Len(cstack))'
    <3>1. CASE t = R
      <4>1. InnermostIn(cstack', th'[R].errorJmp, R, q)
        BY DEF Called
      <4> QED
        BY <1>2, <3>1, <4>1 DEF InnermostIn, JumpsIn, Innermost, Jumps
    <3>2. CASE t # R
      <4>1. Innermost(th[t].errorJmp, t, n) /\ th'[t] = th[t]
        BY <1>1, <1>8, <3>2 DEF JumpInv
      <4>2. Jumps(t, q)' = Jumps(t, n)
        <5>1. Jumps(t, q)' = {i \in 1..q : cstack'[i].t = t /\ cstack'[i].kind \in {"pcall", "resume"}}
          BY DEF Jumps
        <5>2. \A i \in 1..q : cstack'[i].t = t => i \in 1..n /\ cstack'[i] = cstack[i]
          BY <1>5, <1>6, <1>7, <3>2
        <5> QED
          BY ONLY <1>5, <5>1, <5>2 DEF Jumps
      <4> QED
        BY <1>2, <4>1, <4>2 DEF Innermost
    <3> QED
      BY <3>1, <3>2
  <2>2. ASSUME NEW i \in 1..q, cstack'[i].kind \in {"pcall", "resume"}
        PROVE  Innermost(cstack[i].previous, cstack[i].t, i - 1)'
    <3>1. CASE i \in 1..n
      <4>1. Innermost(cstack[i].previous, cstack[i].t, i - 1) /\ cstack'[i] = cstack[i]
        BY <1>1, <1>5, <2>2, <3>1, Zenon DEF JumpInv
      <4>2. Jumps(cstack[i].t, i - 1)' = Jumps(cstack[i].t, i - 1)
        BY <1>1, <1>5, <3>1 DEF Jumps
      <4> QED
        BY <4>1, <4>2 DEF Innermost
    <3>2. CASE i \in n + 1..q
      <4>1. cstack'[i].t = R /\ InnermostIn(cstack', cstack'[i].previous, R, i - 1)
        BY <1>6, <2>2, <3>2
      <4> QED
        BY <4>1 DEF Innermost, Jumps, InnermostIn, JumpsIn
    <3> QED
      BY <1>7, <3>1, <3>2
  <2> QED
    BY ONLY <1>2, <2>1, <2>2 DEF JumpInv
<1>26. ProtectedInv'
  <2>1. ASSUME NEW i \in 1..q, cstack'[i].kind = "pcall"
        PROVE  /\ cstack'[i].n = 0
               /\ i < q /\ cstack'[i + 1].kind = "call"
               /\ i > 1 => /\ cstack'[i + 1].ci = cstack'[i].ci
                           /\ cstack'[i - 1].n > 0
                           /\ cstack'[i].ci \in DOMAIN th'[cstack'[i].t].ci
                           /\ th'[cstack'[i].t].ci[cstack'[i].ci] \in {"pcall", "xpcall", "main"}
                           /\ th'[cstack'[i].t].ci[cstack'[i].ci] = "main" => i = 3
    <3>1. CASE i \in 1..n
      <4>1. i \in DOMAIN cstack /\ cstack'[i] = cstack[i] /\ cstack[i].kind = "pcall"
            /\ th'[cstack[i].t].ci = th[cstack[i].t].ci
        BY <1>1, <1>5, <1>8, <1>11, <2>1, <3>1, Zenon
      <4>2. i < n
        <5>1. Top = cstack[n]
          BY <1>1, TopFrame
        <5> QED
          BY <1>1, <1>3, <3>1, <4>1, <5>1
      <4>3. i < q /\ i + 1 \in 1..n /\ cstack'[i + 1] = cstack[i + 1]
        BY <1>1, <1>2, <1>5, <3>1, <4>2
      <4>4. i > 1 => cstack'[i - 1] = cstack[i - 1]
        BY <1>1, <1>5, <3>1
      <4>5. /\ cstack[i].n = 0
            /\ cstack[i + 1].kind = "call"
            /\ i > 1 => /\ cstack[i + 1].ci = cstack[i].ci
                        /\ cstack[i - 1].n > 0
                        /\ cstack[i].ci \in DOMAIN th[cstack[i].t].ci
                        /\ th[cstack[i].t].ci[cstack[i].ci] \in {"pcall", "xpcall", "main"}
                        /\ th[cstack[i].t].ci[cstack[i].ci] = "main" => i = 3
        BY <4>1, Zenon DEF ProtectedInv
      <4> QED
        BY ONLY <4>1, <4>3, <4>4, <4>5
    <3>2. CASE i \in n + 1..q
      <4>1. /\ i = n + 1 /\ i < q /\ cstack'[i + 1].kind = "call" /\ cstack'[i].n = 0
            /\ cstack'[i].ci = len /\ cstack'[i].t = R
            /\ Top.n > 0 /\ L.ci # <<>> /\ Last(L.ci) \in {"pcall", "xpcall", "main"}
        BY <1>6, <2>1, <3>2
      <4>2. Last(L.ci) = "main" => n = 2
        BY <1>6, <2>1, <3>2
      <4>3. cstack'[i + 1].ci = len
        <5>1. i + 1 \in n + 1..q
          BY ONLY <1>1, <1>2, <4>1
        <5> QED
          BY <1>6, <5>1
      <4>4. cstack'[i - 1].n > 0
        <5>1. i - 1 = n /\ Top = cstack[n]
          BY <1>1, <4>1, TopFrame
        <5> QED
          BY <1>1, <1>5, <4>1, <5>1
      <4>5. len \in DOMAIN L.ci /\ L.ci[len] = Last(L.ci)
        BY <1>4, <4>1, Fronts
      <4>6. th'[cstack'[i].t].ci = L.ci
        BY <1>3, <1>8, <4>1
      <4>7. n = 2 => i = 3
        BY <4>1
      <4> QED
        BY ONLY <4>1, <4>2, <4>3, <4>4, <4>5, <4>6, <4>7
    <3> QED
      BY <1>7, <3>1, <3>2
  <2> QED
    BY ONLY <1>2, <2>1 DEF ProtectedInv
<1>27. Keeps
  <2>1. Running' = cstack[n].t /\ n \in 1..Len(cstack)
    BY <1>1, <1>3, <1>9
  <2>2. \A t \in Threads : Has(t, Len(cstack)) \/ th'[t] = th[t]
    BY <1>1, <1>3, <1>8, Zenon DEF Has
  <2> QED
    BY <1>8, <2>1, <2>2, StepKeeps
<1> QED
  BY <1>27, <1>10, <1>15, <1>16, <1>17, <1>19, <1>20, <1>22, <1>23, <1>25, <1>26

-----------------------------------------------------------------------------
(* Calls of other threads *)

\* The thread co, which had no frames, has one: the lua_resume of what the
\* running thread called last, which runs the k functions of co, all in Lua.
Resumed(n, R, co, k) ==
  /\ n = Len(cstack) /\ n >= 3 /\ R = Running
  /\ co \in Coroutines /\ ~ Has(co, n) /\ Resumable(co)
  /\ Top.n > 0 /\ L.ci # <<>> /\ Last(L.ci) \in {"resume", "wrap"}
  /\ L.nCcalls < LUAI_MAXCCALLS
  /\ cstack' \in Seq(FrameSet) /\ Len(cstack') = n + 1
  /\ \A i \in 1..n : cstack'[i] = cstack[i]
  /\ cstack'[n + 1].kind = "resume" /\ cstack'[n + 1].t = co /\ cstack'[n + 1].n = k
  /\ cstack'[n + 1].previous = th[co].errorJmp
  /\ raising = "no" /\ raising' = "no"
  /\ th' \in [Threads -> ThreadSet]
  /\ \A t \in Threads : t # co => th'[t] = th[t]
  /\ th'[co].status = "ok" /\ th'[co].size = th[co].size /\ th'[co].errorJmp = n + 1
  /\ th'[co].nCcalls = L.nCcalls + 1 /\ th'[co].baseCcalls = L.nCcalls + 1
  /\ Len(th'[co].ci) = k /\ \A p \in 1..k : th'[co].ci[p] = "lua"

\* A step that pushes the frame of a resume: another thread runs.
LEMMA Resumes ==
  ASSUME IInv, NEW n, NEW R, NEW co, NEW k, Resumed(n, R, co, k)
  PROVE  IInv' /\ Keeps
<1> USE DEF IInv
<1>1. n = Len(cstack) /\ n \in Nat /\ n >= 3 /\ DOMAIN cstack = 1..n /\ n \in 1..n
  <2>1. n = Len(cstack) /\ n >= 3
    BY DEF Resumed
  <2> QED
    BY <2>1, Types
<1>2. /\ Len(cstack') = n + 1 /\ DOMAIN cstack' = 1..n + 1 /\ n + 1 \in 1..n + 1
      /\ \A i \in 1..n : i \in 1..n + 1
      /\ \A i \in 1..n + 1 : i \in 1..n \/ i = n + 1
  <2>1. Len(cstack') = n + 1 /\ cstack' \in Seq(FrameSet)
    BY DEF Resumed
  <2> QED
    BY ONLY <1>1, <2>1
<1>3. /\ R \in Threads /\ R = cstack[n].t /\ R = Running /\ L = th[R] /\ L.status = "ok"
      /\ Top = cstack[n] /\ Top.kind # "pcall" /\ Upto(n) = Len(L.ci) /\ Base(n) <= Len(L.ci)
      /\ L.nCcalls = Cardinality(Levels(n))
  <2>1. R = Running
    BY DEF Resumed
  <2> QED
    BY <1>1, <2>1, TopFrame
<1>4. /\ co \in Coroutines /\ co \in Threads /\ co # Main /\ co # R
      /\ \A i \in 1..n : cstack[i].t # co
      /\ th[co].errorJmp = 0
  <2>1. co \in Coroutines /\ ~ Has(co, n)
    BY DEF Resumed
  <2>2. co \in Threads /\ co # Main
    BY <2>1
  <2>3. th[co].errorJmp = 0
    BY <1>1, <2>1, <2>2, OffStack
  <2> QED
    BY <1>1, <1>3, <2>1, <2>2, <2>3, Zenon DEF Has
<1>5. \A i \in 1..n : cstack'[i] = cstack[i]
  BY DEF Resumed
<1>6. /\ cstack'[n + 1].kind = "resume" /\ cstack'[n + 1].t = co /\ cstack'[n + 1].n = k
      /\ cstack'[n + 1].previous = 0
  BY <1>4 DEF Resumed
<1>7. /\ \A t \in Threads : t # co => th'[t] = th[t]
      /\ th'[co].status = "ok" /\ th'[co].size = th[co].size /\ th'[co].errorJmp = n + 1
      /\ th'[co].nCcalls = L.nCcalls + 1 /\ th'[co].baseCcalls = L.nCcalls + 1
  BY DEF Resumed
<1>8. /\ k \in Nat /\ Len(th'[co].ci) = k /\ DOMAIN th'[co].ci = 1..k
      /\ \A p \in 1..k : th'[co].ci[p] = "lua"
  <2>1. th'[co] \in ThreadSet
    BY <1>4 DEF Resumed
  <2>2. th'[co].ci \in Seq(Functions)
    BY <2>1 DEF ThreadSet
  <2>3. Len(th'[co].ci) = k /\ \A p \in 1..k : th'[co].ci[p] = "lua"
    BY DEF Resumed
  <2> QED
    BY ONLY <2>2, <2>3
<1>9. Running' = co /\ L' = th'[co]
  BY <1>2, <1>6 DEF Running, Top, Last, L
<1>10. TypeInv'
  BY DEF TypeInv, Resumed
<1>11. \A i \in 1..n : /\ Base(i)' = Base(i) /\ Base(i) \in Nat /\ cstack[i].t \in Threads
                       /\ th'[cstack[i].t] = th[cstack[i].t]
  <2>1. ASSUME NEW i \in 1..n
        PROVE  /\ Base(i)' = Base(i) /\ Base(i) \in Nat /\ cstack[i].t \in Threads
               /\ th'[cstack[i].t] = th[cstack[i].t]
    <3>1. cstack[i].ci \in Nat /\ cstack[i].t \in Threads
      BY <1>1, Types
    <3> QED
      BY <1>4, <1>5, <1>7, <3>1 DEF Base
  <2> QED
    BY <2>1
<1>12. Base(n + 1)' = 0 /\ Upto(n + 1)' = k
  BY ONLY <1>2, <1>6, <1>8 DEF Base, Upto
<1>13. \A i \in 1..n : Upto(i)' = Upto(i)
  <2>1. ASSUME NEW i \in 1..n, i < n
        PROVE  Upto(i)' = Upto(i)
    <3>1. i + 1 \in 1..n /\ i < n + 1
      BY ONLY <1>1, <2>1
    <3>2. cstack'[i].t = cstack[i].t /\ cstack'[i + 1].t = cstack[i + 1].t
          /\ Base(i + 1)' = Base(i + 1) /\ th'[cstack[i].t] = th[cstack[i].t]
      BY <1>5, <1>11, <3>1
    <3> QED
      BY ONLY <1>1, <1>2, <2>1, <3>1, <3>2 DEF Upto
  <2>2. Upto(n)' = Upto(n)
    <3>1. cstack'[n].t = R /\ cstack'[n + 1].t # R /\ th'[R] = th[R]
      BY <1>1, <1>3, <1>4, <1>5, <1>6, <1>7, Zenon
    <3>2. Upto(n)' = Len(th[R].ci)
      BY ONLY <1>2, <3>1 DEF Upto
    <3> QED
      BY <1>3, <3>2
  <2> QED
    BY <1>1, <2>1, <2>2
<1>14. OwnerInv'
  <2>1. ASSUME NEW i \in 1..n
        PROVE  /\ Base(i)' <= Upto(i)' /\ Upto(i)' <= Len(th'[cstack'[i].t].ci)
               /\ i # 2 => cstack'[i].n = Cardinality(Owned(i)')
               /\ i > 2 /\ cstack'[i].n = 0 => Base(i)' = Upto(i)'
               /\ \A p \in Base(i)' + 1..Upto(i)' - 1 : th'[cstack'[i].t].ci[p] = "lua"
    <3>1. /\ cstack'[i] = cstack[i] /\ Base(i)' = Base(i) /\ Upto(i)' = Upto(i)
          /\ th'[cstack[i].t] = th[cstack[i].t] /\ i \in DOMAIN cstack
      BY <1>1, <1>5, <1>11, <1>13
    <3>2. Owned(i)' = Owned(i)
      BY ONLY <3>1 DEF Owned
    <3> QED
      BY <3>1, <3>2 DEF OwnerInv
  <2>2. /\ Base(n + 1)' <= Upto(n + 1)' /\ Upto(n + 1)' <= Len(th'[cstack'[n + 1].t].ci)
        /\ n + 1 # 2 => cstack'[n + 1].n = Cardinality(Owned(n + 1)')
        /\ n + 1 > 2 /\ cstack'[n + 1].n = 0 => Base(n + 1)' = Upto(n + 1)'
        /\ \A p \in Base(n + 1)' + 1..Upto(n + 1)' - 1 : th'[cstack'[n + 1].t].ci[p] = "lua"
    <3>1. Owned(n + 1)' = {p \in 0 + 1..k : th'[co].ci[p] = "lua"}
      BY ONLY <1>6, <1>12 DEF Owned
    <3>2. 0 + 1 = 1 /\ \A p \in 0 + 1..k - 1 : p \in 1..k
      BY ONLY <1>8
    <3>3. Owned(n + 1)' = 1..k
      BY ONLY <1>8, <3>1, <3>2, Zenon
    <3>4. Cardinality(1..k) = IF 1 > k THEN 0 ELSE k - 1 + 1
      BY ONLY 1 \in Int, <1>8, FS_Interval
    <3>5. Cardinality(Owned(n + 1)') = k
      BY ONLY <1>8, <3>3, <3>4
    <3>6. \A p \in 0 + 1..k - 1 : th'[co].ci[p] = "lua"
      BY ONLY <1>8, <3>2
    <3>7. 0 <= k /\ k <= Len(th'[co].ci)
      BY ONLY <1>8
    <3> QED
      BY ONLY <1>6, <1>12, <3>5, <3>6, <3>7
  <2>3. ASSUME NEW i \in 1..n + 1, NEW j \in 1..n + 1, i < j, cstack'[i].t = cstack'[j].t
        PROVE  Upto(i)' <= Base(j)'
    <3>1. CASE j \in 1..n
      <4>1. i \in 1..n
        BY <1>1, <2>3, <3>1
      <4>2. Upto(i) <= Base(j)
        BY <1>1, <1>5, <2>3, <3>1, <4>1, Zenon DEF OwnerInv
      <4> QED
        BY <1>11, <1>13, <3>1, <4>1, <4>2
    <3>2. CASE j = n + 1
      <4>1. i \in 1..n
        BY <1>1, <2>3, <3>2
      <4> QED
        BY <1>4, <1>5, <1>6, <2>3, <3>2, <4>1
    <3> QED
      BY <1>2, <3>1, <3>2
  <2> QED
    BY ONLY <1>2, <2>1, <2>2, <2>3 DEF OwnerInv
<1>15. MainInv'
  <2>1. ASSUME NEW t \in Threads, NEW p \in DOMAIN th'[t].ci
        PROVE  th'[t].ci[p] = "main" <=> t = Main /\ p = 1
    <3>1. CASE t = co
      BY <1>4, <1>8, <3>1
    <3>2. CASE t # co
      BY <1>7, <3>2 DEF MainInv
    <3> QED
      BY <3>1, <3>2
  <2>2. Len(th'[Main].ci) >= 1
    BY <1>4, <1>7 DEF MainInv
  <2> QED
    BY <2>1, <2>2 DEF MainInv
<1>16. BottomInv'
  <2>1. 1 \in 1..n /\ 2 \in 1..n /\ 3 \in 1..n /\ n + 1 # 2 /\ n + 1 >= 2 /\ n # 2
    BY <1>1
  <2>2. cstack'[1] = cstack[1] /\ cstack'[2] = cstack[2] /\ cstack'[3] = cstack[3]
    BY <1>5, <2>1
  <2> QED
    BY <1>1, <1>2, <2>1, <2>2 DEF BottomInv
<1>17. PieceInv'
  <2>1. ASSUME NEW i \in 2..n + 1
        PROVE  /\ cstack'[i].kind # "resume" => cstack'[i].t = cstack'[i - 1].t
               /\ cstack'[i].kind = "resume" =>
                    /\ cstack'[i].t \in Coroutines
                    /\ cstack'[i - 1].n > 0
                    /\ \A j \in 1..i - 1 : cstack'[j].t # cstack'[i].t
    <3>1. CASE i <= n
      <4>1. /\ i \in 2..Len(cstack) /\ cstack'[i] = cstack[i]
            /\ cstack'[i - 1] = cstack[i - 1] /\ \A j \in 1..i - 1 : cstack'[j] = cstack[j]
        BY <1>1, <1>5, <3>1
      <4>2. /\ cstack[i].kind # "resume" => cstack[i].t = cstack[i - 1].t
            /\ cstack[i].kind = "resume" =>
                 /\ cstack[i].t \in Coroutines
                 /\ cstack[i - 1].n > 0
                 /\ \A j \in 1..i - 1 : cstack[j].t # cstack[i].t
        BY <4>1 DEF PieceInv
      <4> QED
        BY ONLY <4>1, <4>2
    <3>2. CASE i = n + 1
      <4>1. i - 1 = n /\ \A j \in 1..i - 1 : j \in 1..n
        BY <1>1, <3>2
      <4>2. cstack'[n] = Top /\ Top.n > 0
        BY <1>1, <1>3, <1>5 DEF Resumed
      <4> QED
        BY <1>4, <1>5, <1>6, <3>2, <4>1, <4>2
    <3> QED
      BY <1>1, <3>1, <3>2
  <2>2. ASSUME NEW i \in 1..n + 1, NEW j \in 1..n + 1, i <= j, cstack'[i].t = cstack'[j].t,
               NEW m \in i..j
        PROVE  cstack'[m].t = cstack'[i].t
    <3>1. CASE j \in 1..n
      <4>1. i \in 1..n /\ m \in 1..n /\ m \in i..j
        BY <1>1, <2>2, <3>1
      <4>2. i \in DOMAIN cstack /\ j \in DOMAIN cstack /\ cstack[i].t = cstack[j].t
        BY <1>1, <1>5, <2>2, <3>1, <4>1
      <4>3. cstack[m].t = cstack[i].t
        BY <2>2, <4>2, OnePiece
      <4> QED
        BY <1>5, <4>1, <4>3
    <3>2. CASE j = n + 1
      <4>1. i = n + 1
        BY <1>2, <1>4, <1>5, <1>6, <2>2, <3>2
      <4>2. m = n + 1
        BY ONLY <1>1, <3>2, <4>1, m \in i..j
      <4> QED
        BY <4>1, <4>2
    <3> QED
      BY <1>2, <3>1, <3>2
  <2>3. ASSUME NEW i \in 1..n + 1, cstack'[i].t # Main
        PROVE  \E r \in 1..i : cstack'[r].kind = "resume" /\ cstack'[r].t = cstack'[i].t
    <3>1. CASE i \in 1..n
      <4>1. i \in DOMAIN cstack /\ cstack[i].t # Main
        BY <1>1, <1>5, <2>3, <3>1
      <4>2. PICK r \in 1..i : cstack[r].kind = "resume" /\ cstack[r].t = cstack[i].t
        BY <4>1 DEF PieceInv
      <4>3. r \in 1..n
        BY <1>1, <3>1
      <4> QED
        BY <1>5, <3>1, <4>2, <4>3
    <3>2. CASE i = n + 1
      <4>1. i \in 1..i
        BY <1>1, <3>2
      <4> QED
        BY <1>6, <3>2, <4>1
    <3> QED
      BY <1>2, <3>1, <3>2
  <2> QED
    BY ONLY <1>2, <2>1, <2>2, <2>3 DEF PieceInv
<1>18. StatusInv'
  <2>1. ASSUME NEW i \in 1..n + 1
        PROVE  /\ th'[cstack'[i].t].status = "ok"
               /\ cstack'[i].t # co =>
                    /\ th'[cstack'[i].t].ci # <<>>
                    /\ Last(th'[cstack'[i].t].ci) \in {"resume", "wrap"}
    <3>1. CASE i \in 1..n
      <4>1. i \in DOMAIN cstack /\ th'[cstack'[i].t] = th[cstack[i].t]
        BY <1>1, <1>5, <1>11, <3>1
      <4>2. CASE cstack[i].t = R
        BY <1>3, <4>1, <4>2 DEF Resumed
      <4>3. CASE cstack[i].t # R
        BY <1>3, <4>1, <4>3 DEF StatusInv
      <4> QED
        BY ONLY <4>2, <4>3
    <3>2. CASE i = n + 1
      BY <1>6, <1>7, <3>2
    <3> QED
      BY <1>2, <3>1, <3>2
  <2>2. ASSUME NEW t \in Threads, th'[t].status = "yield"
        PROVE  /\ th'[t].ci # <<>> /\ Last(th'[t].ci) = "yield"
               /\ \A p \in 1..Len(th'[t].ci) - 1 : th'[t].ci[p] = "lua"
    <3>1. t # co
      BY <1>7, <2>2
    <3> QED
      BY <1>7, <2>2, <3>1 DEF StatusInv
  <2> QED
    BY ONLY <1>2, <1>9, <2>1, <2>2 DEF StatusInv
<1>19. \A i \in 0..n : LevelsIn(cstack', i) = Levels(i)
  BY <1>1, <1>5 DEF Levels, LevelsIn
<1>20. Cardinality(LevelsIn(cstack', n + 1)) = L.nCcalls + 1
  <2>1. n + 1 \in Nat \ {0} /\ n + 1 - 1 = n /\ n \in 0..n
    BY <1>1
  <2>2. Cardinality(LevelsIn(cstack', n + 1)) =
          Cardinality(LevelsIn(cstack', n)) + (IF cstack'[n + 1].kind \in Counted THEN 1 ELSE 0)
    BY ONLY <2>1, CountingNext
  <2>3. LevelsIn(cstack', n) = Levels(n)
    BY <1>19, <2>1
  <2> QED
    BY <1>3, <1>6, <2>2, <2>3 DEF Counted
<1>21. LevelInv'
  <2>1. ASSUME NEW i \in 1..n
        PROVE  /\ IsLast(i)' => th'[cstack'[i].t].nCcalls = Cardinality(Levels(i)')
               /\ cstack'[i].kind = "pcall" => cstack'[i].nCcalls = Cardinality(Levels(i - 1)')
               /\ cstack'[i].kind = "resume" =>
                    th'[cstack'[i].t].baseCcalls = Cardinality(Levels(i)')
    <3>1. /\ i \in DOMAIN cstack /\ cstack'[i] = cstack[i]
          /\ th'[cstack[i].t] = th[cstack[i].t] /\ i \in 0..n /\ i - 1 \in 0..n
      BY <1>1, <1>5, <1>11
    <3>2. Levels(i)' = Levels(i) /\ Levels(i - 1)' = Levels(i - 1)
      BY ONLY <1>19, <3>1 DEF Levels
    <3>3. IsLast(i)' => IsLast(i)
      <4>1. CASE i = n
        BY <1>1, <4>1 DEF IsLast
      <4>2. CASE i < n
        <5>1. i + 1 \in 1..n /\ i # n + 1
          BY <1>1, <4>2
        <5>2. cstack'[i + 1] = cstack[i + 1]
          BY <1>5, <5>1
        <5> QED
          BY ONLY <1>1, <1>2, <3>1, <5>1, <5>2 DEF IsLast
      <4> QED
        BY <1>1, <4>1, <4>2
    <3> QED
      BY <3>1, <3>2, <3>3 DEF LevelInv
  <2>2. /\ th'[cstack'[n + 1].t].nCcalls = Cardinality(Levels(n + 1)')
        /\ cstack'[n + 1].kind # "pcall"
        /\ th'[cstack'[n + 1].t].baseCcalls = Cardinality(Levels(n + 1)')
    BY <1>6, <1>7, <1>20 DEF Levels
  <2>3. th'[Main].baseCcalls = 0
    BY <1>4, <1>7 DEF LevelInv
  <2> QED
    BY ONLY <1>2, <2>1, <2>2, <2>3 DEF LevelInv
<1>22. LimitInv'
  <2>1. th'[co].nCcalls <= LUAI_MAXCCALLS /\ L.nCcalls \in Nat
    <3>1. L.nCcalls < LUAI_MAXCCALLS /\ L.nCcalls \in Nat
      BY <1>3, Types, Zenon DEF Resumed
    <3> QED
      BY <1>7, <3>1
  <2>2. th'[co].nCcalls \in Nat /\ LUAI_MAXCCALLS \in Nat /\ Extra \in Nat /\ Extra > 0
    BY <1>7, <2>1
  <2>3. \A t \in Threads : th'[t].size <= 2 * LUAI_MAXCALLS
    BY <1>7 DEF LimitInv
  <2> QED
    BY <1>9, <2>1, <2>2, <2>3 DEF LimitInv
<1>23. JumpInv'
  <2>1. ASSUME NEW t \in Threads
        PROVE  Innermost(th[t].errorJmp, t, Len(cstack))'
    <3>1. CASE t = co
      <4>1. n + 1 \in Jumps(co, n + 1)' /\ \A j \in Jumps(co, n + 1)' : j <= n + 1
        BY <1>1, <1>2, <1>6 DEF Jumps
      <4> QED
        BY <1>2, <1>7, <3>1, <4>1 DEF Innermost
    <3>2. CASE t # co
      <4>1. Innermost(th[t].errorJmp, t, n) /\ th'[t] = th[t]
        BY <1>1, <1>7, <3>2 DEF JumpInv
      <4>2. Jumps(t, n + 1)' = Jumps(t, n)
        <5>1. Jumps(t, n + 1)' =
                {i \in 1..n + 1 : cstack'[i].t = t /\ cstack'[i].kind \in {"pcall", "resume"}}
          BY DEF Jumps
        <5>2. \A i \in 1..n + 1 : cstack'[i].t = t => i \in 1..n /\ cstack'[i] = cstack[i]
          BY <1>2, <1>5, <1>6, <3>2
        <5> QED
          BY ONLY <1>2, <1>5, <5>1, <5>2 DEF Jumps
      <4> QED
        BY <1>2, <4>1, <4>2 DEF Innermost
    <3> QED
      BY <3>1, <3>2
  <2>2. ASSUME NEW i \in 1..n + 1, cstack'[i].kind \in {"pcall", "resume"}
        PROVE  Innermost(cstack[i].previous, cstack[i].t, i - 1)'
    <3>1. CASE i \in 1..n
      <4>1. Innermost(cstack[i].previous, cstack[i].t, i - 1) /\ cstack'[i] = cstack[i]
        BY <1>1, <1>5, <2>2, <3>1, Zenon DEF JumpInv
      <4>2. Jumps(cstack[i].t, i - 1)' = Jumps(cstack[i].t, i - 1)
        BY <1>1, <1>5, <3>1 DEF Jumps
      <4> QED
        BY <4>1, <4>2 DEF Innermost
    <3>2. CASE i = n + 1
      <4>1. \A j \in 1..i - 1 : j \in 1..n
        BY <1>1, <3>2
      <4>2. \A j \in 1..i - 1 : cstack'[j].t # co
        BY <1>4, <1>5, <4>1
      <4> QED
        BY <1>6, <3>2, <4>2 DEF Innermost, Jumps
    <3> QED
      BY <1>2, <3>1, <3>2
  <2> QED
    BY ONLY <1>2, <2>1, <2>2 DEF JumpInv
<1>24. ProtectedInv'
  <2>1. ASSUME NEW i \in 1..n + 1, cstack'[i].kind = "pcall"
        PROVE  /\ cstack'[i].n = 0
               /\ i < n + 1 /\ cstack'[i + 1].kind = "call"
               /\ i > 1 => /\ cstack'[i + 1].ci = cstack'[i].ci
                           /\ cstack'[i - 1].n > 0
                           /\ cstack'[i].ci \in DOMAIN th'[cstack'[i].t].ci
                           /\ th'[cstack'[i].t].ci[cstack'[i].ci] \in {"pcall", "xpcall", "main"}
                           /\ th'[cstack'[i].t].ci[cstack'[i].ci] = "main" => i = 3
    <3>1. i \in 1..n /\ i < n
      <4>1. i \in 1..n
        BY <1>2, <1>6, <2>1
      <4> QED
        BY <1>1, <1>3, <1>5, <2>1, <4>1
    <3>2. i < n + 1 /\ i + 1 \in 1..n /\ i \in DOMAIN cstack
      BY ONLY <1>1, <3>1
    <3>3. /\ cstack'[i] = cstack[i] /\ cstack'[i + 1] = cstack[i + 1]
          /\ th'[cstack[i].t] = th[cstack[i].t] /\ cstack[i].kind = "pcall"
      BY <1>5, <1>11, <2>1, <3>1, <3>2
    <3>4. i > 1 => cstack'[i - 1] = cstack[i - 1]
      BY <1>1, <1>5, <3>1
    <3>5. /\ cstack[i].n = 0
          /\ cstack[i + 1].kind = "call"
          /\ i > 1 => /\ cstack[i + 1].ci = cstack[i].ci
                      /\ cstack[i - 1].n > 0
                      /\ cstack[i].ci \in DOMAIN th[cstack[i].t].ci
                      /\ th[cstack[i].t].ci[cstack[i].ci] \in {"pcall", "xpcall", "main"}
                      /\ th[cstack[i].t].ci[cstack[i].ci] = "main" => i = 3
      BY <3>2, <3>3 DEF ProtectedInv
    <3> QED
      BY ONLY <3>2, <3>3, <3>4, <3>5
  <2> QED
    BY ONLY <1>2, <2>1 DEF ProtectedInv
<1>25. Keeps
  <2>1. Resumable(co)
    BY DEF Resumed
  <2>2. \A t \in Threads : th'[t].status = "yield" => th[t].status = "yield"
    BY <1>7
  <2> QED
    BY <1>7, <1>9, <2>1, <2>2 DEF Keeps
<1> QED
  BY <1>25, <1>10, <1>14, <1>15, <1>16, <1>17, <1>18, <1>21, <1>22, <1>23, <1>24

-----------------------------------------------------------------------------
(* The actions *)

\* An error is raised or goes to luaD_throw: raise, luaG_errormsg without a
\* handler, and lua_yield where it may not.
LEMMA OnlyRaising ==
  ASSUME IInv, UNCHANGED <<th, cstack>>, raising' \in {"no", "msg", "run", "err"},
         Len(cstack) = 2 => raising' = "no",
         raising' = "err" \/ L.nCcalls < LUAI_MAXCCALLS + Extra
  PROVE  IInv' /\ Keeps
<1>1. Running \in Threads /\ L = th[Running] /\ Base(Len(cstack)) <= Len(L.ci)
  BY TopFrame DEF L
<1>2. th \in [Threads -> ThreadSet] /\ \A t \in Threads : th[t].size <= 2 * LUAI_MAXCALLS
  BY DEF IInv, TypeInv, LimitInv
<1>3. Stayed
  BY <1>1, <1>2 DEF Stayed
<1> QED
  BY <1>3, Stays

\* Raising an error where there is no handler, and stuttering, change no stack.
LEMMA RaiseSteps ==
  ASSUME IInv, Raise \/ CannotYield \/ (ErrorMsg /\ ~ L.errfunc) \/ UNCHANGED vars
  PROVE  IInv' /\ Keeps
<1>1. PICK n \in Nat : n = Len(cstack) /\ n >= 2
  BY Types, Zenon DEF IInv, BottomInv
<1>2. raising # "err" => L.nCcalls < LUAI_MAXCCALLS + Extra
  BY DEF IInv, LimitInv
<1>3. n = 2 => raising = "no"
  BY <1>1 DEF IInv, BottomInv
<1>4. CASE Raise
  <2>1. n >= 3 /\ raising = "no"
    BY <1>1, <1>4, LuaRuns DEF Raise
  <2> QED
    BY <1>1, <1>2, <1>4, <2>1, OnlyRaising DEF Raise
<1>5. CASE CannotYield
  <2>1. "yield" \in Functions \ {"lua"} /\ InC("yield")
    BY <1>5 DEF CannotYield, Functions
  <2>2. n # 2 /\ raising = "no"
    BY <1>1, <2>1, CRuns
  <2> QED
    BY <1>1, <1>2, <1>5, <2>2, OnlyRaising DEF CannotYield
<1>6. CASE ErrorMsg /\ ~ L.errfunc
  BY <1>1, <1>2, <1>3, <1>6, OnlyRaising DEF ErrorMsg
<1>7. CASE UNCHANGED vars
  <2>1. raising \in {"no", "msg", "run", "err"}
    BY DEF IInv, TypeInv
  <2> QED
    BY <1>1, <1>2, <1>3, <1>7, <2>1, OnlyRaising DEF vars
<1> QED
  BY <1>4, <1>5, <1>6, <1>7

\* One thread changes.
LEMMA Updated ==
  ASSUME TypeInv, NEW R \in Threads, NEW s \in ThreadSet, th' = [th EXCEPT ![R] = s]
  PROVE  /\ th' \in [Threads -> ThreadSet]
         /\ th'[R] = s
         /\ \A t \in Threads : t # R => th'[t] = th[t]
BY DEF TypeInv

\* luaD_precall: growCI fails, or the running thread has one more function.
LEMMA EnterSteps ==
  ASSUME IInv, Idle, NEW f \in Functions \ {"main"}, Enter(f),
         InLua \/ (f = "lua" /\ Top.n = 0)
  PROVE  IInv' /\ Keeps
<1>1. PICK n \in Nat : n = Len(cstack) /\ n >= 2 /\ DOMAIN cstack = 1..n /\ n \in 1..n
  <2>1. Len(cstack) \in Nat /\ Len(cstack) >= 2
    BY TopFrame
  <2>2. DOMAIN cstack = 1..Len(cstack)
    BY Types DEF IInv
  <2>3. Len(cstack) \in 1..Len(cstack)
    BY ONLY <2>1
  <2> QED
    BY ONLY <2>1, <2>2, <2>3, Zenon
<1>2. PICK R \in Threads :
        /\ R = Running /\ R = cstack[n].t /\ L = th[R] /\ Top = cstack[n]
        /\ Base(n) <= Len(L.ci) /\ Upto(n) = Len(L.ci)
  BY <1>1, TopFrame
<1>3. /\ L \in ThreadSet /\ L.ci \in Seq(Functions) /\ L.size \in Nat /\ Base(n) \in Nat
      /\ Len(L.ci) \in Nat /\ Top \in FrameSet /\ Top.n \in Nat
  <2>1. cstack[n].ci \in Nat
    BY <1>1, Types DEF IInv
  <2>2. Base(n) \in Nat
    BY <2>1 DEF Base
  <2>3. L \in ThreadSet /\ L.ci \in Seq(Functions) /\ L.size \in Nat
    BY <1>2, Types DEF IInv
  <2>4. Top \in FrameSet /\ Top.n \in Nat
    BY <1>1, <1>2, Types DEF IInv
  <2>5. Len(L.ci) \in Nat
    BY ONLY <2>3
  <2> QED
    BY <2>2, <2>3, <2>4, <2>5
<1>4. raising = "no" /\ L.nCcalls < LUAI_MAXCCALLS + Extra
  BY DEF Idle, IInv, LimitInv
<1>5. n >= 3 /\ Top.n = Len(L.ci) - Base(n)
      /\ \A p \in Base(n) + 1..Len(L.ci) : L.ci[p] = "lua"
  <2>1. CASE InLua
    <3>1. n >= 3 /\ Top.n = Len(L.ci) - Base(n) /\ L.ci[Len(L.ci)] = "lua"
      BY <1>1, <2>1, LuaRuns
    <3>2. \A p \in Base(n) + 1..Upto(n) - 1 : L.ci[p] = "lua"
      BY <1>1, <1>2 DEF IInv, OwnerInv
    <3>3. \A p \in Base(n) + 1..Len(L.ci) : p \in Base(n) + 1..Upto(n) - 1 \/ p = Len(L.ci)
      BY ONLY <1>2, <1>3
    <3> QED
      BY ONLY <3>1, <3>2, <3>3
  <2>2. CASE Top.n = 0
    <3>1. n # 2
      BY <1>1, <1>2, <2>2 DEF IInv, BottomInv
    <3>2. n > 2
      BY ONLY <1>1, <3>1
    <3>3. Base(n) = Len(L.ci)
      BY <1>1, <1>2, <2>2, <3>2 DEF IInv, OwnerInv
    <3>4. \A p \in Base(n) + 1..Len(L.ci) : FALSE
      BY ONLY <1>3, <3>3
    <3> QED
      BY ONLY <1>1, <1>3, <2>2, <3>2, <3>3, <3>4
  <2> QED
    BY <2>1, <2>2
<1>6. L.size <= 2 * LUAI_MAXCALLS /\ \A t \in Threads : th[t].size <= 2 * LUAI_MAXCALLS
  BY <1>2 DEF IInv, LimitInv
<1>7. CASE Len(L.ci) = L.size - 1 /\ 2 * L.size > LUAI_MAXCALLS
  <2>1. /\ raising' \in {"err", "msg"} /\ cstack' = cstack
        /\ th' = [th EXCEPT ![R].size = IF @ > LUAI_MAXCALLS THEN @ ELSE 2 * @]
    BY <1>2, <1>7 DEF Enter
  <2>a. LUAI_MAXCALLS \in Nat
    OBVIOUS
  <2>b. PICK z \in Nat : z = (IF L.size > LUAI_MAXCALLS THEN L.size ELSE 2 * L.size)
                        /\ z <= 2 * LUAI_MAXCALLS
    BY ONLY <1>3, <1>6, <2>a
  <2>2. PICK s : s = [L EXCEPT !.size = z]
    BY Zenon
  <2>3. s \in ThreadSet /\ s.size = z
    BY ONLY <1>3, <2>2 DEF ThreadSet
  <2>4. th' = [th EXCEPT ![R] = s]
    BY ONLY <1>2, <2>1, <2>2, <2>b
  <2>5. /\ th' \in [Threads -> ThreadSet] /\ th'[R] = s
        /\ \A t \in Threads : t # R => th'[t] = th[t]
    BY <2>3, <2>4, Updated, Zenon DEF IInv
  <2>6. /\ s.ci = L.ci /\ s.status = L.status /\ s.nCcalls = L.nCcalls
        /\ s.baseCcalls = L.baseCcalls /\ s.errorJmp = L.errorJmp
    BY <1>3, <2>2 DEF ThreadSet
  <2>7. \A t \in Threads : th'[t].size <= 2 * LUAI_MAXCALLS
    BY <1>6, <2>3, <2>5, <2>b
  <2>8. n # 2 /\ R = Running /\ n = Len(cstack)
    BY <1>1, <1>2, <1>5
  <2>9. Stayed
    BY ONLY <1>4, <2>1, <2>5, <2>6, <2>7, <2>8, Zenon DEF Stayed
  <2> QED
    BY <2>9, Stays
<1>8. CASE ~ (Len(L.ci) = L.size - 1 /\ 2 * L.size > LUAI_MAXCALLS)
  <2>1. /\ th' = [th EXCEPT ![R].size = IF Len(L.ci) = L.size - 1 THEN 2 * @ ELSE @,
                            ![R].ci = Append(@, f)]
        /\ cstack' = [cstack EXCEPT ![n].n = IF f = "lua" THEN @ + 1 ELSE @]
        /\ raising' = raising
    BY <1>1, <1>2, <1>8 DEF Enter
  <2>2. PICK z \in Nat : /\ z = (IF Len(L.ci) = L.size - 1 THEN 2 * L.size ELSE L.size)
                         /\ z <= 2 * LUAI_MAXCALLS
    <3>1. LUAI_MAXCALLS \in Nat
      OBVIOUS
    <3> QED
      BY ONLY <1>3, <1>6, <1>8, <3>1
  <2>3. PICK s : s = [L EXCEPT !.size = z, !.ci = Append(L.ci, f)]
    OBVIOUS
  <2>4. Append(L.ci, f) \in Seq(Functions) /\ f \in Functions
    BY <1>3
  <2>5. s \in ThreadSet /\ s.size = z /\ s.ci = Append(L.ci, f)
    BY ONLY <1>3, <2>3, <2>4, Zenon DEF ThreadSet
  <2>6. /\ s.status = L.status /\ s.nCcalls = L.nCcalls
        /\ s.baseCcalls = L.baseCcalls /\ s.errorJmp = L.errorJmp
    BY ONLY <1>3, <2>3 DEF ThreadSet
  <2>7. th' = [th EXCEPT ![R] = s]
    BY ONLY <1>2, <2>1, <2>2, <2>3, Zenon
  <2>8. /\ th' \in [Threads -> ThreadSet] /\ th'[R] = s
        /\ \A t \in Threads : t # R => th'[t] = th[t]
    BY <2>5, <2>7, Updated, Zenon DEF IInv
  <2>9. PICK len \in Nat : /\ len = Len(L.ci) /\ Len(s.ci) = len + 1
                           /\ \A p \in 1..len : s.ci[p] = L.ci[p]
                           /\ s.ci[len + 1] = f
    <3>1. PICK q : q = L.ci
      OBVIOUS
    <3>2. q \in Seq(Functions) /\ f \in Functions
      BY ONLY <1>3, <2>4, <3>1 DEF ThreadSet
    <3>3. PICK r : r = Append(q, f)
      BY Zenon
    <3>4. PICK len \in Nat : /\ len = Len(q) /\ Len(r) = len + 1
                             /\ \A p \in 1..len : r[p] = q[p]
                             /\ r[len + 1] = f
      BY ONLY <3>2, <3>3
    <3>5. r = s.ci
      BY ONLY <2>5, <3>1, <3>3
    <3> QED
      BY ONLY <3>1, <3>4, <3>5
  <2>10. PICK b \in Nat : b = Base(n) /\ b <= len
    BY <1>2, <1>3, <2>9
  <2>11. PICK k \in Nat : k = (IF f = "lua" THEN Top.n + 1 ELSE Top.n)
    BY <1>3
  <2>12. PICK w : w = [cstack[n] EXCEPT !.n = k]
    BY Zenon
  <2>13. cstack' = [cstack EXCEPT ![n] = w]
    BY ONLY <1>2, <2>1, <2>11, <2>12
  <2>14. /\ w \in FrameSet /\ w.n = k /\ w.kind = cstack[n].kind /\ w.t = cstack[n].t
         /\ w.ci = cstack[n].ci /\ w.previous = cstack[n].previous
    BY ONLY <1>2, <1>3, <2>11, <2>12, Zenon DEF FrameSet
  <2>15. cstack \in Seq(FrameSet)
    BY DEF IInv, TypeInv
  <2>16. /\ cstack' \in Seq(FrameSet) /\ Len(cstack') = n
         /\ \A i \in 1..n - 1 : cstack'[i] = cstack[i]
         /\ cstack'[n] = w
    BY ONLY <1>1, <2>13, <2>14, <2>15
  <2>17. f = "lua" \/ len > b
    BY ONLY <1>3, <1>5, <2>9, <2>10, InLua \/ (f = "lua" /\ Top.n = 0) DEF InLua
  <2>18. PICK m \in Nat : m = (IF f = "lua" THEN len + 1 ELSE len)
    OBVIOUS
  <2>19. /\ k = m - b /\ m \in b + 1..Len(s.ci) /\ Len(s.ci) <= m + 1
         /\ \A p \in 1..b : s.ci[p] = L.ci[p]
         /\ \A p \in b + 1..m : s.ci[p] = "lua"
         /\ \A p \in m + 1..Len(s.ci) : s.ci[p] # "lua" /\ s.ci[p] # "main"
    <3>1. k = m - b /\ m \in b + 1..Len(s.ci) /\ Len(s.ci) <= m + 1
      BY ONLY <1>5, <2>9, <2>10, <2>11, <2>17, <2>18
    <3>2. \A p \in 1..b : p \in 1..len
      BY ONLY <2>10
    <3>3. \A p \in b + 1..m : s.ci[p] = "lua"
      BY ONLY <1>5, <2>9, <2>10, <2>18
    <3>4. f # "main"
      OBVIOUS
    <3>5. \A p \in m + 1..Len(s.ci) : s.ci[p] # "lua" /\ s.ci[p] # "main"
      BY ONLY <2>9, <2>18, <3>4
    <3> QED
      BY ONLY <2>9, <3>1, <3>2, <3>3, <3>5, Zenon
  <2>20. /\ n = Len(cstack) /\ n >= 3 /\ R = Running /\ b = Base(n)
         /\ raising = "no" /\ raising' = "no" /\ s.size <= 2 * LUAI_MAXCALLS
    <3>1. s.size <= 2 * LUAI_MAXCALLS
      BY ONLY <2>2, <2>5
    <3> QED
      BY ONLY <1>1, <1>2, <1>4, <1>5, <2>1, <2>10, <3>1
  <2>21. Ran(m)
    BY ONLY <2>6, <2>8, <2>14, <2>16, <2>19, <2>20, Zenon DEF Ran
  <2> QED
    BY <2>21, Runs
<1> QED
  BY <1>7, <1>8

\* What is at hand: n frames, the last one of thread R, which runs the functions
\* above b of the len in its array.
At(n, R, b, len) ==
  /\ n = Len(cstack) /\ n \in Nat /\ n >= 2 /\ DOMAIN cstack = 1..n /\ n \in 1..n
  /\ R \in Threads /\ R = Running /\ R = cstack[n].t /\ L = th[R] /\ Top = cstack[n]
  /\ Top \in FrameSet /\ Top.n \in Nat /\ Top.kind \in Counted
  /\ L \in ThreadSet /\ L.ci \in Seq(Functions) /\ L.nCcalls \in Nat /\ L.size \in Nat
  /\ L.size <= 2 * LUAI_MAXCALLS
  /\ len = Len(L.ci) /\ len \in Nat /\ b = Base(n) /\ b \in Nat /\ b <= len /\ Upto(n) = len
  /\ L.nCcalls = Cardinality(Levels(n))

\* Where the running C frame stands, in one name for each number.
LEMMA Here ==
  ASSUME IInv
  PROVE  \E n, R, b, len : At(n, R, b, len)
<1>1. PICK n : n = Len(cstack)
  BY Zenon
<1>2. /\ n \in Nat /\ n >= 2 /\ Top = cstack[n] /\ Running = cstack[n].t /\ L = th[cstack[n].t]
      /\ Running \in Threads /\ Top.kind \in Counted
      /\ Base(n) <= Len(L.ci) /\ Upto(n) = Len(L.ci) /\ L.nCcalls = Cardinality(Levels(n))
  BY <1>1, TopFrame
<1>3. DOMAIN cstack = 1..n
  BY <1>1, Types DEF IInv
<1>4. n \in 1..n
  BY ONLY <1>2
<1>5. Top \in FrameSet /\ Top.n \in Nat /\ cstack[n].ci \in Nat
  BY <1>1, <1>2, <1>4, Types DEF IInv
<1>6. /\ L \in ThreadSet /\ L.ci \in Seq(Functions) /\ Len(L.ci) \in Nat /\ L.nCcalls \in Nat
      /\ L.size \in Nat
  BY <1>2, Types, Zenon DEF IInv
<1>7. L.size <= 2 * LUAI_MAXCALLS
  BY <1>2 DEF IInv, LimitInv
<1>8. Base(n) \in Nat
  BY <1>5 DEF Base
<1>9. At(n, Running, Base(n), Len(L.ci))
  BY ONLY <1>1, <1>2, <1>3, <1>4, <1>5, <1>6, <1>7, <1>8 DEF At
<1> QED
  BY <1>9

\* A Lua function returns to the one that called it.
LEMMA ReturnToLuaStep ==
  ASSUME IInv, ReturnToLua
  PROVE  IInv' /\ Keeps
<1>1. PICK n, R, b, len : At(n, R, b, len)
  BY Here
<1>2. /\ n >= 3 /\ raising = "no" /\ L.ci # <<>> /\ Top.n = len - b
      /\ L.ci[len] = "lua"
  <2>1. n = Len(cstack) /\ InLua
    BY <1>1 DEF At, ReturnToLua
  <2>2. n >= 3 /\ raising = "no" /\ L.ci # <<>> /\ Top.n = Len(L.ci) - Base(n)
        /\ L.ci[Len(L.ci)] = "lua"
    BY <2>1, LuaRuns
  <2> QED
    BY ONLY <1>1, <2>2 DEF At
<1>3. /\ Top.n > 1 /\ th' = [th EXCEPT ![R].ci = Front(@)]
      /\ cstack' = [cstack EXCEPT ![n].n = @ - 1] /\ raising' = raising
  BY <1>1 DEF At, ReturnToLua
<1>4. /\ Front(L.ci) \in Seq(Functions) /\ Len(Front(L.ci)) = len - 1
      /\ \A p \in 1..len - 1 : Front(L.ci)[p] = L.ci[p]
  BY <1>1, <1>2, Fronts, Zenon DEF At
<1>5. PICK s : s = [L EXCEPT !.ci = Front(L.ci)]
  BY Zenon
<1>6. s \in ThreadSet /\ s.ci = Front(L.ci)
  BY ONLY <1>1, <1>4, <1>5, Zenon DEF ThreadSet, At
<1>7. /\ s.status = L.status /\ s.nCcalls = L.nCcalls /\ s.size = L.size
      /\ s.baseCcalls = L.baseCcalls /\ s.errorJmp = L.errorJmp
  BY ONLY <1>1, <1>5 DEF ThreadSet, At
<1>8. R \in Threads /\ L = th[R] /\ Top = cstack[n]
  BY <1>1 DEF At
<1>9. th' = [th EXCEPT ![R] = s]
  BY ONLY <1>3, <1>5, <1>8
<1>10. /\ th' \in [Threads -> ThreadSet] /\ th'[R] = s
       /\ \A t \in Threads : t # R => th'[t] = th[t]
  BY <1>6, <1>8, <1>9, Updated, Zenon DEF IInv
<1>11. PICK k \in Nat : k = Top.n - 1 /\ k > 0
  BY ONLY <1>1, <1>3 DEF At
<1>12. PICK w : w = [cstack[n] EXCEPT !.n = k]
  BY Zenon
<1>13. cstack' = [cstack EXCEPT ![n] = w]
  BY ONLY <1>3, <1>8, <1>11, <1>12
<1>14. /\ w \in FrameSet /\ w.n = k /\ w.kind = cstack[n].kind /\ w.t = cstack[n].t
       /\ w.ci = cstack[n].ci /\ w.previous = cstack[n].previous
  BY ONLY <1>1, <1>8, <1>11, <1>12, Zenon DEF FrameSet, At
<1>15. cstack \in Seq(FrameSet)
  BY DEF IInv, TypeInv
<1>16. /\ cstack' \in Seq(FrameSet) /\ Len(cstack') = n
       /\ \A i \in 1..n - 1 : cstack'[i] = cstack[i]
       /\ cstack'[n] = w
  BY ONLY <1>1, <1>13, <1>14, <1>15 DEF At
<1>17. /\ n = Len(cstack) /\ R = Running /\ b = Base(n) /\ R = cstack[n].t
       /\ b \in Nat /\ len \in Nat /\ Upto(n) = len /\ n \in DOMAIN cstack
  BY <1>1 DEF At
<1>18. PICK m \in Nat : len = m + 1 /\ k = m - b /\ b < m
  BY ONLY <1>2, <1>11, <1>17
<1>19. Len(s.ci) = m /\ \A p \in 1..m : s.ci[p] = L.ci[p]
  BY ONLY <1>4, <1>6, <1>18
<1>20. \A p \in 1..b : s.ci[p] = L.ci[p]
  <2>1. \A p \in 1..b : p \in 1..m
    BY ONLY <1>17, <1>18
  <2> QED
    BY ONLY <1>19, <2>1
<1>21. \A p \in b + 1..m : s.ci[p] = "lua"
  <2>1. \A p \in Base(n) + 1..Upto(n) - 1 : th[cstack[n].t].ci[p] = "lua"
    BY <1>17, Zenon DEF IInv, OwnerInv
  <2>2. \A p \in b + 1..m : p \in 1..m /\ p \in Base(n) + 1..Upto(n) - 1
    BY ONLY <1>17, <1>18
  <2> QED
    BY ONLY <1>8, <1>17, <1>19, <2>1, <2>2, Zenon
<1>22. \A p \in m + 1..Len(s.ci) : s.ci[p] # "lua" /\ s.ci[p] # "main"
  BY ONLY <1>19
<1>23. m \in b + 1..Len(s.ci) /\ Len(s.ci) <= m + 1
  BY ONLY <1>17, <1>18, <1>19
<1>24. raising = "no" /\ raising' = "no" /\ s.size <= 2 * LUAI_MAXCALLS /\ n >= 3
  BY ONLY <1>1, <1>2, <1>3, <1>7 DEF At
<1>25. w.n = m - Base(n)
  BY ONLY <1>14, <1>17, <1>18
<1>26. Ran(m)
  BY ONLY <1>7, <1>10, <1>14, <1>16, <1>17, <1>20, <1>21, <1>22, <1>23, <1>24, <1>25, Zenon DEF Ran
<1> QED
  BY <1>26, Runs

\* How luaD_call counts a level, at the limit and beyond it.
LEMMA LevelLimits ==
  ASSUME NEW v \in Nat, v < LUAI_MAXCCALLS + Extra, NEW r,
         r = (IF v + 1 = LUAI_MAXCCALLS THEN "msg"
              ELSE IF v + 1 >= LUAI_MAXCCALLS + Extra THEN "err" ELSE "no")
  PROVE  /\ r \in {"no", "msg", "run", "err"}
         /\ v + 1 <= LUAI_MAXCCALLS + Extra
         /\ r # "err" => v + 1 < LUAI_MAXCCALLS + Extra
<1>1. LUAI_MAXCCALLS \in Nat /\ Extra \in Nat /\ Extra > 0
  OBVIOUS
<1> QED
  BY ONLY <1>1, v \in Nat, v < LUAI_MAXCCALLS + Extra,
          r = (IF v + 1 = LUAI_MAXCCALLS THEN "msg"
               ELSE IF v + 1 >= LUAI_MAXCCALLS + Extra THEN "err" ELSE "no")

\* The levels and the jump buffers of a stack that grew, up to where it was.
LEMMA Below ==
  ASSUME NEW n \in Nat, n = Len(cstack), \A i \in 1..n : cstack'[i] = cstack[i], NEW t
  PROVE  /\ LevelsIn(cstack', n) = Levels(n)
         /\ JumpsIn(cstack', t, n) = Jumps(t, n)
         /\ \A m : Innermost(m, t, n) => InnermostIn(cstack', m, t, n)
<1>1. LevelsIn(cstack', n) = Levels(n)
  BY DEF Levels, LevelsIn
<1>2. JumpsIn(cstack', t, n) = Jumps(t, n)
  BY DEF Jumps, JumpsIn
<1> QED
  BY <1>1, <1>2 DEF Innermost, InnermostIn

\* luaD_call of a metamethod or of an error handler.
LEMMA CallSteps ==
  ASSUME IInv, NEW kind \in {"call", "handler"}, Call(kind, L, cstack), raising # "err",
         Len(cstack) # 2
  PROVE  IInv' /\ Keeps
<1>1. PICK n, R, b, len : At(n, R, b, len)
  BY Here
<1>2. /\ n = Len(cstack) /\ n \in Nat /\ n >= 2 /\ n # 2 /\ R \in Threads /\ R = Running
      /\ L = th[R] /\ len = Len(L.ci) /\ len \in Nat /\ L \in ThreadSet
      /\ L.nCcalls = Cardinality(Levels(n)) /\ L.nCcalls \in Nat
      /\ cstack \in Seq(FrameSet)
  BY <1>1, Zenon DEF At, IInv, TypeInv
<1>3. PICK level \in Nat : level = L.nCcalls + 1
  BY <1>2
<1>4. PICK w : w = Frame(kind, R, L)
  OBVIOUS
<1>5. /\ w \in FrameSet /\ w.kind = kind /\ w.t = R /\ w.n = 0 /\ w.ci = len
  BY ONLY <1>2, <1>4, kind \in {"call", "handler"}, Zenon DEF Frame, FrameSet, ThreadSet
<1>6. PICK s : s = [L EXCEPT !.nCcalls = level]
  BY Zenon
<1>7. /\ s \in ThreadSet /\ s.nCcalls = level /\ s.ci = L.ci /\ s.status = L.status
      /\ s.baseCcalls = L.baseCcalls /\ s.size = L.size /\ s.errorJmp = L.errorJmp
  BY ONLY <1>2, <1>3, <1>6, Zenon DEF ThreadSet
<1>8. /\ th' = [th EXCEPT ![R] = s] /\ cstack' = Append(cstack, w)
      /\ raising' = IF level = LUAI_MAXCCALLS THEN "msg"
                    ELSE IF level >= LUAI_MAXCCALLS + Extra THEN "err" ELSE "no"
  BY <1>2, <1>3, <1>4, <1>6 DEF Call
<1>9. /\ th' \in [Threads -> ThreadSet] /\ th'[R] = s
      /\ \A t \in Threads : t # R => th'[t] = th[t]
  BY <1>2, <1>7, <1>8, Updated, Zenon DEF IInv
<1>10. /\ cstack' \in Seq(FrameSet) /\ Len(cstack') = n + 1
       /\ \A i \in 1..n : cstack'[i] = cstack[i]
       /\ cstack'[n + 1] = w
  BY ONLY <1>2, <1>5, <1>8
<1>11. /\ raising' \in {"no", "msg", "run", "err"}
       /\ level <= LUAI_MAXCCALLS + Extra
       /\ raising' # "err" => level < LUAI_MAXCCALLS + Extra
  <2>1. L.nCcalls < LUAI_MAXCCALLS + Extra
    BY DEF IInv, LimitInv
  <2> QED
    BY <1>2, <1>3, <1>8, <2>1, LevelLimits, Zenon
<1>12. Innermost(L.errorJmp, R, n)
  BY <1>2 DEF IInv, JumpInv
<1>13. /\ LevelsIn(cstack', n) = Levels(n) /\ JumpsIn(cstack', R, n) = Jumps(R, n)
       /\ InnermostIn(cstack', L.errorJmp, R, n)
  BY <1>2, <1>10, <1>12, Below, Zenon
<1>14. PICK q \in Nat : q = n + 1
  BY <1>2
<1>15. Cardinality(LevelsIn(cstack', q)) = level
  <2>1. q \in Nat \ {0} /\ q - 1 = n
    BY ONLY <1>2, <1>14
  <2>2. Cardinality(LevelsIn(cstack', q)) =
          Cardinality(LevelsIn(cstack', q - 1)) + (IF cstack'[q].kind \in Counted THEN 1 ELSE 0)
    BY <2>1, Counting, Zenon
  <2>3. cstack'[q].kind \in Counted
    BY ONLY <1>5, <1>10, <1>14, kind \in {"call", "handler"} DEF Counted
  <2> QED
    BY ONLY <1>2, <1>3, <1>13, <2>1, <2>2, <2>3
<1>16. InnermostIn(cstack', L.errorJmp, R, q)
  <2>1. cstack'[q].kind \notin {"pcall", "resume"}
    BY ONLY <1>5, <1>10, <1>14, kind \in {"call", "handler"}
  <2>2. \A i : i \in 1..q <=> i \in 1..n \/ i = q
    BY ONLY <1>2, <1>14
  <2>3. JumpsIn(cstack', R, q) = JumpsIn(cstack', R, n)
    BY ONLY <2>1, <2>2 DEF JumpsIn
  <2> QED
    BY ONLY <1>13, <2>3 DEF InnermostIn
<1>17. \A i \in n + 1..q :
         /\ cstack'[i].t = R /\ cstack'[i].n = 0 /\ cstack'[i].ci = len
         /\ cstack'[i].kind \in {"call", "handler", "pcall"} /\ cstack'[i].kind # "pcall"
  <2>1. \A i \in n + 1..q : i = n + 1
    BY ONLY <1>2, <1>14
  <2> QED
    BY ONLY <1>5, <1>10, <2>1, kind \in {"call", "handler"}
<1>18. n < q /\ q = Len(cstack')
  BY ONLY <1>2, <1>10, <1>14
<1>19. Called(n, q, R, len)
  BY ONLY <1>2, <1>7, <1>9, <1>10, <1>11, <1>15, <1>16, <1>17, <1>18 DEF Called
<1> QED
  BY <1>19, Calls

\* luaD_pcall saves what an error puts back, and calls.
LEMMA ProtectStep ==
  ASSUME IInv, Protect
  PROVE  IInv' /\ Keeps
<1>1. PICK n, R, b, len : At(n, R, b, len)
  BY Here
<1>2. /\ n = Len(cstack) /\ n \in Nat /\ n >= 2 /\ R \in Threads /\ R = Running
      /\ L = th[R] /\ len = Len(L.ci) /\ len \in Nat /\ L \in ThreadSet
      /\ L.nCcalls = Cardinality(Levels(n)) /\ L.nCcalls \in Nat
      /\ cstack \in Seq(FrameSet)
  BY <1>1 DEF At, IInv, TypeInv
<1>3. PICK f \in {"pcall", "xpcall", "main"} :
        /\ InC(f)
        /\ Call("call", [L EXCEPT !.errfunc = (f # "pcall"), !.errorJmp = n + 1],
                Append(cstack, Frame("pcall", R, L)))
  BY <1>2, Zenon DEF Protect
<1>4. /\ raising = "no" /\ L.ci # <<>> /\ Last(L.ci) = f /\ Top.n > 0
      /\ n = 2 => f = "main"
      /\ f = "main" => n = 2 /\ L.ci = <<"main">>
  <2>1. f \in Functions \ {"lua"}
    BY DEF Functions
  <2> QED
    BY <1>2, <1>3, <2>1, CRuns, Zenon
<1>5. PICK level \in Nat : level = L.nCcalls + 1
  BY <1>2
<1>6. PICK v : v = Frame("pcall", R, L)
  OBVIOUS
<1>7. /\ v \in FrameSet /\ v.kind = "pcall" /\ v.t = R /\ v.n = 0 /\ v.ci = len
      /\ v.nCcalls = L.nCcalls /\ v.previous = L.errorJmp
  BY ONLY <1>2, <1>6, Zenon DEF Frame, FrameSet, ThreadSet
<1>8. PICK z : z = [L EXCEPT !.errfunc = (f # "pcall"), !.errorJmp = n + 1]
  OBVIOUS
<1>9. n + 1 \in Nat
  BY ONLY <1>2
<1>31. (f # "pcall") \in BOOLEAN
  OBVIOUS
<1>10. /\ z \in ThreadSet /\ z.nCcalls = L.nCcalls /\ z.ci = L.ci /\ z.status = L.status
       /\ z.baseCcalls = L.baseCcalls /\ z.size = L.size /\ z.errorJmp = n + 1
  BY ONLY <1>2, <1>8, <1>9, <1>31, Zenon DEF ThreadSet
<1>11. PICK w : w = Frame("call", R, z)
  OBVIOUS
<1>12. /\ w \in FrameSet /\ w.kind = "call" /\ w.t = R /\ w.n = 0 /\ w.ci = len
  <2>1. z.errfunc \in BOOLEAN /\ z.nCcalls \in Nat /\ Len(z.ci) = len
    BY ONLY <1>2, <1>10 DEF ThreadSet
  <2> QED
    BY ONLY <1>2, <1>9, <1>10, <1>11, <2>1 DEF Frame, FrameSet
<1>13. PICK s : s = [z EXCEPT !.nCcalls = level]
  BY Zenon
<1>14. /\ s \in ThreadSet /\ s.nCcalls = level /\ s.ci = L.ci /\ s.status = L.status
       /\ s.baseCcalls = L.baseCcalls /\ s.size = L.size /\ s.errorJmp = n + 1
  BY ONLY <1>10, <1>13 DEF ThreadSet
<1>15. /\ th' = [th EXCEPT ![R] = s] /\ cstack' = Append(Append(cstack, v), w)
       /\ raising' = IF level = LUAI_MAXCCALLS THEN "msg"
                     ELSE IF level >= LUAI_MAXCCALLS + Extra THEN "err" ELSE "no"
  <2>1. Call("call", z, Append(cstack, v))
    BY <1>3, <1>6, <1>8
  <2> QED
    BY <1>2, <1>5, <1>10, <1>11, <1>13, <2>1 DEF Call
<1>16. /\ th' \in [Threads -> ThreadSet] /\ th'[R] = s
       /\ \A t \in Threads : t # R => th'[t] = th[t]
  BY <1>2, <1>14, <1>15, Updated, Zenon DEF IInv
<1>17. PICK c \in Seq(FrameSet) : c = Append(cstack, v)
  <2>1. Append(cstack, v) \in Seq(FrameSet)
    BY ONLY <1>2, <1>7
  <2> QED
    BY ONLY <2>1, Zenon
<1>18. Len(c) = n + 1 /\ c[n + 1] = v /\ \A i \in 1..n : c[i] = cstack[i]
  BY ONLY <1>2, <1>7, <1>17
<1>19. PICK q \in Nat : q = n + 2 /\ n < q
  BY <1>2
<1>20. /\ cstack' \in Seq(FrameSet) /\ Len(cstack') = q
       /\ cstack'[n + 1] = v /\ cstack'[q] = w
       /\ \A i \in 1..n : cstack'[i] = cstack[i]
  <2>1. cstack' = Append(c, w)
    BY <1>15, <1>17
  <2>2. /\ cstack' \in Seq(FrameSet) /\ Len(cstack') = Len(c) + 1
        /\ cstack'[Len(c) + 1] = w /\ \A i \in 1..Len(c) : cstack'[i] = c[i]
    BY ONLY <1>12, <1>17, <2>1
  <2>3. Len(c) + 1 = q /\ n + 1 \in 1..Len(c) /\ \A i \in 1..n : i \in 1..Len(c)
    BY ONLY <1>2, <1>18, <1>19
  <2> QED
    BY ONLY <1>18, <2>2, <2>3
<1>21. /\ raising' \in {"no", "msg", "run", "err"}
       /\ level <= LUAI_MAXCCALLS + Extra
       /\ raising' # "err" => level < LUAI_MAXCCALLS + Extra
  <2>1. L.nCcalls < LUAI_MAXCCALLS + Extra
    BY <1>4 DEF IInv, LimitInv
  <2> QED
    BY <1>2, <1>5, <1>15, <2>1, LevelLimits
<1>22. Innermost(L.errorJmp, R, n)
  BY <1>2 DEF IInv, JumpInv
<1>23. /\ LevelsIn(cstack', n) = Levels(n) /\ InnermostIn(cstack', L.errorJmp, R, n)
  BY <1>2, <1>20, <1>22, Below, Zenon
<1>24. Cardinality(LevelsIn(cstack', q)) = level
  <2>1. q \in Nat \ {0} /\ n + 1 \in Nat \ {0} /\ q - 1 = n + 1 /\ n + 1 - 1 = n
    BY ONLY <1>2, <1>19
  <2>2. \A m \in Nat \ {0} : Cardinality(LevelsIn(cstack', m)) =
          Cardinality(LevelsIn(cstack', m - 1)) + (IF cstack'[m].kind \in Counted THEN 1 ELSE 0)
    BY Counting, Zenon
  <2>3. cstack'[q].kind \in Counted /\ cstack'[n + 1].kind \notin Counted
    BY ONLY <1>7, <1>12, <1>20 DEF Counted
  <2>4. Cardinality(LevelsIn(cstack', n + 1)) = L.nCcalls
    BY ONLY <1>2, <1>23, <2>1, <2>2, <2>3
  <2> QED
    BY ONLY <1>5, <2>1, <2>2, <2>3, <2>4
<1>25. InnermostIn(cstack', n + 1, R, q)
  <2>1. \A i \in 1..q : i <= n + 1 \/ i = q
    BY ONLY <1>2, <1>19
  <2>2. n + 1 \in 1..q /\ cstack'[q].kind \notin {"pcall", "resume"}
    BY ONLY <1>2, <1>12, <1>19, <1>20
  <2> QED
    BY ONLY <1>7, <1>20, <2>1, <2>2 DEF InnermostIn, JumpsIn
<1>26. ASSUME NEW i \in n + 1..q
       PROVE  /\ cstack'[i].t = R /\ cstack'[i].n = 0 /\ cstack'[i].ci = len
              /\ cstack'[i].kind \in {"call", "handler", "pcall"}
              /\ cstack'[i].kind = "pcall" =>
                   /\ i = n + 1 /\ i < q /\ cstack'[i + 1].kind = "call"
                   /\ cstack'[i].nCcalls = Cardinality(LevelsIn(cstack', i - 1))
                   /\ InnermostIn(cstack', cstack'[i].previous, R, i - 1)
                   /\ Top.n > 0 /\ L.ci # <<>> /\ Last(L.ci) \in {"pcall", "xpcall", "main"}
                   /\ Last(L.ci) = "main" => n = 2
  <2>1. CASE i = n + 1
    <3>1. i - 1 = n /\ i < q /\ i + 1 = q
      BY ONLY <1>2, <1>19, <2>1
    <3> QED
      BY ONLY <1>2, <1>4, <1>7, <1>12, <1>20, <1>23, <2>1, <3>1
  <2>2. CASE i = q
    BY ONLY <1>12, <1>20, <2>2
  <2>3. i = n + 1 \/ i = q
    BY ONLY <1>2, <1>19, i \in n + 1..q
  <2> QED
    BY <2>1, <2>2, <2>3
<1>27. n = 2 => cstack'[3].kind = "pcall" /\ L.ci = <<"main">>
  BY ONLY <1>4, <1>7, <1>20, n = 2 => n + 1 = 3
<1>28. Called(n, q, R, len)
  BY ONLY <1>2, <1>14, <1>16, <1>19, <1>20, <1>21, <1>24, <1>25, <1>26, <1>27 DEF Called
<1> QED
  BY <1>28, Calls

\* What may be resumed has no frames; it yielded, or has not begun.
LEMMA ResumableIsOff ==
  ASSUME IInv, NEW co \in Coroutines, Resumable(co)
  PROVE  /\ co # Running /\ ~ Has(co, Len(cstack))
         /\ \/ th[co].status = "yield"
            \/ th[co].status = "ok" /\ th[co].ci = <<>>
<1>1. co # Running /\ (th[co].status = "yield" \/ (th[co].status = "ok" /\ th[co].ci = <<>>))
  <2>1. CASE co = Running
    <3>1. CoStatus(co) = "running"
      BY ONLY <2>1 DEF CoStatus
    <3> QED
      BY <3>1 DEF Resumable
  <2>2. CASE co # Running /\ th[co].status = "yield"
    BY ONLY <2>2
  <2>3. CASE co # Running /\ th[co].status # "yield" /\ th[co].status = "ok"
    <3>1. CoStatus(co) = IF th[co].ci # <<>> THEN "normal" ELSE IF th[co].top THEN "suspended" ELSE "dead"
      BY ONLY <2>3 DEF CoStatus
    <3> QED
      BY <2>3, <3>1 DEF Resumable
  <2>4. CASE co # Running /\ th[co].status # "yield" /\ th[co].status # "ok"
    <3>1. CoStatus(co) = "dead"
      BY ONLY <2>4 DEF CoStatus
    <3> QED
      BY <3>1 DEF Resumable
  <2> QED
    BY <2>1, <2>2, <2>3, <2>4
<1>2. DOMAIN cstack = 1..Len(cstack)
  BY Types DEF IInv
<1>3. ASSUME NEW i \in 1..Len(cstack), cstack[i].t = co
      PROVE  FALSE
  <2>1. th[co].status = "ok" /\ th[co].ci # <<>>
    <3>1. i \in DOMAIN cstack /\ cstack[i].t # Running
      BY <1>1, <1>2, <1>3
    <3> QED
      BY <1>3, <3>1 DEF IInv, StatusInv
  <2> QED
    BY <1>1, <2>1
<1> QED
  BY <1>1, <1>3 DEF Has

\* lua_resume begins a coroutine, or goes on where it yielded.
LEMMA ResumeSteps ==
  ASSUME IInv, NEW f \in {"resume", "wrap"}, NEW co \in Coroutines, Resume(f, co)
  PROVE  IInv' /\ Keeps
<1>1. PICK n, R, b, len : At(n, R, b, len)
  BY Here
<1>2. /\ n = Len(cstack) /\ n \in Nat /\ n >= 2 /\ R \in Threads /\ R = Running
      /\ L = th[R] /\ L.nCcalls \in Nat /\ cstack \in Seq(FrameSet) /\ Top = cstack[n]
  BY <1>1 DEF At, IInv, TypeInv
<1>3. InC(f) /\ Resumable(co) /\ L.nCcalls < LUAI_MAXCCALLS /\ raising' = raising
  BY DEF Resume
<1>4. /\ raising = "no" /\ L.ci # <<>> /\ Last(L.ci) = f /\ Top.n > 0 /\ n >= 3
  <2>1. f \in Functions \ {"lua"} /\ f # "main"
    BY DEF Functions
  <2>2. raising = "no" /\ L.ci # <<>> /\ Last(L.ci) = f /\ Top.n > 0 /\ n # 2
    BY <1>2, <1>3, <2>1, CRuns
  <2> QED
    BY ONLY <1>2, <2>2
<1>5. co # R /\ ~ Has(co, n) /\ (th[co].status = "yield" \/ th[co].ci = <<>>)
  BY <1>2, <1>3, ResumableIsOff
<1>6. PICK s \in ThreadSet : s = th[co]
  BY DEF IInv, TypeInv
<1>7. s.ci \in Seq(Functions) /\ s.errorJmp \in Nat /\ s.nCcalls \in Nat /\ s.errfunc \in BOOLEAN
  BY <1>6 DEF ThreadSet
<1>8. PICK ci : ci = IF s.status = "yield" THEN Front(s.ci) ELSE <<>>
  OBVIOUS
<1>9. PICK k \in Nat : k = Len(ci) /\ ci \in Seq(Functions) /\ \A p \in 1..k : ci[p] = "lua"
  <2>1. CASE s.status = "yield"
    <3>1. s.ci # <<>> /\ \A p \in 1..Len(s.ci) - 1 : s.ci[p] = "lua"
      BY <1>6, <2>1 DEF IInv, StatusInv
    <3>2. /\ Len(s.ci) \in Nat \ {0} /\ Len(Front(s.ci)) = Len(s.ci) - 1
          /\ Front(s.ci) \in Seq(Functions)
          /\ \A p \in 1..Len(s.ci) - 1 : Front(s.ci)[p] = s.ci[p]
      BY ONLY <1>7, <3>1, Fronts
    <3>3. Len(s.ci) - 1 \in Nat
      BY ONLY <3>2
    <3>4. ci = Front(s.ci)
      BY ONLY <1>8, <2>1
    <3>5. Len(ci) = Len(s.ci) - 1 /\ ci \in Seq(Functions)
          /\ \A p \in 1..Len(ci) : ci[p] = "lua"
      BY ONLY <3>1, <3>2, <3>4
    <3> QED
      BY ONLY <3>3, <3>5
  <2>2. CASE s.status # "yield"
    <3>1. ci = <<>>
      BY ONLY <1>8, <2>2
    <3>2. 0 = Len(ci) /\ ci \in Seq(Functions) /\ \A p \in 1..0 : ci[p] = "lua"
      BY ONLY <3>1
    <3> QED
      BY ONLY <3>2
  <2> QED
    BY <2>1, <2>2
<1>10. PICK level \in Nat : level = L.nCcalls + 1
  BY <1>2
<1>11. PICK z : z = [s EXCEPT !.status = "ok", !.ci = ci, !.nCcalls = level,
                              !.baseCcalls = level, !.errorJmp = n + 1]
  OBVIOUS
<1>12. n + 1 \in Nat
  BY ONLY <1>2
<1>13. /\ z \in ThreadSet /\ z.status = "ok" /\ z.ci = ci /\ z.nCcalls = level
       /\ z.baseCcalls = level /\ z.errorJmp = n + 1 /\ z.size = s.size
  BY ONLY s \in ThreadSet, <1>9, <1>11, <1>12, Zenon DEF ThreadSet
<1>14. PICK w : w = [Frame("resume", co, s) EXCEPT !.n = k]
  BY Zenon
<1>15. /\ w \in FrameSet /\ w.kind = "resume" /\ w.t = co /\ w.n = k /\ w.previous = s.errorJmp
  <2>1. Len(s.ci) \in Nat /\ co \in Threads
    BY <1>7
  <2> QED
    BY ONLY <1>7, <1>14, <2>1 DEF Frame, FrameSet
<1>16. th' = [th EXCEPT ![co] = z] /\ cstack' = Append(cstack, w)
  <2>1. /\ th' = [th EXCEPT ![co] = [@ EXCEPT !.status = "ok", !.ci = ci, !.nCcalls = level,
                                              !.baseCcalls = level, !.errorJmp = n + 1]]
        /\ cstack' = Append(cstack, [Frame("resume", co, s) EXCEPT !.n = Len(ci)])
    BY <1>2, <1>6, <1>8, <1>10 DEF Resume
  <2> QED
    BY ONLY <1>6, <1>9, <1>11, <1>14, <2>1
<1>17. /\ th' \in [Threads -> ThreadSet] /\ th'[co] = z
       /\ \A t \in Threads : t # co => th'[t] = th[t]
  <2>1. co \in Threads
    OBVIOUS
  <2> QED
    BY <1>13, <1>16, <2>1, Updated, Zenon DEF IInv
<1>18. /\ cstack' \in Seq(FrameSet) /\ Len(cstack') = n + 1
       /\ \A i \in 1..n : cstack'[i] = cstack[i]
       /\ cstack'[n + 1] = w
  BY ONLY <1>2, <1>15, <1>16
<1>19. f \in {"resume", "wrap"} /\ co \in Coroutines /\ Resumable(co)
  BY DEF Resume
<1>20. Resumed(n, R, co, k)
  BY ONLY <1>2, <1>3, <1>4, <1>5, <1>6, <1>9, <1>10, <1>13, <1>15, <1>17, <1>18, <1>19 DEF Resumed
<1> QED
  BY <1>20, Resumes

\* A coroutine that cannot be resumed: auxresume answers for it, auxwrap raises.
LEMMA CannotResumeSteps ==
  ASSUME IInv, NEW f \in {"resume", "wrap"}, NEW co \in Coroutines, CannotResume(f, co)
  PROVE  IInv' /\ Keeps
<1>1. PICK n, R, b, len : At(n, R, b, len)
  BY Here
<1>2. /\ n = Len(cstack) /\ n \in Nat /\ n >= 2 /\ R \in Threads /\ R = Running
      /\ L = th[R] /\ L.nCcalls \in Nat /\ L.ci \in Seq(Functions) /\ L \in ThreadSet
      /\ th \in [Threads -> ThreadSet] /\ len = Len(L.ci) /\ len \in Nat
  BY <1>1 DEF At, IInv, TypeInv
<1>3. InC(f) /\ cstack' = cstack /\ raising' = IF f = "wrap" THEN "msg" ELSE "no"
  BY DEF CannotResume
<1>4. /\ raising = "no" /\ L.ci # <<>> /\ Last(L.ci) = f /\ n # 2 /\ Base(n) < len
  <2>1. f \in Functions \ {"lua"} /\ f # "main"
    BY DEF Functions
  <2>2. raising = "no" /\ L.ci # <<>> /\ Last(L.ci) = f /\ n # 2
        /\ (n >= 3 => Base(n) < Len(L.ci))
    BY <1>2, <1>3, <2>1, CRuns, Zenon
  <2> QED
    BY ONLY <1>2, <2>2
<1>5. PICK s \in ThreadSet : s = IF f = "wrap" THEN L ELSE [L EXCEPT !.ci = Front(L.ci)]
  <2>1. Front(L.ci) \in Seq(Functions)
    BY <1>2, <1>4, Fronts
  <2>2. [L EXCEPT !.ci = Front(L.ci)] \in ThreadSet
    BY ONLY <1>2, <2>1, Zenon DEF ThreadSet
  <2> QED
    BY ONLY <1>2, <2>2
<1>6. /\ s.status = L.status /\ s.nCcalls = L.nCcalls /\ s.size = L.size
      /\ s.baseCcalls = L.baseCcalls /\ s.errorJmp = L.errorJmp
      /\ s.ci = L.ci \/ (s.ci = Front(L.ci) /\ f = "resume")
  BY ONLY <1>2, <1>5, f \in {"resume", "wrap"} DEF ThreadSet
<1>7. PICK u \in [Threads -> ThreadSet] :
        u = [th EXCEPT ![R] = s]
  <2>1. [th EXCEPT ![R] = s] \in [Threads -> ThreadSet]
    BY ONLY <1>2, s \in ThreadSet
  <2> QED
    BY ONLY <2>1, Zenon
<1>8. u[R] = s /\ \A t \in Threads : t # R => u[t] = th[t]
  BY ONLY <1>2, <1>7
<1>9. s = IF f = "wrap" THEN L ELSE Returned(L)
  <2>1. f = "resume" => Returned(L) = [L EXCEPT !.ci = Front(L.ci)]
    BY ONLY <1>4 DEF Returned
  <2> QED
    BY ONLY <1>5, <2>1, f \in {"resume", "wrap"}
<1>10. /\ raising' \in {"no", "msg", "run", "err"} /\ L.nCcalls < LUAI_MAXCCALLS + Extra
       /\ \A t \in Threads : th[t].size <= 2 * LUAI_MAXCALLS
  BY <1>3, <1>4 DEF IInv, LimitInv
<1>11. Last(L.ci) \notin {"lua", "main"}
  BY <1>4
<1>12. CASE ~ Resumable(co)
  <2>1. th' = u
    <3>1. th' = [th EXCEPT ![R] = IF f = "wrap" THEN @ ELSE Returned(@), ![co] = @]
      BY <1>2, <1>12 DEF CannotResume
    <3>2. \A t \in Threads : th'[t] = u[t]
      BY ONLY <1>2, <1>8, <1>9, <3>1
    <3>3. th' \in [Threads -> {th'[t] : t \in Threads}]
      BY ONLY <1>2, <3>1
    <3> QED
      BY ONLY <1>7, <3>2, <3>3
  <2>2. \A t \in Threads : th'[t].size <= 2 * LUAI_MAXCALLS
    BY ONLY <1>2, <1>6, <1>8, <1>10, <2>1
  <2>3. Stayed
    BY ONLY <1>2, <1>3, <1>4, <1>6, <1>7, <1>8, <1>10, <1>11, <2>1, <2>2 DEF Stayed
  <2> QED
    BY <2>3, Stays
<1>13. CASE Resumable(co)
  <2>1. co # R /\ ~ Has(co, n) /\ co \in Threads
    BY <1>2, <1>13, ResumableIsOff
  <2>2. PICK z : z = [th[co] EXCEPT !.nCcalls = L.nCcalls, !.top = th[co].top /\ th[co].ci # <<>>]
    OBVIOUS
  <2>3. th[co] \in ThreadSet /\ th[co].top \in BOOLEAN
    BY ONLY <1>2, <2>1 DEF ThreadSet
  <2>4. (th[co].top /\ th[co].ci # <<>>) \in BOOLEAN
    BY ONLY <2>3
  <2>5. /\ z \in ThreadSet /\ z.errorJmp = th[co].errorJmp /\ z.ci = th[co].ci
        /\ z.status = th[co].status /\ z.size = th[co].size
    BY ONLY <1>2, <2>2, <2>3, <2>4, Zenon DEF ThreadSet
  <2>6. th' = [th EXCEPT ![R] = IF f = "wrap" THEN @ ELSE Returned(@),
                         ![co] = [th[co] EXCEPT !.nCcalls = L.nCcalls,
                                              !.top = th[co].top /\ th[co].ci # <<>>]]
    BY <1>2, <1>13 DEF CannotResume
  <2>7. /\ th'[co] = z /\ th'[R] = s
        /\ \A t \in Threads : t # R /\ t # co => th'[t] = th[t]
    <3>1. co \in Threads /\ co # R /\ R \in Threads /\ s = IF f = "wrap" THEN th[R] ELSE Returned(th[R])
      BY <1>2, <1>9, <2>1
    <3>2. th'[R] = s
      BY ONLY <1>2, <3>1, <2>6
    <3>3. th'[co] = z
      BY ONLY <1>2, <2>2, <3>1, <2>6
    <3>4. ASSUME NEW t \in Threads, t # R /\ t # co PROVE th'[t] = th[t]
      BY ONLY <1>2, <3>4, <2>6
    <3> QED
      BY <3>2, <3>3, <3>4
  <2>10. th' \in [Threads -> ThreadSet]
    <3>1. DOMAIN th' = Threads /\ th' = [t \in Threads |-> th'[t]]
      BY ONLY <1>2, <2>6, Zenon
    <3>2. \A t \in Threads : th'[t] \in ThreadSet
      BY ONLY <1>2, <2>5, <2>7, s \in ThreadSet
    <3> QED
      BY ONLY <3>1, <3>2
  <2>8. \A t \in Threads : th'[t].size <= 2 * LUAI_MAXCALLS
    BY ONLY <1>2, <1>6, <1>10, <2>1, <2>5, <2>7
  <2>9. Stayed
    BY ONLY <1>2, <1>3, <1>4, <1>6, <1>10, <1>11, <1>13, <2>1, <2>5, <2>7, <2>8, <2>10 DEF Stayed
  <2> QED
    BY <2>9, Stays
<1> QED
  BY <1>12, <1>13

\* A frame that runs Lua functions has a part of the ci of its thread.
LEMMA PartIsThere ==
  ASSUME IInv, NEW i \in 3..Len(cstack), cstack[i].n > 0
  PROVE  Base(i) < Upto(i)
<1>1. i \in DOMAIN cstack /\ i # 2 /\ Len(cstack) \in Nat /\ i \in 1..Len(cstack)
  BY Types DEF IInv
<1>2. /\ Base(i) <= Upto(i) /\ Upto(i) <= Len(th[cstack[i].t].ci)
      /\ cstack[i].n = Cardinality(Owned(i))
  BY <1>1 DEF IInv, OwnerInv
<1>3. cstack[i].ci \in Nat /\ cstack[i].t \in Threads /\ Len(th[cstack[i].t].ci) \in Nat
      /\ (i < Len(cstack) => cstack[i + 1].ci \in Nat)
  <2>1. i < Len(cstack) => i + 1 \in 1..Len(cstack)
    BY <1>1
  <2> QED
    BY <1>1, <2>1, Types, Zenon DEF IInv
<1>4. Base(i) \in Nat
  BY ONLY <1>3 DEF Base
<1>5. Upto(i) \in Nat
  BY ONLY <1>1, <1>3 DEF Upto, Base
<1>6. CASE Base(i) = Upto(i)
  <2>1. \A p \in Base(i) + 1..Upto(i) : FALSE
    BY ONLY <1>4, <1>5, <1>6
  <2>2. Owned(i) = {}
    BY ONLY <2>1 DEF Owned
  <2> QED
    BY <1>2, <2>2, FS_EmptySet
<1> QED
  BY ONLY <1>2, <1>4, <1>5, <1>6

\* Above a frame of the running thread there is no other thread.
LEMMA SamePiece ==
  ASSUME IInv, NEW k \in 1..Len(cstack), cstack[k].t = Running, NEW t, ~ Has(t, k)
  PROVE  t # Running /\ ~ Has(t, Len(cstack))
<1>1. PICK n \in Nat : n = Len(cstack) /\ n \in DOMAIN cstack /\ cstack[n].t = Running
  BY TopFrame
<1>2. k <= n /\ k \in 1..k /\ k \in Nat
  BY <1>1
<1>3. t # Running
  BY <1>2 DEF Has
<1>4. ASSUME NEW i \in 1..n, cstack[i].t = t
      PROVE  FALSE
  <2>1. i \notin 1..k
    BY <1>4 DEF Has
  <2>2. i \in k..n /\ k \in 1..n
    BY ONLY <1>1, <1>2, <2>1
  <2>3. k \in DOMAIN cstack
    BY <1>1, <2>2, Types DEF IInv
  <2>4. cstack[i].t = cstack[k].t
    BY <1>1, <1>2, <2>2, <2>3, OnePiece
  <2> QED
    BY <1>3, <1>4, <2>4
<1> QED
  BY <1>1, <1>3, <1>4 DEF Has

\* Below the last frame there are fewer levels.
LEMMA FewerBelow ==
  ASSUME IInv, NEW n, n = Len(cstack), NEW k \in 0..n - 1
  PROVE  /\ Cardinality(Levels(k)) < L.nCcalls
         /\ Cardinality(Levels(k)) < LUAI_MAXCCALLS + Extra
         /\ Cardinality(Levels(k)) \in Nat
<1>1. n \in Nat /\ Top = cstack[n] /\ Top.kind \in Counted /\ L.nCcalls = Cardinality(Levels(n))
  BY TopFrame
<1>2. k \in Nat /\ k < n
  BY <1>1
<1>3. /\ Cardinality(LevelsIn(cstack, k)) < Cardinality(LevelsIn(cstack, n))
      /\ Cardinality(LevelsIn(cstack, k)) \in Nat /\ Cardinality(LevelsIn(cstack, n)) \in Nat
  BY <1>1, <1>2, Counting, Zenon
<1>4. L.nCcalls <= LUAI_MAXCCALLS + Extra
  BY DEF IInv, LimitInv
<1>5. LUAI_MAXCCALLS \in Nat /\ Extra \in Nat
  OBVIOUS
<1> QED
  BY ONLY <1>1, <1>3, <1>4, <1>5 DEF Levels

\* The running thread leaves frames of its own, down to frame k.
LeftTo(n, R, k, s) ==
  /\ n = Len(cstack) /\ R = Running /\ k \in 2..n - 1 /\ s \in ThreadSet
  /\ cstack[k].t = R /\ cstack[k].kind # "pcall"
  /\ cstack' = SubSeq(cstack, 1, k)
  /\ th' = [th EXCEPT ![R] = s]
  /\ raising' \in {"no", "msg", "run", "err"} /\ (k = 2 => raising' = "no")
  /\ s.size <= 2 * LUAI_MAXCALLS /\ s.status = "ok" /\ s.baseCcalls = L.baseCcalls
  /\ s.nCcalls = Cardinality(Levels(k)) /\ Innermost(s.errorJmp, R, k)
  /\ Len(s.ci) \in Base(k)..Upto(k)
  /\ \A p \in 1..Len(s.ci) : s.ci[p] = L.ci[p]
  /\ \A p \in Len(s.ci) + 1..Upto(k) : L.ci[p] # "lua" /\ L.ci[p] # "main"

\* Cutting the C stack back to another frame of the running thread.
LEMMA UnwindsHere ==
  ASSUME IInv, NEW n, NEW R, NEW k, NEW s, LeftTo(n, R, k, s)
  PROVE  IInv' /\ Keeps
<1> USE DEF LeftTo
<1>1. n \in Nat /\ R \in Threads /\ L = th[R]
  BY TopFrame
<1>2. /\ th' \in [Threads -> ThreadSet] /\ th'[R] = s
      /\ \A t \in Threads : t # R => th'[t] = th[t]
  BY <1>1, Updated, Zenon DEF IInv
<1>3. k \in 0..n - 1 /\ k \in 2..Len(cstack) /\ k \in 1..Len(cstack)
  BY <1>1
<1>4. Cardinality(Levels(k)) < LUAI_MAXCCALLS + Extra /\ Cardinality(Levels(k)) \in Nat
  BY <1>3, FewerBelow
<1>5. Cardinality(Levels(k)) <= LUAI_MAXCCALLS + Extra
  <2>1. LUAI_MAXCCALLS \in Nat /\ Extra \in Nat
    OBVIOUS
  <2> QED
    BY ONLY <1>4, <2>1
<1>6. \A t \in Threads : th'[t].size <= 2 * LUAI_MAXCALLS
  BY <1>2 DEF IInv, LimitInv
<1>7. ASSUME NEW t \in Threads, ~ Has(t, k)
      PROVE  /\ th'[t].errorJmp = 0
             /\ \A p \in DOMAIN th'[t].ci : th'[t].ci[p] # "main"
             /\ th'[t].status = "yield" =>
                  /\ th'[t].ci # <<>> /\ Last(th'[t].ci) = "yield"
                  /\ \A p \in 1..Len(th'[t].ci) - 1 : th'[t].ci[p] = "lua"
  <2>1. t # R /\ ~ Has(t, Len(cstack))
    BY <1>3, <1>7, SamePiece
  <2>2. th'[t] = th[t]
    BY <1>2, <2>1
  <2> QED
    BY <2>1, <2>2, OffStack
<1>8. UnwoundTo(k)
  <2>1. cstack[k].t = R /\ th'[R] = s
    BY <1>2
  <2>2. /\ k \in 2..Len(cstack) /\ cstack[k].kind # "pcall" /\ cstack' = SubSeq(cstack, 1, k)
        /\ th' \in [Threads -> ThreadSet] /\ raising' \in {"no", "msg", "run", "err"}
        /\ \A t \in Threads : Has(t, k) /\ t # R => th'[t] = th[t]
        /\ k = 2 => raising' = "no"
    BY <1>2, <1>3
  <2>3. /\ s.status = "ok" /\ s.baseCcalls = th[R].baseCcalls
        /\ s.nCcalls = Cardinality(Levels(k)) /\ Innermost(s.errorJmp, R, k)
        /\ Len(s.ci) \in Base(k)..Upto(k)
        /\ \A p \in 1..Len(s.ci) : s.ci[p] = th[R].ci[p]
        /\ \A p \in Len(s.ci) + 1..Upto(k) : th[R].ci[p] # "lua" /\ th[R].ci[p] # "main"
    BY <1>1, Zenon
  <2> QED
    BY ONLY <1>4, <1>5, <1>6, <1>7, <2>1, <2>2, <2>3 DEF UnwoundTo
<1>9. Keeps
  <2>1. Running' = cstack[k].t
    <3>1. Len(cstack') = k /\ cstack'[k] = cstack[k]
      BY <1>1, <1>3 DEF IInv, TypeInv
    <3> QED
      BY <3>1 DEF Running, Top, Last
  <2>2. \A t \in Threads : Has(t, Len(cstack)) \/ th'[t] = th[t]
    BY <1>2, <1>3 DEF Has
  <2>3. \A t \in Threads : th'[t].status = "yield" => th[t].status = "yield"
    BY <1>2
  <2> QED
    BY <1>3, <2>1, <2>2, <2>3, StepKeeps
<1> QED
  BY <1>8, <1>9, Unwind

\* The running thread leaves the C stack, for the one that resumed it.
Left(n, R, e, by) ==
  /\ n = Len(cstack) /\ R = Running /\ e \in 3..n
  /\ cstack[e].kind = "resume" /\ cstack[e].t = R
  /\ by = cstack[e - 1].t
  /\ cstack' = SubSeq(cstack, 1, e - 1)
  /\ raising' \in {"no", "msg", "run", "err"} /\ raising' # "err"
  /\ th' \in [Threads -> ThreadSet]
  /\ \A t \in Threads : t # R /\ t # by => th'[t] = th[t]
  /\ th'[R].size = L.size /\ th'[R].errorJmp = cstack[e].previous
  /\ \A p \in DOMAIN th'[R].ci : th'[R].ci[p] # "main"
  /\ th'[R].status = "yield" =>
       /\ Top.kind = "resume"
       /\ th'[R].ci # <<>> /\ Last(th'[R].ci) = "yield"
       /\ \A p \in 1..Len(th'[R].ci) - 1 : th'[R].ci[p] = "lua"
  /\ th'[by].status = th[by].status /\ th'[by].baseCcalls = th[by].baseCcalls
  /\ th'[by].nCcalls = th[by].nCcalls /\ th'[by].errorJmp = th[by].errorJmp
  /\ th'[by].size = th[by].size
  /\ th'[by].ci = th[by].ci \/ th'[by].ci = Front(th[by].ci)

\* What is known of a lua_resume of the running thread and of the frame below.
LEMMA Resumer ==
  ASSUME IInv, NEW n, n = Len(cstack), NEW e \in 3..n, cstack[e].kind = "resume",
         cstack[e].t = Running
  PROVE  /\ n \in Nat /\ e >= 4 /\ e - 1 \in 3..n
         /\ cstack[e - 1].t # Running /\ cstack[e - 1].t \in Threads /\ Running \in Coroutines
         /\ cstack[e - 1].n > 0 /\ cstack[e - 1].kind # "pcall"
         /\ cstack[e].previous = 0
         /\ \A j \in e..n : cstack[j].t = Running
         /\ \A j \in 1..e - 1 : cstack[j].t # Running
         /\ th[cstack[e - 1].t].ci # <<>> /\ Last(th[cstack[e - 1].t].ci) \in {"resume", "wrap"}
         /\ th[cstack[e - 1].t].status = "ok"
<1>1. n \in Nat /\ n >= 2 /\ DOMAIN cstack = 1..n /\ n \in DOMAIN cstack /\ cstack[n].t = Running
  <2>1. n \in Nat /\ n >= 2 /\ n \in DOMAIN cstack /\ cstack[n].t = Running
    BY TopFrame
  <2> QED
    BY <2>1, Types DEF IInv
<1>2. e >= 4
  <2>1. CASE e = 3
    <3>1. Len(cstack) # 2
      BY <1>1, <2>1
    <3>2. cstack[3].kind = "pcall"
      BY <3>1 DEF IInv, BottomInv
    <3> QED
      BY <2>1, <3>2
  <2> QED
    BY <1>1, <2>1
<1>3. /\ e \in Nat /\ e - 1 \in Nat /\ e - 1 \in 3..n /\ e \in DOMAIN cstack /\ e - 1 \in DOMAIN cstack
      /\ e \in 2..Len(cstack) /\ e - 1 < e /\ e <= n
  BY ONLY <1>1, <1>2, e \in 3..n, n = Len(cstack)
<1>4. /\ cstack[e].t \in Coroutines /\ cstack[e - 1].n > 0
      /\ \A j \in 1..e - 1 : cstack[j].t # cstack[e].t
  BY <1>3 DEF IInv, PieceInv
<1>5. cstack[e - 1].t # Running /\ e - 1 \in 1..e - 1
  BY <1>3, <1>4
<1>6. cstack[e - 1].t \in Threads
  BY <1>1, <1>3, Types DEF IInv
<1>7. cstack[e - 1].kind # "pcall"
  <2>1. e - 1 + 1 = e
    BY <1>3
  <2> QED
    BY <1>3, <2>1 DEF IInv, ProtectedInv
<1>8. cstack[e].previous = 0
  <2>1. Innermost(cstack[e].previous, cstack[e].t, e - 1)
    BY <1>3 DEF IInv, JumpInv
  <2>2. Jumps(cstack[e].t, e - 1) = {}
    BY <1>4 DEF Jumps
  <2> QED
    BY <2>1, <2>2 DEF Innermost
<1>9. \A j \in e..n : cstack[j].t = Running
  BY <1>1, <1>3, OnePiece
<1>10. /\ th[cstack[e - 1].t].ci # <<>> /\ Last(th[cstack[e - 1].t].ci) \in {"resume", "wrap"}
       /\ th[cstack[e - 1].t].status = "ok"
  BY <1>3, <1>5 DEF IInv, StatusInv
<1> QED
  BY <1>1, <1>2, <1>3, <1>4, <1>5, <1>6, <1>7, <1>8, <1>9, <1>10

\* Cutting the C stack back past the resume of the running coroutine: by runs again.
LEMMA UnwindsAcross ==
  ASSUME IInv, NEW n, NEW R, NEW e, NEW by, Left(n, R, e, by)
  PROVE  IInv' /\ Keeps
<1>1. /\ n = Len(cstack) /\ R = Running /\ e \in 3..n /\ by = cstack[e - 1].t
      /\ cstack[e].kind = "resume" /\ cstack[e].t = Running
  BY DEF Left
<1>2. /\ n \in Nat /\ e >= 4 /\ e - 1 \in 3..n
      /\ by # R /\ by \in Threads /\ R \in Coroutines
      /\ cstack[e - 1].n > 0 /\ cstack[e - 1].kind # "pcall"
      /\ cstack[e].previous = 0
      /\ \A j \in e..n : cstack[j].t = R
      /\ \A j \in 1..e - 1 : cstack[j].t # R
      /\ th[by].ci # <<>> /\ Last(th[by].ci) \in {"resume", "wrap"}
      /\ th[by].status = "ok"
  BY <1>1, Resumer
<1>3. PICK k \in Nat : k = e - 1
  BY <1>2
<1>4. /\ k \in 3..n /\ k \in 2..n /\ k \in 1..n /\ k \in 0..n - 1 /\ k < n /\ k + 1 = e /\ e \in e..n
      /\ k \in 1..k /\ k \in DOMAIN cstack /\ by = cstack[k].t /\ k >= 3
  <2>1. DOMAIN cstack = 1..n
    BY <1>1, Types DEF IInv
  <2> QED
    BY ONLY <1>1, <1>2, <1>3, <2>1
<1>5. IsLast(k) /\ Upto(k) = Len(th[by].ci)
  BY <1>1, <1>2, <1>4, Zenon DEF IsLast, Upto
<1>6. Base(k) < Upto(k)
  BY <1>1, <1>2, <1>3, <1>4, PartIsThere
<1>7. PICK m \in Nat : m = Base(k)
  <2>1. cstack[k].ci \in Nat
    BY <1>1, <1>4, Types DEF IInv
  <2> QED
    BY <2>1 DEF Base
<1>8. th[by].ci \in Seq(Functions) /\ Len(th[by].ci) \in Nat
  BY <1>2, Types DEF IInv
<1>9. /\ Len(th'[by].ci) \in m..Len(th[by].ci)
      /\ \A p \in 1..Len(th'[by].ci) : th'[by].ci[p] = th[by].ci[p]
      /\ \A p \in Len(th'[by].ci) + 1..Len(th[by].ci) : th[by].ci[p] # "lua" /\ th[by].ci[p] # "main"
  <2>1. th'[by].ci = th[by].ci \/ th'[by].ci = Front(th[by].ci)
    BY DEF Left
  <2>2. m <= Len(th[by].ci) /\ m < Len(th[by].ci)
    BY ONLY <1>5, <1>6, <1>7, <1>8
  <2>3. Last(th[by].ci) \notin {"lua", "main"}
    BY <1>2
  <2> QED
    BY <1>8, <2>1, <2>2, <2>3, Shortened, Zenon
<1>10. /\ Cardinality(Levels(k)) < LUAI_MAXCCALLS + Extra /\ Cardinality(Levels(k)) \in Nat
  BY <1>1, <1>4, FewerBelow
<1>11. Cardinality(Levels(k)) <= LUAI_MAXCCALLS + Extra
  <2>1. LUAI_MAXCCALLS \in Nat /\ Extra \in Nat
    OBVIOUS
  <2> QED
    BY ONLY <1>10, <2>1
<1>12. th'[by].nCcalls = Cardinality(Levels(k))
  BY <1>4, <1>5 DEF IInv, LevelInv, Left
<1>13. Innermost(th'[by].errorJmp, by, k)
  <2>1. Innermost(th[by].errorJmp, by, n)
    BY <1>1, <1>2 DEF IInv, JumpInv
  <2>2. \A i \in 1..n : i \in 1..k \/ i \in e..n
    BY ONLY <1>1, <1>2, <1>3
  <2>3. \A i \in 1..k : i \in 1..n
    BY ONLY <1>2, <1>4
  <2>4. Jumps(by, n) = Jumps(by, k)
    BY ONLY <1>2, <2>2, <2>3 DEF Jumps
  <2>5. th'[by].errorJmp = th[by].errorJmp
    BY DEF Left
  <2> QED
    BY <2>1, <2>4, <2>5 DEF Innermost
<1>14. ASSUME NEW t \in Threads, ~ Has(t, k), t # R
       PROVE  t # by /\ ~ Has(t, n)
  <2>1. t # by
    BY <1>4, <1>14 DEF Has
  <2>2. ASSUME NEW i \in 1..n PROVE cstack[i].t # t
    <3>1. i \in 1..k \/ i \in e..n
      BY ONLY <1>1, <1>2, <1>3
    <3> QED
      BY <1>2, <1>14, <3>1 DEF Has
  <2> QED
    BY <2>1, <2>2 DEF Has
<1>15. ASSUME NEW t \in Threads, ~ Has(t, k)
       PROVE  /\ th'[t].errorJmp = 0
              /\ \A p \in DOMAIN th'[t].ci : th'[t].ci[p] # "main"
              /\ th'[t].status = "yield" =>
                   /\ th'[t].ci # <<>> /\ Last(th'[t].ci) = "yield"
                   /\ \A p \in 1..Len(th'[t].ci) - 1 : th'[t].ci[p] = "lua"
  <2>1. CASE t = R
    BY <1>2, <2>1 DEF Left
  <2>2. CASE t # R
    <3>1. t # by /\ ~ Has(t, Len(cstack))
      BY <1>1, <1>14, <1>15, <2>2
    <3>2. th'[t] = th[t]
      BY <2>2, <3>1 DEF Left
    <3> QED
      BY <3>1, <3>2, OffStack
  <2> QED
    BY <2>1, <2>2
<1>16. \A t \in Threads : Has(t, k) /\ t # by => th'[t] = th[t]
  <2>1. ~ Has(R, k)
    BY <1>2, <1>3 DEF Has
  <2> QED
    BY <2>1 DEF Left
<1>17. \A t \in Threads : th'[t].size <= 2 * LUAI_MAXCALLS
  <2>1. \A t \in Threads : th'[t].size = th[t].size
    BY <1>1 DEF Left, L
  <2> QED
    BY <2>1 DEF IInv, LimitInv
<1>18. /\ cstack' = SubSeq(cstack, 1, k) /\ th' \in [Threads -> ThreadSet]
       /\ raising' \in {"no", "msg", "run", "err"}
       /\ th'[by].status = "ok" /\ th'[by].baseCcalls = th[by].baseCcalls
  BY <1>2, <1>3 DEF Left
<1>19. k # 2 /\ cstack[k].kind # "pcall"
  BY <1>2, <1>3
<1>20. UnwoundTo(k)
  <2>1. k \in 2..Len(cstack)
    BY <1>1, <1>4
  <2>2. Len(th'[cstack[k].t].ci) \in Base(k)..Upto(k)
    BY ONLY <1>4, <1>5, <1>7, <1>9
  <2>3. \A p \in Len(th'[cstack[k].t].ci) + 1..Upto(k) :
          th[cstack[k].t].ci[p] # "lua" /\ th[cstack[k].t].ci[p] # "main"
    BY ONLY <1>4, <1>5, <1>9
  <2> QED
    BY ONLY <1>4, <1>9, <1>10, <1>11, <1>12, <1>13, <1>15, <1>16, <1>17, <1>18, <1>19,
            <2>1, <2>2, <2>3 DEF UnwoundTo
<1>21. Keeps
  <2>1. Running' = cstack[k].t
    <3>1. Len(cstack') = k /\ cstack'[k] = cstack[k]
      BY <1>1, <1>4, <1>18 DEF IInv, TypeInv
    <3> QED
      BY <3>1 DEF Running, Top, Last
  <2>2. e \in 1..Len(cstack) /\ k \in 1..Len(cstack)
    BY ONLY <1>1, <1>2, <1>4
  <2>3. \A t \in Threads : Has(t, Len(cstack)) \/ th'[t] = th[t]
    BY <1>1, <1>4, <2>2 DEF Has, Left
  <2>4. ASSUME NEW t \in Threads, th'[t].status = "yield"
        PROVE  th[t].status = "yield" \/ (t = Running /\ Top.kind = "resume")
    BY <1>1, <2>4 DEF Left
  <2> QED
    BY <2>1, <2>2, <2>3, <2>4, StepKeeps
<1> QED
  BY <1>20, <1>21, Unwind

\* What a C function that returns leaves.
LEMMA ReturnedIs ==
  ASSUME NEW s \in ThreadSet, s.ci # <<>>, Last(s.ci) # "main"
  PROVE  /\ Returned(s) \in ThreadSet /\ Returned(s).ci = Front(s.ci)
         /\ Returned(s).status = s.status /\ Returned(s).nCcalls = s.nCcalls
         /\ Returned(s).baseCcalls = s.baseCcalls /\ Returned(s).errorJmp = s.errorJmp
         /\ Returned(s).size = s.size
<1>1. s.ci \in Seq(Functions)
  BY DEF ThreadSet
<1>2. Front(s.ci) \in Seq(Functions)
  BY <1>1, Fronts
<1>3. Returned(s) = [s EXCEPT !.ci = Front(s.ci)]
  BY DEF Returned
<1> QED
  BY ONLY s \in ThreadSet, <1>2, <1>3, Zenon DEF ThreadSet

\* A coroutine gives control back to what resumed it: it yields or ends.
LEMMA SwitchSteps ==
  ASSUME IInv, NEW s \in ThreadSet, SwitchBack(s), Top.kind = "resume", Idle, Len(cstack) >= 3,
         s.nCcalls = L.nCcalls, s.size = L.size,
         \A p \in DOMAIN s.ci : s.ci[p] # "main",
         s.status = "yield" => /\ s.ci # <<>> /\ Last(s.ci) = "yield"
                               /\ \A p \in 1..Len(s.ci) - 1 : s.ci[p] = "lua"
  PROVE  IInv' /\ Keeps
<1>1. PICK n, R, b, len : At(n, R, b, len)
  BY Here
<1>2. /\ n = Len(cstack) /\ n \in Nat /\ n >= 3 /\ R \in Threads /\ R = Running
      /\ R = cstack[n].t /\ Top = cstack[n]
      /\ L = th[R] /\ L.nCcalls \in Nat /\ cstack \in Seq(FrameSet)
      /\ th \in [Threads -> ThreadSet]
  BY <1>1 DEF At, IInv, TypeInv
<1>3. n \in 3..n /\ cstack[n].kind = "resume" /\ cstack[n].t = Running
  BY <1>2
<1>4. PICK by \in Threads : by = cstack[n - 1].t
  BY <1>2, <1>3, Resumer, Zenon
<1>5. /\ by # R /\ R \in Coroutines
      /\ cstack[n].previous = 0
      /\ th[by].ci # <<>> /\ Last(th[by].ci) \in {"resume", "wrap"}
  BY <1>2, <1>3, <1>4, Resumer, Zenon
<1>6. Front(cstack) = SubSeq(cstack, 1, n - 1)
  BY <1>2 DEF Front
<1>7. Caller = by
  <2>1. Last(SubSeq(cstack, 1, n - 1)) = cstack[n - 1]
    BY ONLY <1>2 DEF Last
  <2> QED
    BY ONLY <1>4, <1>6, <2>1 DEF Caller
<1>8. Cardinality(Levels(0)) < L.nCcalls /\ Cardinality(Levels(0)) \in Nat
  <2>1. 0 \in 0..n - 1
    BY ONLY <1>2
  <2> QED
    BY <1>2, <2>1, FewerBelow
<1>9. PICK v \in Nat : v = s.nCcalls - 1
  BY ONLY <1>2, <1>8, s.nCcalls = L.nCcalls
<1>10. PICK z : z = [s EXCEPT !.errorJmp = 0, !.nCcalls = v]
  OBVIOUS
<1>11. /\ z \in ThreadSet /\ z.errorJmp = 0 /\ z.ci = s.ci /\ z.status = s.status
       /\ z.size = s.size
  BY ONLY <1>10, s \in ThreadSet, Zenon DEF ThreadSet
<1>12. PICK y : y = Returned(th[by])
  OBVIOUS
<1>13. /\ y \in ThreadSet /\ y.ci = Front(th[by].ci)
       /\ y.status = th[by].status /\ y.nCcalls = th[by].nCcalls
       /\ y.baseCcalls = th[by].baseCcalls /\ y.errorJmp = th[by].errorJmp
       /\ y.size = th[by].size
  <2>1. th[by] \in ThreadSet /\ Last(th[by].ci) # "main"
    BY <1>2, <1>5
  <2> QED
    BY <1>5, <1>12, <2>1, ReturnedIs
<1>14. th' = [th EXCEPT ![R] = [s EXCEPT !.errorJmp = 0, !.nCcalls = @ - 1], ![by] = Returned(@)]
  BY <1>2, <1>5, <1>7 DEF SwitchBack
<1>15. /\ th' \in [Threads -> ThreadSet] /\ th'[R] = z /\ th'[by] = y
       /\ \A t \in Threads : t # R /\ t # by => th'[t] = th[t]
  <2>1. [s EXCEPT !.errorJmp = 0, !.nCcalls = @ - 1] = z
    BY ONLY <1>9, <1>10, s \in ThreadSet DEF ThreadSet
  <2>2. th' = [th EXCEPT ![R] = z, ![by] = y]
    BY ONLY <1>2, <1>5, <1>12, <1>14, <2>1, Zenon
  <2> QED
    BY ONLY <1>2, <1>4, <1>5, <1>11, <1>13, <2>2
<1>16. /\ cstack' = SubSeq(cstack, 1, n - 1) /\ raising' = "no"
  BY <1>6 DEF SwitchBack, Idle
<1>17. /\ \A p \in DOMAIN s.ci : s.ci[p] # "main"
       /\ s.status = "yield" => /\ s.ci # <<>> /\ Last(s.ci) = "yield"
                                /\ \A p \in 1..Len(s.ci) - 1 : s.ci[p] = "lua"
       /\ s.size = L.size
  OBVIOUS
<1>18. Left(n, R, n, by)
  <2>1. n = Len(cstack) /\ R = Running /\ n \in 3..n /\ cstack[n].kind = "resume"
        /\ cstack[n].t = R /\ by = cstack[n - 1].t
    BY ONLY <1>2, <1>3, <1>4
  <2>2. /\ cstack' = SubSeq(cstack, 1, n - 1)
        /\ raising' \in {"no", "msg", "run", "err"} /\ raising' # "err"
    BY ONLY <1>16
  <2>3. /\ th'[R].size = L.size /\ th'[R].errorJmp = cstack[n].previous
        /\ \A p \in DOMAIN th'[R].ci : th'[R].ci[p] # "main"
    BY ONLY <1>5, <1>11, <1>15, <1>17
  <2>4. th'[R].status = "yield" =>
          /\ Top.kind = "resume"
          /\ th'[R].ci # <<>> /\ Last(th'[R].ci) = "yield"
          /\ \A p \in 1..Len(th'[R].ci) - 1 : th'[R].ci[p] = "lua"
    BY ONLY <1>11, <1>15, <1>17, Top.kind = "resume"
  <2>5. /\ th'[by].status = th[by].status /\ th'[by].baseCcalls = th[by].baseCcalls
        /\ th'[by].nCcalls = th[by].nCcalls /\ th'[by].errorJmp = th[by].errorJmp
        /\ th'[by].size = th[by].size
        /\ th'[by].ci = th[by].ci \/ th'[by].ci = Front(th[by].ci)
    BY ONLY <1>13, <1>15
  <2> QED
    BY ONLY <1>15, <2>1, <2>2, <2>3, <2>4, <2>5 DEF Left
<1> QED
  BY <1>18, UnwindsAcross

\* A yield goes back to the resume, and leaves a coroutine that is suspended.
LEMMA YieldStep ==
  ASSUME IInv, Yield
  PROVE  IInv' /\ Keeps
<1>1. PICK n, R, b, len : At(n, R, b, len)
  BY Here
<1>2. /\ n = Len(cstack) /\ n \in Nat /\ n >= 2 /\ DOMAIN cstack = 1..n
      /\ R \in Threads /\ R = Running /\ R = cstack[n].t /\ Top = cstack[n]
      /\ L = th[R] /\ L \in ThreadSet /\ L.nCcalls \in Nat /\ len = Len(L.ci) /\ len \in Nat
      /\ L.ci \in Seq(Functions) /\ b = Base(n) /\ Upto(n) = len /\ n \in DOMAIN cstack
  BY <1>1 DEF At
<1>3. InC("yield") /\ L.nCcalls <= L.baseCcalls
  BY DEF Yield
<1>4. /\ Idle /\ L.ci # <<>> /\ Last(L.ci) = "yield" /\ n >= 3
  <2>1. "yield" \in Functions \ {"lua"} /\ "yield" # "main"
    BY DEF Functions
  <2>2. raising = "no" /\ L.ci # <<>> /\ Last(L.ci) = "yield" /\ n # 2
    BY <1>2, <1>3, <2>1, CRuns
  <2> QED
    BY ONLY <1>2, <2>2 DEF Idle
<1>5. \A k \in 0..n - 1 : Cardinality(Levels(k)) < L.nCcalls /\ Cardinality(Levels(k)) \in Nat
  BY <1>2, FewerBelow
<1>6. R # Main
  <2>1. CASE R = Main
    <3>1. L.baseCcalls = 0
      BY <1>2, <2>1 DEF IInv, LevelInv
    <3>2. 0 \in 0..n - 1
      BY ONLY <1>2
    <3> QED
      BY ONLY <1>2, <1>3, <1>5, <3>1, <3>2
  <2> QED
    BY <2>1
<1>7. Top.kind = "resume"
  <2>1. PICK r \in 1..n : cstack[r].kind = "resume" /\ cstack[r].t = R
    <3>1. \A i \in DOMAIN cstack : cstack[i].t # Main =>
            \E r \in 1..i : cstack[r].kind = "resume" /\ cstack[r].t = cstack[i].t
      BY DEF IInv, PieceInv
    <3> QED
      BY ONLY <1>2, <1>6, <3>1
  <2>2. L.baseCcalls = Cardinality(Levels(r))
    BY <1>2, <2>1, Zenon DEF IInv, LevelInv
  <2>3. r = n \/ r \in 0..n - 1
    BY ONLY <1>2
  <2>4. ASSUME r \in 0..n - 1
        PROVE  FALSE
    <3>1. Cardinality(Levels(r)) < L.nCcalls /\ Cardinality(Levels(r)) \in Nat
      BY ONLY <1>5, <2>4
    <3> QED
      BY ONLY <1>2, <1>3, <2>2, <3>1
  <2> QED
    BY <1>2, <2>1, <2>3, <2>4
<1>8. Base(n) = 0
  BY <1>2, <1>7 DEF Base
<1>9. PICK s : s = [L EXCEPT !.status = "yield"]
  BY Zenon
<1>10. /\ s \in ThreadSet /\ s.ci = L.ci /\ s.nCcalls = L.nCcalls /\ s.size = L.size
  BY ONLY <1>2, <1>9, Zenon DEF ThreadSet
<1>11. SwitchBack(s)
  BY <1>9 DEF Yield
<1>12. \A p \in DOMAIN s.ci : s.ci[p] # "main"
  BY <1>2, <1>6, <1>10 DEF IInv, MainInv
<1>13. \A p \in 1..Len(s.ci) - 1 : s.ci[p] = "lua"
  <2>1. \A p \in Base(n) + 1..Upto(n) - 1 : L.ci[p] = "lua"
    BY <1>2, Zenon DEF IInv, OwnerInv
  <2>2. \A p \in 1..Len(s.ci) - 1 : p \in Base(n) + 1..Upto(n) - 1
    BY ONLY <1>2, <1>8, <1>10
  <2> QED
    BY ONLY <1>10, <2>1, <2>2
<1>14. Len(cstack) >= 3
  BY <1>2, <1>4
<1> QED
  BY <1>4, <1>7, <1>10, <1>11, <1>12, <1>13, <1>14, SwitchSteps

\* A coroutine whose function returns goes back to its resume, with no calls left.
LEMMA FinishStep ==
  ASSUME IInv, Finish
  PROVE  IInv' /\ Keeps
<1>1. InLua /\ Top.kind = "resume" /\ SwitchBack([L EXCEPT !.ci = <<>>, !.top = FALSE])
  BY DEF Finish
<1>2. Len(cstack) >= 3 /\ Idle
  BY <1>1, LuaRuns DEF InLua
<1>3. L.status = "ok"
  BY TopFrame
<1>4. L \in ThreadSet
  BY TopFrame, Types DEF IInv
<1>5. PICK s : s = [L EXCEPT !.ci = <<>>, !.top = FALSE]
  OBVIOUS
<1>6. <<>> \in Seq(Functions)
  OBVIOUS
<1>7. /\ s \in ThreadSet /\ s.ci = <<>> /\ s.nCcalls = L.nCcalls /\ s.size = L.size
      /\ s.status = L.status
  BY ONLY <1>4, <1>5, <1>6, Zenon DEF ThreadSet
<1>8. \A p \in DOMAIN s.ci : s.ci[p] # "main"
  BY ONLY <1>7
<1>9. SwitchBack(s) /\ s.status # "yield"
  BY <1>1, <1>3, <1>5, <1>7
<1> QED
  BY <1>1, <1>2, <1>7, <1>8, <1>9, SwitchSteps

\* The innermost jump buffer of the running thread, of an error that was thrown.
LEMMA Handler ==
  ASSUME IInv, raising # "no", NEW n, n = Len(cstack), NEW R, R = Running, NEW e, e = L.errorJmp,
         e # 0
  PROVE  /\ n \in Nat /\ n >= 3 /\ e \in 3..n /\ cstack[e].t = R
         /\ cstack[e].kind \in {"pcall", "resume"}
<1>1. n \in Nat /\ n >= 2 /\ R \in Threads /\ L = th[R]
  BY TopFrame
<1>2. Innermost(e, R, n)
  BY <1>1 DEF IInv, JumpInv
<1>3. e \in 1..n /\ cstack[e].t = R /\ cstack[e].kind \in {"pcall", "resume"}
      /\ \A j \in 1..n : cstack[j].t = R /\ cstack[j].kind \in {"pcall", "resume"} => j <= e
  BY <1>2 DEF Innermost, Jumps
<1>4. n # 2
  BY <1>1 DEF IInv, BottomInv
<1>5. /\ cstack[1].t = Main /\ cstack[2].kind = "call"
      /\ cstack[3].kind = "pcall" /\ cstack[3].t = Main
  BY <1>1, <1>4 DEF IInv, BottomInv
<1>6. e # 2
  BY <1>3, <1>5
<1>7. e # 1
  <2>1. CASE e = 1
    <3>1. 3 \in 1..n /\ cstack[3].t = R /\ cstack[3].kind \in {"pcall", "resume"}
      BY ONLY <1>1, <1>3, <1>4, <1>5, <2>1
    <3>2. 3 <= 1
      BY ONLY <1>3, <2>1, <3>1
    <3> QED
      BY <3>2
  <2> QED
    BY <2>1
<1> QED
  BY ONLY <1>1, <1>3, <1>4, <1>6, <1>7

\* An error that no pcall of a coroutine catches ends it: it is dead and its resume returns.
LEMMA DieStep ==
  ASSUME IInv, Die
  PROVE  IInv' /\ Keeps
<1>1. PICK n, R, b, len : At(n, R, b, len)
  BY Here
<1>2. /\ n = Len(cstack) /\ n \in Nat /\ R \in Threads /\ R = Running
      /\ L = th[R] /\ L \in ThreadSet /\ L.nCcalls \in Nat /\ cstack \in Seq(FrameSet)
      /\ th \in [Threads -> ThreadSet]
  BY <1>1 DEF At, IInv, TypeInv
<1>3. PICK e : e = L.errorJmp
  OBVIOUS
<1>4. raising \in {"run", "err"} /\ e # 0 /\ cstack[e].kind = "resume"
  BY <1>3 DEF Die
<1>5. n >= 3 /\ e \in 3..n /\ cstack[e].t = R
  BY <1>2, <1>3, <1>4, Handler
<1>6. PICK by \in Threads : by = cstack[e - 1].t
  BY <1>2, <1>4, <1>5, Resumer
<1>7. /\ by # R /\ R \in Coroutines /\ cstack[e].previous = 0
      /\ th[by].ci # <<>> /\ Last(th[by].ci) \in {"resume", "wrap"}
  BY <1>2, <1>4, <1>5, <1>6, Resumer, Zenon
<1>8. PICK c : c = SubSeq(cstack, 1, e - 1)
  BY Zenon
<1>9. Last(c).t = by
  BY ONLY <1>2, <1>5, <1>6, <1>8 DEF Last
<1>10. /\ cstack' = c
       /\ raising' = IF Last(th[by].ci) = "wrap" THEN "msg" ELSE "no"
       /\ th' = [th EXCEPT ![R].status = raising, ![R].errorJmp = 0, ![R].nCcalls = @ - 1,
                           ![by] = IF Last(@.ci) = "wrap" THEN @ ELSE Returned(@)]
  BY <1>2, <1>3, <1>7, <1>8, <1>9, Zenon DEF Die
<1>11. PICK v \in Nat : v = L.nCcalls - 1
  <2>1. Cardinality(Levels(0)) < L.nCcalls /\ Cardinality(Levels(0)) \in Nat
    <3>1. 0 \in 0..n - 1
      BY ONLY <1>2, <1>5
    <3> QED
      BY <1>2, <3>1, FewerBelow
  <2> QED
    BY ONLY <1>2, <2>1
<1>12. PICK z : z = [L EXCEPT !.status = raising, !.errorJmp = 0, !.nCcalls = v]
  OBVIOUS
<1>13. /\ z \in ThreadSet /\ z.errorJmp = 0 /\ z.ci = L.ci /\ z.status = raising
       /\ z.size = L.size
  BY ONLY <1>2, <1>4, <1>12, Zenon DEF ThreadSet
<1>14. PICK y : y = IF Last(th[by].ci) = "wrap" THEN th[by] ELSE Returned(th[by])
  OBVIOUS
<1>15. /\ y \in ThreadSet /\ (y.ci = th[by].ci \/ y.ci = Front(th[by].ci))
       /\ y.status = th[by].status /\ y.nCcalls = th[by].nCcalls
       /\ y.baseCcalls = th[by].baseCcalls /\ y.errorJmp = th[by].errorJmp
       /\ y.size = th[by].size
  <2>1. th[by] \in ThreadSet /\ Last(th[by].ci) # "main"
    BY <1>2, <1>7
  <2>2. CASE Last(th[by].ci) = "wrap"
    BY <1>14, <2>1, <2>2
  <2>3. CASE Last(th[by].ci) # "wrap"
    <3>1. y = Returned(th[by])
      BY <1>14, <2>3
    <3> QED
      BY <1>7, <2>1, <3>1, ReturnedIs
  <2> QED
    BY <2>2, <2>3
<1>16. /\ th' \in [Threads -> ThreadSet] /\ th'[R] = z /\ th'[by] = y
       /\ \A t \in Threads : t # R /\ t # by => th'[t] = th[t]
  <2>1. th' = [th EXCEPT ![R] = z, ![by] = y]
    BY ONLY <1>2, <1>7, <1>10, <1>11, <1>12, <1>14, Zenon
  <2> QED
    BY ONLY <1>2, <1>6, <1>7, <1>13, <1>15, <2>1
<1>17. \A p \in DOMAIN L.ci : L.ci[p] # "main"
  BY <1>2, <1>7 DEF IInv, MainInv
<1>18. Left(n, R, e, by)
  <2>1. n = Len(cstack) /\ R = Running /\ e \in 3..n /\ cstack[e].kind = "resume"
        /\ cstack[e].t = R /\ by = cstack[e - 1].t
    BY ONLY <1>2, <1>4, <1>5, <1>6
  <2>2. /\ cstack' = SubSeq(cstack, 1, e - 1)
        /\ raising' \in {"no", "msg", "run", "err"} /\ raising' # "err"
    BY ONLY <1>8, <1>10
  <2>3. /\ th'[R].size = L.size /\ th'[R].errorJmp = cstack[e].previous
        /\ \A p \in DOMAIN th'[R].ci : th'[R].ci[p] # "main"
    BY ONLY <1>7, <1>13, <1>16, <1>17
  <2>4. th'[R].status # "yield"
    BY ONLY <1>4, <1>13, <1>16
  <2>5. /\ th'[by].status = th[by].status /\ th'[by].baseCcalls = th[by].baseCcalls
        /\ th'[by].nCcalls = th[by].nCcalls /\ th'[by].errorJmp = th[by].errorJmp
        /\ th'[by].size = th[by].size
        /\ th'[by].ci = th[by].ci \/ th'[by].ci = Front(th[by].ci)
    BY ONLY <1>15, <1>16
  <2> QED
    BY ONLY <1>16, <2>1, <2>2, <2>3, <2>4, <2>5 DEF Left
<1> QED
  BY <1>18, UnwindsAcross

\* A luaD_pcall: what it saved is how things are at the frame below it, where its
\* caller is the last function.
LEMMA Protects ==
  ASSUME IInv, NEW n, n = Len(cstack), NEW e \in 3..n, cstack[e].kind = "pcall",
         cstack[e].t = Running, NEW k, k = e - 1
  PROVE  /\ n \in Nat /\ k \in 2..n - 1 /\ cstack[k].t = Running /\ cstack[k].kind # "pcall"
         /\ cstack[e].nCcalls = Cardinality(Levels(k))
         /\ Innermost(cstack[e].previous, Running, k)
         /\ cstack[e].ci \in 1..Len(L.ci) /\ Upto(k) = cstack[e].ci
         /\ Base(k) \in Nat /\ Base(k) <= cstack[e].ci
         /\ L.ci[cstack[e].ci] \in {"pcall", "xpcall", "main"}
         /\ L.ci[cstack[e].ci] # "main" => Base(k) < cstack[e].ci
         /\ e = 3 => L.ci[cstack[e].ci] = "main"
<1>1. n \in Nat /\ n >= 2 /\ DOMAIN cstack = 1..n /\ L = th[Running] /\ Running \in Threads
  <2>1. n \in Nat /\ n >= 2 /\ L = th[Running] /\ Running \in Threads
    BY TopFrame
  <2> QED
    BY <2>1, Types DEF IInv
<1>2. /\ e < n /\ e > 1
      /\ cstack[e - 1].n > 0 /\ cstack[e].ci \in DOMAIN L.ci
      /\ L.ci[cstack[e].ci] \in {"pcall", "xpcall", "main"}
      /\ L.ci[cstack[e].ci] = "main" => e = 3
  BY <1>1 DEF IInv, ProtectedInv
<1>3. /\ e \in Nat /\ k \in Nat /\ k + 1 = e /\ k \in 2..n - 1 /\ k \in DOMAIN cstack /\ e \in DOMAIN cstack
      /\ e \in 2..n /\ k < n
  BY ONLY <1>1, <1>2, e \in 3..n, k = e - 1
<1>4. cstack[k].t = Running
  BY <1>3 DEF IInv, PieceInv
<1>5. cstack[k].kind # "pcall"
  BY <1>3 DEF IInv, ProtectedInv
<1>6. cstack[e].nCcalls = Cardinality(Levels(k))
  BY <1>3 DEF IInv, LevelInv
<1>7. Innermost(cstack[e].previous, Running, k)
  BY <1>3 DEF IInv, JumpInv
<1>8. Upto(k) = cstack[e].ci /\ Base(e) = cstack[e].ci
  BY <1>3, <1>4 DEF Upto, Base
<1>9. cstack[e].ci \in 1..Len(L.ci)
  BY <1>1, <1>2, Types, Zenon DEF IInv
<1>10. Base(k) \in Nat
  <2>1. cstack[k].ci \in Nat
    BY <1>1, <1>3, Types DEF IInv
  <2> QED
    BY <2>1 DEF Base
<1>11. Base(k) <= cstack[e].ci
  BY <1>3, <1>8 DEF IInv, OwnerInv
<1>12. CASE e = 3
  <2>1. n # 2
    BY <1>2, <1>12
  <2>2. cstack[3].ci = 1 /\ cstack[3].t = Main
    BY <2>1 DEF IInv, BottomInv
  <2>3. Running = Main /\ cstack[e].ci = 1
    BY <1>12, <2>2
  <2>4. L.ci[1] = "main"
    <3>1. 1 \in DOMAIN th[Main].ci /\ L = th[Main] /\ Main \in Threads
      BY ONLY <1>1, <1>2, <2>3
    <3>2. \A p \in DOMAIN th[Main].ci : th[Main].ci[p] = "main" <=> Main = Main /\ p = 1
      BY ONLY IInv, <3>1 DEF IInv, MainInv
    <3> QED
      BY ONLY <3>1, <3>2
  <2> QED
    BY <1>1, <1>2, <1>3, <1>4, <1>5, <1>6, <1>7, <1>8, <1>9, <1>10, <1>11, <2>3, <2>4
<1>13. CASE e # 3
  <2>1. k \in 3..Len(cstack) /\ cstack[k].n > 0
    BY <1>2, <1>3, <1>13
  <2>2. Base(k) < Upto(k)
    BY <2>1, PartIsThere
  <2> QED
    BY <1>1, <1>2, <1>3, <1>4, <1>5, <1>6, <1>7, <1>8, <1>9, <1>10, <1>11, <1>13, <2>2
<1> QED
  BY <1>12, <1>13

\* A luaD_pcall is left, with what it saved, and its caller returns.
LeftPcall(n, e, R, z) ==
  /\ n = Len(cstack) /\ e \in 3..n /\ R = Running
  /\ cstack[e].kind = "pcall" /\ cstack[e].t = R
  /\ z \in ThreadSet /\ Len(z.ci) = cstack[e].ci
  /\ \A p \in 1..Len(z.ci) : z.ci[p] = L.ci[p]
  /\ z.nCcalls = cstack[e].nCcalls /\ z.errorJmp = cstack[e].previous /\ z.status = "ok"
  /\ z.baseCcalls = L.baseCcalls /\ z.size <= 2 * LUAI_MAXCALLS
  /\ cstack' = SubSeq(cstack, 1, e - 1)
  /\ th' = [th EXCEPT ![R] = Returned(z)]
  /\ raising' = "no"

\* An error that a pcall catches restores what the pcall saved.
LEMMA LeavesPcall ==
  ASSUME IInv, NEW n, NEW e, NEW R, NEW z, LeftPcall(n, e, R, z)
  PROVE  IInv' /\ Keeps
<1>1. PICK k : k = e - 1
  OBVIOUS
<1>2. /\ n = Len(cstack) /\ e \in 3..n /\ R = Running
      /\ cstack[e].kind = "pcall" /\ cstack[e].t = R
      /\ z \in ThreadSet /\ Len(z.ci) = cstack[e].ci
      /\ \A p \in 1..Len(z.ci) : z.ci[p] = L.ci[p]
      /\ z.nCcalls = cstack[e].nCcalls /\ z.errorJmp = cstack[e].previous /\ z.status = "ok"
      /\ z.baseCcalls = L.baseCcalls /\ z.size <= 2 * LUAI_MAXCALLS
      /\ cstack' = SubSeq(cstack, 1, e - 1) /\ th' = [th EXCEPT ![R] = Returned(z)]
      /\ raising' = "no"
  BY DEF LeftPcall
<1>3. PICK at : at = cstack[e].ci
  OBVIOUS
<1>4. /\ n \in Nat /\ k \in 2..n - 1 /\ cstack[k].t = R /\ cstack[k].kind # "pcall"
      /\ z.nCcalls = Cardinality(Levels(k)) /\ Innermost(z.errorJmp, R, k)
      /\ at \in 1..Len(L.ci) /\ Upto(k) = at /\ Base(k) \in Nat /\ Base(k) <= at
      /\ L.ci[at] \in {"pcall", "xpcall", "main"}
      /\ L.ci[at] # "main" => Base(k) < at
      /\ e = 3 => L.ci[at] = "main"
  <2>1. /\ n \in Nat /\ k \in 2..n - 1 /\ cstack[k].t = Running /\ cstack[k].kind # "pcall"
        /\ cstack[e].nCcalls = Cardinality(Levels(k))
        /\ Innermost(cstack[e].previous, Running, k)
        /\ cstack[e].ci \in 1..Len(L.ci) /\ Upto(k) = cstack[e].ci
        /\ Base(k) \in Nat /\ Base(k) <= cstack[e].ci
        /\ L.ci[cstack[e].ci] \in {"pcall", "xpcall", "main"}
        /\ L.ci[cstack[e].ci] # "main" => Base(k) < cstack[e].ci
        /\ e = 3 => L.ci[cstack[e].ci] = "main"
    <3>1. n = Len(cstack) /\ e \in 3..n /\ cstack[e].kind = "pcall" /\ cstack[e].t = Running
      BY ONLY <1>2
    <3> QED
      BY ONLY IInv, LimitsAssumption, <1>1, <3>1, Protects
  <2> QED
    BY ONLY <1>2, <1>3, <2>1
<1>5. PICK b \in Nat : b = Base(k)
  BY <1>4
<1>6. z.ci \in Seq(Functions)
  BY <1>2 DEF ThreadSet
<1>7. L.ci \in Seq(Functions)
  BY TopFrame, Types DEF IInv
<1>8. at \in Nat \ {0}
  BY ONLY <1>4, <1>7
<1>9. /\ Len(z.ci) = at /\ z.ci # <<>> /\ Last(z.ci) = L.ci[at]
      /\ \A p \in 1..at : z.ci[p] = L.ci[p]
  BY ONLY <1>3, <1>6, <1>8, <1>2 DEF Last
<1>10. PICK s \in ThreadSet :
         /\ s = Returned(z)
         /\ s.ci = z.ci \/ (s.ci = Front(z.ci) /\ Last(z.ci) # "main")
         /\ s.status = z.status /\ s.nCcalls = z.nCcalls /\ s.baseCcalls = z.baseCcalls
         /\ s.errorJmp = z.errorJmp /\ s.size = z.size
  <2>1. CASE Last(z.ci) = "main"
    <3>1. Returned(z) = [z EXCEPT !.ci = z.ci]
      BY <2>1 DEF Returned
    <3>2. [z EXCEPT !.ci = z.ci] = z
      BY ONLY <1>2 DEF ThreadSet
    <3> QED
      BY ONLY <1>2, <3>1, <3>2
  <2>2. CASE Last(z.ci) # "main"
    <3>1. /\ Returned(z) \in ThreadSet /\ Returned(z).ci = Front(z.ci)
          /\ Returned(z).status = z.status /\ Returned(z).nCcalls = z.nCcalls
          /\ Returned(z).baseCcalls = z.baseCcalls /\ Returned(z).errorJmp = z.errorJmp
          /\ Returned(z).size = z.size
      BY <1>2, <1>9, <2>2, ReturnedIs
    <3> QED
      BY ONLY <2>2, <3>1
  <2> QED
    BY <2>1, <2>2
<1>11. /\ Len(s.ci) \in b..Len(z.ci)
       /\ \A p \in 1..Len(s.ci) : s.ci[p] = z.ci[p]
       /\ \A p \in Len(s.ci) + 1..Len(z.ci) : z.ci[p] # "lua" /\ z.ci[p] # "main"
  <2>1. b <= Len(z.ci)
    BY ONLY <1>4, <1>5, <1>9
  <2>2. s.ci = z.ci \/ (s.ci = Front(z.ci) /\ b < Len(z.ci) /\ Last(z.ci) \notin {"lua", "main"})
    BY ONLY <1>4, <1>5, <1>9, <1>10
  <2>3. Len(z.ci) \in Nat
    BY ONLY <1>6
  <2>4. CASE s.ci = z.ci
    <3>1. \A p \in Len(s.ci) + 1..Len(z.ci) : FALSE
      BY ONLY <2>3, <2>4
    <3> QED
      BY ONLY <2>1, <2>3, <2>4, <3>1
  <2>5. CASE s.ci = Front(z.ci) /\ b < Len(z.ci) /\ Last(z.ci) \notin {"lua", "main"}
    BY <1>6, <2>1, <2>5, Shortened
  <2> QED
    BY <2>2, <2>4, <2>5
<1>12. Len(s.ci) \in Base(k)..Upto(k)
  BY ONLY <1>4, <1>5, <1>9, <1>11
<1>13. \A p \in 1..Len(s.ci) : p \in 1..at
  BY ONLY <1>5, <1>8, <1>9, <1>11
<1>14. \A p \in 1..Len(s.ci) : s.ci[p] = L.ci[p]
  BY ONLY <1>9, <1>11, <1>13
<1>15. \A p \in Len(s.ci) + 1..Upto(k) : L.ci[p] # "lua" /\ L.ci[p] # "main"
  <2>1. \A p \in Len(s.ci) + 1..Upto(k) : p \in 1..at /\ p \in Len(s.ci) + 1..Len(z.ci)
    BY ONLY <1>4, <1>5, <1>8, <1>9, <1>11
  <2> QED
    BY ONLY <1>9, <1>11, <2>1
<1>16. cstack' = SubSeq(cstack, 1, k) /\ th' = [th EXCEPT ![R] = s]
       /\ raising' \in {"no", "msg", "run", "err"} /\ raising' = "no"
  BY <1>1, <1>2, <1>10
<1>17. s.size <= 2 * LUAI_MAXCALLS /\ s.status = "ok" /\ s.baseCcalls = L.baseCcalls
       /\ s.nCcalls = Cardinality(Levels(k)) /\ Innermost(s.errorJmp, R, k)
  BY <1>2, <1>4, <1>10
<1>18. LeftTo(n, R, k, s)
  BY ONLY s \in ThreadSet, <1>2, <1>4, <1>12, <1>14, <1>15, <1>16, <1>17, Zenon DEF LeftTo
<1> QED
  BY <1>18, UnwindsHere

\* An error is caught by a luaD_pcall.
LEMMA CatchStep ==
  ASSUME IInv, Catch
  PROVE  IInv' /\ Keeps
<1>1. PICK n, R, b, len : At(n, R, b, len)
  BY Here
<1>2. /\ n = Len(cstack) /\ n \in Nat /\ R = Running /\ R \in Threads /\ L = th[R]
      /\ L \in ThreadSet /\ L.ci \in Seq(Functions) /\ L.size <= 2 * LUAI_MAXCALLS
      /\ L.size \in Nat
  BY <1>1 DEF At
<1>3. PICK e : e = L.errorJmp
  OBVIOUS
<1>4. /\ raising \in {"run", "err"} /\ e # 0 /\ cstack[e].kind = "pcall"
      /\ th' = [th EXCEPT ![R] = Returned(Restored(@, cstack[e]))]
      /\ cstack' = SubSeq(cstack, 1, e - 1) /\ raising' = "no"
  BY <1>2, <1>3 DEF Catch
<1>5. n >= 3 /\ e \in 3..n /\ cstack[e].t = R
  BY <1>2, <1>3, <1>4, Handler, Zenon
<1>6. PICK at \in FrameSet : at = cstack[e]
  BY <1>2, <1>5, Types DEF IInv
<1>7. at.ci \in 1..Len(L.ci)
  BY <1>2, <1>4, <1>5, <1>6, Protects, Zenon
<1>8. at.nCcalls \in Nat /\ at.errfunc \in BOOLEAN /\ at.previous \in Nat /\ at.ci \in Nat
  BY <1>6 DEF FrameSet
<1>9. /\ SubSeq(L.ci, 1, at.ci) \in Seq(Functions) /\ Len(SubSeq(L.ci, 1, at.ci)) = at.ci
      /\ \A p \in 1..at.ci : SubSeq(L.ci, 1, at.ci)[p] = L.ci[p]
  BY ONLY <1>2, <1>7
<1>10. PICK m \in Nat :
         /\ m = IF L.size > LUAI_MAXCALLS /\ at.ci + 1 < LUAI_MAXCALLS THEN LUAI_MAXCALLS ELSE L.size
         /\ m <= 2 * LUAI_MAXCALLS
  <2>1. LUAI_MAXCALLS \in Nat
    OBVIOUS
  <2> QED
    BY ONLY <1>2, <1>8, <2>1
<1>11. PICK z : z = Restored(L, at)
  OBVIOUS
<1>12. z = [L EXCEPT !.ci = SubSeq(L.ci, 1, at.ci), !.nCcalls = at.nCcalls, !.errfunc = at.errfunc,
                     !.errorJmp = at.previous, !.size = m]
  BY ONLY <1>10, <1>11 DEF Restored
<1>13. /\ z \in ThreadSet /\ z.ci = SubSeq(L.ci, 1, at.ci) /\ z.nCcalls = at.nCcalls
       /\ z.errorJmp = at.previous /\ z.status = L.status /\ z.baseCcalls = L.baseCcalls
       /\ z.size = m
  <2>1. PICK a \in Seq(Functions) : a = SubSeq(L.ci, 1, at.ci)
    BY ONLY <1>9, Zenon
  <2>2. z = [L EXCEPT !.ci = a, !.nCcalls = at.nCcalls, !.errfunc = at.errfunc,
                      !.errorJmp = at.previous, !.size = m]
    BY ONLY <1>12, <2>1
  <2>3. m \in Nat
    OBVIOUS
  <2> QED
    BY ONLY <1>2, <1>8, <2>1, <2>2, <2>3, Zenon DEF ThreadSet
<1>14. L.status = "ok"
  BY TopFrame
<1>15. th' = [th EXCEPT ![R] = Returned(z)]
  BY ONLY <1>2, <1>4, <1>6, <1>11
<1>16. LeftPcall(n, e, R, z)
  <2>1. /\ Len(z.ci) = cstack[e].ci /\ \A p \in 1..Len(z.ci) : z.ci[p] = L.ci[p]
    BY ONLY <1>6, <1>9, <1>13
  <2>2. /\ z.nCcalls = cstack[e].nCcalls /\ z.errorJmp = cstack[e].previous /\ z.status = "ok"
        /\ z.baseCcalls = L.baseCcalls /\ z.size <= 2 * LUAI_MAXCALLS /\ z \in ThreadSet
    BY ONLY <1>6, <1>10, <1>13, <1>14
  <2>3. n = Len(cstack) /\ R = Running
    BY <1>2
  <2> QED
    BY ONLY <1>4, <1>5, <1>15, <2>1, <2>2, <2>3, Zenon DEF LeftPcall
<1> QED
  BY <1>16, LeavesPcall

\* A Lua function returns to the C function that called it.
LEMMA ReturnToCStep ==
  ASSUME IInv, ReturnToC
  PROVE  IInv' /\ Keeps
<1>1. PICK n, R, b, len : At(n, R, b, len)
  BY Here
<1>2. /\ n = Len(cstack) /\ n \in Nat /\ R = Running /\ R \in Threads /\ L = th[R] /\ R = cstack[n].t
      /\ Top = cstack[n] /\ L \in ThreadSet /\ L.ci \in Seq(Functions) /\ L.size <= 2 * LUAI_MAXCALLS
      /\ len = Len(L.ci) /\ len \in Nat /\ b = Base(n) /\ b \in Nat /\ b <= len
      /\ DOMAIN cstack = 1..n /\ L.nCcalls = Cardinality(Levels(n)) /\ L.nCcalls \in Nat
      /\ cstack \in Seq(FrameSet)
  BY <1>1 DEF At, IInv, TypeInv
<1>3. InLua /\ Top.n = 1 /\ Top.kind \in {"call", "handler"}
  BY DEF ReturnToC
<1>4. n >= 3 /\ L.ci # <<>> /\ len = b + 1
  <2>1. n >= 3 /\ L.ci # <<>> /\ Top.n = len - b
    BY <1>2, <1>3, LuaRuns, Zenon
  <2> QED
    BY ONLY <1>2, <1>3, <2>1
<1>5. /\ Front(L.ci) \in Seq(Functions) /\ Len(Front(L.ci)) = b
      /\ \A p \in 1..b : Front(L.ci)[p] = L.ci[p]
  <2>1. /\ Front(L.ci) \in Seq(Functions) /\ Len(Front(L.ci)) = len - 1
        /\ \A p \in 1..len - 1 : Front(L.ci)[p] = L.ci[p]
    BY <1>2, <1>4, Fronts, Zenon
  <2>2. len - 1 = b
    BY ONLY <1>2, <1>4
  <2> QED
    BY ONLY <2>1, <2>2
<1>6. PICK k \in Nat : k = n - 1
  BY ONLY <1>2, <1>4
<1>7. /\ k \in 2..n - 1 /\ k \in 1..n /\ n \in 2..n /\ k + 1 = n /\ k \in DOMAIN cstack /\ k < n
      /\ n \in DOMAIN cstack
  BY ONLY <1>2, <1>4, <1>6
<1>8. cstack[k].t = R
  <2>1. cstack[n].t = cstack[n - 1].t
    BY <1>2, <1>3, <1>7, Zenon DEF IInv, PieceInv
  <2> QED
    BY <1>2, <1>6, <2>1
<1>9. Upto(k) = b /\ b = cstack[n].ci
  BY <1>2, <1>3, <1>7, <1>8 DEF Upto, Base
<1>10. PICK v \in Nat : v = L.nCcalls - 1 /\ v = Cardinality(Levels(k))
  <2>1. n \in Nat \ {0}
    BY ONLY <1>2, <1>4
  <2>2. Cardinality(LevelsIn(cstack, n)) =
          Cardinality(LevelsIn(cstack, n - 1)) + (IF cstack[n].kind \in Counted THEN 1 ELSE 0)
    BY <2>1, Counting
  <2>3. Cardinality(LevelsIn(cstack, k)) \in Nat
    BY Counting, Zenon
  <2>4. cstack[n].kind \in Counted
    BY <1>2, <1>3 DEF Counted
  <2> QED
    <3>1. L.nCcalls = Cardinality(LevelsIn(cstack, n)) /\ n - 1 = k
      BY ONLY <1>2, <1>6 DEF Levels
    <3>2. L.nCcalls = Cardinality(LevelsIn(cstack, k)) + 1
      BY ONLY <2>2, <2>4, <3>1
    <3> QED
      BY ONLY <2>3, <3>2 DEF Levels
<1>11. Front(cstack) = SubSeq(cstack, 1, k) /\ Last(Front(cstack)) = cstack[k]
  <2>1. Front(cstack) = SubSeq(cstack, 1, k)
    BY <1>2, <1>6 DEF Front
  <2>2. Len(SubSeq(cstack, 1, k)) = k /\ SubSeq(cstack, 1, k)[k] = cstack[k]
    BY ONLY <1>2, <1>7
  <2> QED
    BY ONLY <2>1, <2>2, Zenon DEF Last
<1>12. L.status = "ok"
  BY TopFrame
<1>13. CASE cstack[k].kind = "pcall"
  <2>1. PICK y : y = [L EXCEPT !.ci = Front(L.ci), !.nCcalls = v, !.errfunc = cstack[k].errfunc,
                               !.errorJmp = cstack[k].previous]
    OBVIOUS
  <2>2. cstack[k].errfunc \in BOOLEAN /\ cstack[k].previous \in Nat
    BY <1>2, <1>7, Types DEF IInv
  <2>3. /\ y \in ThreadSet /\ y.ci = Front(L.ci) /\ y.nCcalls = v /\ y.status = L.status
        /\ y.errorJmp = cstack[k].previous /\ y.size = L.size /\ y.baseCcalls = L.baseCcalls
    BY ONLY <1>2, <1>5, <2>1, <2>2, Zenon DEF ThreadSet
  <2>4. /\ th' = [th EXCEPT ![Running] = Returned(y)] /\ cstack' = Front(Front(cstack))
        /\ raising' = IF Top.kind = "handler" THEN "run" ELSE "no"
    <3>1. /\ th' = [th EXCEPT ![Running] = Returned(
                      [[L EXCEPT !.ci = Front(@), !.nCcalls = @ - 1]
                         EXCEPT !.errfunc = cstack[k].errfunc, !.errorJmp = cstack[k].previous])]
          /\ cstack' = Front(Front(cstack))
          /\ raising' = IF Top.kind = "handler" THEN "run" ELSE "no"
      BY <1>11, <1>13, Zenon DEF ReturnToC
    <3>2. [[L EXCEPT !.ci = Front(@), !.nCcalls = @ - 1]
             EXCEPT !.errfunc = cstack[k].errfunc, !.errorJmp = cstack[k].previous] = y
      BY ONLY <1>2, <1>10, <2>1, Zenon DEF ThreadSet
    <3> QED
      BY ONLY <3>1, <3>2, Zenon
  <2>5. cstack[k + 1].kind = "call" /\ cstack[k + 1].ci = cstack[k].ci
    <3>1. k > 1
      BY ONLY <1>7
    <3> QED
      BY <1>7, <1>13, <3>1 DEF IInv, ProtectedInv
  <2>6. raising' = "no" /\ cstack[k].ci = b
    BY <1>2, <1>7, <1>9, <2>4, <2>5
  <2>7. k # 2
    <3>1. cstack[2].kind = "call"
      BY DEF IInv, BottomInv
    <3> QED
      BY <1>13, <3>1
  <2>8. cstack' = SubSeq(cstack, 1, k - 1) /\ k \in 3..n
    <3>1. k \in 3..n
      BY ONLY <1>2, <1>7, <2>7
    <3>2. Front(SubSeq(cstack, 1, k)) = SubSeq(SubSeq(cstack, 1, k), 1, k - 1)
      <4>1. Len(SubSeq(cstack, 1, k)) = k
        BY ONLY <1>2, <1>7
      <4> QED
        BY ONLY <4>1 DEF Front
    <3>3. SubSeq(SubSeq(cstack, 1, k), 1, k - 1) = SubSeq(cstack, 1, k - 1)
      BY ONLY <1>2, <1>7, <3>1
    <3> QED
      BY <1>11, <2>4, <3>1, <3>2, <3>3
  <2>9. cstack[k].nCcalls = v
    <3>1. cstack[k].nCcalls = Cardinality(Levels(k - 1))
      BY <1>7, <1>13 DEF IInv, LevelInv
    <3>2. k \in Nat \ {0}
      BY ONLY <1>7
    <3>3. Cardinality(LevelsIn(cstack, k)) =
            Cardinality(LevelsIn(cstack, k - 1)) + (IF cstack[k].kind \in Counted THEN 1 ELSE 0)
      BY <3>2, Counting
    <3>4. k - 1 \in Nat
      BY ONLY <3>2
    <3>5. Cardinality(LevelsIn(cstack, k - 1)) \in Nat
      BY <3>4, Counting, Zenon
    <3>6. cstack[k].kind \notin Counted
      BY <1>13 DEF Counted
    <3> QED
      BY ONLY <1>10, <3>1, <3>3, <3>5, <3>6 DEF Levels
  <2>10. /\ Len(y.ci) = cstack[k].ci /\ \A p \in 1..Len(y.ci) : y.ci[p] = L.ci[p]
         /\ y.nCcalls = cstack[k].nCcalls /\ y.errorJmp = cstack[k].previous /\ y.status = "ok"
         /\ y.baseCcalls = L.baseCcalls /\ y.size <= 2 * LUAI_MAXCALLS
    BY ONLY <1>2, <1>5, <1>12, <2>3, <2>6, <2>9, Zenon
  <2>11. th' = [th EXCEPT ![R] = Returned(y)]
    BY ONLY <1>2, <2>4, Zenon
  <2>12. LeftPcall(n, k, R, y)
    BY ONLY <1>2, <1>8, <1>13, <2>3, <2>6, <2>8, <2>10, <2>11, Zenon DEF LeftPcall
  <2> QED
    BY <2>12, LeavesPcall
<1>14. CASE cstack[k].kind # "pcall"
  <2>1. PICK s : s = [L EXCEPT !.ci = Front(L.ci), !.nCcalls = v]
    OBVIOUS
  <2>2. /\ s \in ThreadSet /\ s.ci = Front(L.ci) /\ s.nCcalls = v /\ s.status = L.status
        /\ s.errorJmp = L.errorJmp /\ s.size = L.size /\ s.baseCcalls = L.baseCcalls
    BY ONLY <1>2, <1>5, <2>1, Zenon DEF ThreadSet
  <2>3. /\ th' = [th EXCEPT ![R] = s] /\ cstack' = SubSeq(cstack, 1, k)
        /\ raising' \in {"no", "msg", "run", "err"}
    <3>1. /\ th' = [th EXCEPT ![R] = [L EXCEPT !.ci = Front(@), !.nCcalls = @ - 1]]
          /\ cstack' = Front(cstack)
          /\ raising' = IF Top.kind = "handler" THEN "run" ELSE "no"
      BY <1>2, <1>11, <1>14, Zenon DEF ReturnToC
    <3>2. [L EXCEPT !.ci = Front(@), !.nCcalls = @ - 1] = s
      BY ONLY <1>2, <1>10, <2>1, Zenon DEF ThreadSet
    <3> QED
      BY ONLY <1>11, <3>1, <3>2, Zenon
  <2>4. k # 2
    <3>1. CASE k = 2
      <4>1. n = 3 /\ Len(cstack) # 2
        <5>1. k + 1 = n
          BY <1>7
        <5>2. n = 3
          BY ONLY <3>1, <5>1
        <5>3. n = Len(cstack)
          BY <1>2
        <5> QED
          BY ONLY <5>2, <5>3
      <4>2. cstack[3].kind = "pcall"
        BY <4>1 DEF IInv, BottomInv
      <4> QED
        BY <1>2, <1>3, <4>1, <4>2
    <3> QED
      BY <3>1
  <2>5. Innermost(s.errorJmp, R, k)
    <3>1. Innermost(L.errorJmp, R, n)
      BY <1>2 DEF IInv, JumpInv
    <3>2. \A i : i \in 1..n <=> i \in 1..k \/ i = n
      BY ONLY <1>2, <1>6, <1>7
    <3>3. cstack[n].kind \notin {"pcall", "resume"}
      BY ONLY <1>2, <1>3
    <3>4. Jumps(R, n) = Jumps(R, k)
      BY ONLY <3>2, <3>3 DEF Jumps
    <3> QED
      BY ONLY <2>2, <3>1, <3>4 DEF Innermost
  <2>6. Base(k) <= Upto(k) /\ Base(k) \in Nat
    <3>1. cstack[k].ci \in Nat
      BY <1>2, <1>7, Types DEF IInv
    <3>2. Base(k) \in Nat
      BY <3>1 DEF Base
    <3> QED
      BY <1>7, <3>2 DEF IInv, OwnerInv
  <2>7. /\ Len(s.ci) \in Base(k)..Upto(k)
        /\ \A p \in 1..Len(s.ci) : s.ci[p] = L.ci[p]
        /\ \A p \in Len(s.ci) + 1..Upto(k) : L.ci[p] # "lua" /\ L.ci[p] # "main"
    <3>4. Len(s.ci) = b /\ Upto(k) = b /\ b \in Nat
      BY ONLY <1>2, <1>5, <1>9, <2>2, Zenon
    <3>1. Len(s.ci) \in Base(k)..Upto(k)
      BY ONLY <2>6, <3>4
    <3>2. \A p \in Len(s.ci) + 1..Upto(k) : FALSE
      BY ONLY <3>4
    <3>3. \A p \in 1..Len(s.ci) : s.ci[p] = L.ci[p]
      BY ONLY <1>5, <2>2
    <3> QED
      BY ONLY <3>1, <3>2, <3>3
  <2>8. s.size <= 2 * LUAI_MAXCALLS /\ s.status = "ok" /\ s.nCcalls = Cardinality(Levels(k))
    BY ONLY <1>2, <1>10, <1>12, <2>2, Zenon
  <2>9. LeftTo(n, R, k, s)
    BY ONLY <1>2, <1>7, <1>8, <1>14, <2>2, <2>3, <2>4, <2>5, <2>7, <2>8, Zenon DEF LeftTo
  <2> QED
    BY <2>9, UnwindsHere
<1> QED
  BY <1>13, <1>14

-----------------------------------------------------------------------------
(* The invariant is inductive *)

\* lua_cpcall of pmain has called docall.
LEMMA InitIsGood ==
  ASSUME Init
  PROVE  IInv
<1>1. PICK main : main = [NewThread EXCEPT !.ci = <<"main">>, !.nCcalls = 1, !.errorJmp = 1]
  OBVIOUS
<1>2. /\ BASIC_CI_SIZE \in Nat /\ LUAI_MAXCALLS \in Nat /\ LUAI_MAXCCALLS \in Nat /\ Extra \in Nat
      /\ Extra > 1 /\ LUAI_MAXCCALLS > 1 /\ BASIC_CI_SIZE <= 2 * LUAI_MAXCALLS
      /\ Main \notin Coroutines /\ Main \in Threads
  OBVIOUS
<1>3. <<>> \in Seq(Functions) /\ <<"main">> \in Seq(Functions)
      /\ Len(<<>>) = 0 /\ Len(<<"main">>) = 1
  BY DEF Functions
<1>4. /\ NewThread \in ThreadSet /\ NewThread.ci = <<>> /\ NewThread.nCcalls = 0
      /\ NewThread.errorJmp = 0 /\ NewThread.status = "ok" /\ NewThread.baseCcalls = 0
      /\ NewThread.size = BASIC_CI_SIZE /\ NewThread.errfunc = FALSE
  BY ONLY <1>2, <1>3 DEF NewThread, ThreadSet
<1>5. /\ main \in ThreadSet /\ main.ci = <<"main">> /\ main.nCcalls = 1 /\ main.errorJmp = 1
      /\ main.status = "ok" /\ main.baseCcalls = 0 /\ main.size = BASIC_CI_SIZE
      /\ main.errfunc = FALSE
  BY ONLY <1>1, <1>3, <1>4, Zenon DEF ThreadSet
<1>6. PICK v : v = Frame("pcall", Main, NewThread)
  OBVIOUS
<1>7. /\ v \in FrameSet /\ v.kind = "pcall" /\ v.t = Main /\ v.n = 0 /\ v.ci = 0
      /\ v.nCcalls = 0 /\ v.previous = 0
  <2>1. Len(NewThread.ci) = 0
    BY ONLY <1>3, <1>4, Zenon
  <2>2. v = [kind |-> "pcall", t |-> Main, n |-> 0, ci |-> 0, nCcalls |-> 0, errfunc |-> FALSE,
             previous |-> 0]
    BY ONLY <1>4, <1>6, <2>1, Zenon DEF Frame
  <2> QED
    BY ONLY <1>2, <2>2 DEF FrameSet
<1>8. PICK w : w = [Frame("call", Main, main) EXCEPT !.n = 1]
  BY Zenon
<1>9. /\ w \in FrameSet /\ w.kind = "call" /\ w.t = Main /\ w.n = 1 /\ w.ci = 1
  <2>1. Len(main.ci) = 1
    BY ONLY <1>3, <1>5, Zenon
  <2>2. PICK u : u = Frame("call", Main, main)
    OBVIOUS
  <2>4. u = [kind |-> "call", t |-> Main, n |-> 0, ci |-> 1, nCcalls |-> 1, errfunc |-> FALSE,
             previous |-> 1]
    BY ONLY <1>5, <2>1, <2>2, Zenon DEF Frame
  <2>5. w = [u EXCEPT !.n = 1]
    BY ONLY <1>8, <2>2
  <2>3. w = [kind |-> "call", t |-> Main, n |-> 1, ci |-> 1, nCcalls |-> 1, errfunc |-> FALSE,
             previous |-> 1]
    BY ONLY <2>4, <2>5, Zenon
  <2> QED
    BY ONLY <1>2, <2>3 DEF FrameSet
<1>10. /\ th = [t \in Threads |-> IF t = Main THEN main ELSE NewThread]
       /\ cstack = <<v, w>> /\ raising = "no"
  BY <1>1, <1>6, <1>8 DEF Init
<1>11. /\ th \in [Threads -> ThreadSet] /\ th[Main] = main
       /\ \A t \in Coroutines : th[t] = NewThread
  BY ONLY <1>2, <1>4, <1>5, <1>10
<1>12. /\ cstack \in Seq(FrameSet) /\ Len(cstack) = 2 /\ DOMAIN cstack = {1, 2}
       /\ cstack[1] = v /\ cstack[2] = w
  BY ONLY <1>7, <1>9, <1>10
<1>13. Running = Main /\ L = main
  BY <1>9, <1>11, <1>12 DEF Running, Top, Last, L
<1>14. TypeInv
  BY <1>10, <1>11, <1>12 DEF TypeInv
<1>15. BottomInv
  BY <1>5, <1>7, <1>9, <1>10, <1>11, <1>12 DEF BottomInv
<1>16. MainInv
  <2>1. Len(main.ci) = 1 /\ DOMAIN main.ci = {1} /\ main.ci[1] = "main"
    BY <1>5
  <2>2. DOMAIN NewThread.ci = {}
    BY <1>4
  <2> QED
    BY <1>2, <1>11, <2>1, <2>2 DEF MainInv
<1>17. PieceInv
  BY <1>7, <1>9, <1>12 DEF PieceInv
<1>18. StatusInv
  <2>1. \A t \in Threads : th[t].status = "ok"
    BY <1>4, <1>5, <1>11
  <2> QED
    BY <1>7, <1>9, <1>11, <1>12, <1>13, <2>1 DEF StatusInv
<1>19. Cardinality(Levels(0)) = 0 /\ Cardinality(Levels(2)) = 1
  <2>1. Levels(0) = {}
    BY DEF Levels, LevelsIn
  <2>2. Levels(2) = {2}
    BY <1>7, <1>9, <1>12 DEF Levels, LevelsIn, Counted
  <2> QED
    BY <2>1, <2>2, FS_EmptySet, FS_Singleton, Zenon
<1>20. LevelInv
  <2>1. ~ IsLast(1)
    BY <1>7, <1>9, <1>12 DEF IsLast
  <2> QED
    BY <1>5, <1>7, <1>9, <1>11, <1>12, <1>19, <2>1 DEF LevelInv
<1>21. LimitInv
  <2>1. \A t \in Threads : th[t].size = BASIC_CI_SIZE
    BY <1>4, <1>5, <1>11
  <2>2. 1 < LUAI_MAXCCALLS + Extra /\ 1 <= LUAI_MAXCCALLS + Extra
    BY ONLY <1>2
  <2> QED
    BY <1>2, <1>5, <1>13, <2>1, <2>2 DEF LimitInv
<1>22. JumpInv
  <2>1. Jumps(Main, 2) = {1} /\ \A t \in Coroutines : Jumps(t, 2) = {}
    BY <1>2, <1>7, <1>9, <1>12 DEF Jumps
  <2>2. Innermost(1, Main, 2) /\ \A t \in Coroutines : Innermost(0, t, 2)
    BY ONLY <2>1 DEF Innermost
  <2>3. Innermost(v.previous, v.t, 1 - 1)
    BY <1>7 DEF Innermost, Jumps
  <2> QED
    BY <1>4, <1>5, <1>7, <1>9, <1>11, <1>12, <2>2, <2>3 DEF JumpInv
<1>23. ProtectedInv
  BY <1>7, <1>9, <1>12 DEF ProtectedInv
<1>24. OwnerInv
  <2>1. Base(1) = 0 /\ Base(2) = 1
    BY <1>7, <1>9, <1>12 DEF Base
  <2>2. Upto(1) = 1 /\ Upto(2) = 1
    <3>1. Upto(1) = Base(2)
      BY <1>7, <1>9, <1>12 DEF Upto
    <3>2. Upto(2) = Len(th[Main].ci)
      BY ONLY <1>9, <1>12 DEF Upto
    <3>3. Len(th[Main].ci) = 1
      BY ONLY <1>3, <1>5, <1>11, Zenon
    <3> QED
      BY ONLY <2>1, <3>1, <3>2, <3>3
  <2>3. Owned(1) = {}
    BY <1>5, <1>7, <1>11, <1>12, <2>1, <2>2 DEF Owned
  <2>4. cstack[1].n = Cardinality(Owned(1))
    BY <1>7, <1>12, <2>3, FS_EmptySet, Zenon
  <2>5. th[cstack[1].t].ci = <<"main">> /\ th[cstack[2].t].ci = <<"main">>
    BY <1>5, <1>7, <1>9, <1>11, <1>12
  <2> QED
    <3>1. ASSUME NEW i \in {1, 2}
          PROVE  /\ Base(i) <= Upto(i) /\ Upto(i) <= Len(th[cstack[i].t].ci)
                 /\ i # 2 => cstack[i].n = Cardinality(Owned(i))
                 /\ i > 2 /\ cstack[i].n = 0 => Base(i) = Upto(i)
                 /\ \A p \in Base(i) + 1..Upto(i) - 1 : th[cstack[i].t].ci[p] = "lua"
      <4>1. Len(th[cstack[1].t].ci) = 1 /\ Len(th[cstack[2].t].ci) = 1
        BY ONLY <1>3, <2>5, Zenon
      <4>2. /\ Base(i) <= Upto(i) /\ Upto(i) = 1 /\ ~ (i > 2)
            /\ \A p \in Base(i) + 1..Upto(i) - 1 : FALSE
        BY ONLY <2>1, <2>2
      <4>3. Len(th[cstack[i].t].ci) = 1 /\ (i # 2 => cstack[i].n = Cardinality(Owned(i)))
        BY ONLY <2>4, <4>1
      <4>4. Upto(i) <= Len(th[cstack[i].t].ci)
        BY ONLY <4>2, <4>3
      <4> QED
        BY ONLY <4>2, <4>3, <4>4
    <3>2. \A i, j \in {1, 2} : i < j => Upto(i) <= Base(j)
      BY ONLY <2>1, <2>2
    <3>3. DOMAIN cstack = {1, 2}
      BY <1>12
    <3> QED
      BY ONLY <3>1, <3>2, <3>3 DEF OwnerInv
<1> QED
  BY <1>14, <1>15, <1>16, <1>17, <1>18, <1>20, <1>21, <1>22, <1>23, <1>24 DEF IInv

\* Each action preserves it.
LEMMA NextIsGood ==
  ASSUME IInv, Next \/ UNCHANGED vars
  PROVE  IInv' /\ Keeps
<1>1. PICK n : n = Len(cstack)
  BY Zenon
<1>2. "lua" \in Functions \ {"main"}
  BY DEF Functions
<1>3. CASE CallLua
  <2>1. Idle /\ InLua /\ Enter("lua")
    BY <1>3 DEF CallLua, InLua
  <2> QED
    BY <1>2, <2>1, EnterSteps
<1>4. CASE Precall
  <2>1. Idle /\ Top.n = 0 /\ Enter("lua")
    BY <1>4 DEF Precall
  <2> QED
    BY <1>2, <2>1, EnterSteps
<1>5. ASSUME NEW f \in {"pcall", "xpcall", "resume", "wrap", "yield"}, CallC(f)
      PROVE  IInv' /\ Keeps
  <2>1. Idle /\ InLua /\ Enter(f)
    BY <1>5 DEF CallC, InLua
  <2>2. f \in Functions \ {"main"}
    BY DEF Functions
  <2> QED
    BY <2>1, <2>2, EnterSteps
<1>6. CASE CallTM
  <2>1. InLua /\ Call("call", L, cstack)
    BY <1>6 DEF CallTM
  <2>2. raising = "no" /\ n >= 3
    BY <1>1, <2>1, LuaRuns
  <2>3. raising # "err" /\ Len(cstack) # 2
    BY <1>1, <2>2
  <2> QED
    BY <2>1, <2>3, CallSteps
<1>7. CASE ErrorMsg /\ L.errfunc
  <2>1. raising = "msg" /\ Call("handler", L, cstack)
    BY <1>7 DEF ErrorMsg
  <2>2. Len(cstack) # 2
    BY <2>1 DEF IInv, BottomInv
  <2> QED
    BY <2>1, <2>2, CallSteps
<1>8. CASE Raise \/ CannotYield \/ (ErrorMsg /\ ~ L.errfunc) \/ UNCHANGED vars
  BY <1>8, RaiseSteps
<1>9. ASSUME NEW f \in {"resume", "wrap"}, NEW co \in Coroutines, Resume(f, co) \/ CannotResume(f, co)
      PROVE  IInv' /\ Keeps
  BY <1>9, ResumeSteps, CannotResumeSteps
<1>10. CASE Protect
  BY <1>10, ProtectStep
<1>11. CASE Catch
  BY <1>11, CatchStep
<1>12. CASE Die
  BY <1>12, DieStep
<1>13. CASE ReturnToLua
  BY <1>13, ReturnToLuaStep
<1>14. CASE ReturnToC
  BY <1>14, ReturnToCStep
<1>15. CASE Yield
  BY <1>15, YieldStep
<1>16. CASE Finish
  BY <1>16, FinishStep
<1> QED
  BY <1>3, <1>4, <1>5, <1>6, <1>7, <1>8, <1>9, <1>10, <1>11, <1>12, <1>13, <1>14, <1>15, <1>16
     DEF Next

\* The only frame of a thread that yields is its lua_resume.
LEMMA YieldsAlone == IInv /\ Keeps => YieldCutsNoC
<1> SUFFICES ASSUME IInv, Keeps, NEW co \in Coroutines,
                    th[co].status = "ok", th'[co].status = "yield"
             PROVE  Top.kind = "resume" /\ Cardinality(FramesOf(co, Counted)) = 1
  BY DEF YieldCutsNoC
<1>1. co = Running /\ Top.kind = "resume"
  BY DEF Keeps
<1>2. PICK n : n = Len(cstack)
  BY Zenon
<1>3. n \in Nat /\ n >= 3 /\ Top = cstack[n] /\ Running = cstack[n].t /\ DOMAIN cstack = 1..n
  <2>1. n \in Nat /\ n >= 2 /\ n \in DOMAIN cstack /\ Top = cstack[n] /\ Running = cstack[n].t
    BY <1>2, TopFrame
  <2>2. DOMAIN cstack = 1..n
    BY <1>2, Types DEF IInv
  <2>3. n # 2
    BY <1>1, <1>2, <2>1 DEF IInv, BottomInv
  <2> QED
    BY ONLY <2>1, <2>2, <2>3
<1>4. n \in 3..n
  BY ONLY <1>3
<1>5. \A j \in 1..n - 1 : cstack[j].t # Running
  BY <1>1, <1>2, <1>3, <1>4, Resumer
<1>6. \A j \in 1..n : j = n \/ j \in 1..n - 1
  BY ONLY <1>3
<1>7. n \in DOMAIN cstack
  BY ONLY <1>3, <1>4
<1>8. FramesOf(co, Counted) = {n}
  BY <1>1, <1>3, <1>5, <1>6, <1>7 DEF FramesOf, Counted
<1> QED
  BY <1>1, <1>8, FS_Singleton, Zenon

\* A dead coroutine is off the C stack and nothing resumes it.
LEMMA DeadIsLeftAlone == IInv /\ Keeps => DeadStays
<1> SUFFICES ASSUME IInv, Keeps, NEW co \in Coroutines, CoStatus(co) = "dead"
             PROVE  CoStatus(co)' = "dead"
  BY DEF DeadStays
<1>1. co # Running /\ th[co].status # "yield" /\ (th[co].status = "ok" => th[co].ci = <<>>)
  BY DEF CoStatus
<1>2. ~ Has(co, Len(cstack))
  <2>1. ASSUME NEW i \in 1..Len(cstack), cstack[i].t = co
        PROVE  FALSE
    <3>1. i \in DOMAIN cstack
      BY Types DEF IInv
    <3>2. th[co].status = "ok" /\ th[co].ci # <<>>
      BY <1>1, <2>1, <3>1 DEF IInv, StatusInv
    <3> QED
      BY <1>1, <3>2
  <2> QED
    BY <2>1 DEF Has
<1>3. ~ Resumable(co) /\ co \in Threads
  BY DEF Resumable
<1>4. th'[co] = th[co] /\ co # Running'
  BY <1>2, <1>3 DEF Keeps
<1> QED
  BY <1>1, <1>4 DEF CoStatus
=============================================================================
