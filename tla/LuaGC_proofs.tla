---------------------------- MODULE LuaGC_proofs ----------------------------
(* Theorems about the collector of Lua, for every heap. *)
EXTENDS LuaGC, TLAPS

-----------------------------------------------------------------------------
(* The inductive invariant *)

\* What is allocated and not condemned refers to nothing else, weak entries
\* included, and the roots are among it.
Alive == {o \in heap : ~ Dead(o)}
HeapInv ==
  /\ Roots \cup tmudata \subseteq Alive
  /\ \A o \in Alive : AllRefs(o) \subseteq Alive
  /\ \A f \in Closures \cap heap : upval[f] \in Upvals
  /\ \A u \in Open : where[u][1] \in heap

\* What is not allocated is as a new object finds it.
FreshInv ==
  \A o \in Object \ heap :
    /\ m.color[o] = "white"
    /\ o \in Threads => stack[o] = [s \in Slots |-> Scalar]
    /\ o \in Tables => entries[o] = {}
    /\ o \in Userdata => metatable[o] = None

\* Only what the sweep has still to reach is not white, between two marks.
SweepInv ==
  /\ gcstate \notin {"sweepstring", "sweep"} => unswept = {}
  /\ gcstate = "pause" => tmudata = {}
  /\ unswept \cap Open = {}
  /\ gcstate # "propagate" =>
       \A o \in heap : m.color[o] # "white" =>
         o \in unswept \cup tmudata \/ (o \in Open /\ where[o][1] \in unswept)

\* Marking: black refers to no white, and gray waits on a list.
MarkInv ==
  /\ \A o \in Threads \cup Open : m.color[o] # "black"
  /\ gcstate = "propagate" =>
       /\ \A o \in heap : ~ Dead(o)
       /\ m.color[Main] \notin White /\ m.color[Registry] \notin White
       /\ \A o \in heap \ tmudata : m.color[o] = "black" =>
            \A r \in AllRefs(o) : m.color[r] \notin White
       /\ \A o \in heap \ tmudata : m.color[o] = "gray" =>
            o \in m.gray \cup m.grayagain \cup m.weak \cup Strings \cup Open
       /\ m.gray \cup m.grayagain \cup m.weak \subseteq heap

\* A finalizer was called: never before the userdata is marked as finalized.
FinalInv ==
  /\ \A d \in Userdata : calls[d] <= 1 /\ (calls[d] = 1 => d \in finalized)
  /\ \A d \in tmudata : calls[d] = 0 /\ d \in finalized
  /\ finalized \subseteq heap

IInv == TypeOK /\ HeapInv /\ FreshInv /\ SweepInv /\ MarkInv /\ FinalInv

-----------------------------------------------------------------------------
(* What an object refers to, kind by kind *)

\* The two unions that make up the objects.
LEMMA Kinds ==
  /\ Object = Values \cup Upvals
  /\ Values = Threads \cup Tables \cup Closures \cup Userdata \cup Strings
  /\ Main \in Threads /\ Registry \in Tables
  /\ Scalar \notin Object /\ None \notin Object
  BY KindsAssumption DEF Object, Values, Threads, Tables

\* r is one of the objects that o refers to.
RefersTo(o, r) ==
  /\ r \in Object
  /\ \/ o \in Threads /\ (r = Registry \/ \E s \in Slots : r = stack[o][s])
     \/ o \in Tables /\ \E e \in entries[o] : r = e[1] \/ r = e[2]
     \/ o \in Closures /\ (r = Registry \/ r = upval[o])
     \/ o \in Upvals /\ r = Content(o)
     \/ o \in Userdata /\ r = metatable[o]

ReferencesAre == \A o, r : r \in AllRefs(o) <=> RefersTo(o, r)

\* What an object refers to, in first-order terms; and in the next state.
LEMMA References == ReferencesAre
  BY DEF ReferencesAre, RefersTo, AllRefs, Refs, OnStack, AllSides

\* The references of the next state are the ones of its variables.
LEMMA ReferencesNext == ReferencesAre'
  BY References, PTL

\* The program only gets at what is alive.
Usable == (Alive \cap Values) \cup {Scalar}

\* What is on the stack of the running thread is alive.
LEMMA HeldIsUsable == ASSUME TypeOK, HeapInv PROVE Held \subseteq Usable
<1>1. running \in Alive /\ Registry \in Alive
  BY DEF HeapInv, Roots
<1>2. \A s \in Slots : stack[running][s] \in Values \cup {Scalar}
  BY DEF TypeOK
<1>3. \A s \in Slots : stack[running][s] # Scalar => RefersTo(running, stack[running][s])
  BY <1>2, Kinds DEF RefersTo, TypeOK
<1> QED BY <1>1, <1>2, <1>3, Kinds, References DEF ReferencesAre, HeapInv, Held, OnStack, Usable

\* So is everything that one access leads to.
LEMMA ReadableIsUsable == ASSUME TypeOK, HeapInv PROVE Readable \subseteq Usable
<1> DEFINE Good(v) == v \in Alive \cup {Scalar}
<1>1. \A o \in Alive : \A r : RefersTo(o, r) => Good(r)
  BY References DEF ReferencesAre, HeapInv
<1>2. \A t \in Held \cap Tables : \A v \in AllSides(t) : v \in Usable
  <2> SUFFICES ASSUME NEW t \in Held \cap Tables, NEW e \in entries[t] PROVE {e[1], e[2]} \subseteq Usable
    BY DEF AllSides
  <2>1. e[1] \in Values \cup {Scalar} /\ e[2] \in Values \cup {Scalar}
    BY DEF TypeOK
  <2>2. t \in Alive
    BY HeldIsUsable, Kinds DEF Usable
  <2> QED BY <1>1, <2>1, <2>2, Kinds DEF RefersTo, Usable
<1>3. \A f \in Held \cap Closures : upval[f] # None => Content(upval[f]) \in Usable
  <2> SUFFICES ASSUME NEW f \in Held \cap Closures, upval[f] # None PROVE Content(upval[f]) \in Usable
    OBVIOUS
  <2>1. f \in Alive /\ upval[f] \in Upvals
    BY HeldIsUsable, Kinds DEF Usable, TypeOK
  <2>2. upval[f] \in Alive
    BY <1>1, <2>1, Kinds DEF RefersTo
  <2>3. Content(upval[f]) \in Values \cup {Scalar}
    BY <2>1 DEF Content, TypeOK
  <2> QED BY <1>1, <2>1, <2>2, <2>3, Kinds DEF RefersTo, Usable
<1>4. \A d \in Held \cap Userdata : metatable[d] # None => metatable[d] \in Usable
  BY <1>1, HeldIsUsable, Kinds DEF Usable, RefersTo, TypeOK
<1> QED BY <1>2, <1>3, <1>4, HeldIsUsable DEF Readable, Usable

\* Only a weak table has references that do not count.
LEMMA StrongRefsAre ==
  \A o :
    /\ StrongRefs(o) \subseteq AllRefs(o) /\ AllRefs(o) \subseteq Object
    /\ (TypeOK /\ ~ WeakTable(o)) => StrongRefs(o) = AllRefs(o)
    /\ o \in Strings => AllRefs(o) = {}
<1> SUFFICES ASSUME NEW o
             PROVE  /\ StrongRefs(o) \subseteq AllRefs(o) /\ AllRefs(o) \subseteq Object
                    /\ (TypeOK /\ ~ WeakTable(o)) => StrongRefs(o) = AllRefs(o)
                    /\ o \in Strings => AllRefs(o) = {}
  OBVIOUS
<1>1. \A r : r \in StrongSides(o) => r \in AllSides(o)
  BY DEF StrongSides, AllSides
<1>2. mode[o] = {} => StrongSides(o) = AllSides(o)
  BY DEF StrongSides, AllSides
<1>3. o \in Strings => o \notin Threads \cup Tables \cup Closures \cup Upvals \cup Userdata
  BY DisjointAssumption
<1> QED BY <1>1, <1>2, <1>3 DEF StrongRefs, AllRefs, Refs, WeakTable

-----------------------------------------------------------------------------
(* Marking *)

\* What Mark returns, field by field.
Marks(h, X, r) ==
  /\ r \in Fields
  /\ r.gray = h.gray \cup {o \in AtOnce(h, X) : OnList(o)}
  /\ r.grayagain = h.grayagain /\ r.weak = h.weak
  /\ \A o \in Object :
       r.color[o] = IF o \notin AtOnce(h, X) THEN h.color[o]
                    ELSE IF OnList(o) \/ StaysGray(o) THEN "gray" ELSE "black"

\* Marking changes colors and lists only, and of white objects only.
LEMMA MarkFields ==
  ASSUME NEW h \in Fields, NEW S
  PROVE  Marks(h, S \cap Object, Mark(h, S))
  BY DEF Marks, Mark, Fields, OnList, Colors, White

\* What is marked at once does not lead to a white object unless it is on the
\* gray list: an upvalue or a userdata is at most two steps deep.
LEMMA AtOnceIsClosed ==
  ASSUME TypeOK, NEW h \in Fields, NEW S \in SUBSET Object,
         NEW o \in AtOnce(h, S), ~ OnList(o)
  PROVE  \A r \in AllRefs(o) : h.color[r] \in White => r \in AtOnce(h, S)
<1> DEFINE first  == Whites(h, S)
           second == first \cup Leads(h, {x \in first : ~ OnList(x)})
<1>0. AtOnce(h, S) = second \cup Leads(h, {x \in second : ~ OnList(x)})
  BY DEF AtOnce
<1>1. \A x \in Object : ~ OnList(x) => StrongRefs(x) = AllRefs(x)
  BY StrongRefsAre DEF OnList, WeakTable
<1>2. \A X : X \subseteq Object =>
       \A x \in Leads(h, X) : x \in Object /\ \E y \in X : x \in StrongRefs(y)
  BY StrongRefsAre DEF Leads, Whites
<1>3. \A X : X \subseteq Object =>
       \A y \in X : \A r \in StrongRefs(y) : h.color[r] \in White => r \in Leads(h, X)
  BY StrongRefsAre DEF Leads, Whites
<1>4. first \subseteq Object /\ second \subseteq Object
  BY <1>2 DEF Whites, Fields
<1>5. CASE o \in second
  BY <1>0, <1>1, <1>3, <1>4, <1>5
<1>6. CASE o \notin second
  <2>1. PICK y \in second : ~ OnList(y) /\ o \in StrongRefs(y) /\ h.color[o] \in White
    BY <1>0, <1>2, <1>4, <1>6 DEF Leads, Whites
  <2>2. y \notin first
    BY <1>3, <1>4, <1>6, <2>1
  <2>3. PICK z \in first : ~ OnList(z) /\ y \in StrongRefs(z)
    BY <1>2, <1>4, <2>2
  <2>4. o \in AllRefs(y) /\ y \in AllRefs(z)
    BY <2>1, <2>3, StrongRefsAre
  <2>5. y \in Object /\ z \in Object
    BY <1>4
  <2>6. \A u \in Upvals : Content(u) \in Values \cup {Scalar}
    BY DEF Content, TypeOK
  <2>7. y \in Userdata
    BY <2>1, <2>3, <2>4, <2>5, <2>6, References, Kinds, DisjointAssumption
    DEF ReferencesAre, RefersTo, OnList, TypeOK
  <2>8. o \in Tables
    BY <2>4, <2>7, References, Kinds, DisjointAssumption DEF ReferencesAre, RefersTo, TypeOK
  <2> QED BY <2>8 DEF OnList
<1> QED BY <1>5, <1>6

\* Marking takes the fields h to r: it only adds, and no thread or open upvalue
\* turns black.
Grows(h, r) ==
  /\ r \in Fields
  /\ h.grayagain \subseteq r.grayagain /\ h.weak \subseteq r.weak
  /\ \A o \in Object : r.color[o] \in White => r.color[o] = h.color[o]
  /\ \A o \in Threads \cup Open : r.color[o] = "black" => h.color[o] = "black"

\* It stays among what is alive.
StaysIn(h, r) ==
  /\ \A o \in Object \ Alive : r.color[o] = h.color[o]
  /\ r.gray \cup r.grayagain \cup r.weak \subseteq h.gray \cup h.grayagain \cup h.weak \cup Alive

\* Marking starts from what is white, and marks all of S.
LEMMA AtOnceIsWhite ==
  ASSUME NEW h \in Fields, NEW S \in SUBSET Object
  PROVE  /\ AtOnce(h, S) \subseteq Whites(h, Object)
         /\ Whites(h, S) \subseteq AtOnce(h, S)
  BY StrongRefsAre DEF AtOnce, Leads, Whites

\* Mark only adds, and marks S.
LEMMA MarkGrows ==
  ASSUME NEW h \in Fields, NEW S
  PROVE  /\ Grows(h, Mark(h, S))
         /\ h.gray \subseteq Mark(h, S).gray
         /\ \A o \in Object : h.color[o] \notin White => Mark(h, S).color[o] = h.color[o]
         /\ \A o \in S \cap Object : Mark(h, S).color[o] \notin White
<1> DEFINE r == Mark(h, S)
           X == S \cap Object
<1>1. Marks(h, X, r)
  BY MarkFields
<1> HIDE DEF r
<1>2. AtOnce(h, X) \subseteq Whites(h, Object) /\ Whites(h, X) \subseteq AtOnce(h, X)
  BY AtOnceIsWhite
<1>3. \A o \in Threads \cup Open : StaysGray(o)
  BY DEF StaysGray, Open
<1>4. Grows(h, r)
  BY <1>1, <1>3, Kinds DEF Marks, Grows, Open, White
<1>5. \A o \in Object : h.color[o] \notin White => r.color[o] = h.color[o]
  BY <1>1, <1>2 DEF Marks, Whites
<1>6. \A o \in X : r.color[o] \notin White
  BY <1>1, <1>2 DEF Marks, Whites, White
<1> QED BY <1>1, <1>4, <1>5, <1>6 DEF r, Marks

\* What is newly marked waits on the gray list, or all it refers to is marked.
LEMMA MarkTraces ==
  ASSUME TypeOK, NEW h \in Fields, NEW S, NEW o \in Object,
         h.color[o] \in White, Mark(h, S).color[o] \notin White
  PROVE  /\ Mark(h, S).color[o] = "black" =>
              \A x \in AllRefs(o) : Mark(h, S).color[x] \notin White
         /\ Mark(h, S).color[o] = "gray" =>
              o \in Mark(h, S).gray \cup Strings \cup {u \in Upvals : where[u] # Closed}
<1> DEFINE r == Mark(h, S)
           X == S \cap Object
<1>1. Marks(h, X, r)
  BY MarkFields
<1> HIDE DEF r
<1>2. o \in AtOnce(h, X) /\ r.color[o] \notin White
  BY <1>1 DEF r, Marks
<1>3. ASSUME r.color[o] = "black", NEW x \in AllRefs(o) PROVE r.color[x] \notin White
  <2>1. ~ OnList(o) /\ x \in Object
    BY <1>1, <1>2, <1>3, StrongRefsAre DEF Marks
  <2>2. h.color[x] \in White => x \in AtOnce(h, X)
    BY <1>2, <1>3, <2>1, AtOnceIsClosed
  <2> QED BY <1>1, <2>1, <2>2 DEF Marks, White
<1>4. r.color[o] = "gray" => o \in r.gray \cup Strings \cup {u \in Upvals : where[u] # Closed}
  BY <1>1, <1>2 DEF Marks, StaysGray, WeakTable, OnList
<1> QED BY <1>3, <1>4 DEF r

\* What is alive does not lead to anything else.
LEMMA MarkStays ==
  ASSUME HeapInv, NEW h \in Fields, NEW S, S \cap Object \subseteq Alive
  PROVE  StaysIn(h, Mark(h, S))
<1> DEFINE X == S \cap Object
<1>1. \A Y : Y \subseteq Alive => Leads(h, Y) \subseteq Alive
  BY StrongRefsAre DEF Leads, Whites, HeapInv
<1>2. AtOnce(h, X) \subseteq Alive
  BY <1>1 DEF AtOnce, Whites
<1> QED BY <1>2, MarkFields DEF Marks, StaysIn

-----------------------------------------------------------------------------
(* The steps of the program *)

\* What each of them does: it leaves the cycle alone, and what is alive refers
\* to nothing new that is not alive.  A dead upvalue may be freed.
Mutates ==
  /\ TypeOK' /\ UNCHANGED cycle
  /\ running' \in Alive'
  /\ \A o \in heap \ heap' : o \in Upvals /\ Dead(o) /\ m'.color[o] = "white"
  /\ \A o \in Object : m'.color[o] = "dead" => Dead(o)
  /\ \A o \in Object \ (heap \cup heap') : m'.color[o] = m.color[o]
  /\ \A o \in Threads \ heap' : stack'[o] = stack[o]
  /\ \A o \in Tables \ heap' : entries'[o] = entries[o]
  /\ \A o \in Userdata \ heap' : metatable'[o] = metatable[o]
  /\ \A f \in Closures \cap heap' : upval'[f] \in Upvals
  /\ \A u \in Open' : where'[u][1] \in heap
  /\ \A o \in Alive' : \A r : RefersTo(o, r)' => (o \in Alive /\ RefersTo(o, r)) \/ r \in Alive'

\* A step of the program keeps the parts of the invariant that no colour is in.
LEMMA MutatesHeap == ASSUME IInv, Mutates PROVE HeapInv' /\ FreshInv' /\ FinalInv'
<1>1. Alive \subseteq Alive'
  BY DEF Mutates, Alive, Dead, IInv, TypeOK
<1>2. heap \cap Threads \subseteq heap'
  BY DisjointAssumption DEF Mutates, IInv, TypeOK
<1>3. HeapInv'
  <2>1. (Roots \cup tmudata)' \subseteq Alive'
    BY <1>1 DEF Mutates, IInv, HeapInv, Roots, cycle
  <2>2. \A o \in Alive' : AllRefs(o)' \subseteq Alive'
    <3> SUFFICES ASSUME NEW o \in Alive', NEW r \in AllRefs(o)' PROVE r \in Alive'
      OBVIOUS
    <3>1. RefersTo(o, r)'
      BY ReferencesNext DEF ReferencesAre
    <3>2. r \in Alive' \/ (o \in Alive /\ r \in AllRefs(o))
      BY <3>1, References DEF Mutates, ReferencesAre
    <3> QED BY <1>1, <3>2 DEF IInv, HeapInv
  <2>3. \A u \in Open' : where'[u][1] \in heap'
    BY <1>2 DEF Mutates, Open, TypeOK, Fields
  <2> QED BY <2>1, <2>2, <2>3 DEF HeapInv, Mutates
<1>4. FreshInv'
  <2> SUFFICES ASSUME NEW o \in Object \ heap' PROVE
        /\ m'.color[o] = "white"
        /\ o \in Threads => stack'[o] = [s \in Slots |-> Scalar]
        /\ o \in Tables => entries'[o] = {}
        /\ o \in Userdata => metatable'[o] = None
    BY DEF FreshInv
  <2>1. CASE o \in heap
    BY <2>1, DisjointAssumption DEF Mutates
  <2>2. CASE o \notin heap
    BY <2>2 DEF Mutates, IInv, FreshInv
  <2> QED BY <2>1, <2>2
<1>5. FinalInv'
  <2>1. finalized \subseteq heap'
    BY DisjointAssumption DEF IInv, FinalInv, TypeOK, Mutates
  <2> QED BY <2>1 DEF IInv, FinalInv, Mutates, cycle
<1> QED BY <1>3, <1>4, <1>5

\* A step that no barrier has to see: only threads and open upvalues, which are
\* never black, and new objects come to refer to more than before.
Quiet ==
  /\ Mutates
  /\ m'.gray = m.gray /\ m'.grayagain = m.grayagain /\ m'.weak = m.weak
  /\ \A o \in Object : m'.color[o] = m.color[o] \/ (Dead(o) /\ m'.color[o] = "white")
  /\ heap \subseteq heap'
  /\ \A u \in Upvals \cap heap : where'[u] = where[u]
  /\ \A o \in heap \ (Threads \cup Open) : \A r : RefersTo(o, r)' => RefersTo(o, r)

\* A quiet step keeps the invariant.
LEMMA QuietStep == ASSUME IInv, Quiet PROVE IInv'
<1>1. TypeOK' /\ HeapInv' /\ FreshInv' /\ FinalInv'
  BY MutatesHeap DEF Quiet, Mutates
<1>2. \A u \in Open' : u \in Open \/ u \notin heap
  BY DEF Quiet, Open
<1>3. Open \subseteq Open'
  BY DEF Quiet, Open
<1>4. \A o \in Object : m'.color[o] # "white" => o \in heap /\ m.color[o] = m'.color[o]
  BY DEF Quiet, IInv, FreshInv
<1>5. SweepInv'
  <2>1. unswept' \cap Open' = {}
    BY <1>2 DEF IInv, TypeOK, SweepInv, Quiet, Mutates, cycle
  <2>2. ASSUME gcstate # "propagate", NEW o \in heap', m'.color[o] # "white"
        PROVE  o \in unswept \cup tmudata \/ (o \in Open' /\ where'[o][1] \in unswept)
    <3>1. o \in unswept \cup tmudata \/ (o \in Open /\ where[o][1] \in unswept)
      BY <1>1, <1>4, <2>2 DEF IInv, SweepInv, TypeOK
    <3> QED BY <1>3, <3>1 DEF Quiet, Open
  <2> QED BY <2>1, <2>2 DEF SweepInv, IInv, Quiet, Mutates, cycle
<1>6. MarkInv'
  <2>1. ASSUME NEW o \in Threads \cup Open' PROVE m'.color[o] # "black"
    BY <1>2, <1>4, <2>1, Kinds DEF IInv, MarkInv, Open
  <2>2. CASE gcstate = "propagate"
    <3>1. \A o \in heap' : ~ Dead(o)'
      BY <1>1, <1>4, <2>2 DEF IInv, MarkInv, Dead, TypeOK
    <3>2. \A o \in Object : m.color[o] \notin White => m'.color[o] \notin White
      BY DEF Quiet, Dead, White
    <3>3. ASSUME NEW o \in heap' \ tmudata, m'.color[o] = "black", NEW r \in AllRefs(o)'
          PROVE  m'.color[r] \notin White
      <4>1. o \in heap /\ m.color[o] = "black"
        BY <1>1, <1>4, <3>3 DEF TypeOK
      <4>2. o \notin Threads \cup Open
        BY <4>1 DEF IInv, MarkInv
      <4>3. r \in AllRefs(o)
        BY <3>3, <4>1, <4>2, References, ReferencesNext DEF ReferencesAre, Quiet
      <4>4. m.color[r] \notin White /\ r \in Object
        BY <2>2, <3>3, <4>1, <4>3, StrongRefsAre DEF IInv, MarkInv
      <4> QED BY <3>2, <4>4
    <3>4. ASSUME NEW o \in heap' \ tmudata, m'.color[o] = "gray"
          PROVE  o \in m.gray \cup m.grayagain \cup m.weak \cup Strings \cup Open'
      BY <1>1, <1>3, <1>4, <2>2, <3>4 DEF IInv, MarkInv, TypeOK
    <3> QED BY <2>1, <2>2, <3>1, <3>2, <3>3, <3>4, Kinds DEF MarkInv, IInv, Quiet, Mutates, cycle
  <2> QED BY <2>1, <2>2 DEF MarkInv, Quiet, Mutates, cycle
<1> QED BY <1>1, <1>5, <1>6 DEF IInv

\* What the invariant says of the roots, in the form the steps below use.
LEMMA Frame ==
  ASSUME IInv
  PROVE  /\ running \in Alive /\ Registry \in Alive /\ Main \in Alive
         /\ Held \subseteq Usable /\ Readable \subseteq Usable
         /\ \A o \in Alive : \A r : RefersTo(o, r) => r \in Alive
         /\ \A o \in Object \ heap : m.color[o] = "white"
  BY HeldIsUsable, ReadableIsUsable, References
  DEF IInv, HeapInv, Roots, ReferencesAre, FreshInv

\* The steps that only change a stack: reading a value, allocating, interning.
LEMMA LoadStep == ASSUME IInv, NEW s \in Slots, Load(s) PROVE IInv'
<1>1. PICK v \in Readable : Put(s, v)
  BY DEF Load
<1>2. v \in Usable
  BY Frame
<1>3. TypeOK'
  BY <1>1, <1>2, Kinds DEF Usable, IInv, TypeOK, Load, Put, cycle, tables, upvalues
<1>4. Alive' = Alive /\ Open' = Open
  BY DEF Alive, Dead, Load, Open, upvalues
<1>5. ASSUME NEW o \in heap, NEW r, RefersTo(o, r)'
      PROVE  RefersTo(o, r) \/ (r = v /\ o \in Threads \cup Open)
  BY <1>1, <1>5 DEF RefersTo, Content, Load, Put, IInv, TypeOK, upvalues, tables, Open
<1>6. Quiet
  BY <1>2, <1>3, <1>4, <1>5, Frame, Kinds
  DEF Usable, Quiet, Mutates, Load, Put, tables, upvalues, cycle, IInv, HeapInv, Alive, Dead, RefersTo, TypeOK
<1> QED BY <1>6, QuietStep

\* A new object is white of the current shade, and referred to by the stack.
LEMMA NewStep == ASSUME IInv, NEW s \in Slots, NEW o \in Object, New(s, o) PROVE IInv'
<1>1. o \in (Coroutines \cup OtherTables \cup Userdata) \ heap /\ o \in Values
  BY Kinds DEF New, Threads, Tables
<1>2. TypeOK'
  BY <1>1, Kinds DEF IInv, TypeOK, New, Put, cycle, tables, upvalues
<1>3. Alive' = Alive \cup {o} /\ Open' = Open
  BY <1>1, Frame, DisjointAssumption DEF Alive, Dead, New, Open, upvalues, Threads, Tables
<1>4. ASSUME NEW x \in heap, NEW r, RefersTo(x, r)'
      PROVE  RefersTo(x, r) \/ (r = o /\ x \in Threads \cup Open)
  BY <1>4 DEF RefersTo, Content, New, Put, IInv, TypeOK, upvalues, tables, Open
<1>5. o # running
  BY <1>1, Frame DEF Alive
<1>6. ASSUME NEW r, RefersTo(o, r)' PROVE r = Registry
  BY <1>1, <1>5, <1>6, Kinds, DisjointAssumption
  DEF RefersTo, New, Put, IInv, TypeOK, FreshInv, Threads, Tables, upvalues, tables
<1>7. \A f \in Closures : f # o
  BY <1>1, DisjointAssumption DEF Threads, Tables
<1>8. Quiet
  BY <1>1, <1>2, <1>3, <1>4, <1>6, <1>7, Frame, Kinds
  DEF Quiet, Mutates, New, Put, tables, upvalues, cycle, IInv, HeapInv, Alive, Dead, RefersTo, TypeOK
<1> QED BY <1>8, QuietStep

\* A string that is interned again is made current when it was condemned.
LEMMA InternStep == ASSUME IInv, NEW s \in Slots, NEW str \in Strings, Intern(s, str) PROVE IInv'
<1>1. str \in Values /\ str \notin Threads \cup Tables \cup Closures \cup Upvals \cup Userdata
  BY Kinds, DisjointAssumption
<1>2. /\ heap' = heap \cup {str} /\ Put(s, str) /\ UNCHANGED <<cycle, running, tables, upvalues>>
      /\ UNCHANGED <<m.gray, m.grayagain, m.weak>>
  BY DEF Intern, IInv, TypeOK, Fields
<1>3. TypeOK'
  BY <1>1, Kinds DEF IInv, TypeOK, Intern, Put, cycle, tables, upvalues, Fields, Colors, White
<1>4. \A o \in Object : m'.color[o] = IF o = str /\ Dead(str) THEN "white" ELSE m.color[o]
  BY <1>1, Kinds DEF IInv, TypeOK, Intern, Fields
<1>5. Alive' = Alive \cup {str} /\ Open' = Open
  BY <1>1, <1>2, <1>4, Frame, Kinds DEF Alive, Dead, Open, upvalues, IInv, TypeOK
<1>6. ASSUME NEW x \in heap', NEW r, RefersTo(x, r)'
      PROVE  x # str /\ x \in heap /\ (RefersTo(x, r) \/ (r = str /\ x \in Threads \cup Open))
  BY <1>1, <1>2, <1>6 DEF RefersTo, Content, Put, IInv, TypeOK, upvalues, tables, Open
<1>7. Quiet
  BY <1>1, <1>2, <1>3, <1>4, <1>5, <1>6, Frame, Kinds
  DEF Quiet, Mutates, Put, tables, upvalues, cycle, IInv, HeapInv, Alive, Dead, RefersTo, TypeOK, Open
<1> QED BY <1>7, QuietStep

\* What FindUpval changes: the colour of one upvalue, or where a new one is.
LEMMA FoundUpval ==
  ASSUME IInv, NEW u \in Upvals, NEW v \in Slots, FindUpval(u, v)
  PROVE  /\ m' \in Fields /\ UNCHANGED <<m.gray, m.grayagain, m.weak>>
         /\ \A o \in Object : m'.color[o] = IF o = u /\ Dead(o) THEN "white" ELSE m.color[o]
         /\ where' \in [Upvals -> {Closed} \cup (Threads \X Slots)]
         /\ where'[u] = <<running, v>>
         /\ \A x \in Upvals : x # u => where'[x] = where[x]
         /\ u \in heap => u \in Open /\ where'[u] = where[u]
<1>1. u \in Object /\ running \in Threads
  BY Kinds DEF IInv, TypeOK
<1>2. CASE \E x \in Open : where[x] = <<running, v>>
  <2>1. /\ u \in Open /\ where[u] = <<running, v>> /\ where' = where
        /\ m' = [m EXCEPT !.color[u] = IF Dead(u) THEN "white" ELSE @]
    BY <1>2 DEF FindUpval
  <2>2. m' \in Fields /\ UNCHANGED <<m.gray, m.grayagain, m.weak>>
    BY <2>1 DEF IInv, TypeOK, Fields, Colors, White
  <2>3. \A o \in Object : m'.color[o] = IF o = u /\ Dead(o) THEN "white" ELSE m.color[o]
    BY <1>1, <2>1 DEF IInv, TypeOK, Fields
  <2> QED BY <2>1, <2>2, <2>3 DEF IInv, TypeOK
<1>3. CASE ~ \E x \in Open : where[x] = <<running, v>>
  <2>1. u \in Upvals \ heap /\ where' = [where EXCEPT ![u] = <<running, v>>] /\ m' = m
    BY <1>3 DEF FindUpval
  <2>2. m.color[u] = "white"
    BY <1>1, <2>1, Frame
  <2> QED BY <1>1, <2>1, <2>2 DEF IInv, TypeOK, Dead
<1> QED BY <1>2, <1>3

\* New closures over a variable, or over an upvalue of the running one.
LEMMA NewClosureStep ==
  ASSUME IInv, NEW s \in Slots, NEW f \in Closures, NEW v \in Slots, NEW u \in Upvals,
         NewClosure(s, f, v, u)
  PROVE  IInv'
<1>1. /\ f \notin heap /\ heap' = heap \cup {f, u} /\ upval' = [upval EXCEPT ![f] = u]
      /\ Put(s, f) /\ UNCHANGED <<cycle, running, tables, own>>
  BY DEF NewClosure
<1>2. /\ m' \in Fields /\ UNCHANGED <<m.gray, m.grayagain, m.weak>>
      /\ \A o \in Object : m'.color[o] = IF o = u /\ Dead(o) THEN "white" ELSE m.color[o]
      /\ where' \in [Upvals -> {Closed} \cup (Threads \X Slots)]
      /\ where'[u] = <<running, v>>
      /\ \A x \in Upvals : x # u => where'[x] = where[x]
      /\ u \in heap => u \in Open /\ where'[u] = where[u]
  BY FoundUpval DEF NewClosure
<1>3. f \in Values /\ f \notin Threads \cup Tables \cup Userdata \cup Upvals
  BY Kinds, DisjointAssumption
<1>4. TypeOK'
  BY <1>1, <1>2, <1>3, Kinds DEF IInv, TypeOK, Put, cycle, tables
<1>5. Alive' = Alive \cup {f, u}
  BY <1>1, <1>2, <1>3, Frame, Kinds DEF Alive, Dead, IInv, TypeOK
<1>6. Open' = Open \cup {u}
  <2>1. running \in Threads /\ <<running, v>> \in Threads \X Slots
    BY DEF IInv, TypeOK
  <2>2. where'[u] # Closed
    BY <1>2, <2>1, KindsAssumption
  <2> QED BY <1>1, <1>2, <1>3, <2>2 DEF Open
<1>7. ASSUME NEW x \in heap, x # u, NEW r, RefersTo(x, r)'
      PROVE  RefersTo(x, r) \/ (r = f /\ x \in Threads \cup Open)
  BY <1>1, <1>2, <1>7 DEF RefersTo, Content, Put, IInv, TypeOK, tables, Open
<1>8. ASSUME NEW r, RefersTo(u, r)' PROVE r \in Alive'
  <2>1. r = stack'[running][v] /\ r \in Object
    BY <1>1, <1>2, <1>8, KindsAssumption, DisjointAssumption DEF RefersTo, Content, IInv, TypeOK
  <2>2. r = f \/ r = stack[running][v]
    BY <1>1, <2>1 DEF Put, IInv, TypeOK
  <2>3. r = f \/ RefersTo(running, r)
    BY <2>1, <2>2 DEF RefersTo, IInv, TypeOK
  <2> QED BY <1>5, <2>3, Frame
<1>9. ASSUME NEW r, RefersTo(f, r)' PROVE r \in Alive'
  BY <1>1, <1>3, <1>5, <1>9, Frame DEF RefersTo, IInv, TypeOK
<1>10. Mutates
  <2>1. \A x \in Alive' : \A r : RefersTo(x, r)' => (x \in Alive /\ RefersTo(x, r)) \/ r \in Alive'
    BY <1>5, <1>7, <1>8, <1>9 DEF Alive
  <2>2. \A g \in Closures \cap heap' : upval'[g] \in Upvals
    BY <1>1, DisjointAssumption DEF IInv, HeapInv, TypeOK
  <2>3. \A x \in Open' : where'[x][1] \in heap
    BY <1>2, <1>6, Frame DEF IInv, HeapInv, Open, Alive
  <2>4. running' \in Alive' /\ running \in heap'
    BY <1>1, <1>5, Frame DEF Alive
  <2> QED BY <1>1, <1>2, <1>3, <1>4, <2>1, <2>2, <2>3, <2>4
          DEF Mutates, Put, tables, Dead, IInv, TypeOK
<1>11. Quiet
  <2>1. \A o \in heap \ (Threads \cup Open) : \A r : RefersTo(o, r)' => RefersTo(o, r)
    BY <1>2, <1>7
  <2> QED BY <1>1, <1>2, <1>10, <2>1 DEF Quiet
<1> QED BY <1>11, QuietStep

\* A closure that shares an upvalue of the running function refers to what that one does.
LEMMA InheritStep ==
  ASSUME IInv, NEW s \in Slots, NEW e \in Closures, NEW f \in Closures, Inherit(s, f, e)
  PROVE  IInv'
<1>1. /\ f \notin heap /\ e \in Held
      /\ heap' = heap \cup {f} /\ upval' = [upval EXCEPT ![f] = upval[e]]
      /\ Put(s, f) /\ UNCHANGED <<m, cycle, running, tables, where, own>>
  BY DEF Inherit
<1>2. f \in Values /\ f \notin Threads \cup Tables \cup Userdata \cup Upvals
  BY Kinds, DisjointAssumption
<1>3. e \in Alive /\ upval[e] \in Upvals /\ upval[e] \in Alive
  <2>1. e \in Alive /\ upval[e] \in Upvals
    BY <1>1, Frame, Kinds DEF Usable, IInv, HeapInv, Alive
  <2> QED BY <2>1, Frame, Kinds DEF RefersTo
<1>4. TypeOK'
  BY <1>1, <1>2, <1>3, Kinds DEF IInv, TypeOK, Put, cycle, tables
<1>5. Alive' = Alive \cup {f} /\ Open' = Open
  BY <1>1, <1>2, Frame, Kinds DEF Alive, Dead, Open
<1>6. ASSUME NEW x \in heap, NEW r, RefersTo(x, r)'
      PROVE  RefersTo(x, r) \/ (r = f /\ x \in Threads \cup Open)
  BY <1>1, <1>6 DEF RefersTo, Content, Put, IInv, TypeOK, tables, Open
<1>7. ASSUME NEW r, RefersTo(f, r)' PROVE r \in Alive'
  BY <1>1, <1>2, <1>3, <1>5, <1>7, Frame DEF RefersTo, IInv, TypeOK
<1>8. Mutates
  <2>1. \A x \in Alive' : \A r : RefersTo(x, r)' => (x \in Alive /\ RefersTo(x, r)) \/ r \in Alive'
    BY <1>5, <1>6, <1>7 DEF Alive
  <2>2. \A g \in Closures \cap heap' : upval'[g] \in Upvals
    BY <1>1, <1>3 DEF IInv, HeapInv, TypeOK
  <2>3. \A x \in Open' : where'[x][1] \in heap
    BY <1>1, <1>5 DEF IInv, HeapInv
  <2>4. running' \in Alive' /\ running \in heap'
    BY <1>1, <1>5, Frame DEF Alive
  <2> QED BY <1>1, <1>4, <2>1, <2>2, <2>3, <2>4 DEF Mutates, Put, tables, Dead, IInv, TypeOK
<1>9. Quiet
  BY <1>1, <1>6, <1>8 DEF Quiet
<1> QED BY <1>9, QuietStep

\* An entry that goes, and a table that becomes weak, need no barrier.
LEMMA EraseStep == ASSUME IInv, NEW t \in Tables, NEW e, Erase(t, e) PROVE IInv'
<1>1. /\ entries' = [entries EXCEPT ![t] = @ \ {e}] /\ t \in Held
      /\ UNCHANGED <<m, cycle, heap, stack, running, mode, metatable, upvalues>>
  BY DEF Erase
<1>2. TypeOK'
  BY <1>1 DEF IInv, TypeOK, cycle, upvalues
<1>3. Alive' = Alive /\ Open' = Open
  BY <1>1 DEF Alive, Dead, Open, upvalues
<1>4. \A x : \A r : RefersTo(x, r)' => RefersTo(x, r)
  BY <1>1 DEF RefersTo, Content, IInv, TypeOK, upvalues
<1>5. t \in heap
  BY <1>1, Frame, Kinds DEF Usable, Alive
<1>6. Quiet
  BY <1>1, <1>2, <1>3, <1>4, <1>5, Frame
  DEF Quiet, Mutates, Dead, IInv, TypeOK, HeapInv, upvalues, Open, Alive
<1> QED BY <1>6, QuietStep

\* Changing the mode of a weak table changes no reference.
LEMMA SetModeStep ==
  ASSUME IInv, NEW t \in OtherTables, NEW w \in SUBSET {"k", "v"}, SetMode(t, w) PROVE IInv'
<1>1. /\ mode' = [mode EXCEPT ![t] = w]
      /\ UNCHANGED <<m, cycle, heap, stack, running, entries, metatable, upvalues>>
  BY DEF SetMode
<1>2. TypeOK'
  BY <1>1 DEF IInv, TypeOK, cycle, upvalues, Tables
<1>3. Alive' = Alive /\ Open' = Open
  BY <1>1 DEF Alive, Dead, Open, upvalues
<1>4. \A x : \A r : RefersTo(x, r)' => RefersTo(x, r)
  BY <1>1 DEF RefersTo, Content, upvalues
<1>5. Quiet
  BY <1>1, <1>2, <1>3, <1>4, Frame
  DEF Quiet, Mutates, Dead, IInv, TypeOK, HeapInv, upvalues, Open, Alive
<1> QED BY <1>5, QuietStep

\* resume and yield change the running thread, whose stack no barrier watches.
LEMMA SwitchStep ==
  ASSUME IInv, NEW c \in Threads, NEW s \in Slots, Switch(c, s) PROVE IInv'
<1>1. /\ c \in Alive /\ running' = c
      /\ UNCHANGED <<m, cycle, heap, tables, upvalues>>
  BY Frame, Kinds DEF Switch, Usable
<1>2. PICK v \in Usable : stack' = [stack EXCEPT ![c] = [@ EXCEPT ![s] = v]]
  BY Frame DEF Switch, Usable
<1>3. TypeOK'
  BY <1>1, <1>2 DEF Usable, IInv, TypeOK, cycle, tables, upvalues
<1>4. Alive' = Alive /\ Open' = Open
  BY <1>1 DEF Alive, Dead, Open, upvalues
<1>5. ASSUME NEW x \in heap, NEW r, RefersTo(x, r)'
      PROVE  RefersTo(x, r) \/ (r = v /\ x \in Threads \cup Open)
  BY <1>1, <1>2, <1>5 DEF RefersTo, Content, IInv, TypeOK, tables, upvalues, Open
<1>6. Mutates
  <2>1. \A x \in Alive' : \A r : RefersTo(x, r)' => (x \in Alive /\ RefersTo(x, r)) \/ r \in Alive'
    BY <1>4, <1>5, Kinds DEF Alive, Usable, RefersTo
  <2> QED BY <1>1, <1>2, <1>3, <1>4, <2>1, Frame
          DEF Mutates, tables, upvalues, Dead, IInv, TypeOK, HeapInv, Alive
<1>7. Quiet
  BY <1>1, <1>5, <1>6 DEF Quiet, upvalues
<1> QED BY <1>7, QuietStep

-----------------------------------------------------------------------------
(* The barriers *)

\* Between two marks, what is not white is what the sweep has still to reach.
LEMMA SweepKept ==
  ASSUME IInv, Mutates, Open' \subseteq Open, heap' \subseteq heap,
         gcstate # "propagate" =>
           \A x \in heap' : m'.color[x] # "white" =>
             m.color[x] # "white" /\ (x \in Open => x \in Open' /\ where'[x] = where[x])
  PROVE  SweepInv'
  BY DEF IInv, SweepInv, Mutates, cycle

\* While marking, a store of v into o that the forward barrier watches.  The
\* fields h are the collector's, with o turned black if it was gray.
LEMMA BarrierMark ==
  ASSUME IInv, Mutates, gcstate = "propagate", heap' = heap,
         NEW o \in Object, NEW v \in Usable, NEW h \in Fields,
         h.gray = m.gray /\ h.grayagain = m.grayagain /\ h.weak = m.weak,
         m' = BarrierF(h, o, v),
         \A x \in Object : x # o => h.color[x] = m.color[x],
         \/ h.color[o] = m.color[o]
         \/ /\ m.color[o] = "gray" /\ h.color[o] = "black" /\ o \notin Threads \cup Open'
            /\ \A r : RefersTo(o, r)' => r = v,
         Open' \subseteq Open, Open \ {o} \subseteq Open',
         o \in Open \ Open' => h.color[o] # "gray",
         \A x \in heap \ (Threads \cup Open') : \A r :
           RefersTo(x, r)' => RefersTo(x, r) \/ (x = o /\ r = v)
  PROVE  MarkInv'
<1> DEFINE active == v # Scalar /\ h.color[o] = "black" /\ h.color[v] \in White
<1>1. /\ h.gray \subseteq m'.gray /\ m'.grayagain = h.grayagain /\ m'.weak = h.weak
      /\ Grows(h, m') /\ StaysIn(h, m')
      /\ \A x \in Object : h.color[x] \notin White => m'.color[x] = h.color[x]
  <2>1. CASE active
    <3>1. m' = Mark(h, {v}) /\ {v} \cap Object \subseteq Alive
      BY <2>1 DEF BarrierF, Usable
    <3>2. StaysIn(h, Mark(h, {v}))
      BY <3>1, MarkStays DEF IInv
    <3>3. Mark(h, {v}).grayagain = h.grayagain /\ Mark(h, {v}).weak = h.weak
      BY MarkFields DEF Marks
    <3> QED BY <3>1, <3>2, <3>3, MarkGrows
  <2>2. CASE ~ active
    <3>1. m' = h
      BY <2>2 DEF BarrierF
    <3> QED BY <3>1 DEF Grows, StaysIn
  <2> QED BY <2>1, <2>2
<1>2. active => m'.color[v] \notin White
  BY MarkGrows, Kinds DEF BarrierF, Usable
<1>3. ASSUME NEW x \in Object, h.color[x] \in White, m'.color[x] \notin White
      PROVE  /\ x # o
             /\ m'.color[x] = "black" => \A r \in AllRefs(x) : m'.color[r] \notin White
             /\ m'.color[x] = "gray" =>
                  x \in m'.gray \cup Strings \cup {u \in Upvals : where[u] # Closed}
  <2>1. active /\ m' = Mark(h, {v})
    BY <1>3 DEF BarrierF
  <2>2. x # o
    BY <1>3, <2>1 DEF White
  <2>3. TypeOK
    BY DEF IInv
  <2> HIDE DEF active
  <2>4. h \in Fields /\ Mark(h, {v}).color[x] \notin White
    BY <1>3, <2>1
  <2>5. /\ Mark(h, {v}).color[x] = "black" => \A r \in AllRefs(x) : Mark(h, {v}).color[r] \notin White
        /\ Mark(h, {v}).color[x] = "gray" =>
             x \in Mark(h, {v}).gray \cup Strings \cup {u \in Upvals : where[u] # Closed}
    BY <1>3, <2>3, <2>4, MarkTraces
  <2> QED BY <2>1, <2>2, <2>5
<1> HIDE DEF active
<1>4. \A x \in Threads \cup Open' : m'.color[x] # "black"
  BY <1>1, Kinds DEF Grows, IInv, MarkInv, Open
<1>5. \A x \in Object : m.color[x] \notin White => m'.color[x] \notin White
  BY <1>1 DEF White
<1>6. \A x \in heap' : ~ Dead(x)'
  BY <1>1 DEF IInv, TypeOK, MarkInv, Grows, Dead, White
<1>7. ASSUME NEW x \in heap \ tmudata, m'.color[x] = "black", NEW r \in AllRefs(x)'
      PROVE  m'.color[r] \notin White
  <2>1. x \in Object /\ r \in Object /\ RefersTo(x, r)' /\ x \notin Threads \cup Open'
    BY <1>4, <1>7, ReferencesNext DEF ReferencesAre, IInv, TypeOK, RefersTo
  <2>2. CASE h.color[x] \in White
    <3>1. x # o /\ \A y \in AllRefs(x) : m'.color[y] \notin White
      BY <1>3, <1>7, <2>1, <2>2 DEF White
    <3>2. RefersTo(x, r)
      BY <2>1, <3>1
    <3> QED BY <3>1, <3>2, References DEF ReferencesAre
  <2>3. CASE h.color[x] \notin White
    <3>1. h.color[x] = "black"
      BY <1>1, <1>7, <2>1, <2>3
    <3>2. CASE r = v /\ x = o
      <4>1. v # Scalar
        BY <2>1, <3>2, Kinds
      <4> QED BY <1>1, <1>2, <2>1, <3>1, <3>2, <4>1 DEF active
    <3>3. CASE RefersTo(x, r) /\ m.color[x] = "black"
      <4>1. m.color[r] \notin White
        BY <1>7, <3>3, References DEF ReferencesAre, IInv, MarkInv
      <4> QED BY <1>5, <2>1, <4>1
    <3> QED BY <2>1, <3>1, <3>2, <3>3
  <2> QED BY <2>2, <2>3
<1>8. ASSUME NEW x \in heap \ tmudata, m'.color[x] = "gray"
      PROVE  x \in m'.gray \cup m'.grayagain \cup m'.weak \cup Strings \cup Open'
  <2>1. x \in Object
    BY DEF IInv, TypeOK
  <2>2. CASE h.color[x] \in White
    BY <1>3, <1>8, <2>1, <2>2 DEF White, Open
  <2>3. CASE h.color[x] \notin White
    <3>1. h.color[x] = "gray" /\ m.color[x] = "gray"
      BY <1>1, <1>8, <2>1, <2>3
    <3> QED BY <1>1, <1>8, <3>1 DEF IInv, MarkInv
  <2> QED BY <2>2, <2>3
<1>9. m'.gray \cup m'.grayagain \cup m'.weak \subseteq heap
  BY <1>1 DEF StaysIn, IInv, MarkInv, Alive
<1>10. Main \in Object /\ Registry \in Object
  BY Kinds
<1> QED BY <1>4, <1>5, <1>6, <1>7, <1>8, <1>9, <1>10 DEF MarkInv, IInv, Mutates, cycle

\* A table that gets an entry is gray again if the entry is white.
LEMMA SetTableStep ==
  ASSUME IInv, NEW t \in Tables, NEW k, NEW v, SetTable(t, k, v) PROVE IInv'
<1> DEFINE new == {v} \cup (IF \E e \in entries[t] : e[1] = k THEN {} ELSE {k})
           active == m.color[t] = "black" /\ \E x \in new \ {Scalar} : m.color[x] \in White
<1>1. /\ t \in Held /\ {k, v} \subseteq Held \cup {Scalar}
      /\ entries' = [entries EXCEPT ![t] = {e \in @ : e[1] # k} \cup {<<k, v>>}]
      /\ m' = BarrierBack(m, t, new)
      /\ UNCHANGED <<cycle, heap, stack, running, mode, metatable, upvalues>>
  BY DEF SetTable
<1>2. t \in Alive /\ k \in Usable /\ v \in Usable
  BY <1>1, Frame, Kinds DEF Usable
<1>3. /\ m' \in Fields /\ m'.gray = m.gray /\ m'.weak = m.weak
      /\ m'.grayagain = m.grayagain \cup (IF active THEN {t} ELSE {})
      /\ \A x \in Object : m'.color[x] = IF x = t /\ active THEN "gray" ELSE m.color[x]
  <2>1. t \in Object
    BY Kinds
  <2>2. CASE active
    <3>1. m' = [m EXCEPT !.color[t] = "gray", !.grayagain = @ \cup {t}]
      BY <1>1, <2>2 DEF BarrierBack
    <3> QED BY <2>1, <2>2, <3>1 DEF IInv, TypeOK, Fields, Colors
  <2>3. CASE ~ active
    <3>1. m' = m
      BY <1>1, <2>3 DEF BarrierBack
    <3> QED BY <2>3, <3>1 DEF IInv, TypeOK
  <2> QED BY <2>2, <2>3
<1>4. TypeOK'
  BY <1>1, <1>2, <1>3 DEF Usable, IInv, TypeOK, cycle, upvalues
<1>5. Alive' = Alive /\ Open' = Open
  <2>1. heap \subseteq Object /\ heap' = heap /\ where' = where
    BY <1>1 DEF upvalues, IInv, TypeOK
  <2> QED BY <1>3, <2>1 DEF Alive, Dead, Open, White
<1>6. ASSUME NEW x, NEW r, RefersTo(x, r)'
      PROVE  RefersTo(x, r) \/ (x = t /\ r \in {k, v})
  BY <1>1, <1>6 DEF RefersTo, Content, IInv, TypeOK, upvalues
<1>7. Mutates
  <2>1. \A x \in Alive' : \A r : RefersTo(x, r)' => (x \in Alive /\ RefersTo(x, r)) \/ r \in Alive'
    <3>1. \A r : r \in {k, v} /\ r \in Object => r \in Alive
      BY <1>2, Kinds DEF Usable
    <3>2. \A x, r : RefersTo(x, r)' => r \in Object
      BY DEF RefersTo
    <3> QED BY <1>5, <1>6, <3>1, <3>2
  <2>2. UNCHANGED <<cycle, heap, stack, running, mode, metatable, upval, where, own>>
    BY <1>1 DEF upvalues
  <2>3. \A x \in Tables \ heap' : entries'[x] = entries[x]
    BY <1>1, <1>2 DEF Alive, IInv, TypeOK
  <2>4. \A x \in Object : m'.color[x] = "dead" => Dead(x)
    BY <1>3 DEF Dead
  <2>5. \A x \in Object \ heap : m'.color[x] = m.color[x]
    BY <1>2, <1>3 DEF Alive
  <2>6. running' \in Alive' /\ \A u \in Open' : where'[u][1] \in heap
    BY <1>5, <2>2, Frame DEF IInv, HeapInv
  <2>7. \A f \in Closures \cap heap' : upval'[f] \in Upvals
    BY <2>2 DEF IInv, HeapInv
  <2> QED BY <1>4, <2>1, <2>2, <2>3, <2>4, <2>5, <2>6, <2>7 DEF Mutates
<1>8. SweepInv'
  BY <1>1, <1>3, <1>5, <1>7, SweepKept DEF upvalues, IInv, TypeOK
<1>9. MarkInv'
  <2>1. \A x \in Threads \cup Open' : m'.color[x] # "black"
    BY <1>3, <1>5, Kinds DEF IInv, MarkInv, Open
  <2>2. CASE gcstate = "propagate"
    <3>1. \A x \in Object : m.color[x] \notin White => m'.color[x] \notin White
      BY <1>3 DEF White
    <3>2. \A x \in heap' : ~ Dead(x)'
      BY <1>1, <1>3, <2>2 DEF IInv, TypeOK, MarkInv, Dead
    <3>3. ASSUME NEW x \in heap \ tmudata, m'.color[x] = "black", NEW r \in AllRefs(x)'
          PROVE  m'.color[r] \notin White
      <4>1. x \in Object /\ r \in Object /\ RefersTo(x, r)' /\ m.color[x] = "black"
        BY <1>3, <3>3, ReferencesNext DEF ReferencesAre, IInv, TypeOK, RefersTo
      <4>2. \A y : RefersTo(x, y) => m.color[y] \notin White
        BY <2>2, <3>3, <4>1, References DEF ReferencesAre, IInv, MarkInv
      <4>3. CASE x = t /\ r \in new
        <5>1. ~ active /\ r # Scalar
          BY <1>3, <3>3, <4>1, <4>3, Kinds
        <5> QED BY <3>1, <4>1, <4>3, <5>1
      <4>4. CASE x = t /\ r = k /\ \E e \in entries[t] : e[1] = k
        <5>1. RefersTo(x, r)
          BY <4>1, <4>4 DEF RefersTo
        <5> QED BY <3>1, <4>1, <4>2, <5>1
      <4> QED BY <1>6, <3>1, <4>1, <4>2, <4>3, <4>4
    <3>4. ASSUME NEW x \in heap \ tmudata, m'.color[x] = "gray"
          PROVE  x \in m'.gray \cup m'.grayagain \cup m'.weak \cup Strings \cup Open'
      BY <1>3, <1>5, <2>2, <3>4 DEF IInv, TypeOK, MarkInv
    <3>5. m'.gray \cup m'.grayagain \cup m'.weak \subseteq heap
      BY <1>2, <1>3, <2>2 DEF IInv, MarkInv, Alive
    <3> QED BY <1>1, <2>1, <2>2, <3>1, <3>2, <3>3, <3>4, <3>5, Kinds DEF MarkInv, IInv, cycle
  <2> QED BY <1>1, <2>1, <2>2 DEF MarkInv, cycle
<1> QED BY <1>4, <1>7, <1>8, <1>9, MutatesHeap DEF IInv

\* What the forward barrier changes, field by field.
LEMMA BarrierFields ==
  ASSUME IInv, NEW o \in Object, NEW v \in Usable, NEW h \in Fields
  PROVE  /\ BarrierF(h, o, v) \in Fields
         /\ \A x \in Object : BarrierF(h, o, v).color[x] = "dead" => h.color[x] = "dead"
         /\ \A x \in Object \ (Alive \cup {o}) : BarrierF(h, o, v).color[x] = h.color[x]
         /\ gcstate # "propagate" =>
              \A x \in Object : \/ BarrierF(h, o, v).color[x] = h.color[x]
                                \/ x = o /\ BarrierF(h, o, v).color[x] = "white"
<1> DEFINE r == BarrierF(h, o, v)
           active == v # Scalar /\ h.color[o] = "black" /\ h.color[v] \in White
<1>1. CASE ~ active
  <2>1. r = h
    BY <1>1 DEF BarrierF
  <2> QED BY <2>1
<1>2. CASE active /\ gcstate = "propagate"
  <2>1. r = Mark(h, {v}) /\ {v} \cap Object \subseteq Alive
    BY <1>2 DEF BarrierF, Usable
  <2>2. StaysIn(h, Mark(h, {v}))
    BY <2>1, MarkStays DEF IInv
  <2>3. Grows(h, Mark(h, {v}))
    BY MarkGrows
  <2> HIDE DEF r
  <2>4. r \in Fields
    BY <2>1, <2>3 DEF Grows
  <2>5. \A x \in Object : r.color[x] = "dead" => h.color[x] = "dead"
    BY <2>1, <2>3 DEF Grows, White
  <2>6. \A x \in Object \ (Alive \cup {o}) : r.color[x] = h.color[x]
    BY <2>1, <2>2 DEF StaysIn
  <2> QED BY <1>2, <2>4, <2>5, <2>6 DEF r
<1>3. CASE active /\ gcstate # "propagate"
  <2>1. r = [h EXCEPT !.color[o] = "white"]
    BY <1>3 DEF BarrierF
  <2>2. r \in Fields /\ \A x \in Object : r.color[x] = IF x = o THEN "white" ELSE h.color[x]
    BY <2>1 DEF Fields, Colors, White
  <2> QED BY <1>3, <2>2
<1> QED BY <1>1, <1>2, <1>3

\* The stores that the forward barrier watches.
LEMMA SetMetatableStep ==
  ASSUME IInv, NEW d \in Userdata, NEW t \in Tables \cup {None}, SetMetatable(d, t) PROVE IInv'
<1>1. /\ d \in Held /\ t \in (Held \cap Tables) \cup {None}
      /\ metatable' = [metatable EXCEPT ![d] = t]
      /\ m' = IF t = None THEN m ELSE BarrierF(m, d, t)
      /\ UNCHANGED <<cycle, heap, stack, running, entries, mode, upvalues>>
  BY DEF SetMetatable
<1>2. d \in Alive /\ d \in Object /\ (t # None => t \in Usable)
  BY <1>1, Frame, Kinds DEF Usable
<1>3. m' \in Fields
  BY <1>1, <1>2, BarrierFields DEF IInv, TypeOK
<1>4. /\ \A x \in Object : m'.color[x] = "dead" => Dead(x)
      /\ \A x \in Object \ Alive : m'.color[x] = m.color[x]
      /\ gcstate # "propagate" =>
           \A x \in Object : m'.color[x] = m.color[x] \/ m'.color[x] = "white"
  <2>1. CASE t = None
    BY <1>1, <2>1 DEF Dead
  <2>2. CASE t # None
    BY <1>1, <1>2, <2>2, BarrierFields DEF Dead, IInv, TypeOK
  <2> QED BY <2>1, <2>2
<1>5. TypeOK'
  BY <1>1, <1>2, <1>3 DEF IInv, TypeOK, cycle, upvalues
<1>6. Open' = Open /\ Alive \subseteq Alive'
  BY <1>1, <1>4 DEF Alive, Dead, Open, upvalues, IInv, TypeOK
<1>7. ASSUME NEW x, NEW r, RefersTo(x, r)' PROVE RefersTo(x, r) \/ (x = d /\ r = t)
  BY <1>1, <1>7 DEF RefersTo, Content, IInv, TypeOK, upvalues
<1>8. Mutates
  <2>1. \A x \in Alive' : x \in Alive
    BY <1>1, <1>4 DEF Alive, Dead, IInv, TypeOK
  <2>2. \A x \in Alive' : \A r : RefersTo(x, r)' => (x \in Alive /\ RefersTo(x, r)) \/ r \in Alive'
    BY <1>2, <1>6, <1>7, <2>1, Kinds DEF Usable, RefersTo
  <2> QED BY <1>1, <1>2, <1>4, <1>5, <1>6, <2>2, Frame
          DEF Mutates, upvalues, Dead, IInv, TypeOK, HeapInv, Alive
<1>9. SweepInv'
  BY <1>1, <1>4, <1>6, <1>8, SweepKept DEF upvalues, IInv, TypeOK
<1>10. MarkInv'
  <2>1. CASE t = None
    <3>1. Quiet
      BY <1>1, <1>7, <1>8, <2>1, Kinds DEF Quiet, upvalues, RefersTo
    <3> QED BY <3>1, QuietStep DEF IInv
  <2>2. CASE t # None /\ gcstate = "propagate"
    <3>1. m' = BarrierF(m, d, t) /\ m \in Fields /\ heap' = heap
      BY <1>1, <2>2 DEF IInv, TypeOK
    <3> QED BY <1>2, <1>6, <1>7, <1>8, <2>2, <3>1, BarrierMark
  <2>3. CASE gcstate # "propagate"
    <3>1. \A x \in Threads \cup Open' : m'.color[x] # "black"
      BY <1>4, <1>6, <2>3, Kinds DEF IInv, MarkInv, Open
    <3> QED BY <1>1, <2>3, <3>1 DEF MarkInv, cycle
  <2> QED BY <2>1, <2>2, <2>3
<1> QED BY <1>5, <1>8, <1>9, <1>10, MutatesHeap DEF IInv

\* Assigning to an upvalue marks what is assigned when the upvalue is black.
LEMMA SetUpvalStep == ASSUME IInv, NEW f \in Closures, SetUpval(f) PROVE IInv'
<1> DEFINE u == upval[f]
<1>1. PICK v \in Usable :
        /\ IF where[u] = Closed
           THEN own' = [own EXCEPT ![u] = v] /\ UNCHANGED stack
           ELSE /\ stack' = [stack EXCEPT ![where[u][1]] = [@ EXCEPT ![where[u][2]] = v]]
                /\ UNCHANGED own
        /\ m' = BarrierF(m, u, v)
        /\ UNCHANGED <<cycle, heap, running, tables, upval, where>>
  BY Frame DEF SetUpval, Usable
<1>2. u \in Upvals /\ u \in Alive /\ u \in Object
  <2>1. f \in Alive
    BY Frame, Kinds DEF SetUpval, Usable
  <2>2. u \in Upvals
    BY <2>1 DEF IInv, HeapInv, Alive
  <2> QED BY <2>1, <2>2, Frame, Kinds DEF RefersTo
<1>3. where[u] # Closed => /\ u \in Open /\ where[u][1] \in Threads \cap heap /\ where[u][2] \in Slots
                           /\ where[u] = <<where[u][1], where[u][2]>>
  BY <1>2 DEF IInv, TypeOK, HeapInv, Open, Alive
<1>4. /\ m' \in Fields
      /\ \A x \in Object : m'.color[x] = "dead" => Dead(x)
      /\ \A x \in Object \ Alive : m'.color[x] = m.color[x]
      /\ gcstate # "propagate" =>
           \A x \in Object : m'.color[x] = m.color[x] \/ m'.color[x] = "white"
  BY <1>1, <1>2, BarrierFields DEF Dead, IInv, TypeOK
<1> HIDE DEF u
<1>5. v \in Values \cup {Scalar}
  BY DEF Usable
<1>6. TypeOK'
  <2>1. stack' \in [Threads -> [Slots -> Values \cup {Scalar}]] /\ own' \in [Upvals -> Values \cup {Scalar}]
    <3>1. CASE where[u] = Closed
      BY <1>1, <1>2, <1>5, <3>1 DEF IInv, TypeOK
    <3>2. CASE where[u] # Closed
      <4>1. /\ stack \in [Threads -> [Slots -> Values \cup {Scalar}]]
            /\ own \in [Upvals -> Values \cup {Scalar}]
        BY DEF IInv, TypeOK
      <4> QED BY <1>1, <1>3, <1>5, <3>2, <4>1
    <3> QED BY <3>1, <3>2
  <2> QED BY <1>1, <1>4, <2>1 DEF IInv, TypeOK, cycle, tables
<1>7. Open' = Open /\ Alive \subseteq Alive'
  BY <1>1, <1>4 DEF Alive, Dead, Open, IInv, TypeOK
<1>8. ASSUME NEW x \in heap, NEW r, RefersTo(x, r)'
      PROVE  RefersTo(x, r) \/ (r = v /\ (x = u \/ x \in Threads \cup Open))
  <2>1. CASE where[u] = Closed
    BY <1>1, <1>2, <1>8, <2>1 DEF RefersTo, Content, IInv, TypeOK, tables
  <2>2. CASE where[u] # Closed
    BY <1>1, <1>2, <1>3, <1>8, <2>2 DEF RefersTo, Content, IInv, TypeOK, tables, Open
  <2> QED BY <2>1, <2>2
<1>9. Mutates
  <2>1. \A x \in Alive' : x \in Alive
    BY <1>1, <1>4 DEF Alive, Dead, IInv, TypeOK
  <2>2. \A x \in Alive' : \A r : RefersTo(x, r)' => (x \in Alive /\ RefersTo(x, r)) \/ r \in Alive'
    BY <1>7, <1>8, <2>1, Kinds DEF Usable, RefersTo, Alive
  <2>3. \A x \in Threads \ heap' : stack'[x] = stack[x]
    BY <1>1, <1>3 DEF IInv, TypeOK
  <2>4. running' \in Alive'
    BY <1>1, <1>7, Frame
  <2>5. \A x \in Open' : where'[x][1] \in heap
    BY <1>1, <1>7 DEF IInv, HeapInv
  <2> QED BY <1>1, <1>4, <1>6, <2>2, <2>3, <2>4, <2>5
          DEF Mutates, tables, Dead, IInv, TypeOK, HeapInv, Alive
<1>10. SweepInv'
  BY <1>1, <1>4, <1>7, <1>9, SweepKept DEF IInv, TypeOK
<1>11. MarkInv'
  <2>1. CASE gcstate = "propagate"
    <3>1. m' = BarrierF(m, u, v) /\ m \in Fields /\ heap' = heap
      BY <1>1 DEF IInv, TypeOK
    <3>2. \A x \in heap \ (Threads \cup Open') : \A r :
            RefersTo(x, r)' => RefersTo(x, r) \/ (x = u /\ r = v)
      BY <1>7, <1>8
    <3> QED BY <1>2, <1>7, <1>9, <2>1, <3>1, <3>2, BarrierMark
  <2>2. CASE gcstate # "propagate"
    <3>1. \A x \in Threads \cup Open' : m'.color[x] # "black"
      BY <1>4, <1>7, <2>2, Kinds DEF IInv, MarkInv, Open
    <3> QED BY <1>1, <2>2, <3>1 DEF MarkInv, cycle
  <2> QED BY <2>1, <2>2
<1> QED BY <1>6, <1>9, <1>10, <1>11, MutatesHeap DEF IInv

\* Closing an upvalue: it stops being watched by the remark of the open ones.
LEMMA LeaveStep == ASSUME IInv, NEW s \in Slots, Leave(s) PROVE IInv'
<1>1. PICK u \in Open :
        /\ where[u] = <<running, s>> /\ where' = [where EXCEPT ![u] = Closed]
        /\ IF Dead(u)
           THEN /\ heap' = heap \ {u}
                /\ m' = [m EXCEPT !.color[u] = "white"]
                /\ UNCHANGED own
           ELSE /\ own' = [own EXCEPT ![u] = Content(u)]
                /\ m' = LinkUpval(m, u, Content(u))
                /\ UNCHANGED heap
        /\ Put(s, Scalar) /\ UNCHANGED <<cycle, running, tables, upval>>
  BY DEF Leave
<1> DEFINE v == stack[running][s]
<1>2. /\ u \in Upvals /\ u \in heap /\ u \in Object /\ running \in Threads
      /\ u \notin Threads \cup Tables \cup Closures \cup Userdata
      /\ Content(u) = v /\ v \in Usable /\ v \in Values \cup {Scalar}
  <2>1. u \in Upvals /\ u \in heap /\ u \in Object /\ running \in Threads /\ where[u] # Closed
    BY Kinds DEF Open, IInv, TypeOK
  <2>2. Content(u) = v
    BY <1>1, <2>1 DEF Content
  <2>3. v \in Held
    BY DEF Held, OnStack
  <2> QED BY <2>1, <2>2, <2>3, Frame, DisjointAssumption DEF Usable
<1>3. Open' = Open \ {u}
  BY <1>1, <1>2 DEF Open, IInv, TypeOK
<1>4. m.color[u] # "black" /\ (Dead(u) => gcstate # "propagate")
  BY <1>2 DEF IInv, MarkInv
<1> DEFINE h == [color |-> [m.color EXCEPT ![u] = IF @ = "gray" THEN "black" ELSE @], gray |-> m.gray,
                 grayagain |-> m.grayagain, weak |-> m.weak]
<1>5. /\ h \in Fields /\ h.gray = m.gray /\ h.grayagain = m.grayagain /\ h.weak = m.weak
      /\ \A x \in Object : h.color[x] = IF x = u /\ m.color[x] = "gray" THEN "black" ELSE m.color[x]
  BY DEF IInv, TypeOK, Fields, Colors
<1>6. gcstate = "propagate" => m' = BarrierF(h, u, v) /\ heap' = heap
  <2> SUFFICES ASSUME gcstate = "propagate" PROVE m' = BarrierF(h, u, v) /\ heap' = heap
    OBVIOUS
  <2>1. m' = LinkUpval(m, u, v) /\ heap' = heap
    BY <1>1, <1>2, <1>4
  <2>2. CASE m.color[u] = "gray"
    <3>1. h = [m EXCEPT !.color[u] = "black"]
      BY <1>2, <2>2 DEF IInv, TypeOK, Fields
    <3> QED BY <2>1, <2>2, <3>1 DEF LinkUpval
  <2>3. CASE m.color[u] # "gray"
    <3>1. h = m
      BY <1>2, <2>3 DEF IInv, TypeOK, Fields
    <3>2. BarrierF(m, u, v) = m
      BY <1>4 DEF BarrierF
    <3> QED BY <2>1, <2>3, <3>1, <3>2 DEF LinkUpval
  <2> QED BY <2>2, <2>3
<1> HIDE DEF h, v
<1>7. gcstate # "propagate" =>
        /\ m' \in Fields
        /\ \A x \in Object : m'.color[x] = IF x = u THEN "white" ELSE m.color[x]
  <2> SUFFICES ASSUME gcstate # "propagate"
               PROVE  m' \in Fields /\ \A x \in Object : m'.color[x] = IF x = u THEN "white" ELSE m.color[x]
    OBVIOUS
  <2>1. m' = [m EXCEPT !.color[u] = "white"] \/ (m' = m /\ m.color[u] = "white")
    BY <1>1, <1>2, <1>4 DEF LinkUpval, Dead, IInv, TypeOK, Fields, Colors, White
  <2>2. m \in Fields
    BY DEF IInv, TypeOK
  <2>3. CASE m' = [m EXCEPT !.color[u] = "white"]
    BY <1>2, <2>2, <2>3 DEF Fields, Colors, White
  <2>4. CASE m' = m /\ m.color[u] = "white"
    BY <2>2, <2>4
  <2> QED BY <2>1, <2>3, <2>4
<1>8. /\ m' \in Fields
      /\ \A x \in Object : m'.color[x] = "dead" => Dead(x)
      /\ \A x \in Object \ (Alive \cup {u}) : m'.color[x] = m.color[x]
  <2>1. CASE gcstate = "propagate"
    BY <1>2, <1>5, <1>6, <2>1, BarrierFields DEF Dead
  <2>2. CASE gcstate # "propagate"
    BY <1>2, <1>7, <2>2 DEF Dead
  <2> QED BY <2>1, <2>2
<1>9. heap' = heap \/ (heap' = heap \ {u} /\ Dead(u) /\ gcstate # "propagate")
  BY <1>1, <1>4
<1>10. TypeOK'
  <2>1. unswept \subseteq heap'
    BY <1>9 DEF IInv, TypeOK, SweepInv
  <2>2. stack' \in [Threads -> [Slots -> Values \cup {Scalar}]] /\ own' \in [Upvals -> Values \cup {Scalar}]
    BY <1>1, <1>2 DEF Put, IInv, TypeOK
  <2>3. where' \in [Upvals -> {Closed} \cup (Threads \X Slots)]
    BY <1>1 DEF IInv, TypeOK
  <2>4. heap' \subseteq Object
    BY <1>9 DEF IInv, TypeOK
  <2> QED BY <1>1, <1>8, <2>1, <2>2, <2>3, <2>4 DEF IInv, TypeOK, cycle, tables
<1>11. Alive \subseteq Alive'
  BY <1>8, <1>9 DEF Alive, Dead, IInv, TypeOK
<1>12. ASSUME NEW x \in heap', NEW r, RefersTo(x, r)'
       PROVE  RefersTo(x, r) /\ (x = u => r = v)
  <2>1. CASE x \in Upvals
    <3>1. x \notin Threads \cup Tables \cup Closures \cup Userdata
      BY <2>1, DisjointAssumption
    <3>2. r = Content(x)' /\ r # Scalar
      BY <1>12, <3>1, Kinds DEF RefersTo
    <3>3. CASE x = u
      <4>1. ~ Dead(u) /\ own' = [own EXCEPT ![u] = v] /\ where'[u] = Closed
        BY <1>1, <1>2, <3>3 DEF IInv, TypeOK
      <4> QED BY <1>2, <1>12, <3>2, <3>3, <4>1 DEF Content, RefersTo, IInv, TypeOK
    <3>4. CASE x # u
      <4>1. Content(x)' = Content(x) \/ Content(x)' = Scalar
        BY <1>1, <1>2, <2>1, <3>4 DEF Content, Put, IInv, TypeOK
      <4> QED BY <1>12, <2>1, <3>2, <3>4, <4>1 DEF RefersTo
    <3> QED BY <3>3, <3>4
  <2>2. CASE x \notin Upvals
    BY <1>1, <1>2, <1>12, <2>2, Kinds DEF RefersTo, Put, IInv, TypeOK, tables
  <2> QED BY <2>1, <2>2
<1>13. Mutates
  <2>1. \A x \in Alive' : x \in Alive
    <3> SUFFICES ASSUME NEW x \in Alive' PROVE x \in Alive
      OBVIOUS
    <3>1. x \in heap /\ x \in Object /\ m'.color[x] # "dead"
      BY <1>9 DEF Alive, Dead, IInv, TypeOK
    <3>2. CASE x # u
      BY <1>8, <3>1, <3>2 DEF Alive, Dead
    <3>3. CASE x = u
      BY <1>1, <3>1, <3>3 DEF Alive
    <3> QED BY <3>2, <3>3
  <2>2. \A x \in Alive' : \A r : RefersTo(x, r)' => (x \in Alive /\ RefersTo(x, r)) \/ r \in Alive'
    BY <1>12, <2>1 DEF Alive
  <2>3. running' \in Alive' /\ running \in heap'
    BY <1>1, <1>9, <1>11, <1>2, Frame DEF Alive
  <2>4. \A x \in Open' : where'[x][1] \in heap
    BY <1>1, <1>3 DEF IInv, HeapInv, TypeOK, Open
  <2>5. \A x \in heap \ heap' : x \in Upvals /\ Dead(x) /\ m'.color[x] = "white"
    BY <1>2, <1>7, <1>9
  <2>6. \A x \in Threads \ heap' : stack'[x] = stack[x]
    BY <1>1, <2>3 DEF Put, IInv, TypeOK
  <2>7. \A g \in Closures \cap heap' : upval'[g] \in Upvals
    BY <1>1, <1>9 DEF IInv, HeapInv
  <2> QED BY <1>1, <1>2, <1>8, <1>10, <2>2, <2>3, <2>4, <2>5, <2>6, <2>7 DEF Mutates, tables, Alive
<1>14. SweepInv'
  <2>1. gcstate # "propagate" =>
           \A x \in heap' : m'.color[x] # "white" =>
             m.color[x] # "white" /\ (x \in Open => x \in Open' /\ where'[x] = where[x])
    BY <1>1, <1>3, <1>7, <1>9 DEF IInv, TypeOK, Open
  <2> QED BY <1>3, <1>9, <1>13, <2>1, SweepKept
<1>15. MarkInv'
  <2>1. CASE gcstate = "propagate"
    <3>1. \A x \in heap \ (Threads \cup Open') : \A r :
            RefersTo(x, r)' => RefersTo(x, r) \/ (x = u /\ r = v)
      BY <1>6, <1>12, <2>1
    <3>2. \A r : RefersTo(u, r)' => r = v
      BY <1>2, <1>6, <1>12, <2>1
    <3> QED BY <1>2, <1>3, <1>5, <1>6, <1>13, <2>1, <3>1, <3>2, BarrierMark
  <2>2. CASE gcstate # "propagate"
    <3>1. \A x \in Threads \cup Open' : m'.color[x] # "black"
      BY <1>3, <1>7, <2>2, Kinds DEF IInv, MarkInv, Open
    <3> QED BY <1>1, <2>2, <3>1 DEF MarkInv, cycle
  <2> QED BY <2>1, <2>2
<1> QED BY <1>10, <1>13, <1>14, <1>15, MutatesHeap DEF IInv

\* All that the program does keeps the invariant.
LEMMA MutateStep == ASSUME IInv, Mutate PROVE IInv'
<1>1. CASE \E s \in Slots : Load(s) \/ Leave(s)
  BY <1>1, LoadStep, LeaveStep
<1>2. CASE \E s \in Slots, o \in Object : New(s, o)
  BY <1>2, NewStep
<1>3. CASE \E s \in Slots, str \in Strings : Intern(s, str)
  BY <1>3, InternStep
<1>4. CASE \E s, v \in Slots, f \in Closures, u \in Upvals : NewClosure(s, f, v, u)
  BY <1>4, NewClosureStep
<1>5. CASE \E s \in Slots, e, f \in Closures : Inherit(s, f, e)
  BY <1>5, InheritStep
<1>6. CASE \E t \in Tables : \E e \in Shapes[t] : SetTable(t, e[1], e[2]) \/ Erase(t, e)
  BY <1>6, SetTableStep, EraseStep
<1>7. CASE \E t \in OtherTables, w \in SUBSET {"k", "v"} : SetMode(t, w)
  BY <1>7, SetModeStep
<1>8. CASE \E d \in Userdata, t \in Tables \cup {None} : SetMetatable(d, t)
  BY <1>8, SetMetatableStep
<1>9. CASE \E f \in Closures : SetUpval(f)
  BY <1>9, SetUpvalStep
<1>10. CASE \E c \in Threads, s \in Slots : Switch(c, s)
  BY <1>10, SwitchStep
<1> QED BY <1>1, <1>2, <1>3, <1>4, <1>5, <1>6, <1>7, <1>8, <1>9, <1>10 DEF Mutate

-----------------------------------------------------------------------------
(* Freeing *)

\* What Free changes: only what is in S goes, with the dead upvalues of its threads, and
\* nothing that stays refers to more than before.
LEMMA Freed ==
  ASSUME TypeOK, HeapInv, NEW S \in SUBSET heap, \A o \in S : Dead(o), Free(S)
  PROVE  /\ heap' \subseteq heap /\ S \cap heap' = {} /\ running' = running
         /\ \A o \in heap \ heap' : Dead(o) /\ (o \in S \/ (o \in Open /\ where[o][1] \in S))
         /\ \A o \in heap' : \A r : RefersTo(o, r)' => RefersTo(o, r)
         /\ \A u \in Open' : u \in Open /\ where'[u] = where[u] /\ where[u][1] \in heap'
         /\ \A u \in Open \cap heap' : where[u][1] \notin S => u \in Open' /\ where'[u] = where[u]
         /\ \A f \in Closures \cap heap' : upval'[f] = upval[f]
         /\ \A t \in Threads : stack'[t] = IF t \in heap \ heap' THEN [s \in Slots |-> Scalar] ELSE stack[t]
         /\ \A t \in Tables : entries'[t] = IF t \in heap \ heap' THEN {} ELSE entries[t]
         /\ \A d \in Userdata : metatable'[d] = IF d \in heap \ heap' THEN None ELSE metatable[d]
         /\ \A d \in Userdata : calls'[d] = IF d \in heap \ heap' THEN 0 ELSE calls[d]
         /\ finalized' = finalized \ (heap \ heap')
         /\ stack' \in [Threads -> [Slots -> Values \cup {Scalar}]]
         /\ entries' \in [Tables -> SUBSET ((Values \cup {Scalar}) \X (Values \cup {Scalar}))]
         /\ mode' \in [Tables -> SUBSET {"k", "v"}]
         /\ metatable' \in [Userdata -> Tables \cup {None}]
         /\ upval' \in [Closures -> Upvals \cup {None}]
         /\ where' \in [Upvals -> {Closed} \cup (Threads \X Slots)]
         /\ own' \in [Upvals -> Values \cup {Scalar}]
         /\ calls' \in [Userdata -> Nat]
<1> DEFINE loose == UNION {OpenOf(t) : t \in S \cap Threads}
           gone  == S \cup {u \in loose : Dead(u)}
           Clear(f, empty) == [x \in DOMAIN f |-> IF x \in gone THEN empty ELSE f[x]]
<1>1. /\ heap'  = heap \ gone
      /\ own'   = [u \in Upvals |-> IF u \in loose \ gone THEN Content(u)
                                    ELSE IF u \in gone THEN Scalar ELSE own[u]]
      /\ where' = [u \in Upvals |-> IF u \in loose \cup gone THEN Closed ELSE where[u]]
      /\ stack' = Clear(stack, [s \in Slots |-> Scalar])
      /\ entries' = Clear(entries, {})
      /\ mode'  = Clear(mode, {})
      /\ metatable' = Clear(metatable, None)
      /\ upval' = Clear(upval, None)
      /\ calls' = Clear(calls, 0)
      /\ finalized' = finalized \ gone
      /\ running' = running
  BY DEF Free
<1>2. \A u : u \in loose <=> u \in Open /\ where[u][1] \in S \cap Threads
  BY DEF OpenOf
<1> HIDE DEF loose
<1>3. gone \subseteq heap /\ heap \ heap' = gone /\ loose \subseteq Upvals
  BY <1>1, <1>2 DEF Open
<1>4. \A o \in gone : Dead(o) /\ (o \in S \/ (o \in Open /\ where[o][1] \in S))
  BY <1>2
<1>5. \A t \in Threads : t \in gone <=> t \in S
  BY <1>3, DisjointAssumption
<1> HIDE DEF gone
<1>6. \A u \in Open : where[u][1] \in Threads /\ where[u][1] \in heap /\ u \in heap /\ u \in Upvals
                      /\ where[u] # Closed
  BY DEF Open, TypeOK, HeapInv
<1>7. \A u \in Open' : u \in Open /\ u \notin loose \cup gone /\ where'[u] = where[u]
  BY <1>1 DEF Open
<1>8. \A u \in Open' : where[u][1] \in heap'
  BY <1>1, <1>2, <1>5, <1>6, <1>7
<1>9. \A u \in Open \cap heap' : where[u][1] \notin S => u \in Open' /\ where'[u] = where[u]
  BY <1>1, <1>2, <1>6 DEF Open
<1>10. \A u \in Upvals : Content(u) \in Values \cup {Scalar}
  BY DEF Content, TypeOK
<1>11. /\ stack' \in [Threads -> [Slots -> Values \cup {Scalar}]]
       /\ \A t \in Threads : stack'[t] = IF t \in gone THEN [s \in Slots |-> Scalar] ELSE stack[t]
  BY <1>1 DEF TypeOK
<1>12. /\ entries' \in [Tables -> SUBSET ((Values \cup {Scalar}) \X (Values \cup {Scalar}))]
       /\ \A t \in Tables : entries'[t] = IF t \in gone THEN {} ELSE entries[t]
  BY <1>1 DEF TypeOK
<1>13. /\ mode' \in [Tables -> SUBSET {"k", "v"}]
       /\ metatable' \in [Userdata -> Tables \cup {None}]
       /\ \A d \in Userdata : metatable'[d] = IF d \in gone THEN None ELSE metatable[d]
  BY <1>1 DEF TypeOK
<1>14. /\ upval' \in [Closures -> Upvals \cup {None}]
       /\ \A f \in Closures : f \notin gone => upval'[f] = upval[f]
  BY <1>1 DEF TypeOK
<1>15. where' \in [Upvals -> {Closed} \cup (Threads \X Slots)]
  BY <1>1 DEF TypeOK
<1>16. own' \in [Upvals -> Values \cup {Scalar}]
  BY <1>1, <1>10, KindsAssumption DEF TypeOK
<1>17. /\ calls' \in [Userdata -> Nat]
       /\ \A d \in Userdata : calls'[d] = IF d \in gone THEN 0 ELSE calls[d]
  BY <1>1 DEF TypeOK
<1>18. ASSUME NEW u \in Upvals \cap heap' PROVE Content(u)' = Content(u)
  <2>1. u \notin gone
    BY <1>1
  <2>2. CASE u \in loose
    BY <1>1, <1>18, <2>1, <2>2 DEF Content
  <2>3. CASE u \notin loose /\ where[u] = Closed
    BY <1>1, <1>18, <2>1, <2>3 DEF Content
  <2>4. CASE u \notin loose /\ where[u] # Closed
    <3>1. u \in Open
      BY <1>1, <1>18, <2>4 DEF Open
    <3>2. where'[u] = where[u] /\ stack'[where[u][1]] = stack[where[u][1]]
      BY <1>1, <1>2, <1>5, <1>6, <1>11, <2>1, <2>4, <3>1
    <3> QED BY <2>4, <3>2 DEF Content
  <2> QED BY <2>2, <2>3, <2>4
<1>19. ASSUME NEW o \in heap', NEW r, RefersTo(o, r)' PROVE RefersTo(o, r)
  <2>1. o \notin gone
    BY <1>1
  <2>2. o \in Threads => stack'[o] = stack[o]
    BY <1>11, <2>1
  <2>3. o \in Tables => entries'[o] = entries[o]
    BY <1>12, <2>1
  <2>4. o \in Userdata => metatable'[o] = metatable[o]
    BY <1>13, <2>1
  <2>5. o \in Closures => upval'[o] = upval[o]
    BY <1>14, <2>1
  <2> QED BY <1>18, <1>19, <2>2, <2>3, <2>4, <2>5 DEF RefersTo
<1>20. /\ heap' \subseteq heap /\ S \cap heap' = {}
       /\ \A f \in Closures \cap heap' : f \notin gone
  BY <1>1 DEF gone
<1> QED BY <1>1, <1>3, <1>4, <1>7, <1>8, <1>9, <1>11, <1>12, <1>13, <1>14, <1>15, <1>16, <1>17,
           <1>19, <1>20

\* Freeing what is dead keeps the parts of the invariant that no colour is in.
LEMMA FreedHeap ==
  ASSUME IInv, NEW S \in SUBSET heap, \A o \in S : Dead(o), Free(S),
         Alive' = Alive, tmudata' = tmudata,
         \A o \in Object \ heap' : m'.color[o] = "white"
  PROVE  HeapInv' /\ FreshInv' /\ FinalInv'
<1> USE DEF IInv
<1>1. tmudata \subseteq heap' /\ Alive \subseteq heap'
  BY DEF Alive, HeapInv
<1>2. HeapInv'
  <2>1. (Roots \cup tmudata)' \subseteq Alive'
    BY Freed DEF HeapInv, Roots
  <2>2. ASSUME NEW o \in Alive', NEW r \in AllRefs(o)' PROVE r \in Alive'
    <3>1. RefersTo(o, r)' /\ o \in heap'
      BY <2>2, ReferencesNext DEF ReferencesAre, Alive
    <3>2. RefersTo(o, r)
      BY <3>1, Freed
    <3> QED BY <2>2, <3>2, Frame
  <2>3. \A f \in Closures \cap heap' : upval'[f] \in Upvals
    BY Freed DEF HeapInv
  <2>4. \A u \in Open' : where'[u][1] \in heap'
    BY Freed
  <2> QED BY <2>1, <2>2, <2>3, <2>4 DEF HeapInv
<1>3. FreshInv'
  <2> SUFFICES ASSUME NEW o \in Object \ heap' PROVE
        /\ o \in Threads => stack'[o] = [s \in Slots |-> Scalar]
        /\ o \in Tables => entries'[o] = {}
        /\ o \in Userdata => metatable'[o] = None
    BY DEF FreshInv
  <2>1. o \notin heap => /\ o \in Threads => stack[o] = [s \in Slots |-> Scalar]
                         /\ o \in Tables => entries[o] = {}
                         /\ o \in Userdata => metatable[o] = None
    BY DEF FreshInv
  <2> QED BY <2>1, Freed
<1>4. FinalInv'
  <2>1. \A d \in tmudata : d \in Userdata /\ d \notin heap \ heap'
    BY <1>1 DEF TypeOK
  <2>2. /\ \A d \in Userdata : calls'[d] = IF d \in heap \ heap' THEN 0 ELSE calls[d]
        /\ finalized' = finalized \ (heap \ heap')
    BY Freed
  <2> QED BY <2>1, <2>2 DEF FinalInv, TypeOK
<1> QED BY <1>2, <1>3, <1>4

-----------------------------------------------------------------------------
(* The steps of the collector *)

\* A step that leaves the heap alone leaves what refers to what alone.
LEMMA SameRefs ==
  ASSUME UNCHANGED <<stack, tables, upvalues>>
  PROVE  \A o : AllRefs(o)' = AllRefs(o)
  BY DEF AllRefs, Refs, AllSides, OnStack, Content, tables, upvalues

\* What markroot leaves: the two roots gray, and no lists but theirs.
LEMMA RootsMarked ==
  ASSUME NEW h \in Fields
  PROVE  /\ MarkRoot(h) \in Fields
         /\ \A o \in Object : MarkRoot(h).color[o] =
              IF o \in {Main, Registry} /\ h.color[o] \in White THEN "gray" ELSE h.color[o]
         /\ MarkRoot(h).gray = {o \in {Main, Registry} : h.color[o] \in White}
         /\ MarkRoot(h).grayagain = {} /\ MarkRoot(h).weak = {}
<1> DEFINE g == [h EXCEPT !.gray = {}, !.grayagain = {}, !.weak = {}]
           R == {Main, Registry}
<1>1. g \in Fields /\ g.color = h.color /\ g.gray = {} /\ g.grayagain = {} /\ g.weak = {}
  BY DEF Fields
<1>2. MarkRoot(h) = Mark(g, R)
  BY DEF MarkRoot
<1> HIDE DEF g
<1>3. AtOnce(g, R) = Whites(g, R)
  <2>1. {o \in Whites(g, R) : ~ OnList(o)} = {}
    BY Kinds DEF Whites, OnList
  <2>2. Leads(g, {}) = {}
    BY DEF Leads, Whites
  <2> QED BY <2>1, <2>2 DEF AtOnce
<1>4. R \cap Object = R /\ \A o \in R : OnList(o)
  BY Kinds DEF OnList
<1>5. Marks(g, R \cap Object, Mark(g, R))
  BY <1>1, MarkFields
<1> QED BY <1>1, <1>2, <1>3, <1>4, <1>5 DEF Marks, Whites

\* The steps of singlestep, one by one.
LEMMA StartStep == ASSUME IInv, Start PROVE IInv'
<1>1. /\ gcstate = "pause" /\ gcstate' = "propagate" /\ m' = MarkRoot(m)
      /\ UNCHANGED <<tmudata, unswept, finalized, calls, full, heap, stack, running,
                     tables, upvalues>>
  BY DEF Start
<1>2. \A o \in Object : m.color[o] = "white"
  BY <1>1, Frame DEF IInv, SweepInv, TypeOK
<1>3. /\ m' \in Fields
      /\ \A o \in Object : m'.color[o] = IF o \in {Main, Registry} THEN "gray" ELSE "white"
      /\ m'.gray = {Main, Registry} /\ m'.grayagain = {} /\ m'.weak = {}
  <2>1. m \in Fields
    BY DEF IInv, TypeOK
  <2>2. /\ MarkRoot(m) \in Fields
        /\ \A o \in Object : MarkRoot(m).color[o] =
             IF o \in {Main, Registry} /\ m.color[o] \in White THEN "gray" ELSE m.color[o]
        /\ MarkRoot(m).gray = {o \in {Main, Registry} : m.color[o] \in White}
        /\ MarkRoot(m).grayagain = {} /\ MarkRoot(m).weak = {}
    BY <2>1, RootsMarked
  <2> QED BY <1>1, <1>2, <2>2, Kinds DEF White
<1>4. TypeOK'
  BY <1>1, <1>3 DEF IInv, TypeOK, tables, upvalues
<1>5. Alive = heap /\ Alive' = heap /\ Open' = Open /\ Main \in heap /\ Registry \in heap
  BY <1>1, <1>2, <1>3, Frame DEF Alive, Dead, IInv, TypeOK, Open, upvalues
<1>6. HeapInv'
  <2>1. \A o : AllRefs(o)' = AllRefs(o)
    BY <1>1, SameRefs
  <2> QED BY <1>1, <1>5, <2>1 DEF IInv, HeapInv, Roots, tables, upvalues
<1>7. FreshInv'
  BY <1>1, <1>3, <1>5 DEF IInv, FreshInv, tables
<1>8. SweepInv'
  BY <1>1, <1>5 DEF IInv, SweepInv
<1>9. MarkInv'
  <2>1. \A o \in Object : m'.color[o] \notin {"dead", "black"}
    BY <1>3
  <2>2. \A o \in heap : o \in Object
    BY DEF IInv, TypeOK
  <2> QED BY <1>1, <1>3, <1>5, <2>1, <2>2, Kinds DEF MarkInv, Dead, White, Open
<1>10. FinalInv'
  BY <1>1 DEF IInv, FinalInv
<1> QED BY <1>4, <1>6, <1>7, <1>8, <1>9, <1>10 DEF IInv

\* Sweeping a part of the strings frees the dead ones only.
LEMMA SweepStringsStep == ASSUME IInv, NEW S \in SUBSET Strings, SweepStrings(S) PROVE IInv'
<1>1. /\ gcstate = "sweepstring" /\ S \subseteq unswept \cap Strings
      /\ m' = [m EXCEPT !.color = Whiten(@, S)]
      /\ heap' = heap \ {o \in S : Dead(o)} /\ unswept' = unswept \ S
      /\ gcstate' = IF unswept' \cap Strings = {} THEN "sweep" ELSE gcstate
      /\ UNCHANGED <<tmudata, finalized, calls, full, stack, running, tables, upvalues>>
  BY DEF SweepStrings
<1>2. m' \in Fields /\ \A o \in Object : m'.color[o] = IF o \in S THEN "white" ELSE m.color[o]
  <2>1. m \in Fields
    BY DEF IInv, TypeOK
  <2>2. m' = [m EXCEPT !.color = Whiten(m.color, S)]
    BY <1>1
  <2> QED BY <2>1, <2>2 DEF Whiten, Fields, Colors, White
<1>3. \A o \in S : o \in Object /\ o \notin Threads \cup Tables \cup Closures \cup Upvals \cup Userdata
  BY <1>1, Kinds, DisjointAssumption
<1>4. TypeOK'
  BY <1>1, <1>2 DEF IInv, TypeOK, tables, upvalues
<1>5. Alive' = Alive /\ Open' = Open
  BY <1>1, <1>2, <1>3 DEF Alive, Dead, IInv, TypeOK, Open, upvalues
<1>6. HeapInv'
  <2>1. \A o : AllRefs(o)' = AllRefs(o)
    BY <1>1, SameRefs
  <2>2. \A u \in Open : where[u][1] \in Threads
    BY DEF IInv, TypeOK, Open
  <2> QED BY <1>1, <1>3, <1>5, <2>1, <2>2 DEF IInv, HeapInv, Roots, tables, upvalues
<1>7. FreshInv'
  BY <1>1, <1>2, <1>3 DEF IInv, FreshInv, tables
<1>8. SweepInv'
  <2>1. \A u \in Open : where[u][1] \in Threads
    BY DEF IInv, TypeOK, Open
  <2>2. ASSUME NEW o \in heap', m'.color[o] # "white"
        PROVE  o \in unswept' \cup tmudata \/ (o \in Open /\ where[o][1] \in unswept')
    BY <1>1, <1>2, <1>3, <2>1, <2>2 DEF IInv, SweepInv, TypeOK
  <2> QED BY <1>1, <1>5, <2>2 DEF IInv, SweepInv, upvalues
<1>9. MarkInv'
  BY <1>1, <1>2, <1>5, Kinds DEF IInv, MarkInv, Open
<1>10. FinalInv'
  BY <1>1, <1>3 DEF IInv, FinalInv, TypeOK
<1> QED BY <1>4, <1>6, <1>7, <1>8, <1>9, <1>10 DEF IInv

\* A function that returns drops references only.
LEMMA ReturnStep == ASSUME IInv, Return PROVE IInv'
<1>1. /\ full' = "run"
      /\ UNCHANGED <<m, gcstate, tmudata, unswept, finalized, calls, heap, stack, running,
                     tables, upvalues>>
  BY DEF Return
<1>2. \A o : AllRefs(o)' = AllRefs(o)
  BY <1>1, SameRefs
<1>3. Alive' = Alive /\ Open' = Open /\ Roots' = Roots
  BY <1>1 DEF Alive, Dead, Open, Roots, upvalues
<1>4. TypeOK' /\ FinalInv' /\ FreshInv'
  BY <1>1 DEF IInv, TypeOK, FinalInv, FreshInv, tables, upvalues
<1>5. HeapInv'
  BY <1>1, <1>2, <1>3 DEF IInv, HeapInv, tables, upvalues
<1>6. SweepInv'
  BY <1>1, <1>3 DEF IInv, SweepInv, tables, upvalues
<1>7. MarkInv'
  BY <1>1, <1>2, <1>3 DEF IInv, MarkInv, Dead
<1> QED BY <1>4, <1>5, <1>6, <1>7 DEF IInv

\* The end of a cycle leaves every object white of the current shade.
LEMMA EndCycleStep == ASSUME IInv, EndCycle PROVE IInv'
<1>1. /\ gcstate = "finalize" /\ tmudata = {}
      /\ gcstate' = "pause" /\ full' = "no"
      /\ UNCHANGED <<m, tmudata, unswept, finalized, calls, heap, stack, running,
                     tables, upvalues>>
  BY DEF EndCycle
<1>2. \A o : AllRefs(o)' = AllRefs(o)
  BY <1>1, SameRefs
<1>3. Alive' = Alive /\ Open' = Open /\ Roots' = Roots
  BY <1>1 DEF Alive, Dead, Open, Roots, upvalues
<1>4. TypeOK' /\ FinalInv' /\ FreshInv'
  BY <1>1 DEF IInv, TypeOK, FinalInv, FreshInv, tables, upvalues
<1>5. HeapInv'
  BY <1>1, <1>2, <1>3 DEF IInv, HeapInv, tables, upvalues
<1>6. SweepInv'
  BY <1>1, <1>3 DEF IInv, SweepInv, tables, upvalues
<1>7. MarkInv'
  BY <1>1, <1>3 DEF IInv, MarkInv
<1> QED BY <1>4, <1>5, <1>6, <1>7 DEF IInv

\* A finalizer is called with an object that is kept for it.
LEMMA FinalizeStep == ASSUME IInv, NEW d \in Userdata, Finalize(d) PROVE IInv'
<1>1. /\ gcstate = "finalize" /\ gcstate' = "finalize" /\ d \in tmudata /\ tmudata' = tmudata \ {d}
      /\ m' = [m EXCEPT !.color[d] = "white"]
      /\ UNCHANGED <<unswept, finalized, heap, running, tables, upvalues>>
  BY DEF Finalize
<1>2. /\ calls' = calls \/ calls' = [calls EXCEPT ![d] = @ + 1]
      /\ full' \in {"handler", full}
      /\ stack' = stack \/ \E s \in Slots : stack' = [stack EXCEPT ![running][s] = d]
  BY DEF Finalize, Put
<1>3. m' \in Fields /\ \A o \in Object : m'.color[o] = IF o = d THEN "white" ELSE m.color[o]
  <2>1. m \in Fields
    BY DEF IInv, TypeOK
  <2> QED BY <1>1, <2>1 DEF Fields, Colors, White
<1>4. d \in Values /\ d \in Alive
  BY <1>1, Kinds DEF IInv, HeapInv
<1>5. TypeOK'
  <2>1. calls' \in [Userdata -> Nat]
    BY <1>2 DEF IInv, TypeOK
  <2>2. stack' \in [Threads -> [Slots -> Values \cup {Scalar}]]
    <3>1. stack \in [Threads -> [Slots -> Values \cup {Scalar}]] /\ running \in Threads
      BY DEF IInv, TypeOK
    <3>2. CASE stack' # stack
      BY <1>2, <1>4, <3>1, <3>2
    <3> QED BY <3>1, <3>2
  <2> QED BY <1>1, <1>2, <1>3, <2>1, <2>2 DEF IInv, TypeOK, tables, upvalues
<1>6. Alive' = Alive /\ Open' = Open
  BY <1>1, <1>3, <1>4 DEF Alive, Dead, IInv, TypeOK, Open, upvalues
<1>7. ASSUME NEW o \in heap, NEW r, RefersTo(o, r)' PROVE RefersTo(o, r) \/ r = d
  BY <1>1, <1>2, <1>7 DEF RefersTo, Content, IInv, TypeOK, upvalues, tables
<1>8. HeapInv'
  <2>1. (Roots \cup tmudata)' \subseteq Alive'
    BY <1>1, <1>6 DEF IInv, HeapInv, Roots
  <2>2. \A o \in Alive' : AllRefs(o)' \subseteq Alive'
    BY <1>4, <1>6, <1>7, Frame, ReferencesNext DEF ReferencesAre, Alive
  <2> QED BY <1>1, <1>6, <2>1, <2>2 DEF IInv, HeapInv, upvalues
<1>9. FreshInv'
  <2>1. ASSUME NEW o \in Threads \ heap PROVE stack'[o] = stack[o]
    BY <1>2, <2>1, Frame DEF Alive, IInv, TypeOK
  <2>2. \A o \in Object \ heap : o # d
    BY <1>4 DEF Alive
  <2> QED BY <1>1, <1>3, <2>1, <2>2, Kinds DEF IInv, FreshInv, tables
<1>10. SweepInv'
  BY <1>1, <1>3, <1>6 DEF IInv, SweepInv, TypeOK, upvalues
<1>11. MarkInv'
  BY <1>1, <1>3, <1>6, Kinds DEF IInv, MarkInv, Open
<1>12. FinalInv'
  BY <1>1, <1>2 DEF IInv, FinalInv, TypeOK
<1> QED BY <1>5, <1>8, <1>9, <1>10, <1>11, <1>12 DEF IInv

\* The sweep whitens what is alive and frees what is dead, with its open upvalues.
LEMMA SweepStep == ASSUME IInv, NEW o \in Object, Sweep(o) PROVE IInv'
<1> DEFINE swept == {o} \cup (IF o \in Threads THEN OpenOf(o) ELSE {})
           S     == {x \in swept : Dead(x)}
<1>1. /\ gcstate = "sweep" /\ o \in unswept /\ Free(S)
      /\ unswept' = unswept \ {o} /\ gcstate' = IF unswept' = {} THEN "finalize" ELSE gcstate
      /\ UNCHANGED <<tmudata, full>>
  BY DEF Sweep
<1>2. m' \in Fields /\ \A x \in Object : m'.color[x] = IF x \in swept THEN "white" ELSE m.color[x]
  <2>1. m \in Fields
    BY DEF IInv, TypeOK
  <2>2. m' = [m EXCEPT !.color = Whiten(m.color, swept)]
    BY DEF Sweep
  <2> HIDE DEF swept
  <2> QED BY <2>1, <2>2 DEF Whiten, Fields, Colors, White
<1>3. /\ o \in heap /\ o \notin Open /\ swept \subseteq heap
      /\ \A x \in swept \ {o} : x \in Open
      /\ \A x \in Open : where[x][1] = o => x \in swept
  BY <1>1 DEF IInv, TypeOK, SweepInv, OpenOf, Open
<1> HIDE DEF swept
<1>4. S \subseteq swept /\ S \in SUBSET heap /\ \A x \in S : Dead(x)
  BY <1>3
<1>5. \A x \in swept : Dead(x) => x \in S
  OBVIOUS
<1> HIDE DEF S
<1>6. \A x \in Open : x \in Upvals /\ where[x][1] \in Threads
  BY DEF Open, IInv, TypeOK
<1>7. \A x \in Open : where[x][1] \in S => where[x][1] = o
  BY <1>3, <1>4, <1>6, DisjointAssumption
<1>8. /\ heap' \subseteq heap /\ S \cap heap' = {} /\ running' = running
      /\ \A x \in heap \ heap' : Dead(x) /\ x \in swept
      /\ finalized' = finalized \ (heap \ heap')
      /\ \A u \in Open' : u \in Open /\ where'[u] = where[u] /\ where[u][1] \in heap'
      /\ \A u \in Open \cap heap' : where[u][1] \notin S => u \in Open' /\ where'[u] = where[u]
  <2>1. TypeOK /\ HeapInv
    BY DEF IInv
  <2> QED BY <1>1, <1>3, <1>4, <1>7, <2>1, Freed
<1>9. unswept' \subseteq heap'
  BY <1>1, <1>3, <1>8 DEF IInv, TypeOK, SweepInv
<1>10. \A x \in Object \ heap' : m'.color[x] = "white"
  BY <1>2, <1>8, Frame
<1>11. Alive' = Alive
  <2>1. heap \subseteq Object
    BY DEF IInv, TypeOK
  <2> QED BY <1>2, <1>5, <1>8, <2>1 DEF Alive, Dead
<1>12. TypeOK'
  <2>1. TypeOK /\ HeapInv
    BY DEF IInv
  <2>2. /\ stack' \in [Threads -> [Slots -> Values \cup {Scalar}]]
        /\ entries' \in [Tables -> SUBSET ((Values \cup {Scalar}) \X (Values \cup {Scalar}))]
        /\ mode' \in [Tables -> SUBSET {"k", "v"}]
        /\ metatable' \in [Userdata -> Tables \cup {None}]
        /\ upval' \in [Closures -> Upvals \cup {None}]
        /\ where' \in [Upvals -> {Closed} \cup (Threads \X Slots)]
        /\ own' \in [Upvals -> Values \cup {Scalar}]
        /\ calls' \in [Userdata -> Nat]
    BY <1>1, <1>4, <2>1, Freed
  <2> QED BY <1>1, <1>2, <1>8, <1>9, <2>1, <2>2 DEF TypeOK
<1>13. HeapInv' /\ FreshInv' /\ FinalInv'
  BY <1>1, <1>4, <1>10, <1>11, FreedHeap
<1>14. SweepInv'
  <2>1. ASSUME NEW x \in heap', m'.color[x] # "white"
        PROVE  x \in unswept' \cup tmudata' \/ (x \in Open' /\ where'[x][1] \in unswept')
    <3>1. x \in heap /\ x \notin swept /\ x # o /\ m.color[x] # "white"
      BY <1>2, <1>3, <1>8, <2>1 DEF IInv, TypeOK, swept
    <3>2. x \in unswept \cup tmudata \/ (x \in Open /\ where[x][1] \in unswept)
      BY <1>1, <3>1 DEF IInv, SweepInv
    <3>3. CASE x \in Open /\ where[x][1] \in unswept
      BY <1>1, <1>3, <1>7, <1>8, <2>1, <3>1, <3>3
    <3> QED BY <1>1, <3>1, <3>2, <3>3
  <2>2. unswept' \cap Open' = {}
    BY <1>1, <1>8 DEF IInv, SweepInv
  <2> QED BY <1>1, <2>1, <2>2 DEF SweepInv
<1>15. MarkInv'
  BY <1>1, <1>2, <1>6, <1>8, Kinds DEF IInv, MarkInv
<1> QED BY <1>12, <1>13, <1>14, <1>15 DEF IInv

\* luaC_fullgc frees what is condemned and condemns nothing.
LEMMA FullGCStep == ASSUME IInv, FullGC PROVE IInv'
<1> DEFINE S == {x \in heap \ tmudata : Dead(x)}
           g == [m EXCEPT !.color = Whiten(m.color, Object \ tmudata)]
<1>1. /\ Free(S) /\ m' = MarkRoot(g)
      /\ unswept' = {} /\ gcstate' = "propagate" /\ full' = "run" /\ UNCHANGED tmudata
  BY DEF FullGC
<1>2. g \in Fields /\ \A x \in Object : g.color[x] = IF x \in tmudata THEN m.color[x] ELSE "white"
  <2>1. m \in Fields
    BY DEF IInv, TypeOK
  <2> QED BY <2>1 DEF Whiten, Fields, Colors, White
<1> HIDE DEF g
<1>3. Main \notin tmudata /\ Registry \notin tmudata
  BY Kinds, DisjointAssumption DEF IInv, TypeOK
<1>4. /\ m' \in Fields
      /\ \A x \in Object : m'.color[x] = IF x \in {Main, Registry} THEN "gray"
                                         ELSE IF x \in tmudata THEN m.color[x] ELSE "white"
      /\ m'.gray = {Main, Registry} /\ m'.grayagain = {} /\ m'.weak = {}
  <2>1. /\ MarkRoot(g) \in Fields
        /\ \A x \in Object : MarkRoot(g).color[x] =
             IF x \in {Main, Registry} /\ g.color[x] \in White THEN "gray" ELSE g.color[x]
        /\ MarkRoot(g).gray = {x \in {Main, Registry} : g.color[x] \in White}
        /\ MarkRoot(g).grayagain = {} /\ MarkRoot(g).weak = {}
    BY <1>2, RootsMarked
  <2>2. g.color[Main] = "white" /\ g.color[Registry] = "white"
    BY <1>2, <1>3, Kinds
  <2> QED BY <1>1, <1>2, <2>1, <2>2, Kinds DEF White
<1>5. S \in SUBSET heap /\ \A x \in S : Dead(x)
  OBVIOUS
<1>6. tmudata \subseteq Alive /\ \A x \in heap : Dead(x) => x \in S
  BY DEF IInv, HeapInv, Alive
<1> HIDE DEF S
<1>7. /\ heap' \subseteq heap /\ S \cap heap' = {} /\ running' = running
      /\ \A x \in heap \ heap' : Dead(x)
      /\ finalized' = finalized \ (heap \ heap')
      /\ \A u \in Open' : u \in Open
  <2>1. TypeOK /\ HeapInv
    BY DEF IInv
  <2> QED BY <1>1, <1>5, <2>1, Freed
<1>8. heap' = Alive
  BY <1>6, <1>7 DEF Alive
<1>9. \A x \in Object \ heap' : m'.color[x] = "white"
  BY <1>4, <1>6, <1>8, Frame
<1>10. \A x \in heap' : m'.color[x] # "dead"
  BY <1>4, <1>8 DEF Alive, Dead, IInv, TypeOK
<1>11. Alive' = Alive
  BY <1>8, <1>10 DEF Alive, Dead
<1>12. TypeOK'
  <2>1. TypeOK /\ HeapInv
    BY DEF IInv
  <2>2. /\ stack' \in [Threads -> [Slots -> Values \cup {Scalar}]]
        /\ entries' \in [Tables -> SUBSET ((Values \cup {Scalar}) \X (Values \cup {Scalar}))]
        /\ mode' \in [Tables -> SUBSET {"k", "v"}]
        /\ metatable' \in [Userdata -> Tables \cup {None}]
        /\ upval' \in [Closures -> Upvals \cup {None}]
        /\ where' \in [Upvals -> {Closed} \cup (Threads \X Slots)]
        /\ own' \in [Upvals -> Values \cup {Scalar}]
        /\ calls' \in [Userdata -> Nat]
    BY <1>1, <1>5, <2>1, Freed
  <2> QED BY <1>1, <1>4, <1>7, <2>1, <2>2 DEF TypeOK
<1>13. HeapInv' /\ FreshInv' /\ FinalInv'
  BY <1>1, <1>5, <1>9, <1>11, FreedHeap
<1>14. SweepInv'
  BY <1>1 DEF SweepInv
<1>15. MarkInv'
  <2>1. \A x \in Threads \cup Open' : x \in Object /\ x \notin tmudata
    BY <1>7, Kinds, DisjointAssumption DEF Open, IInv, TypeOK
  <2>2. \A x \in heap' : x \in Object
    BY <1>12 DEF TypeOK
  <2> QED BY <1>1, <1>4, <1>8, <1>10, <2>1, <2>2, Frame, Kinds DEF MarkInv, Dead, White
<1> QED BY <1>12, <1>13, <1>14, <1>15 DEF IInv

\* One gray object: what it refers to is marked before it is black.
LEMMA PropagateStep == ASSUME IInv, NEW o \in Object, Propagate(o) PROVE IInv'
<1> DEFINE h == [m EXCEPT !.gray = @ \ {o},
                          !.color[o] = IF StaysGray(o) THEN @ ELSE "black",
                          !.grayagain = IF o \in Threads THEN @ \cup {o} ELSE @,
                          !.weak = IF WeakTable(o) THEN @ \cup {o} ELSE @]
<1>1. /\ gcstate = "propagate" /\ o \in m.gray /\ m' = Mark(h, StrongRefs(o))
      /\ UNCHANGED <<cycle, heap, stack, running, tables, upvalues>>
  BY DEF Propagate, Propagate1
<1>2. o \in Threads \cup Tables \cup Closures /\ OnList(o) /\ o \in heap /\ o \in Alive
  BY <1>1 DEF IInv, TypeOK, Fields, MarkInv, Alive, OnList
<1>3. /\ h \in Fields
      /\ \A x \in Object : h.color[x] = IF x = o /\ ~ StaysGray(o) THEN "black" ELSE m.color[x]
      /\ h.gray = m.gray \ {o}
      /\ h.grayagain = IF o \in Threads THEN m.grayagain \cup {o} ELSE m.grayagain
      /\ h.weak = IF WeakTable(o) THEN m.weak \cup {o} ELSE m.weak
  <2>1. m \in Fields
    BY DEF IInv, TypeOK
  <2> DEFINE c == [m.color EXCEPT ![o] = IF StaysGray(o) THEN @ ELSE "black"]
             a == IF o \in Threads THEN m.grayagain \cup {o} ELSE m.grayagain
             w == IF WeakTable(o) THEN m.weak \cup {o} ELSE m.weak
  <2>3. c \in [Object -> Colors] /\ a \in SUBSET (Threads \cup Tables) /\ w \in SUBSET Tables
    BY <2>1 DEF Fields, Colors, WeakTable
  <2>4. \A x \in Object : c[x] = IF x = o /\ ~ StaysGray(o) THEN "black" ELSE m.color[x]
    BY <2>1 DEF Fields
  <2>5. h = [m EXCEPT !.gray = m.gray \ {o}, !.color = c, !.grayagain = a, !.weak = w]
    OBVIOUS
  <2> HIDE DEF h, c, a, w
  <2>6. h \in Fields /\ h.color = c /\ h.gray = m.gray \ {o} /\ h.grayagain = a /\ h.weak = w
    BY <2>1, <2>3, <2>5 DEF Fields
  <2> QED BY <2>4, <2>6 DEF a, w
<1> HIDE DEF h
<1>4. Alive = heap /\ StrongRefs(o) \subseteq Alive
  BY <1>1, <1>2, StrongRefsAre DEF IInv, HeapInv, MarkInv, Alive
<1>5. /\ Grows(h, m') /\ StaysIn(h, m') /\ h.gray \subseteq m'.gray
      /\ \A x \in Object : h.color[x] \notin White => m'.color[x] = h.color[x]
      /\ \A x \in StrongRefs(o) : m'.color[x] \notin White
  <2>1. StrongRefs(o) \subseteq Object
    BY StrongRefsAre
  <2>2. HeapInv
    BY DEF IInv
  <2> QED BY <1>1, <1>3, <1>4, <2>1, <2>2, MarkGrows, MarkStays
<1>6. \A x \in Object : m.color[x] \notin White => m'.color[x] \notin White
  BY <1>3, <1>5 DEF White
<1>7. /\ m' \in Fields
      /\ \A x \in Object : m'.color[x] = "dead" => m.color[x] = "dead"
      /\ \A x \in Object \ heap : m'.color[x] = m.color[x]
      /\ m'.gray \cup m'.grayagain \cup m'.weak \subseteq heap
  BY <1>1, <1>2, <1>3, <1>4, <1>5 DEF Grows, StaysIn, White, IInv, MarkInv
<1>8. TypeOK' /\ FinalInv'
  BY <1>1, <1>7 DEF IInv, TypeOK, FinalInv, cycle, tables, upvalues
<1>9. Open' = Open /\ \A x : AllRefs(x)' = AllRefs(x)
  BY <1>1, SameRefs DEF Open, upvalues
<1>10. Alive' = heap
  BY <1>1, <1>4, <1>7 DEF Alive, Dead, IInv, TypeOK
<1>11. HeapInv'
  BY <1>1, <1>4, <1>9, <1>10 DEF IInv, HeapInv, Roots, cycle, upvalues
<1>12. FreshInv'
  BY <1>1, <1>7 DEF IInv, FreshInv, tables
<1>13. SweepInv'
  BY <1>1, <1>9 DEF IInv, SweepInv, cycle
<1>14. ASSUME NEW x \in Threads \cup Open PROVE m'.color[x] # "black"
  <2>1. StaysGray(x) /\ x \in Object
    BY Kinds DEF StaysGray, Open
  <2> QED BY <1>3, <1>5, <1>14, <2>1 DEF Grows, IInv, MarkInv
<1>15. ASSUME NEW x \in heap \ tmudata, m'.color[x] = "black", NEW y \in AllRefs(x)
       PROVE  m'.color[y] \notin White
  <2>1. x \in Object /\ y \in Object
    BY StrongRefsAre DEF IInv, TypeOK
  <2>2. CASE m.color[x] = "black"
    BY <1>1, <1>6, <1>15, <2>1, <2>2 DEF IInv, MarkInv
  <2>3. CASE x = o /\ ~ StaysGray(o)
    <3>1. AllRefs(o) = StrongRefs(o)
      BY <2>3, StrongRefsAre DEF StaysGray, IInv
    <3> QED BY <1>5, <1>15, <2>3, <3>1
  <2>4. CASE h.color[x] \in White
    <3>1. TypeOK /\ m'.color[x] \notin White
      BY <1>15 DEF IInv, White
    <3> QED BY <1>1, <1>3, <1>15, <2>1, <2>4, <3>1, MarkTraces
  <2> QED BY <1>3, <1>5, <1>15, <2>1, <2>2, <2>3, <2>4
<1>16. ASSUME NEW x \in heap \ tmudata, m'.color[x] = "gray"
       PROVE  x \in m'.gray \cup m'.grayagain \cup m'.weak \cup Strings \cup Open
  <2>1. x \in Object
    BY DEF IInv, TypeOK
  <2>2. CASE h.color[x] \in White
    <3>1. TypeOK /\ m'.color[x] \notin White
      BY <1>16 DEF IInv, White
    <3> QED BY <1>1, <1>3, <1>16, <2>1, <2>2, <3>1, MarkTraces DEF Open
  <2>3. CASE h.color[x] \notin White
    <3>1. h.color[x] = "gray" /\ m.color[x] = "gray" /\ (x = o => StaysGray(o))
      BY <1>3, <1>5, <1>16, <2>1, <2>3
    <3>2. x \in m.gray \cup m.grayagain \cup m.weak \cup Strings \cup Open
      BY <1>1, <1>16, <3>1 DEF IInv, MarkInv
    <3>3. x = o => x \in h.grayagain \cup h.weak
      BY <1>2, <1>3, <3>1, DisjointAssumption DEF StaysGray
    <3>4. x # o => x \in h.gray \cup h.grayagain \cup h.weak \cup Strings \cup Open
      BY <1>3, <3>2
    <3> QED BY <1>5, <3>3, <3>4 DEF Grows
  <2> QED BY <2>2, <2>3
<1>17. MarkInv'
  <2>1. \A x \in heap : ~ Dead(x)'
    BY <1>1, <1>4, <1>7 DEF Alive, Dead, IInv, TypeOK
  <2>2. m'.color[Main] \notin White /\ m'.color[Registry] \notin White
    BY <1>1, <1>6, Kinds DEF IInv, MarkInv
  <2> QED BY <1>1, <1>7, <1>9, <1>14, <1>15, <1>16, <2>1, <2>2 DEF MarkInv, cycle
<1> QED BY <1>8, <1>11, <1>12, <1>13, <1>17 DEF IInv

-----------------------------------------------------------------------------
(* Propagation to the end, and the atomic step *)

\* Reach holds the roots, is closed, and is within every closed set that holds
\* the roots.
LEMMA ReachIs ==
  ASSUME NEW roots, NEW next, roots \subseteq DOMAIN next,
         \A x \in DOMAIN next : next[x] \subseteq DOMAIN next
  PROVE  /\ roots \subseteq Reach(roots, next) /\ Reach(roots, next) \subseteq DOMAIN next
         /\ \A x \in Reach(roots, next) : next[x] \subseteq Reach(roots, next)
         /\ \A A : roots \subseteq A /\ (\A x \in A \cap DOMAIN next : next[x] \subseteq A)
                     => Reach(roots, next) \subseteq A
<1> DEFINE rest   == (UNION {next[x] : x \in DOMAIN next}) \ roots
           closed == {T \in SUBSET rest : \A x \in roots \cup T : next[x] \subseteq roots \cup T}
           R == roots \cup {o \in rest : \A T \in closed : o \in T}
<1>1. Reach(roots, next) = R
  BY DEF Reach
<1>2. rest \subseteq DOMAIN next /\ \A x \in DOMAIN next : next[x] \subseteq roots \cup rest
  OBVIOUS
<1> HIDE DEF rest
<1>3. R \subseteq roots \cup rest
  OBVIOUS
<1>4. ASSUME NEW x \in R, NEW y \in next[x] PROVE y \in R
  <2>1. x \in DOMAIN next
    BY <1>2, <1>3
  <2>2. y \in roots \cup rest
    BY <1>2, <1>4, <2>1
  <2>3. ASSUME y \in rest, NEW T \in closed PROVE y \in roots \cup T
    <3>1. x \in roots \cup T
      BY <1>4
    <3> QED BY <1>4, <2>3, <3>1
  <2>4. y \notin roots => y \in rest /\ \A T \in closed : y \in T
    BY <2>2, <2>3
  <2> QED BY <2>4
<1>5. ASSUME NEW A, roots \subseteq A, \A x \in A \cap DOMAIN next : next[x] \subseteq A
      PROVE  R \subseteq A
  <2>1. \A x \in roots \cup (A \cap rest) : next[x] \subseteq roots \cup (A \cap rest)
    BY <1>2, <1>5
  <2>2. A \cap rest \in closed
    BY <2>1
  <2> QED BY <1>5, <2>2
<1> HIDE DEF R
<1>6. roots \subseteq R
  BY DEF R
<1> QED BY <1>1, <1>2, <1>3, <1>4, <1>5, <1>6

\* What o refers to is marked in r, or o is a table that will be cleared.
Done(r, o) == o \in r.weak \/ \A x \in AllRefs(o) : r.color[x] \notin White

\* Marking to the end: it leaves nothing gray, and each object that it marks, or
\* that was on the gray list, is done with.
Traces(h, S, r) ==
  /\ Grows(h, r) /\ StaysIn(h, r) /\ r.gray = {}
  /\ \A o \in Object : h.color[o] \notin White => r.color[o] \notin White
  /\ \A o \in S \cap Object : r.color[o] \notin White
  /\ \A o \in Object : h.color[o] \in White /\ r.color[o] \notin White => Done(r, o)
  /\ \A o \in h.gray : Done(r, o)

\* propagateall from fields whose gray list is alive.
LEMMA PropagateAllTraces ==
  ASSUME TypeOK, HeapInv, NEW h \in Fields, h.gray \subseteq Alive, NEW S, S \cap Object \subseteq Alive
  PROVE  Traces(h, S, PropagateAll(h, S))
<1> DEFINE roots == h.gray \cup Whites(h, S \cap Object)
           next  == [o \in h.gray \cup Whites(h, Object) |-> Whites(h, StrongRefs(o))]
           new   == Reach(roots, next)
           r     == PropagateAll(h, S)
<1>1. r = [color |-> [o \in Object |-> IF o \notin new THEN h.color[o]
                                       ELSE IF StaysGray(o) THEN "gray" ELSE "black"],
           gray |-> {},
           grayagain |-> h.grayagain \cup (new \cap Threads),
           weak |-> h.weak \cup {o \in new : WeakTable(o)}]
  BY DEF PropagateAll
<1>2. \A o : StrongRefs(o) \subseteq Object
  BY StrongRefsAre
<1>3. DOMAIN next = h.gray \cup Whites(h, Object) /\ DOMAIN next \subseteq Object
  BY Kinds DEF Fields, Whites
<1>4. roots \subseteq DOMAIN next
  BY DEF Whites
<1>5. \A x \in DOMAIN next : next[x] = Whites(h, StrongRefs(x)) /\ next[x] \subseteq DOMAIN next
  BY <1>2 DEF Whites
<1>6. \A x \in Alive \cap DOMAIN next : next[x] \subseteq Alive
  BY <1>5, StrongRefsAre DEF HeapInv, Whites
<1> HIDE DEF next
<1>7. /\ roots \subseteq new /\ new \subseteq DOMAIN next
      /\ \A x \in new : next[x] \subseteq new
      /\ roots \subseteq Alive => new \subseteq Alive
  <2> HIDE DEF roots
  <2>1. roots \subseteq DOMAIN next /\ \A x \in DOMAIN next : next[x] \subseteq DOMAIN next
    BY <1>4, <1>5
  <2>2. /\ roots \subseteq new /\ new \subseteq DOMAIN next /\ \A x \in new : next[x] \subseteq new
        /\ \A A : roots \subseteq A /\ (\A x \in A \cap DOMAIN next : next[x] \subseteq A) => new \subseteq A
    BY <2>1, ReachIs
  <2> QED BY <1>6, <2>2
<1> HIDE DEF new, r
<1>8. roots \subseteq Alive
  BY DEF Whites
<1>9. /\ r.gray = {} /\ r.grayagain = h.grayagain \cup (new \cap Threads)
      /\ r.weak = h.weak \cup {o \in new : WeakTable(o)}
      /\ \A o \in Object : r.color[o] = IF o \notin new THEN h.color[o]
                                        ELSE IF StaysGray(o) THEN "gray" ELSE "black"
  BY <1>1
<1>10. r \in Fields
  BY <1>1 DEF Fields, Colors, White, WeakTable
<1>11. Grows(h, r)
  <2>1. \A o \in Threads \cup Open : StaysGray(o) /\ o \in Object
    BY Kinds DEF StaysGray, Open
  <2> QED BY <1>9, <1>10, <2>1 DEF Grows, White
<1>12. StaysIn(h, r)
  BY <1>7, <1>8, <1>9 DEF StaysIn
<1>13. \A o \in Object : h.color[o] \notin White \/ o \in new => r.color[o] \notin White
  BY <1>9 DEF White
<1>14. \A o \in S \cap Object : r.color[o] \notin White
  BY <1>7, <1>13 DEF Whites
<1>15. ASSUME NEW o \in new PROVE Done(r, o)
  <2>1. o \in DOMAIN next /\ next[o] \subseteq new
    BY <1>7
  <2>2. \A x \in StrongRefs(o) : x \in Object /\ (h.color[x] \in White => x \in new)
    BY <1>2, <1>5, <2>1 DEF Whites
  <2>3. \A x \in StrongRefs(o) : r.color[x] \notin White
    BY <1>13, <2>2
  <2>4. CASE WeakTable(o)
    BY <1>9, <2>4 DEF Done
  <2>5. CASE ~ WeakTable(o)
    BY <2>3, <2>5, StrongRefsAre DEF Done
  <2> QED BY <2>4, <2>5
<1>16. \A o \in Object : h.color[o] \in White /\ r.color[o] \notin White => o \in new
  BY <1>9
<1>17. h.gray \subseteq new
  BY <1>7
<1> QED BY <1>9, <1>11, <1>12, <1>13, <1>14, <1>15, <1>16, <1>17 DEF Traces, r

\* The fields h in the midst of the atomic step, which started at m: all that is
\* marked is done with, except for X.
Remarking(h, X) ==
  /\ h \in Fields
  /\ \A o \in Object : h.color[o] \in White => h.color[o] = m.color[o]
  /\ \A o \in Object : m.color[o] \notin White => h.color[o] \notin White
  /\ \A o \in Threads \cup Open : h.color[o] # "black"
  /\ \A o \in Object \ heap : h.color[o] = m.color[o]
  /\ h.gray \cup h.grayagain \cup h.weak \subseteq heap
  /\ \A o \in heap \ X : h.color[o] \notin White => Done(h, o)

\* Each propagateall of the atomic step leaves less to be done.
LEMMA RemarkingTraces ==
  ASSUME TypeOK, Alive = heap, NEW h, NEW X, Remarking(h, X), NEW S, NEW r, Traces(h, S, r)
  PROVE  Remarking(r, X \ h.gray)
<1>1. r \in Fields /\ r.gray \cup r.grayagain \cup r.weak \subseteq heap
  BY DEF Traces, Grows, StaysIn, Remarking
<1>2. \A o \in Object : r.color[o] \in White => r.color[o] = m.color[o]
  BY DEF Traces, Grows, Remarking
<1>3. \A o \in Object : m.color[o] \notin White => r.color[o] \notin White
  BY DEF Traces, Remarking
<1>4. \A o \in Threads \cup Open : r.color[o] # "black"
  BY DEF Traces, Grows, Remarking
<1>5. \A o \in Object \ heap : r.color[o] = m.color[o]
  BY DEF Traces, StaysIn, Remarking
<1>6. ASSUME NEW o \in heap \ (X \ h.gray), r.color[o] \notin White PROVE Done(r, o)
  <2>1. o \in Object
    BY DEF TypeOK
  <2>2. CASE o \in h.gray \/ h.color[o] \in White
    BY <1>6, <2>1, <2>2 DEF Traces
  <2>3. CASE o \notin h.gray /\ h.color[o] \notin White
    <3>1. Done(h, o)
      BY <1>6, <2>3 DEF Remarking
    <3>2. h.weak \subseteq r.weak /\ \A x \in Object : h.color[x] \notin White => r.color[x] \notin White
      BY DEF Traces, Grows
    <3>3. AllRefs(o) \subseteq Object
      BY StrongRefsAre
    <3> QED BY <3>1, <3>2, <3>3 DEF Done
  <2> QED BY <2>2, <2>3
<1> QED BY <1>1, <1>2, <1>3, <1>4, <1>5, <1>6 DEF Remarking

\* After the remarks only the userdata that wait for their finalizer are left.
LEMMA RemarkedIs ==
  ASSUME IInv, gcstate = "propagate", m.gray = {}
  PROVE  /\ Remarking(Remarked, tmudata) /\ Remarked.gray = {}
         /\ Remarked.color[running] \notin White
<1> DEFINE grayOpen == {x \in Open : m.color[x] = "gray"}
           values == {Content(u) : u \in grayOpen}
           first  == PropagateAll(m, values)
           k      == [first EXCEPT !.gray = first.weak, !.weak = {}]
           second == PropagateAll(k, {running})
           l      == [second EXCEPT !.gray = second.grayagain, !.grayagain = {}]
           before == PropagateAll(l, {})
<1>1. Remarked = before
  BY DEF Remarked
<1>2. TypeOK /\ HeapInv /\ m \in Fields /\ Alive = heap /\ heap \subseteq Object
  BY DEF IInv, MarkInv, Alive, TypeOK
<1>3. Remarking(m, tmudata \cup m.grayagain \cup m.weak \cup grayOpen)
  <2>1. \A o \in Threads \cup Open : m.color[o] # "black"
    BY DEF IInv, MarkInv
  <2>2. m.gray \cup m.grayagain \cup m.weak \subseteq heap
    BY DEF IInv, MarkInv
  <2>3. ASSUME NEW o \in heap \ (tmudata \cup m.grayagain \cup m.weak \cup grayOpen), m.color[o] \notin White
        PROVE  Done(m, o)
    <3>1. m.color[o] \in {"gray", "black"}
      BY <1>2, <2>3 DEF Fields, Colors
    <3>2. CASE m.color[o] = "black"
      BY <2>3, <3>2 DEF IInv, MarkInv, Done
    <3>3. CASE m.color[o] = "gray"
      <4>1. o \in Strings
        BY <2>3, <3>3 DEF IInv, MarkInv
      <4> QED BY <4>1, StrongRefsAre DEF Done
    <3> QED BY <3>1, <3>2, <3>3
  <2> QED BY <1>2, <2>1, <2>2, <2>3 DEF Remarking
<1>4. \A u \in Open : u \in Upvals /\ u \in Alive /\ Content(u) \in Values \cup {Scalar}
  BY <1>2 DEF Open, Content, TypeOK
<1>5. \A u \in Open : Content(u) # Scalar => Content(u) \in AllRefs(u)
  BY <1>4, References, Kinds DEF ReferencesAre, RefersTo
<1>6. values \cap Object \subseteq Alive
  BY <1>2, <1>4, <1>5, Kinds DEF HeapInv
<1>7. \A u \in grayOpen : AllRefs(u) \subseteq values
  BY <1>4, References, DisjointAssumption DEF ReferencesAre, RefersTo
<1>8. Traces(m, values, first)
  <2> HIDE DEF values
  <2> QED BY <1>2, <1>6, PropagateAllTraces
<1> HIDE DEF first, values
<1>9. Remarking(first, tmudata \cup m.grayagain \cup m.weak)
  <2>1. Remarking(first, (tmudata \cup m.grayagain \cup m.weak \cup grayOpen) \ m.gray)
    <3> HIDE DEF grayOpen
    <3> QED BY <1>2, <1>3, <1>8, RemarkingTraces
  <2>2. \A u \in grayOpen : Done(first, u)
    BY <1>7, <1>8, StrongRefsAre DEF Traces, Done
  <2> HIDE DEF grayOpen
  <2> QED BY <2>1, <2>2 DEF Remarking
<1>10. m.grayagain \subseteq first.grayagain /\ m.weak \subseteq first.weak /\ first \in Fields
  BY <1>8 DEF Traces, Grows
<1>11. /\ k \in Fields /\ k.color = first.color /\ k.gray = first.weak
       /\ k.grayagain = first.grayagain /\ k.weak = {}
  BY <1>10 DEF Fields
<1> HIDE DEF k
<1>12. Remarking(k, tmudata \cup m.grayagain \cup m.weak \cup first.weak)
  BY <1>9, <1>11 DEF Remarking, Done
<1>13. Traces(k, {running}, second)
  <2>1. k.gray \subseteq Alive /\ {running} \cap Object \subseteq Alive
    BY <1>2, <1>9, <1>11, Frame DEF Remarking
  <2> QED BY <1>2, <1>11, <2>1, PropagateAllTraces
<1> HIDE DEF second
<1>14. Remarking(second, tmudata \cup m.grayagain)
  <2>1. Remarking(second, (tmudata \cup m.grayagain \cup m.weak \cup first.weak) \ k.gray)
    BY <1>2, <1>12, <1>13, RemarkingTraces
  <2> QED BY <1>10, <1>11, <2>1 DEF Remarking
<1>15. m.grayagain \subseteq second.grayagain /\ second \in Fields /\ second.color[running] \notin White
  BY <1>2, <1>10, <1>11, <1>13, Kinds DEF Traces, Grows, TypeOK
<1>16. /\ l \in Fields /\ l.color = second.color /\ l.gray = second.grayagain
       /\ l.grayagain = {} /\ l.weak = second.weak
  BY <1>15 DEF Fields
<1> HIDE DEF l
<1>17. Remarking(l, tmudata \cup m.grayagain)
  BY <1>14, <1>16 DEF Remarking, Done
<1>18. Traces(l, {}, before)
  <2>1. l.gray \subseteq Alive /\ {} \cap Object \subseteq Alive
    BY <1>2, <1>14, <1>16 DEF Remarking
  <2> QED BY <1>2, <1>16, <2>1, PropagateAllTraces
<1> HIDE DEF before
<1>19. Remarking(before, tmudata)
  <2>1. Remarking(before, (tmudata \cup m.grayagain) \ l.gray)
    BY <1>2, <1>17, <1>18, RemarkingTraces
  <2> QED BY <1>15, <1>16, <2>1 DEF Remarking
<1>20. before.gray = {} /\ before.color[running] \notin White
  BY <1>2, <1>15, <1>16, <1>18, Kinds DEF Traces, TypeOK
<1> QED BY <1>1, <1>19, <1>20

\* A string refers to nothing: marking one marks no other object.
LEMMA MarkStrings ==
  ASSUME NEW h \in Fields, NEW S \in SUBSET Strings
  PROVE  \A o \in Object : h.color[o] \in White /\ Mark(h, S).color[o] \notin White => o \in Strings
<1>1. S \cap Object = S /\ \A o \in S : StrongRefs(o) = {}
  BY Kinds, StrongRefsAre
<1>2. \A X : X \subseteq S => Leads(h, X) = {}
  BY <1>1 DEF Leads, Whites
<1>3. AtOnce(h, S) \subseteq S
  <2> DEFINE first == Whites(h, S)
  <2>1. AtOnce(h, S) = first \cup Leads(h, {o \in first : ~ OnList(o)})
                       \cup Leads(h, {o \in first \cup Leads(h, {x \in first : ~ OnList(x)}) : ~ OnList(o)})
    BY DEF AtOnce
  <2>2. first \subseteq S
    BY DEF Whites
  <2> HIDE DEF first
  <2> QED BY <1>2, <2>1, <2>2
<1>4. Marks(h, S, Mark(h, S))
  <2>1. Marks(h, S \cap Object, Mark(h, S))
    BY MarkFields
  <2> QED BY <1>1, <2>1
<1> QED BY <1>3, <1>4 DEF Marks

\* The atomic step condemns what is white, and nothing that is not refers to it: a
\* weak table keeps the entries only whose sides are marked.
LEMMA AtomicStep == ASSUME IInv, Atomic PROVE IInv'
<1> DEFINE before == Remarked
           unused == Unused(before)
           fin    == finalized \cup unused
           tm     == tmudata \cup {d \in unused : metatable[d] # None}
           k      == [before EXCEPT !.color = Whiten(before.color, tm)]
           h      == PropagateAll(k, tm)
           weak   == UNION {entries[t] : t \in h.weak}
           live   == {e \in weak : ~ IsCleared(h.color, fin, e[1], TRUE)}
           kept   == {e \in live : ~ IsCleared(h.color, fin, e[2], FALSE)}
           seen   == {e[1] : e \in weak} \cup {e[2] : e \in live}
           marked == Mark(h, seen \cap Strings)
<1>1. /\ gcstate = "propagate" /\ m.gray = {}
      /\ finalized' = fin /\ tmudata' = tm
      /\ entries' = [t \in Tables |-> entries[t] \cap (IF t \in h.weak THEN kept ELSE entries[t])]
      /\ m' = [marked EXCEPT !.color =
                [o \in Object |-> IF o \in heap /\ marked.color[o] = "white" THEN "dead" ELSE marked.color[o]]]
      /\ gcstate' = "sweepstring" /\ unswept' = heap \ (Open \cup tm)
      /\ UNCHANGED <<calls, full, heap, stack, running, mode, metatable, upvalues>>
  BY Zenon DEF Atomic
<1>2. TypeOK /\ HeapInv /\ m \in Fields /\ Alive = heap /\ heap \subseteq Object
  <2>1. gcstate = "propagate"
    BY <1>1, Zenon
  <2> QED BY ONLY <2>1, IInv DEF IInv, MarkInv, Alive, TypeOK
<1>3. Remarking(before, tmudata) /\ before.gray = {} /\ before.color[running] \notin White
  BY <1>1, RemarkedIs, Zenon
<1>4. /\ \A d \in unused : d \in Userdata \cap heap /\ d \notin finalized
      /\ tmudata \subseteq Userdata \cap heap
  BY <1>2 DEF Unused, TypeOK, HeapInv
<1> HIDE DEF before, unused
<1>5. tmudata \subseteq tm /\ tm \subseteq Userdata \cap heap /\ \A d \in tm \ tmudata : d \in unused
  BY <1>4
<1> HIDE DEF tm
<1>6. /\ k \in Fields /\ k.gray = {} /\ k.weak = before.weak /\ k.grayagain = before.grayagain
      /\ \A o \in Object : k.color[o] = IF o \in tm THEN "white" ELSE before.color[o]
  <2>1. before \in Fields
    BY <1>3 DEF Remarking
  <2> QED BY <1>3, <2>1 DEF Whiten, Fields, Colors, White
<1> HIDE DEF k
<1>7. Traces(k, tm, h)
  BY <1>2, <1>5, <1>6, PropagateAllTraces
<1> HIDE DEF h
<1>8. h \in Fields /\ h.weak \subseteq heap /\ h.weak \subseteq Tables
  <2>1. h \in Fields /\ h.weak \subseteq heap
    BY <1>2, <1>3, <1>6, <1>7 DEF Traces, Grows, StaysIn, Remarking
  <2> QED BY <2>1 DEF Fields
<1>9. \A o \in Object : m.color[o] \notin White \/ before.color[o] \notin White \/ o \in tm => h.color[o] \notin White
  BY <1>2, <1>3, <1>5, <1>6, <1>7 DEF Traces, Remarking
<1>10. \A o \in Object : h.color[o] \in White => h.color[o] = m.color[o]
  BY <1>3, <1>6, <1>7, <1>9 DEF Traces, Grows, Remarking
<1>11. \A o \in Threads \cup Open : h.color[o] # "black"
  <2>1. \A o \in Threads \cup Open : o \in Object
    BY Kinds DEF Open
  <2> QED BY <1>3, <1>6, <1>7, <2>1 DEF Traces, Grows, Remarking
<1>12. \A o \in Object \ heap : h.color[o] = m.color[o]
  BY <1>2, <1>3, <1>5, <1>6, <1>7 DEF Traces, StaysIn, Remarking
<1>13. ASSUME NEW o \in heap, h.color[o] \notin White PROVE Done(h, o)
  <2>1. o \in Object /\ before.weak \subseteq h.weak /\ AllRefs(o) \subseteq Object
    BY <1>2, <1>6, <1>7, StrongRefsAre DEF Traces, Grows
  <2>2. CASE k.color[o] \in White
    BY <1>7, <1>13, <2>1, <2>2 DEF Traces
  <2>3. CASE k.color[o] \notin White
    <3>1. Done(before, o)
      BY <1>3, <1>5, <1>6, <2>1, <2>3 DEF Remarking, White
    <3> QED BY <1>9, <2>1, <3>1 DEF Done
  <2> QED BY <2>2, <2>3
<1>14. \A t \in h.weak : \A e \in entries[t] : {e[1], e[2]} \cap Object \subseteq Alive
  BY <1>2, <1>8, References DEF ReferencesAre, RefersTo, HeapInv
<1>15. seen \cap Strings \subseteq Alive /\ seen \cap Strings \subseteq Object
  <2>1. \A e \in weak : {e[1], e[2]} \cap Object \subseteq Alive
    BY <1>14
  <2> HIDE DEF weak
  <2>2. \A v \in seen : \E e \in weak : v \in {e[1], e[2]}
    OBVIOUS
  <2> HIDE DEF seen
  <2>3. Strings \subseteq Object
    BY Kinds
  <2> QED BY <2>1, <2>2, <2>3
<1>16. /\ marked \in Fields
       /\ \A o \in Object : marked.color[o] \in White => marked.color[o] = h.color[o]
       /\ \A o \in Threads \cup Open : marked.color[o] # "black"
       /\ \A o \in Object : h.color[o] \notin White => marked.color[o] \notin White
       /\ \A o \in seen \cap Strings : marked.color[o] \notin White
       /\ \A o \in Object \ heap : marked.color[o] = m.color[o]
       /\ \A o \in Object : h.color[o] \in White /\ marked.color[o] \notin White => o \in Strings
  <2> HIDE DEF seen
  <2>1. Grows(h, marked) /\ (\A o \in Object : h.color[o] \notin White => marked.color[o] = h.color[o])
        /\ \A o \in (seen \cap Strings) \cap Object : marked.color[o] \notin White
    BY <1>8, MarkGrows
  <2>2. StaysIn(h, marked)
    BY <1>2, <1>8, <1>15, MarkStays
  <2>3. \A o \in Object : h.color[o] \in White /\ marked.color[o] \notin White => o \in Strings
    BY <1>8, MarkStrings
  <2> QED BY <1>2, <1>11, <1>12, <1>15, <2>1, <2>2, <2>3 DEF Grows, StaysIn
<1> HIDE DEF marked
<1>17. /\ m' \in Fields
       /\ \A o \in Object : m'.color[o] = IF o \in heap /\ marked.color[o] = "white" THEN "dead" ELSE marked.color[o]
  BY <1>1, <1>16 DEF Fields, Colors, White
<1>18. \A o : o \in Alive' <=> o \in heap /\ marked.color[o] \notin White
  <2>1. \A o \in heap : marked.color[o] # "dead"
    BY <1>2, <1>10, <1>16 DEF Alive, Dead, White
  <2> QED BY <1>1, <1>2, <1>17, <2>1 DEF Alive, Dead, White
<1>19. TypeOK'
  <2>1. entries' \in [Tables -> SUBSET ((Values \cup {Scalar}) \X (Values \cup {Scalar}))]
    BY <1>1, <1>2 DEF TypeOK
  <2>2. finalized' \subseteq Userdata /\ tmudata' \subseteq Userdata /\ unswept' \subseteq heap'
    BY <1>1, <1>2, <1>4, <1>5 DEF TypeOK
  <2> QED BY <1>1, <1>2, <1>17, <2>1, <2>2 DEF TypeOK, upvalues
<1>20. Open' = Open
  BY <1>1 DEF Open, upvalues
<1>21. \A o \in Tables \cap h.weak : \A e \in entries'[o] : {e[1], e[2]} \cap Object \subseteq Alive'
  <2> SUFFICES ASSUME NEW o \in Tables \cap h.weak, NEW e \in entries'[o], NEW v \in {e[1], e[2]} \cap Object
               PROVE  v \in Alive'
    OBVIOUS
  <2>1. e \in entries[o] /\ e \in kept /\ e \in live /\ e \in weak
    BY <1>1
  <2>2. v \in heap
    BY <1>2, <1>14, <2>1
  <2>3. v # Scalar /\ v \in seen
    BY <2>1, Kinds
  <2>4. CASE v \in Strings
    BY <1>16, <1>18, <2>2, <2>3, <2>4
  <2>5. CASE v \notin Strings
    <3>1. h.color[v] \notin White
      BY <2>1, <2>3, <2>5 DEF IsCleared
    <3> QED BY <1>16, <1>18, <2>2, <3>1
  <2> QED BY <2>4, <2>5
<1> HIDE DEF kept, seen, live, weak
<1>22. ASSUME NEW o \in Alive', NEW r, RefersTo(o, r)' PROVE r \in Alive'
  <2>1. o \in heap /\ o \in Object /\ marked.color[o] \notin White
    BY <1>2, <1>18
  <2>2. RefersTo(o, r)
    BY <1>1, <1>22 DEF RefersTo, Content, upvalues
  <2>3. r \in heap /\ r \in Object /\ r \in AllRefs(o)
    BY <1>2, <2>1, <2>2, Frame, References DEF ReferencesAre
  <2>4. o \notin Strings
    BY <2>3, StrongRefsAre
  <2>5. Done(h, o)
    BY <1>13, <1>16, <2>1, <2>4
  <2>6. CASE o \in h.weak
    <3>1. o \in Tables /\ o \notin Threads \cup Closures \cup Upvals \cup Userdata
      BY <1>8, <2>6, DisjointAssumption
    <3>2. \E e \in entries'[o] : r = e[1] \/ r = e[2]
      BY <1>22, <3>1 DEF RefersTo
    <3> QED BY <1>21, <2>3, <2>6, <3>1, <3>2
  <2>7. CASE h.color[r] \notin White
    BY <1>16, <1>18, <2>3, <2>7
  <2> QED BY <2>3, <2>5, <2>6, <2>7 DEF Done
<1>23. HeapInv'
  <2>1. Main \in Object /\ Registry \in Object /\ running \in Object /\ Main \in heap /\ Registry \in heap /\ running \in heap
    BY <1>2, Frame
  <2>2. h.color[Main] \notin White /\ h.color[Registry] \notin White /\ h.color[running] \notin White
    BY <1>1, <1>3, <1>9, <2>1 DEF IInv, MarkInv
  <2>3. (Roots \cup tmudata)' \subseteq Alive'
    BY <1>1, <1>2, <1>5, <1>9, <1>16, <1>18, <2>1, <2>2 DEF Roots
  <2>4. \A o \in Alive' : AllRefs(o)' \subseteq Alive'
    BY <1>22, ReferencesNext DEF ReferencesAre
  <2> QED BY <1>1, <1>2, <1>20, <2>3, <2>4 DEF HeapInv, upvalues
<1>24. FreshInv'
  <2>1. \A o \in Tables : entries'[o] \subseteq entries[o]
    BY <1>1
  <2>2. \A o \in Object \ heap : m'.color[o] = "white"
    BY <1>16, <1>17, Frame
  <2> QED BY <1>1, <2>1, <2>2 DEF IInv, FreshInv
<1>25. SweepInv'
  <2>1. \A u \in Open : where[u][1] \in heap /\ where[u][1] \in Threads
    BY <1>2 DEF HeapInv, TypeOK, Open
  <2>2. \A t \in Threads : t \notin Open \cup tm
    BY <1>5, DisjointAssumption DEF Open
  <2> QED BY <1>1, <1>20, <2>1, <2>2 DEF SweepInv, upvalues
<1>26. MarkInv'
  <2>1. \A o \in Threads \cup Open : o \in Object
    BY Kinds DEF Open
  <2> QED BY <1>1, <1>16, <1>17, <1>20, <2>1 DEF MarkInv
<1>27. FinalInv'
  <2>1. \A d \in unused : calls[d] = 0 /\ d \in Userdata /\ d \in heap
    <3> SUFFICES ASSUME NEW d \in unused PROVE calls[d] = 0
      BY <1>4
    <3>1. d \in Userdata /\ d \notin finalized
      BY <1>4
    <3>2. calls[d] \in Nat
      BY <1>2, <3>1 DEF TypeOK
    <3>3. calls[d] <= 1 /\ calls[d] # 1
      BY <3>1 DEF IInv, FinalInv
    <3> QED BY <3>2, <3>3
  <2> QED BY <1>1, <1>5, <2>1 DEF IInv, FinalInv
<1> QED BY <1>19, <1>23, <1>24, <1>25, <1>26, <1>27 DEF IInv

-----------------------------------------------------------------------------
(* The theorems *)

\* The initial state, and a step that changes nothing.
LEMMA InitHolds == Init => IInv
<1> SUFFICES ASSUME Init PROVE IInv
  OBVIOUS
<1>1. TypeOK
  BY Kinds DEF Init, TypeOK, Fields, Colors, White, Threads, Tables
<1>2. Alive = {Main, Registry} /\ Open = {} /\ \A o \in Object : m.color[o] = "white"
  BY Kinds DEF Init, Alive, Dead, Open
<1>3. ASSUME NEW o \in heap, NEW r, RefersTo(o, r) PROVE r \in Alive
  BY <1>2, <1>3, Kinds, DisjointAssumption DEF Init, RefersTo, Threads, Tables
<1>4. HeapInv
  BY <1>2, <1>3, References, Kinds, DisjointAssumption DEF ReferencesAre, HeapInv, Roots, Init, Alive
<1>5. FreshInv /\ SweepInv /\ FinalInv
  BY <1>2, Kinds DEF Init, FreshInv, SweepInv, FinalInv
<1>6. MarkInv
  BY <1>2, Kinds DEF Init, MarkInv
<1> QED BY <1>1, <1>4, <1>5, <1>6 DEF IInv

\* A stuttering step keeps the invariant.
LEMMA StutterStep == ASSUME IInv, UNCHANGED vars PROVE IInv'
<1>1. /\ UNCHANGED <<m, gcstate, tmudata, unswept, finalized, calls, full, heap, stack, running>>
      /\ UNCHANGED <<entries, mode, metatable, upval, where, own, tables, upvalues>>
  BY DEF vars, cycle, tables, upvalues
<1>2. \A o : AllRefs(o)' = AllRefs(o)
  BY <1>1, SameRefs
<1>3. Alive' = Alive /\ Open' = Open /\ Roots' = Roots
  BY <1>1 DEF Alive, Dead, Open, Roots
<1>4. TypeOK' /\ FinalInv' /\ FreshInv'
  BY <1>1 DEF IInv, TypeOK, FinalInv, FreshInv
<1>5. HeapInv'
  BY <1>1, <1>2, <1>3 DEF IInv, HeapInv
<1>6. SweepInv' /\ MarkInv'
  BY <1>1, <1>2, <1>3 DEF IInv, SweepInv, MarkInv, Dead
<1> QED BY <1>4, <1>5, <1>6 DEF IInv

\* The invariant is inductive: one step per action of the collector, and the
\* mutator's as a whole.
THEOREM Invariance == Spec => []IInv
<1>1. IInv /\ [Next]_vars => IInv'
  <2> SUFFICES ASSUME IInv, [Next]_vars PROVE IInv'
    OBVIOUS
  <2>1. CASE Start
    BY <2>1, StartStep
  <2>2. CASE Return
    BY <2>2, ReturnStep
  <2>3. CASE EndCycle
    BY <2>3, EndCycleStep
  <2>4. CASE \E o \in Object : Propagate(o) \/ Sweep(o)
    BY <2>4, PropagateStep, SweepStep
  <2>5. CASE \E S \in SUBSET Strings : SweepStrings(S)
    BY <2>5, SweepStringsStep
  <2>6. CASE \E d \in Userdata : Finalize(d)
    BY <2>6, FinalizeStep
  <2>7. CASE Atomic
    BY <2>7, AtomicStep
  <2>8. CASE Mutate
    BY <2>8, MutateStep
  <2>9. CASE FullGC
    BY <2>9, FullGCStep
  <2>10. CASE UNCHANGED vars
    BY <2>10, StutterStep
  <2> QED BY <2>1, <2>2, <2>3, <2>4, <2>5, <2>6, <2>7, <2>8, <2>9, <2>10 DEF Next, Collect, Step
<1> QED BY <1>1, InitHolds, PTL DEF Spec

\* Every field of the collector and of the heap has its type in every state.
THEOREM TypeCorrect == Spec => []TypeOK
<1>1. IInv => TypeOK
  BY DEF IInv
<1> QED BY <1>1, Invariance, PTL

\* A finalizer is called once at most, for every heap and every order of the
\* collector's and the program's steps.
THEOREM FinalizersRunOnce == Spec => []FinalizedOnce
<1>1. IInv => FinalizedOnce
  BY DEF IInv, FinalInv, FinalizedOnce
<1> QED BY <1>1, Invariance, PTL

\* The barriers keep the tri-colour invariant: while marking, no black object
\* refers strongly to a white one.
THEOREM BarriersSuffice == Spec => []NoBlackToWhite
<1>1. IInv => NoBlackToWhite
  BY StrongRefsAre DEF IInv, MarkInv, NoBlackToWhite
<1> QED BY <1>1, Invariance, PTL

\* Nothing that the program or a pending finalizer can reach is freed or
\* condemned: what is alive is closed under every reference.
THEOREM CollectorIsSafe == Spec => []NothingDangles
<1>1. ASSUME IInv PROVE NothingDangles
  <2> DEFINE roots == Roots \cup tmudata
             next  == [o \in Object |-> AllRefs(o)]
             used  == Reach(roots, next)
  <2>1. roots \subseteq Alive /\ heap \subseteq Object
    BY <1>1 DEF IInv, HeapInv, TypeOK
  <2>2. DOMAIN next = Object /\ \A o \in Object : next[o] = AllRefs(o)
    OBVIOUS
  <2> HIDE DEF next
  <2>3. roots \subseteq DOMAIN next /\ \A x \in DOMAIN next : next[x] \subseteq DOMAIN next
    BY <2>1, <2>2, StrongRefsAre DEF Alive
  <2>4. \A x \in Alive \cap DOMAIN next : next[x] \subseteq Alive
    BY <1>1, <2>2 DEF IInv, HeapInv
  <2> HIDE DEF roots
  <2>5. used \subseteq Alive
    <3>1. \A A : roots \subseteq A /\ (\A x \in A \cap DOMAIN next : next[x] \subseteq A) => used \subseteq A
      BY <2>3, ReachIs
    <3> QED BY <2>1, <2>4, <3>1
  <2> HIDE DEF used
  <2>6. used \subseteq {o \in heap : ~ Dead(o)}
    BY <2>5 DEF Alive
  <2>7. {where[u][1] : u \in used \cap Open} \subseteq heap
    BY <1>1 DEF IInv, HeapInv
  <2>8. gcstate \in {"sweepstring", "sweep"} \/ \A o \in heap : ~ Dead(o)
    <3> SUFFICES ASSUME gcstate \notin {"sweepstring", "sweep"}, gcstate # "propagate", NEW o \in heap, Dead(o)
                 PROVE  FALSE
      BY <1>1 DEF IInv, MarkInv
    <3>1. unswept = {} /\ m.color[o] # "white"
      BY <1>1 DEF IInv, SweepInv, Dead
    <3>2. o \in tmudata
      BY <1>1, <3>1 DEF IInv, SweepInv
    <3> QED BY <1>1, <3>2 DEF IInv, HeapInv, Alive
  <2> QED BY <2>6, <2>7, <2>8 DEF NothingDangles, used, roots, next
<1> QED BY <1>1, Invariance, PTL
=============================================================================
