------------------------- MODULE LuaRuntime_proofs -------------------------
(***************************************************************************)
(* Proofs about the helpers of lauxlib.c, for a buffer and a table of      *)
(* references of any size: a string is what was added to it and takes few  *)
(* stack slots, and a reference is of its own value.                       *)
(*                                                                         *)
(* And the theorems about calls and coroutines that LuaCalls_proofs leads  *)
(* to: the running thread counts the C levels of all threads, errors jump  *)
(* to active frames only, each luaV_execute counts its own functions, a    *)
(* yield cuts off no C function, and what is dead stays dead.              *)
(***************************************************************************)
EXTENDS MCLuaRuntime, LuaCalls_proofs, FiniteSetTheorems, SequenceTheorems, WellFoundedInduction

\* A set of numbers has a least one.
LEMMA LeastOf ==
  ASSUME NEW S \in SUBSET Nat, S # {}
  PROVE  \E m \in S : \A k \in S : m <= k
<1> DEFINE R == {ss \in Nat \X Nat : ss[1] < ss[2]}
<1>1. IsWellFoundedOn(R, Nat)
  BY NatLessThanWellFounded DEF OpToRel
<1>2. \E m \in S : \A k \in S : ~(<<k, m>> \in R)
  <2> HIDE DEF R
  <2> QED BY <1>1, WFMin, Zenon
<1>3. PICK m \in S : \A k \in S : ~(<<k, m>> \in R)
  BY <1>2
<1>4. \A k \in S : ~(k < m)
  <2> SUFFICES ASSUME NEW k \in S, k < m PROVE FALSE
    OBVIOUS
  <2>1. <<k, m>> \in R
    OBVIOUS
  <2> HIDE DEF R
  <2> QED
    BY <1>3, <2>1
<1> HIDE DEF R
<1> QED
  BY <1>4

-----------------------------------------------------------------------------
(* String buffers: what was added, cut into pieces *)

\* The characters after the first a, up to the first b
Run(x, y) == [i \in 1..y - x |-> x + i]

\* Where the pieces were cut
Cuts(ps, c) ==
  /\ c \in [0..Len(ps) -> Nat]
  /\ \A k \in 1..Len(ps) : c[k - 1] <= c[k] /\ ps[k] = Run(c[k - 1], c[k])

\* An element of the second of two sequences joined
LEMMA InSecond ==
  ASSUME NEW A, NEW a \in Seq(A), NEW b \in Seq(A), NEW j \in 1..Len(b)
  PROVE  (a \o b)[Len(a) + j] = b[j]
<1>1. Len(a) \in Nat /\ Len(b) \in Nat /\ j \in Int
  OBVIOUS
<1>2. Len(a) + j \in 1..Len(a) + Len(b) /\ ~ Len(a) + j <= Len(a) /\ Len(a) + j - Len(a) = j
  BY <1>1
<1> QED
  BY <1>2

\* A run is a sequence of as many numbers.
LEMMA ARun ==
  ASSUME NEW x \in Nat, NEW y \in Nat, x <= y
  PROVE  Run(x, y) \in Seq(Nat) /\ Len(Run(x, y)) = y - x
BY DEF Run

\* Runs one behind the other are a run.
LEMMA RunsJoin ==
  ASSUME NEW x \in Nat, NEW y \in Nat, NEW z \in Nat, x <= y, y <= z
  PROVE  /\ Run(x, y) \in Seq(Nat) /\ Len(Run(x, y)) = y - x
         /\ Run(x, y) \o Run(y, z) = Run(x, z)
<1>2. /\ Run(x, y) \in Seq(Nat) /\ Len(Run(x, y)) = y - x
      /\ Run(y, z) \in Seq(Nat) /\ Len(Run(y, z)) = z - y
      /\ Run(x, z) \in Seq(Nat) /\ Len(Run(x, z)) = z - x
  <2>1. x <= z
    OBVIOUS
  <2> QED
    BY <2>1, ARun, Zenon
<1>3. /\ Run(x, y) \o Run(y, z) \in Seq(Nat)
      /\ Len(Run(x, y) \o Run(y, z)) = z - x
  <2>1. PICK a, b : a = Run(x, y) /\ b = Run(y, z)
    OBVIOUS
  <2>2. a \in Seq(Nat) /\ b \in Seq(Nat) /\ Len(a) = y - x /\ Len(b) = z - y
    BY <1>2, <2>1
  <2>3. a \o b \in Seq(Nat) /\ Len(a \o b) = Len(a) + Len(b)
    BY ONLY <2>2
  <2>4. (y - x) + (z - y) = z - x
    OBVIOUS
  <2> QED
    BY <2>1, <2>2, <2>3, <2>4
<1>4. \A i \in 1..z - x : (Run(x, y) \o Run(y, z))[i] = Run(x, z)[i]
  <2> SUFFICES ASSUME NEW i \in 1..z - x PROVE (Run(x, y) \o Run(y, z))[i] = x + i
    BY DEF Run
  <2>1. CASE i <= y - x
    <3>1. (Run(x, y) \o Run(y, z))[i] = Run(x, y)[i] /\ i \in 1..y - x
      BY <1>2, <2>1
    <3> QED
      BY <3>1 DEF Run
  <2>2. CASE i > y - x
    <3>1. PICK j \in Int : j = i - (y - x)
      OBVIOUS
    <3>2. j \in 1..z - y /\ y + j = x + i
      BY <2>2, <3>1
    <3>3. (Run(x, y) \o Run(y, z))[i] = Run(y, z)[j]
      <4>1. PICK a, b : a = Run(x, y) /\ b = Run(y, z)
        OBVIOUS
      <4>2. a \in Seq(Nat) /\ b \in Seq(Nat) /\ j \in 1..Len(b)
        BY <1>2, <3>2, <4>1
      <4>3. (a \o b)[Len(a) + j] = b[j]
        BY ONLY <4>2, InSecond
      <4>4. Len(a) = y - x
        BY <1>2, <4>1
      <4>5. Len(a) + j = i
        BY <3>1, <4>4
      <4> QED
        BY <4>1, <4>3, <4>5, Zenon
    <3>4. Run(y, z)[j] = y + j
      BY ONLY <3>2 DEF Run
    <3> QED
      BY <3>2, <3>3, <3>4
  <2>3. i <= y - x \/ i > y - x
    <3>1. y - x \in Int /\ i \in Int
      OBVIOUS
    <3> QED
      BY ONLY <3>1
  <2> QED
    BY ONLY <2>1, <2>2, <2>3, Zenon
<1>5. Run(x, y) \o Run(y, z) = Run(x, z)
  <2>1. PICK a, b : a = Run(x, y) \o Run(y, z) /\ b = Run(x, z)
    BY Zenon
  <2>2. a \in Seq(Nat) /\ b \in Seq(Nat) /\ Len(a) = Len(b) /\ \A i \in 1..Len(a) : a[i] = b[i]
    BY <1>2, <1>3, <1>4, <2>1, Zenon
  <2>3. a = b
    BY ONLY <2>2, SeqEqual
  <2> QED
    BY <2>1, <2>3
<1> QED
  BY <1>2, <1>5

\* FlattenSeq of pieces is the run from the first cut to the last.
LEMMA Flattened ==
  ASSUME NEW ps \in Seq(Seq(Nat)), NEW c, Cuts(ps, c)
  PROVE  /\ AuxLib!FlattenSeq(ps) = Run(c[0], c[Len(ps)])
         /\ c[0] \in Nat /\ c[Len(ps)] \in Nat /\ c[0] <= c[Len(ps)]
<1> SUFFICES /\ AuxLib!FlattenSeq(ps) = Run(c[0], c[Len(ps)])
             /\ \A k \in 0..Len(ps) : c[k] \in Nat /\ c[0] <= c[k]
  <2>1. 0 \in 0..Len(ps) /\ Len(ps) \in 0..Len(ps)
    OBVIOUS
  <2> QED
    BY <2>1
<1>1. PICK n \in Nat : n = Len(ps)
  OBVIOUS
<1>2. /\ \A k \in 0..n : c[k] \in Nat
      /\ \A k \in 1..n : c[k - 1] <= c[k] /\ ps[k] = Run(c[k - 1], c[k])
  BY <1>1, Zenon DEF Cuts
<1>3. \A k \in 0..n : c[0] <= c[k]
  <2>0. PICK S : S = {k \in 0..n : ~ c[0] <= c[k]}
    BY Zenon
  <2> SUFFICES ASSUME S # {} PROVE FALSE
    BY <2>0
  <2>a. S \in SUBSET Nat
    BY <2>0
  <2>1. PICK m \in S : \A k \in S : m <= k
    BY ONLY <2>a, S # {}, LeastOf, Zenon
  <2>b. m \in 0..n /\ ~ c[0] <= c[m]
    BY <2>0, <2>1
  <2>c. m # 0 /\ m \in 1..n /\ m - 1 \in 0..n /\ m - 1 \notin S
    BY <1>2, <2>a, <2>b, <2>1
  <2>2. c[m - 1] <= c[m] /\ c[0] <= c[m - 1] /\ c[m - 1] \in Nat /\ c[m] \in Nat /\ c[0] \in Nat
    BY <1>2, <2>0, <2>b, <2>c
  <2> QED
    BY <2>b, <2>2
<1>4. CASE n = 0
  <2>1. ps = <<>>
    <3>1. Len(ps) = 0 /\ ps \in Seq(Seq(Nat))
      BY <1>1, <1>4
    <3> QED
      BY ONLY <3>1
  <2>2. AuxLib!FlattenSeq(ps) = ps
    <3>1. Len(ps) = 0
      BY <1>1, <1>4
    <3> QED
      BY ONLY <3>1 DEF AuxLib!FlattenSeq
  <2>3. c[0] \in Nat
    BY <1>2
  <2>4. Run(c[0], c[0]) \in Seq(Nat) /\ Len(Run(c[0], c[0])) = 0
    <3>1. PICK x \in Nat : x = c[0]
      BY <2>3
    <3>2. x <= x
      OBVIOUS
    <3>3. Run(x, x) \in Seq(Nat) /\ Len(Run(x, x)) = x - x
      BY ONLY x \in Nat, <3>2, RunsJoin, Zenon
    <3>4. x - x = 0
      OBVIOUS
    <3> QED
      BY <3>1, <3>3, <3>4
  <2>5. Run(c[0], c[0]) = <<>>
    BY ONLY <2>4
  <2>6. AuxLib!FlattenSeq(ps) = Run(c[0], c[Len(ps)])
    BY <1>1, <1>4, <2>1, <2>2, <2>5
  <2> QED
    BY <1>1, <1>2, <1>3, <2>6
<1>5. CASE n # 0
  <2>1. PICK g : g = [i \in 1..n |-> Run(c[0], c[i])]
    BY Zenon
  <2>2. PICK h : h = CHOOSE f : f = [i \in 1..n |-> IF i = 1 THEN ps[i] ELSE f[i - 1] \o ps[i]]
    BY Zenon
  <2>3. AuxLib!FlattenSeq(ps) = h[n]
    BY <1>1, <1>5, <2>2 DEF AuxLib!FlattenSeq
  <2>4. \A i \in 1..n : g[i] = IF i = 1 THEN ps[i] ELSE g[i - 1] \o ps[i]
    <3> SUFFICES ASSUME NEW i \in 1..n PROVE Run(c[0], c[i]) = IF i = 1 THEN ps[i] ELSE g[i - 1] \o ps[i]
      BY <2>1
    <3>1. CASE i = 1
      BY <1>2, <3>1
    <3>2. CASE i # 1
      <4>1. i - 1 \in 1..n /\ g[i - 1] = Run(c[0], c[i - 1]) /\ ps[i] = Run(c[i - 1], c[i])
        BY <1>1, <1>2, <2>1, <3>2
      <4>2. /\ c[0] \in Nat /\ c[i - 1] \in Nat /\ c[i] \in Nat
            /\ c[0] <= c[i - 1] /\ c[i - 1] <= c[i]
        BY <1>1, <1>2, <1>3, <4>1
      <4>3. Run(c[0], c[i - 1]) \o Run(c[i - 1], c[i]) = Run(c[0], c[i])
        <5>1. PICK x, y, z : x = c[0] /\ y = c[i - 1] /\ z = c[i]
          OBVIOUS
        <5>2. x \in Nat /\ y \in Nat /\ z \in Nat /\ x <= y /\ y <= z
          BY <4>2, <5>1
        <5>3. Run(x, y) \o Run(y, z) = Run(x, z)
          BY ONLY <5>2, RunsJoin, Zenon
        <5> QED
          BY <5>1, <5>3
      <4> QED
        BY <3>2, <4>1, <4>3
    <3> QED
      BY <3>1, <3>2
  <2>5. g = [i \in 1..n |-> IF i = 1 THEN ps[i] ELSE g[i - 1] \o ps[i]]
    BY <2>1, <2>4
  <2>6. h = [i \in 1..n |-> IF i = 1 THEN ps[i] ELSE h[i - 1] \o ps[i]]
    BY <2>2, <2>5, Zenon
  <2>7. \A i \in 1..n : h[i] = g[i]
    <3>0. PICK S : S = {i \in 1..n : h[i] # g[i]}
      BY Zenon
    <3> SUFFICES ASSUME S # {} PROVE FALSE
      BY <3>0
    <3>a. S \in SUBSET Nat
      BY <3>0
    <3>1. PICK m \in S : \A k \in S : m <= k
      BY ONLY <3>a, S # {}, LeastOf, Zenon
    <3>b. m \in 1..n /\ h[m] # g[m]
      BY <3>0, <3>1
    <3>2. m # 1 => m - 1 \in 1..n /\ h[m - 1] = g[m - 1]
      <4>1. ASSUME m # 1 PROVE m - 1 \in 1..n /\ m - 1 \notin S
        BY <3>1, <3>b, <3>a, <4>1
      <4> QED
        BY <3>0, <4>1
    <3>3. m \in 1..n /\ h[m] = IF m = 1 THEN ps[m] ELSE h[m - 1] \o ps[m]
      BY <2>6, <3>b, Zenon
    <3> QED
      BY <2>4, <3>b, <3>2, <3>3
  <2>8. n \in 1..n
    BY <1>5
  <2>9. AuxLib!FlattenSeq(ps) = Run(c[0], c[Len(ps)])
    BY <1>1, <2>1, <2>3, <2>7, <2>8
  <2> QED
    BY <1>1, <1>2, <1>3, <2>9
<1> QED
  BY <1>4, <1>5

\* The pieces are what was added up to the y-th.
Tiles(ps, y) ==
  ps \in Seq(Seq(Nat)) /\ \E c : Cuts(ps, c) /\ c[0] = 0 /\ c[Len(ps)] = y

\* No pieces have nothing in them.
LEMMA NoPieces == Tiles(<<>>, 0)
<1>1. PICK c : c = [k \in 0..0 |-> 0]
  BY Zenon
<1>2. Cuts(<<>>, c) /\ c[0] = 0 /\ c[Len(<<>>)] = 0
  BY <1>1 DEF Cuts
<1> QED
  BY <1>2 DEF Tiles

\* The next characters are one more piece.
LEMMA OneMore ==
  ASSUME NEW ps, NEW y \in Nat, NEW z \in Nat, y <= z, Tiles(ps, y)
  PROVE  Tiles(Append(ps, Run(y, z)), z)
<1>1. PICK c : ps \in Seq(Seq(Nat)) /\ Cuts(ps, c) /\ c[0] = 0 /\ c[Len(ps)] = y
  BY DEF Tiles
<1>2. PICK n \in Nat : n = Len(ps)
  BY <1>1
<1>3. PICK p, q : p = Run(y, z) /\ q = Append(ps, p)
  BY Zenon
<1>4. p \in Seq(Nat)
  BY <1>3, ARun
<1>5. q \in Seq(Seq(Nat)) /\ Len(q) = n + 1 /\ q[n + 1] = p /\ \A k \in 1..n : q[k] = ps[k]
  BY ONLY <1>1, <1>2, <1>3, <1>4
<1>6. PICK d : d = [k \in 0..n + 1 |-> IF k = n + 1 THEN z ELSE c[k]]
  BY Zenon
<1>7. /\ \A k \in 0..n : c[k] \in Nat
      /\ \A k \in 1..n : c[k - 1] <= c[k] /\ ps[k] = Run(c[k - 1], c[k])
  BY <1>1, <1>2, Zenon DEF Cuts
<1>8. d \in [0..n + 1 -> Nat] /\ d[n + 1] = z /\ d[n] = y /\ d[0] = 0
  <2>1. \A k \in 0..n + 1 : k # n + 1 => k \in 0..n
    OBVIOUS
  <2>2. d \in [0..n + 1 -> Nat]
    BY ONLY <1>6, <1>7, <2>1, z \in Nat
  <2>3. 0 \in 0..n + 1 /\ n \in 0..n + 1 /\ n + 1 \in 0..n + 1 /\ 0 # n + 1 /\ n # n + 1
    OBVIOUS
  <2> QED
    BY <1>1, <1>2, <1>6, <2>2, <2>3
<1>9. \A k \in 1..n + 1 : d[k - 1] <= d[k] /\ q[k] = Run(d[k - 1], d[k])
  <2> SUFFICES ASSUME NEW k \in 1..n + 1 PROVE d[k - 1] <= d[k] /\ q[k] = Run(d[k - 1], d[k])
    OBVIOUS
  <2>1. CASE k = n + 1
    <3>1. k - 1 = n
      BY <2>1
    <3> QED
      BY <1>3, <1>5, <1>8, <2>1, <3>1
  <2>2. CASE k # n + 1
    <3>1. k \in 1..n /\ k - 1 \in 0..n /\ k \in 0..n
      BY <2>2
    <3>2. d[k] = c[k] /\ d[k - 1] = c[k - 1]
      BY <1>6, <3>1
    <3> QED
      BY <1>5, <1>7, <3>1, <3>2
  <2> QED
    BY <2>1, <2>2
<1>10. Cuts(q, d)
  BY ONLY <1>5, <1>8, <1>9, Zenon DEF Cuts
<1> QED
  BY <1>3, <1>5, <1>8, <1>10 DEF Tiles

\* What is on top of any number of pieces are pieces of their own, and so are those.
LEMMA Parted ==
  ASSUME NEW ps \in Seq(Seq(Nat)), NEW c, Cuts(ps, c), c[0] = 0, NEW p \in 0..Len(ps)
  PROVE  /\ Tiles(SubSeq(ps, 1, p), c[p]) /\ Len(SubSeq(ps, 1, p)) = p
         /\ AuxLib!FlattenSeq(SubSeq(ps, p + 1, Len(ps))) = Run(c[p], c[Len(ps)])
         /\ c[p] \in Nat /\ c[Len(ps)] \in Nat /\ c[p] <= c[Len(ps)]
<1>1. PICK n \in Nat : n = Len(ps) /\ p \in 0..n
  OBVIOUS
<1>2. /\ \A k \in 0..n : c[k] \in Nat
      /\ \A k \in 1..n : c[k - 1] <= c[k] /\ ps[k] = Run(c[k - 1], c[k])
  BY <1>1, Zenon DEF Cuts
<1>3. PICK a, b : a = SubSeq(ps, 1, p) /\ b = SubSeq(ps, p + 1, n)
  BY Zenon
<1>4. a \in Seq(Seq(Nat)) /\ Len(a) = p /\ \A k \in 1..p : a[k] = ps[k]
  BY <1>1, <1>3
<1>5. b \in Seq(Seq(Nat)) /\ Len(b) = n - p /\ \A k \in 1..n - p : b[k] = ps[p + k]
  BY <1>1, <1>3
<1>6. PICK d, e : d = [k \in 0..p |-> c[k]] /\ e = [k \in 0..n - p |-> c[p + k]]
  BY Zenon
<1>7. Cuts(a, d) /\ d[0] = 0 /\ d[p] = c[p]
  <2>1. d \in [0..p -> Nat]
    BY <1>1, <1>2, <1>6
  <2>2. \A k \in 1..p : d[k - 1] <= d[k] /\ a[k] = Run(d[k - 1], d[k])
    <3> SUFFICES ASSUME NEW k \in 1..p PROVE d[k - 1] <= d[k] /\ a[k] = Run(d[k - 1], d[k])
      OBVIOUS
    <3>1. k \in 1..n /\ k - 1 \in 0..p /\ k \in 0..p
      BY <1>1
    <3>2. d[k] = c[k] /\ d[k - 1] = c[k - 1]
      BY <1>6, <3>1
    <3> QED
      BY <1>2, <1>4, <3>1, <3>2, Zenon
  <2>3. 0 \in 0..p /\ p \in 0..p
    BY <1>1
  <2>4. Cuts(a, d)
    BY ONLY <1>4, <2>1, <2>2 DEF Cuts
  <2>5. d[0] = c[0] /\ d[p] = c[p]
    BY <1>6, <2>3
  <2> QED
    BY <2>4, <2>5
<1>8. Cuts(b, e) /\ e[0] = c[p] /\ e[n - p] = c[n]
  <2>1. e \in [0..n - p -> Nat]
    BY <1>1, <1>2, <1>6
  <2>2. \A k \in 1..n - p : e[k - 1] <= e[k] /\ b[k] = Run(e[k - 1], e[k])
    <3> SUFFICES ASSUME NEW k \in 1..n - p PROVE e[k - 1] <= e[k] /\ b[k] = Run(e[k - 1], e[k])
      OBVIOUS
    <3>1. p + k \in 1..n /\ p + (k - 1) = p + k - 1 /\ k - 1 \in 0..n - p /\ k \in 0..n - p
      BY <1>1
    <3>2. e[k] = c[p + k] /\ e[k - 1] = c[p + k - 1]
      BY <1>6, <3>1
    <3> QED
      BY <1>2, <1>5, <3>1, <3>2
  <2>3. 0 \in 0..n - p /\ n - p \in 0..n - p /\ p + 0 = p /\ p + (n - p) = n
    BY <1>1
  <2> QED
    BY <1>5, <1>6, <2>1, <2>2, <2>3, Zenon DEF Cuts
<1>9. /\ AuxLib!FlattenSeq(b) = Run(e[0], e[Len(b)])
      /\ e[0] \in Nat /\ e[Len(b)] \in Nat /\ e[0] <= e[Len(b)]
  BY ONLY <1>5, <1>8, Flattened, Zenon
<1>10. Tiles(a, c[p])
  BY <1>4, <1>7 DEF Tiles
<1> QED
  BY <1>1, <1>3, <1>4, <1>5, <1>8, <1>9, <1>10

\* All pieces together are what was added.
LEMMA Together ==
  ASSUME NEW ps, NEW y, Tiles(ps, y)
  PROVE  AuxLib!FlattenSeq(ps) = Run(0, y)
<1>1. PICK c : ps \in Seq(Seq(Nat)) /\ Cuts(ps, c) /\ c[0] = 0 /\ c[Len(ps)] = y
  BY DEF Tiles
<1>2. AuxLib!FlattenSeq(ps) = Run(c[0], c[Len(ps)])
  BY ONLY <1>1, Flattened
<1> QED
  BY <1>1, <1>2

\* adjuststack joins one piece at least, and enough of them.
LEMMA Enough ==
  ASSUME HelpersAssumption, NEW ps \in Seq(Seq(Nat)), Len(ps) > 0
  PROVE  AuxLib!ToGet(ps) \in 1..Len(ps) /\ Len(ps) - AuxLib!ToGet(ps) + 1 < LIMIT
<1>1. PICK lvl \in Nat : lvl = Len(ps) /\ lvl > 0
  OBVIOUS
<1>2. LIMIT \in Nat /\ LIMIT > 1
  BY DEF HelpersAssumption
<1>3. PICK S : S = {n \in 2..lvl :
                     n >= 2 /\ ~ (\/ n = 1
                                  \/ lvl - n + 2 >= LIMIT
                                  \/ Len(AuxLib!FlattenSeq(SubSeq(ps, lvl - n + 2, lvl))) > Len(ps[lvl - n + 1]))}
  BY Zenon
<1>4. AuxLib!ToGet(ps) = IF lvl <= 1 THEN 1 ELSE IF S # {} THEN AuxLib!Min(S) - 1 ELSE lvl
  BY <1>1, <1>3, Zenon DEF AuxLib!ToGet
<1>5. CASE lvl <= 1 \/ S = {}
  <2>1. AuxLib!ToGet(ps) = lvl
    BY <1>1, <1>4, <1>5
  <2> QED
    BY <1>1, <1>2, <2>1
<1>6. CASE lvl > 1 /\ S # {}
  <2>1. S \in SUBSET Nat /\ \A n \in S : n \in 2..lvl /\ lvl - n + 2 < LIMIT
    BY <1>1, <1>2, <1>3
  <2>2. \E m \in S : \A k \in S : m <= k
    BY ONLY <1>6, <2>1, LeastOf
  <2>3. AuxLib!Min(S) \in S
    BY ONLY <2>2 DEF AuxLib!Min
  <2>4. PICK m : m = AuxLib!Min(S)
    OBVIOUS
  <2>5. m \in 2..lvl /\ lvl - m + 2 < LIMIT /\ AuxLib!ToGet(ps) = m - 1
    <3>1. ~ lvl <= 1
      BY <1>1, <1>6
    <3>2. AuxLib!ToGet(ps) = m - 1
      BY <1>4, <1>6, <3>1, <2>4
    <3>3. m \in 2..lvl /\ lvl - m + 2 < LIMIT
      BY <2>1, <2>3, <2>4, Zenon
    <3> QED
      BY <3>2, <3>3
  <2> QED
    BY <1>1, <1>2, <2>5
<1> QED
  BY <1>1, <1>5, <1>6

\* adjuststack leaves what was added, in few pieces.
LEMMA Adjusted ==
  ASSUME HelpersAssumption, NEW ps, NEW y, Tiles(ps, y), Len(ps) > 0
  PROVE  Tiles(AuxLib!AdjustStack(ps), y) /\ Len(AuxLib!AdjustStack(ps)) < LIMIT
<1>1. PICK c : ps \in Seq(Seq(Nat)) /\ Cuts(ps, c) /\ c[0] = 0 /\ c[Len(ps)] = y
  BY DEF Tiles
<1>2. PICK l \in Nat, n \in Nat : l = Len(ps) /\ n = AuxLib!ToGet(ps) /\ n \in 1..l /\ l - n + 1 < LIMIT
  BY <1>1, Enough
<1>3. PICK p \in Nat : p = l - n /\ p \in 0..l
  BY <1>2
<1>4. PICK a, b : a = SubSeq(ps, 1, p) /\ b = AuxLib!FlattenSeq(SubSeq(ps, p + 1, l))
  BY Zenon
<1>5. AuxLib!AdjustStack(ps) = a \o <<b>>
  <2>1. l - n = p /\ l - n + 1 = p + 1
    BY <1>2, <1>3
  <2> QED
    BY <1>2, <1>4, <2>1, Zenon DEF AuxLib!AdjustStack
<1>6. /\ Tiles(a, c[p]) /\ Len(a) = p /\ b = Run(c[p], y)
      /\ c[p] \in Nat /\ y \in Nat /\ c[p] <= y
  <2>1. p \in 0..Len(ps)
    BY <1>2, <1>3
  <2>2. /\ Tiles(SubSeq(ps, 1, p), c[p]) /\ Len(SubSeq(ps, 1, p)) = p
        /\ AuxLib!FlattenSeq(SubSeq(ps, p + 1, Len(ps))) = Run(c[p], c[Len(ps)])
        /\ c[p] \in Nat /\ c[Len(ps)] \in Nat /\ c[p] <= c[Len(ps)]
    BY ONLY <1>1, <2>1, Parted
  <2> QED
    BY <1>1, <1>2, <1>4, <2>2
<1>7. a \in Seq(Seq(Nat))
  BY <1>6 DEF Tiles
<1>8. b \in Seq(Nat)
  BY ONLY <1>6, ARun, Zenon
<1>9. a \o <<b>> = Append(a, b) /\ Len(Append(a, b)) = p + 1
  BY <1>6, <1>7, <1>8
<1>10. Tiles(Append(a, b), y)
  BY <1>6, OneMore
<1>11. p + 1 < LIMIT
  BY <1>2, <1>3
<1> QED
  BY <1>5, <1>9, <1>10, <1>11, Zenon

\* The pieces and the buffer are runs of what was added, one behind the other.
BufferInv ==
  /\ s3 \in Nat
  /\ \E y \in Nat :
       /\ y <= s3 /\ s3 - y <= LUAL_BUFFERSIZE
       /\ Tiles(s1, y) /\ s2 = Run(y, s3)
       /\ Len(s1) < LIMIT

\* emptybuffer: then the pieces are all that was added.
LEMMA AllInPieces ==
  ASSUME BufferInv
  PROVE  /\ Tiles(AuxLib!Emptied, s3)
         /\ s2 # <<>> => Len(AuxLib!Emptied) > 0
<1>1. PICK y \in Nat : s3 \in Nat /\ y <= s3 /\ Tiles(s1, y) /\ s2 = Run(y, s3)
  BY DEF BufferInv
<1>2. s2 \in Seq(Nat) /\ Len(s2) = s3 - y
  BY <1>1, ARun, Zenon
<1>3. CASE s2 = <<>>
  <2>1. s3 = y
    BY <1>1, <1>2, <1>3
  <2> QED
    BY <1>1, <1>3, <2>1 DEF AuxLib!Emptied
<1>4. CASE s2 # <<>>
  <2>1. AuxLib!Emptied = Append(s1, Run(y, s3))
    BY <1>1, <1>4 DEF AuxLib!Emptied
  <2>2. Tiles(Append(s1, Run(y, s3)), s3)
    BY <1>1, OneMore
  <2>3. s1 \in Seq(Seq(Nat))
    BY <1>1 DEF Tiles
  <2>4. Len(Append(s1, Run(y, s3))) > 0
    BY <1>1, <1>2, <2>3
  <2> QED
    BY <2>1, <2>2, <2>4
<1> QED
  BY <1>3, <1>4

\* Where the string is kept makes no difference to it.
LEMMA BufferMeans ==
  ASSUME HelpersAssumption, BufferInv
  PROVE  AuxLib!InOrder /\ AuxLib!FewPieces
<1>1. PICK y \in Nat :
        /\ s3 \in Nat /\ y <= s3 /\ s3 - y <= LUAL_BUFFERSIZE
        /\ Tiles(s1, y) /\ s2 = Run(y, s3) /\ Len(s1) < LIMIT
  BY DEF BufferInv
<1>2. AuxLib!FlattenSeq(s1) = Run(0, y)
  BY <1>1, Together
<1>3. Run(0, y) \o Run(y, s3) = Run(0, s3)
  <2>1. 0 \in Nat /\ 0 <= y
    OBVIOUS
  <2> QED
    BY ONLY <1>1, <2>1, RunsJoin, Zenon
<1>4. Run(0, s3) = [i \in 1..s3 |-> i]
  <2>1. s3 - 0 = s3 /\ \A i \in 1..s3 : 0 + i = i
    BY <1>1
  <2> QED
    BY <2>1 DEF Run
<1>5. Len(s2) = s3 - y
  BY <1>1, ARun, Zenon
<1> QED
  BY <1>1, <1>2, <1>3, <1>4, <1>5, Zenon DEF AuxLib!InOrder, AuxLib!FewPieces

\* An empty buffer, of which the pieces have all there is
LEMMA NothingThere ==
  ASSUME HelpersAssumption
  PROVE  Tiles(<<>>, 0) /\ <<>> = Run(0, 0) /\ Len(<<>>) < LIMIT /\ 0 - 0 <= LUAL_BUFFERSIZE
<1>1. Tiles(<<>>, 0)
  BY NoPieces
<1>2. Run(0, 0) \in Seq(Nat) /\ Len(Run(0, 0)) = 0
  <2>1. 0 \in Nat /\ 0 <= 0 /\ 0 - 0 = 0
    OBVIOUS
  <2> QED
    BY <2>1, ARun, Zenon
<1>3. <<>> = Run(0, 0)
  BY <1>2
<1>4. Len(<<>>) < LIMIT /\ 0 - 0 <= LUAL_BUFFERSIZE
  BY DEF HelpersAssumption
<1> QED
  BY <1>1, <1>3, <1>4

\* The next state of the buffer, of which the pieces have what was added up to y
Becomes(y) ==
  /\ s3' \in Nat /\ y <= s3' /\ s3' - y <= LUAL_BUFFERSIZE
  /\ Tiles(s1', y) /\ s2' = Run(y, s3') /\ Len(s1') < LIMIT

\* luaL_addchar
LEMMA CharAdded ==
  ASSUME HelpersAssumption, BufferInv, AuxLib!AddChar
  PROVE  BufferInv'
<1>1. PICK y \in Nat :
        /\ s3 \in Nat /\ y <= s3 /\ s3 - y <= LUAL_BUFFERSIZE
        /\ Tiles(s1, y) /\ s2 = Run(y, s3) /\ Len(s1) < LIMIT
  BY DEF BufferInv
<1>2. s2 \in Seq(Nat) /\ Len(s2) = s3 - y /\ LUAL_BUFFERSIZE \in Nat /\ LUAL_BUFFERSIZE > 0
  <2>1. s2 \in Seq(Nat) /\ Len(s2) = s3 - y
    BY <1>1, ARun, Zenon
  <2>2. LUAL_BUFFERSIZE \in Nat /\ LUAL_BUFFERSIZE > 0
    BY DEF HelpersAssumption
  <2> QED
    BY <2>1, <2>2
<1>3. s3' = s3 + 1 /\ s3' \in Nat
  BY <1>1 DEF AuxLib!AddChar
<1>4. Run(s3, s3 + 1) = <<s3 + 1>>
  <2>1. s3 \in Nat /\ s3 + 1 \in Nat /\ s3 <= s3 + 1 /\ s3 + 1 - s3 = 1
    BY <1>1
  <2>2. Run(s3, s3 + 1) = [i \in 1..1 |-> s3 + i]
    BY <2>1 DEF Run
  <2> QED
    BY <2>2
<1>5. CASE Len(s2) = LUAL_BUFFERSIZE
  <2>1. s1' = AuxLib!AdjustStack(AuxLib!Emptied) /\ s2' = <<s3 + 1>>
    BY <1>5 DEF AuxLib!AddChar
  <2>2. Tiles(AuxLib!Emptied, s3) /\ Len(AuxLib!Emptied) > 0
    BY <1>2, <1>5, AllInPieces
  <2>3. Tiles(s1', s3) /\ Len(s1') < LIMIT
    BY <2>1, <2>2, Adjusted
  <2>4. s3 <= s3' /\ s3' - s3 <= LUAL_BUFFERSIZE
    BY <1>1, <1>2, <1>3
  <2>5. Becomes(s3)
    BY <1>3, <1>4, <2>1, <2>3, <2>4 DEF Becomes
  <2> QED
    BY <1>1, <2>5, Zenon DEF Becomes, BufferInv
<1>6. CASE Len(s2) # LUAL_BUFFERSIZE
  <2>1. s1' = s1 /\ s2' = Append(s2, s3 + 1)
    BY <1>6 DEF AuxLib!AddChar
  <2>2. Append(s2, s3 + 1) = s2 \o <<s3 + 1>>
    BY <1>1, <1>2
  <2>3. Run(y, s3) \o Run(s3, s3 + 1) = Run(y, s3 + 1)
    <3>1. y \in Nat /\ s3 \in Nat /\ s3 + 1 \in Nat /\ y <= s3 /\ s3 <= s3 + 1
      BY <1>1
    <3> QED
      BY ONLY <3>1, RunsJoin, Zenon
  <2>4. y <= s3' /\ s3' - y <= LUAL_BUFFERSIZE
    BY <1>1, <1>2, <1>3, <1>6
  <2>5. Becomes(y)
    BY <1>1, <1>3, <1>4, <2>1, <2>2, <2>3, <2>4, Zenon DEF Becomes
  <2> QED
    BY <1>1, <2>5, Zenon DEF Becomes, BufferInv
<1> QED
  BY <1>5, <1>6

\* luaL_addvalue
LEMMA ValueAdded ==
  ASSUME HelpersAssumption, BufferInv, NEW length \in Nat, AuxLib!AddValue(length)
  PROVE  BufferInv'
<1>1. PICK y \in Nat :
        /\ s3 \in Nat /\ y <= s3 /\ s3 - y <= LUAL_BUFFERSIZE
        /\ Tiles(s1, y) /\ s2 = Run(y, s3) /\ Len(s1) < LIMIT
  BY DEF BufferInv
<1>2. s2 \in Seq(Nat) /\ Len(s2) = s3 - y /\ LUAL_BUFFERSIZE \in Nat
  BY <1>1, ARun, Zenon DEF HelpersAssumption
<1>3. PICK z \in Nat : z = s3 + length /\ s3 <= z /\ z - s3 = length
  BY <1>1
<1>4. s3' = z
  BY <1>3 DEF AuxLib!AddValue
<1>5. Run(s3, z) = [i \in 1..length |-> s3 + i]
  BY <1>3 DEF Run
<1>6. CASE length <= LUAL_BUFFERSIZE - Len(s2)
  <2>1. s1' = s1 /\ s2' = s2 \o Run(s3, z)
    BY <1>5, <1>6 DEF AuxLib!AddValue
  <2>2. Run(y, s3) \o Run(s3, z) = Run(y, z)
    BY ONLY <1>1, <1>3, RunsJoin, Zenon
  <2>3. y <= z /\ z - y <= LUAL_BUFFERSIZE
    BY <1>1, <1>2, <1>3, <1>6
  <2>4. Becomes(y)
    BY <1>1, <1>4, <2>1, <2>2, <2>3 DEF Becomes
  <2> QED
    BY <1>1, <2>4, Zenon DEF Becomes, BufferInv
<1>7. CASE ~ length <= LUAL_BUFFERSIZE - Len(s2)
  <2>1. s1' = AuxLib!AdjustStack(Append(AuxLib!Emptied, Run(s3, z))) /\ s2' = <<>>
    BY <1>5, <1>7 DEF AuxLib!AddValue
  <2>2. Tiles(AuxLib!Emptied, s3)
    BY AllInPieces
  <2>3. Tiles(Append(AuxLib!Emptied, Run(s3, z)), z)
    BY <1>1, <1>3, <2>2, OneMore
  <2>4. Len(Append(AuxLib!Emptied, Run(s3, z))) > 0
    <3>1. PICK e, r : e = AuxLib!Emptied /\ r = Run(s3, z)
      OBVIOUS
    <3>2. e \in Seq(Seq(Nat)) /\ r \in Seq(Nat)
      BY <1>1, <1>3, <2>2, <3>1, ARun DEF Tiles
    <3>3. Len(Append(e, r)) > 0
      BY ONLY <3>2
    <3> QED
      BY <3>1, <3>3
  <2>5. Tiles(s1', z) /\ Len(s1') < LIMIT
    BY <2>1, <2>3, <2>4, Adjusted, Zenon
  <2>6. z <= z /\ z - z = 0 /\ 0 <= LUAL_BUFFERSIZE
    BY <1>2
  <2>7. Run(z, z) = <<>>
    <3>1. Run(z, z) \in Seq(Nat) /\ Len(Run(z, z)) = 0
      BY <2>6, ARun, Zenon
    <3> QED
      BY ONLY <3>1
  <2>8. Becomes(z)
    BY <1>4, <2>1, <2>5, <2>6, <2>7 DEF Becomes
  <2> QED
    BY <2>8, Zenon DEF Becomes, BufferInv
<1> QED
  BY <1>6, <1>7

\* luaL_pushresult
LEMMA ResultPushed ==
  ASSUME HelpersAssumption, BufferInv, AuxLib!PushResult
  PROVE  BufferInv'
<1>1. s3 \in Nat /\ LUAL_BUFFERSIZE \in Nat /\ LIMIT \in Nat /\ LIMIT > 1
  BY DEF BufferInv, HelpersAssumption
<1>2. s1' = <<AuxLib!FlattenSeq(AuxLib!Emptied)>> /\ s2' = <<>> /\ s3' = s3
  BY DEF AuxLib!PushResult
<1>3. AuxLib!FlattenSeq(AuxLib!Emptied) = Run(0, s3)
  BY AllInPieces, Together
<1>4. s1' = Append(<<>>, Run(0, s3))
  BY <1>2, <1>3
<1>5. Tiles(Append(<<>>, Run(0, s3)), s3)
  <2>1. 0 \in Nat /\ 0 <= s3
    BY <1>1
  <2> QED
    BY <1>1, <2>1, NoPieces, OneMore, Zenon
<1>6. s3 <= s3 /\ s3 - s3 = 0 /\ 0 <= LUAL_BUFFERSIZE
  BY <1>1
<1>7. Run(s3, s3) = <<>>
  <2>1. Run(s3, s3) \in Seq(Nat) /\ Len(Run(s3, s3)) = 0
    BY <1>1, <1>6, ARun, Zenon
  <2> QED
    BY ONLY <2>1
<1>8. Len(s1') < LIMIT
  BY <1>1, <1>2
<1>9. Becomes(s3)
  BY <1>1, <1>2, <1>4, <1>5, <1>6, <1>7, <1>8 DEF Becomes
<1> QED
  BY <1>1, <1>9, Zenon DEF Becomes, BufferInv

\* A step of the buffer
LEMMA BufferSteps ==
  ASSUME HelpersAssumption, BufferInv, AuxLib!BufferNext
  PROVE  BufferInv'
<1>1. CASE AuxLib!AddChar
  BY <1>1, CharAdded
<1>2. CASE \E length \in 0..AuxLib!Min({LUAL_BUFFERSIZE + 1, MaxAdded - s3}) : AuxLib!AddValue(length)
  <2>1. PICK a, b : a = LUAL_BUFFERSIZE + 1 /\ b = MaxAdded - s3
    OBVIOUS
  <2>2. a \in Int /\ b \in Int
    BY <2>1 DEF BufferInv, HelpersAssumption
  <2>3. \E x \in {a, b} : \A z \in {a, b} : x <= z
    BY ONLY <2>2
  <2>4. AuxLib!Min({a, b}) \in {a, b}
    BY ONLY <2>3 DEF AuxLib!Min
  <2>5. PICK m \in Int : m = AuxLib!Min({a, b})
    BY <2>2, <2>4
  <2>6. PICK length \in 0..m : AuxLib!AddValue(length)
    BY <1>2, <2>1, <2>5
  <2>7. length \in Nat
    BY <2>5, <2>6
  <2> QED
    BY <2>6, <2>7, ValueAdded
<1>3. CASE AuxLib!PushResult
  BY <1>3, ResultPushed
<1>4. CASE AuxLib!BuffInit
  <2>1. s1' = <<>> /\ s2' = <<>> /\ s3' = 0
    BY <1>4 DEF AuxLib!BuffInit
  <2>2. 0 \in Nat /\ 0 <= 0
    OBVIOUS
  <2>3. Becomes(0)
    BY <2>1, <2>2, NothingThere DEF Becomes
  <2> QED
    BY <2>2, <2>3, Zenon DEF Becomes, BufferInv
<1> QED
  BY <1>1, <1>2, <1>3, <1>4 DEF AuxLib!BufferNext

-----------------------------------------------------------------------------
(* References: the free ones are a list, the others are held *)

\* What a key of the list of the n free ones has: the next one, or nothing
Link(fl, n, i) == IF i <= n THEN <<"free", fl[i]>> ELSE Nil

\* Keys 1 to m are in use: the n of fl are free and linked in that order, and each
\* of the others is held for one value.  There are no more than values.
Kept(tab, has, m, n, fl) ==
  /\ m \in 0..MaxRefs /\ n \in Nat /\ fl \in [1..n -> 1..m]
  /\ \A i, j \in 1..n : fl[i] = fl[j] => i = j
  /\ tab = [k \in 0..MaxRefs |-> tab[k]]
  /\ tab[0] = Link(fl, n, 1)
  /\ \A i \in 1..n : tab[fl[i]] = Link(fl, n, i + 1)
  /\ \A k \in m + 1..MaxRefs : tab[k] = Nil
  /\ has \in [Referred -> 1..m \cup {-2}]
  /\ \A v \in Referred : has[v] # -2 => tab[has[v]] = <<"value", v>> /\ \A i \in 1..n : has[v] # fl[i]
  /\ \A k \in 1..m : (\E i \in 1..n : fl[i] = k) \/ (\E v \in Referred : has[v] = k)
  /\ m <= Cardinality(Referred)

ReferencesInv == \E m, n, fl : Kept(s1, s2, m, n, fl)

\* Two fields of a table are assigned.
LEMMA TwoUpdates ==
  ASSUME NEW D, NEW g, g = [k \in D |-> g[k]], NEW a \in D, NEW b \in D, a # b, NEW x, NEW y,
         NEW h, h = [g EXCEPT ![a] = x, ![b] = y]
  PROVE  h = [k \in D |-> h[k]] /\ h[a] = x /\ h[b] = y /\ \A k \in D : k # a /\ k # b => h[k] = g[k]
<1>1. DOMAIN g = D
  BY Zenon, Zenon
<1>2. h = [k \in D |-> IF k = b THEN y ELSE IF k = a THEN x ELSE g[k]]
  BY <1>1
<1> QED
  BY ONLY <1>2, a \in D, b \in D, a # b

\* luaL_ref with a free key: the first one is given.
LEMMA FirstIsGiven ==
  ASSUME HelpersAssumption, NEW tab, NEW has, NEW m, NEW n, NEW fl, Kept(tab, has, m, n, fl), n > 0,
         NEW v \in Referred, has[v] = -2,
         NEW tab2, tab2 = [tab EXCEPT ![0] = tab[fl[1]], ![fl[1]] = <<"value", v>>],
         NEW has2, has2 = [has EXCEPT ![v] = fl[1]]
  PROVE  \E f : Kept(tab2, has2, m, n - 1, f)
<1>1. PICK r : r = fl[1]
  OBVIOUS
<1>2. /\ m \in 0..MaxRefs /\ n \in Nat /\ n > 0 /\ fl \in [1..n -> 1..m] /\ MaxRefs \in Nat
      /\ \A i, j \in 1..n : fl[i] = fl[j] => i = j
      /\ tab = [k \in 0..MaxRefs |-> tab[k]]
      /\ \A i \in 1..n : tab[fl[i]] = Link(fl, n, i + 1)
      /\ \A k \in m + 1..MaxRefs : tab[k] = Nil
      /\ m <= Cardinality(Referred)
  BY Zenon DEF Kept, HelpersAssumption
<1>3. /\ has \in [Referred -> 1..m \cup {-2}]
      /\ \A w \in Referred : has[w] # -2 => tab[has[w]] = <<"value", w>> /\ \A i \in 1..n : has[w] # fl[i]
      /\ \A k \in 1..m : (\E i \in 1..n : fl[i] = k) \/ (\E w \in Referred : has[w] = k)
  BY Zenon DEF Kept
<1>4. r \in 1..m /\ r \in 1..MaxRefs /\ r # 0 /\ 1 \in 1..n
  <2>1. 1 \in 1..n
    BY <1>2
  <2>2. fl[1] \in 1..m
    BY <1>2, <2>1
  <2> QED
    BY <1>1, <1>2, <2>1, <2>2
<1>5. /\ tab2 = [k \in 0..MaxRefs |-> tab2[k]]
      /\ tab2[0] = tab[r] /\ tab2[r] = <<"value", v>>
      /\ \A k \in 1..MaxRefs : k # r => tab2[k] = tab[k]
  <2>1. 0 \in 0..MaxRefs /\ r \in 0..MaxRefs /\ \A k \in 1..MaxRefs : k \in 0..MaxRefs /\ k # 0
    BY <1>2, <1>4
  <2>2. tab2 = [tab EXCEPT ![0] = tab[r], ![r] = <<"value", v>>]
    BY <1>1
  <2>3. PICK D, x, y : D = 0..MaxRefs /\ x = tab[r] /\ y = <<"value", v>>
    BY Zenon
  <2>4. tab = [k \in D |-> tab[k]] /\ 0 \in D /\ r \in D /\ 0 # r /\ tab2 = [tab EXCEPT ![0] = x, ![r] = y]
    BY <1>2, <1>4, <2>1, <2>2, <2>3, Zenon
  <2>5. tab2 = [k \in D |-> tab2[k]] /\ tab2[0] = x /\ tab2[r] = y /\ \A k \in D : k # 0 /\ k # r => tab2[k] = tab[k]
    BY ONLY <2>4, TwoUpdates, Zenon
  <2> QED
    BY <2>1, <2>3, <2>5, Zenon
<1>6. /\ has2 \in [Referred -> 1..m \cup {-2}] /\ has2[v] = r
      /\ \A w \in Referred : w # v => has2[w] = has[w]
  BY <1>1, <1>3, <1>4
<1>7. PICK f : f = [i \in 1..n - 1 |-> fl[i + 1]]
  BY Zenon
<1>8. /\ f \in [1..n - 1 -> 1..m] /\ n - 1 \in Nat
      /\ \A i \in 1..n - 1 : f[i] = fl[i + 1] /\ i + 1 \in 1..n /\ fl[i + 1] # r /\ fl[i + 1] \in 1..MaxRefs
  <2>1. \A i \in 1..n - 1 : i + 1 \in 1..n /\ i + 1 # 1 /\ f[i] = fl[i + 1]
    BY <1>2, <1>7
  <2>2. \A i \in 1..n : fl[i] \in 1..m /\ fl[i] \in 1..MaxRefs
    BY <1>2
  <2>3. n - 1 \in Nat
    BY <1>2
  <2>4. \A i \in 1..n - 1 : fl[i + 1] # r
    BY <1>1, <1>2, <1>4, <2>1, Zenon
  <2> QED
    BY <1>7, <2>1, <2>2, <2>3, <2>4
<1>9. \A i, j \in 1..n - 1 : f[i] = f[j] => i = j
  <2> SUFFICES ASSUME NEW i \in 1..n - 1, NEW j \in 1..n - 1, f[i] = f[j] PROVE i = j
    OBVIOUS
  <2>1. i + 1 = j + 1
    BY <1>2, <1>8
  <2> QED
    BY <2>1
<1>10. \A i \in 0..n - 1 : Link(f, n - 1, i + 1) = Link(fl, n, i + 2)
  <2> SUFFICES ASSUME NEW i \in 0..n - 1 PROVE Link(f, n - 1, i + 1) = Link(fl, n, i + 2)
    OBVIOUS
  <2>1. CASE i + 1 <= n - 1
    <3>1. i + 1 \in 1..n - 1 /\ i + 1 + 1 = i + 2 /\ i + 2 <= n
      BY <1>2, <2>1
    <3> QED
      BY <1>8, <2>1, <3>1, Zenon DEF Link
  <2>2. CASE ~ i + 1 <= n - 1
    <3>1. ~ i + 2 <= n
      BY <1>2, <2>2
    <3> QED
      BY <2>2, <3>1 DEF Link
  <2> QED
    BY <2>1, <2>2
<1>11. tab2[0] = Link(f, n - 1, 1)
  <2>1. tab[r] = Link(fl, n, 1 + 1)
    BY <1>1, <1>2, <1>4, Zenon
  <2>2. 0 \in 0..n - 1 /\ 0 + 1 = 1 /\ 0 + 2 = 1 + 1
    BY <1>2
  <2> QED
    BY <1>5, <1>10, <2>1, <2>2, Zenon
<1>12. \A i \in 1..n - 1 : tab2[f[i]] = Link(f, n - 1, i + 1)
  <2> SUFFICES ASSUME NEW i \in 1..n - 1 PROVE tab2[f[i]] = Link(f, n - 1, i + 1)
    BY Zenon
  <2>1. tab2[f[i]] = tab[fl[i + 1]]
    BY <1>5, <1>8, Zenon
  <2>2. i + 1 + 1 = i + 2 /\ i \in 0..n - 1
    BY <1>8
  <2>3. tab[fl[i + 1]] = Link(fl, n, i + 1 + 1)
    <3>1. PICK j : j = i + 1 /\ j \in 1..n
      BY <1>8
    <3> QED
      BY <1>2, <3>1, Zenon
  <2> QED
    BY <1>10, <2>1, <2>2, <2>3
<1>13. \A k \in m + 1..MaxRefs : tab2[k] = Nil
  <2> SUFFICES ASSUME NEW k \in m + 1..MaxRefs PROVE tab2[k] = Nil
    BY Zenon
  <2>1. k \in 1..MaxRefs /\ k # r
    BY <1>2, <1>4
  <2> QED
    BY <1>2, <1>5, <2>1, Zenon
<1>14. \A w \in Referred : has2[w] # -2 =>
         tab2[has2[w]] = <<"value", w>> /\ \A i \in 1..n - 1 : has2[w] # f[i]
  <2> SUFFICES ASSUME NEW w \in Referred, has2[w] # -2
               PROVE  tab2[has2[w]] = <<"value", w>> /\ \A i \in 1..n - 1 : has2[w] # f[i]
    BY Zenon
  <2>1. CASE w = v
    BY <1>5, <1>6, <1>8, <2>1, Zenon
  <2>2. CASE w # v
    <3>1. has2[w] = has[w] /\ has[w] # r
      BY <1>1, <1>3, <1>4, <1>6, <2>2
    <3>2. has[w] \in 1..MaxRefs
      BY <1>2, <1>3, <3>1
    <3>3. tab2[has2[w]] = <<"value", w>>
      BY <1>3, <1>5, <3>1, <3>2
    <3>4. \A i \in 1..n - 1 : has2[w] # f[i]
      BY <1>3, <1>8, <3>1
    <3> QED
      BY <3>3, <3>4, Zenon
  <2> QED
    BY <2>1, <2>2, Zenon
<1>15. \A k \in 1..m : (\E i \in 1..n - 1 : f[i] = k) \/ (\E w \in Referred : has2[w] = k)
  <2> SUFFICES ASSUME NEW k \in 1..m, k # r
               PROVE  (\E i \in 1..n - 1 : f[i] = k) \/ (\E w \in Referred : has2[w] = k)
    BY <1>6
  <2>1. CASE \E i \in 1..n : fl[i] = k
    <3>1. PICK i \in 1..n : fl[i] = k
      BY <2>1
    <3>2. i # 1
      BY <1>1, <3>1
    <3>3. i - 1 \in 1..n - 1 /\ i - 1 + 1 = i
      BY <1>2, <3>2
    <3> QED
      BY <1>8, <3>1, <3>3
  <2>2. CASE \E w \in Referred : has[w] = k
    <3>1. PICK w \in Referred : has[w] = k
      BY <2>2
    <3>2. w # v
      BY <3>1
    <3> QED
      BY <1>6, <3>1, <3>2
  <2> QED
    BY <1>3, <2>1, <2>2
<1>16. Kept(tab2, has2, m, n - 1, f)
  BY ONLY <1>2, <1>5, <1>6, <1>8, <1>9, <1>11, <1>12, <1>13, <1>14, <1>15, Zenon DEF Kept
<1> QED
  BY <1>16

\* luaL_unref: the key is the first of the free ones.
LEMMA FreedIsFirst ==
  ASSUME HelpersAssumption, NEW tab, NEW has, NEW m, NEW n, NEW fl, Kept(tab, has, m, n, fl),
         NEW v \in Referred, has[v] # -2,
         NEW tab2, tab2 = [tab EXCEPT ![has[v]] = tab[0], ![0] = <<"free", has[v]>>],
         NEW has2, has2 = [has EXCEPT ![v] = -2]
  PROVE  \E f : Kept(tab2, has2, m, n + 1, f)
<1>1. PICK r : r = has[v]
  OBVIOUS
<1>2. /\ m \in 0..MaxRefs /\ n \in Nat /\ fl \in [1..n -> 1..m] /\ MaxRefs \in Nat
      /\ \A i, j \in 1..n : fl[i] = fl[j] => i = j
      /\ tab = [k \in 0..MaxRefs |-> tab[k]]
      /\ tab[0] = Link(fl, n, 1)
      /\ \A i \in 1..n : tab[fl[i]] = Link(fl, n, i + 1)
      /\ \A k \in m + 1..MaxRefs : tab[k] = Nil
      /\ m <= Cardinality(Referred)
  BY Zenon DEF Kept, HelpersAssumption
<1>3. /\ has \in [Referred -> 1..m \cup {-2}]
      /\ \A w \in Referred : has[w] # -2 => tab[has[w]] = <<"value", w>> /\ \A i \in 1..n : has[w] # fl[i]
      /\ \A k \in 1..m : (\E i \in 1..n : fl[i] = k) \/ (\E w \in Referred : has[w] = k)
  BY Zenon DEF Kept
<1>4. r \in 1..m /\ r \in 1..MaxRefs /\ r # 0 /\ \A i \in 1..n : fl[i] # r
  <2>1. has[v] \in 1..m
    BY <1>3
  <2>2. \A i \in 1..n : fl[i] # r
    BY <1>1, <1>3
  <2> QED
    BY <1>1, <1>2, <2>1, <2>2
<1>5. /\ tab2 = [k \in 0..MaxRefs |-> tab2[k]]
      /\ tab2[r] = tab[0] /\ tab2[0] = <<"free", r>>
      /\ \A k \in 1..MaxRefs : k # r => tab2[k] = tab[k]
  <2>1. 0 \in 0..MaxRefs /\ r \in 0..MaxRefs /\ \A k \in 1..MaxRefs : k \in 0..MaxRefs /\ k # 0
    BY <1>2, <1>4
  <2>2. tab2 = [tab EXCEPT ![r] = tab[0], ![0] = <<"free", r>>]
    BY <1>1
  <2>3. PICK D, x, y : D = 0..MaxRefs /\ x = tab[0] /\ y = <<"free", r>>
    BY Zenon
  <2>4. tab = [k \in D |-> tab[k]] /\ 0 \in D /\ r \in D /\ 0 # r /\ tab2 = [tab EXCEPT ![r] = x, ![0] = y]
    BY <1>2, <1>4, <2>1, <2>2, <2>3, Zenon
  <2>5. tab2 = [k \in D |-> tab2[k]] /\ tab2[r] = x /\ tab2[0] = y /\ \A k \in D : k # r /\ k # 0 => tab2[k] = tab[k]
    BY ONLY <2>4, TwoUpdates, Zenon
  <2> QED
    BY <2>1, <2>3, <2>5, Zenon
<1>6. /\ has2 \in [Referred -> 1..m \cup {-2}] /\ has2[v] = -2
      /\ \A w \in Referred : w # v => has2[w] = has[w]
  BY <1>1, <1>3, <1>4
<1>7. PICK f : f = [i \in 1..n + 1 |-> IF i = 1 THEN r ELSE fl[i - 1]]
  BY Zenon
<1>8. /\ f \in [1..n + 1 -> 1..m] /\ n + 1 \in Nat /\ f[1] = r /\ 1 \in 1..n + 1
      /\ \A i \in 1..n : f[i + 1] = fl[i] /\ i + 1 \in 1..n + 1 /\ fl[i] \in 1..MaxRefs
      /\ \A i \in 1..n + 1 : i # 1 => i - 1 \in 1..n /\ f[i] = fl[i - 1]
  <2>1. \A i \in 1..n + 1 : i # 1 => i - 1 \in 1..n
    BY <1>2
  <2>2. \A i \in 1..n : i + 1 \in 1..n + 1 /\ i + 1 # 1 /\ i + 1 - 1 = i
    BY <1>2
  <2>3. 1 \in 1..n + 1 /\ n + 1 \in Nat
    BY <1>2
  <2>4. \A i \in 1..n : fl[i] \in 1..m /\ fl[i] \in 1..MaxRefs
    BY <1>2
  <2>5. f \in [1..n + 1 -> 1..m]
    BY <1>4, <1>7, <2>1, <2>4
  <2> QED
    BY <1>7, <2>1, <2>2, <2>3, <2>4, <2>5
<1>9. \A i, j \in 1..n + 1 : f[i] = f[j] => i = j
  <2> SUFFICES ASSUME NEW i \in 1..n + 1, NEW j \in 1..n + 1, f[i] = f[j], i # j PROVE FALSE
    OBVIOUS
  <2>1. CASE i = 1 \/ j = 1
    BY <1>4, <1>8, <2>1
  <2>2. CASE i # 1 /\ j # 1
    <3>1. i - 1 \in 1..n /\ j - 1 \in 1..n /\ fl[i - 1] = fl[j - 1]
      BY <1>8, <2>2
    <3>2. i - 1 = j - 1
      BY <1>2, <3>1, Zenon
    <3> QED
      BY <3>2
  <2> QED
    BY <2>1, <2>2
<1>10. \A i \in 1..n + 1 : Link(f, n + 1, i + 1) = Link(fl, n, i)
  <2> SUFFICES ASSUME NEW i \in 1..n + 1 PROVE Link(f, n + 1, i + 1) = Link(fl, n, i)
    OBVIOUS
  <2>1. CASE i <= n
    <3>1. i \in 1..n /\ i + 1 <= n + 1
      BY <1>2, <2>1
    <3> QED
      BY <1>8, <2>1, <3>1 DEF Link
  <2>2. CASE ~ i <= n
    <3>1. ~ i + 1 <= n + 1
      BY <1>2, <2>2
    <3> QED
      BY <2>2, <3>1 DEF Link
  <2> QED
    BY <2>1, <2>2
<1>11. tab2[0] = Link(f, n + 1, 1)
  <2>1. 1 <= n + 1
    BY <1>2
  <2> QED
    BY <1>5, <1>8, <2>1 DEF Link
<1>12. \A i \in 1..n + 1 : tab2[f[i]] = Link(f, n + 1, i + 1)
  <2> SUFFICES ASSUME NEW i \in 1..n + 1 PROVE tab2[f[i]] = Link(f, n + 1, i + 1)
    BY Zenon
  <2>1. CASE i = 1
    BY <1>2, <1>5, <1>8, <1>10, <2>1
  <2>2. CASE i # 1
    <3>1. i - 1 \in 1..n /\ f[i] = fl[i - 1] /\ fl[i - 1] # r /\ fl[i - 1] \in 1..MaxRefs
      BY <1>4, <1>8, <2>2
    <3>2. tab2[f[i]] = tab[fl[i - 1]]
      BY <1>5, <3>1
    <3>3. tab[fl[i - 1]] = Link(fl, n, i - 1 + 1) /\ i - 1 + 1 = i
      <4>1. PICK j : j = i - 1 /\ j \in 1..n
        BY <3>1
      <4>2. tab[fl[j]] = Link(fl, n, j + 1)
        BY <1>2, <4>1, Zenon
      <4>3. i - 1 + 1 = i
        OBVIOUS
      <4> QED
        BY <4>1, <4>2, <4>3
    <3> QED
      BY <1>10, <3>2, <3>3
  <2> QED
    BY <2>1, <2>2
<1>13. \A k \in m + 1..MaxRefs : tab2[k] = Nil
  <2> SUFFICES ASSUME NEW k \in m + 1..MaxRefs PROVE tab2[k] = Nil
    BY Zenon
  <2>1. k \in 1..MaxRefs /\ k # r
    BY <1>2, <1>4
  <2> QED
    BY <1>2, <1>5, <2>1, Zenon
<1>14. \A w \in Referred : has2[w] # -2 =>
         tab2[has2[w]] = <<"value", w>> /\ \A i \in 1..n + 1 : has2[w] # f[i]
  <2> SUFFICES ASSUME NEW w \in Referred, has2[w] # -2
               PROVE  tab2[has2[w]] = <<"value", w>> /\ \A i \in 1..n + 1 : has2[w] # f[i]
    BY Zenon
  <2>1. w # v /\ has2[w] = has[w] /\ tab[has[w]] = <<"value", w>>
    BY <1>3, <1>6
  <2>2. has[w] # r
    <3>1. has[w] = has[v] => <<"value", w>> = <<"value", v>>
      BY <1>3, <2>1
    <3> QED
      BY <1>1, <2>1, <3>1
  <2>3. has[w] \in 1..MaxRefs
    BY <1>2, <1>3, <2>1
  <2>4. tab2[has2[w]] = <<"value", w>>
    BY <1>5, <2>1, <2>2, <2>3
  <2>5. \A i \in 1..n + 1 : has2[w] # f[i]
    <3>1. \A i \in 1..n : has[w] # fl[i]
      BY <1>3, <2>1
    <3>2. ASSUME NEW i \in 1..n + 1 PROVE has[w] # f[i]
      <4>1. CASE i = 1
        BY <1>8, <2>2, <4>1
      <4>2. CASE i # 1
        BY <1>8, <3>1, <4>2
      <4> QED
        BY <4>1, <4>2
    <3> QED
      BY <2>1, <3>2
  <2> QED
    BY <2>4, <2>5, Zenon
<1>15. \A k \in 1..m : (\E i \in 1..n + 1 : f[i] = k) \/ (\E w \in Referred : has2[w] = k)
  <2> SUFFICES ASSUME NEW k \in 1..m, k # r
               PROVE  (\E i \in 1..n + 1 : f[i] = k) \/ (\E w \in Referred : has2[w] = k)
    BY <1>8, Zenon
  <2>1. CASE \E i \in 1..n : fl[i] = k
    BY <1>8, <2>1
  <2>2. CASE \E w \in Referred : has[w] = k
    <3>1. PICK w \in Referred : has[w] = k
      BY <2>2
    <3>2. w # v
      BY <1>1, <3>1
    <3> QED
      BY <1>6, <3>1, <3>2
  <2> QED
    BY <1>3, <2>1, <2>2
<1>16. Kept(tab2, has2, m, n + 1, f)
  BY ONLY <1>2, <1>5, <1>6, <1>8, <1>9, <1>11, <1>12, <1>13, <1>14, <1>15, Zenon DEF Kept
<1> QED
  BY <1>16

\* While no key is free there are fewer keys than values, if one is not held.
LEMMA RoomForOne ==
  ASSUME HelpersAssumption, NEW tab, NEW has, NEW m, NEW fl, Kept(tab, has, m, 0, fl),
         NEW v \in Referred, has[v] = -2
  PROVE  m + 1 <= Cardinality(Referred)
<1>1. m \in Nat /\ \A k \in 1..m : \E w \in Referred : has[w] = k
  BY DEF Kept, HelpersAssumption
<1>2. PICK g : g = [k \in 1..m |-> CHOOSE w \in Referred : has[w] = k]
  BY Zenon
<1>3. \A k \in 1..m : g[k] \in Referred /\ has[g[k]] = k
  BY <1>1, <1>2
<1>4. g \in [1..m -> Referred \ {v}]
  <2>1. \A k \in 1..m : g[k] \in Referred \ {v}
    <3> SUFFICES ASSUME NEW k \in 1..m PROVE g[k] # v
      BY <1>3
    <3>1. has[g[k]] = k /\ k # -2
      BY <1>3
    <3> QED
      BY <3>1
  <2> QED
    BY <1>2, <2>1
<1>5. g \in Injection(1..m, Referred \ {v})
  BY <1>3, <1>4 DEF Injection, IsInjective
<1>6. IsFiniteSet(Referred)
  BY DEF HelpersAssumption
<1>7. /\ IsFiniteSet(Referred \ {v}) /\ Cardinality(Referred \ {v}) = Cardinality(Referred) - 1
      /\ Cardinality(Referred) \in Nat
  BY <1>6, FS_RemoveElement, FS_CardinalityType
<1>8. Cardinality(1..m) <= Cardinality(Referred \ {v})
  BY ONLY <1>5, <1>7, FS_Injection
<1>9. Cardinality(1..m) = m
  <2>1. 1 \in Int /\ m \in Int
    BY <1>1
  <2>2. Cardinality(1..m) = IF 1 > m THEN 0 ELSE m - 1 + 1
    BY ONLY <2>1, FS_Interval
  <2> QED
    BY <1>1, <2>2
<1> QED
  BY <1>1, <1>7, <1>8, <1>9

\* luaL_ref without a free key: the next one is given.
LEMMA NextIsGiven ==
  ASSUME HelpersAssumption, NEW tab, NEW has, NEW m, NEW fl, Kept(tab, has, m, 0, fl),
         NEW v \in Referred, has[v] = -2, m + 1 <= MaxRefs,
         NEW tab2, tab2 = [tab EXCEPT ![0] = tab[0], ![m + 1] = <<"value", v>>],
         NEW has2, has2 = [has EXCEPT ![v] = m + 1]
  PROVE  \E f : Kept(tab2, has2, m + 1, 0, f)
<1>1. PICK r : r = m + 1
  OBVIOUS
<1>2. /\ m \in Nat /\ m \in 0..MaxRefs /\ MaxRefs \in Nat
      /\ tab = [k \in 0..MaxRefs |-> tab[k]]
      /\ \A k \in m + 1..MaxRefs : tab[k] = Nil
  <2>1. MaxRefs \in Nat
    BY DEF HelpersAssumption
  <2>2. /\ m \in 0..MaxRefs /\ tab = [k \in 0..MaxRefs |-> tab[k]]
        /\ \A k \in m + 1..MaxRefs : tab[k] = Nil
    BY Zenon, Zenon DEF Kept
  <2>3. m \in Nat
    <3>1. m \in 0..MaxRefs
      BY <2>2
    <3> QED
      BY ONLY <2>1, <3>1
  <2> QED
    BY <2>1, <2>2, <2>3, Zenon
<1>3. /\ has \in [Referred -> 1..m \cup {-2}]
      /\ \A w \in Referred : has[w] # -2 => tab[has[w]] = <<"value", w>>
      /\ \A k \in 1..m : \E w \in Referred : has[w] = k
  <2>1. /\ has \in [Referred -> 1..m \cup {-2}]
        /\ \A w \in Referred : has[w] # -2 => tab[has[w]] = <<"value", w>>
        /\ \A k \in 1..m : (\E i \in 1..0 : fl[i] = k) \/ \E w \in Referred : has[w] = k
    BY Zenon, Zenon DEF Kept
  <2>2. \A i \in 1..0 : FALSE
    OBVIOUS
  <2> QED
    BY <2>1, <2>2, Zenon
<1>4. tab[0] = Nil
  BY DEF Kept, Link
<1>5. r \in 0..MaxRefs /\ r \in 1..r /\ r # 0 /\ r \notin 1..m /\ r # -2
  BY <1>1, <1>2
<1>6. /\ tab2 = [k \in 0..MaxRefs |-> tab2[k]]
      /\ tab2[0] = Nil /\ tab2[r] = <<"value", v>>
      /\ \A k \in 1..MaxRefs : k # r => tab2[k] = tab[k]
  <2>1. 0 \in 0..MaxRefs /\ \A k \in 1..MaxRefs : k \in 0..MaxRefs /\ k # 0
    BY <1>2
  <2>2. PICK D, x, y : D = 0..MaxRefs /\ x = tab[0] /\ y = <<"value", v>>
    BY Zenon
  <2>3. tab = [k \in D |-> tab[k]] /\ 0 \in D /\ r \in D /\ 0 # r /\ tab2 = [tab EXCEPT ![0] = x, ![r] = y]
    BY <1>1, <1>2, <1>5, <2>1, <2>2
  <2>4. tab2 = [k \in D |-> tab2[k]] /\ tab2[0] = x /\ tab2[r] = y /\ \A k \in D : k # 0 /\ k # r => tab2[k] = tab[k]
    BY ONLY <2>3, TwoUpdates, Zenon
  <2> QED
    BY <1>4, <2>1, <2>2, <2>4, Zenon
<1>7. /\ has2 \in [Referred -> 1..r \cup {-2}] /\ has2[v] = r
      /\ \A w \in Referred : w # v => has2[w] = has[w]
  <2>1. \A k \in 1..m : k \in 1..r
    BY <1>1, <1>2
  <2>2. has2 = [has EXCEPT ![v] = r]
    BY <1>1
  <2> QED
    BY <1>3, <1>5, <2>1, <2>2
<1>8. PICK f : f \in [1..0 -> 1..r]
  <2>1. [i \in 1..0 |-> r] \in [1..0 -> 1..r]
    BY <1>5
  <2> QED
    BY <2>1, Zenon
<1>9. \A k \in r + 1..MaxRefs : tab2[k] = Nil
  <2> SUFFICES ASSUME NEW k \in r + 1..MaxRefs PROVE tab2[k] = Nil
    BY Zenon
  <2>1. k \in 1..MaxRefs /\ k # r /\ k \in m + 1..MaxRefs
    BY <1>1, <1>2
  <2> QED
    BY <1>2, <1>6, <2>1, Zenon
<1>10. \A w \in Referred : has2[w] # -2 => tab2[has2[w]] = <<"value", w>>
  <2> SUFFICES ASSUME NEW w \in Referred, has2[w] # -2 PROVE tab2[has2[w]] = <<"value", w>>
    BY Zenon
  <2>1. CASE w = v
    BY <1>6, <1>7, <2>1
  <2>2. CASE w # v
    <3>1. has2[w] = has[w] /\ has[w] \in 1..m
      BY <1>3, <1>7, <2>2
    <3>2. has[w] \in 1..MaxRefs /\ has[w] # r
      BY <1>2, <1>5, <3>1
    <3> QED
      BY <1>3, <1>6, <3>1, <3>2
  <2> QED
    BY <2>1, <2>2, Zenon
<1>11. \A k \in 1..r : \E w \in Referred : has2[w] = k
  <2> SUFFICES ASSUME NEW k \in 1..r, k # r PROVE \E w \in Referred : has2[w] = k
    BY <1>7
  <2>1. k \in 1..m
    BY <1>1, <1>2
  <2>2. PICK w \in Referred : has[w] = k
    BY <1>3, <2>1
  <2>3. w # v
    BY <2>2
  <2> QED
    BY <1>7, <2>2, <2>3
<1>12. r <= Cardinality(Referred)
  BY <1>1, RoomForOne
<1>13. \A i \in 1..0 : FALSE
  OBVIOUS
<1>14. tab2[0] = Link(f, 0, 1)
  BY <1>6 DEF Link
<1>15. r \in 0..MaxRefs /\ 0 \in Nat
  BY <1>5
<1>16. Kept(tab2, has2, r, 0, f)
  BY ONLY <1>6, <1>7, <1>8, <1>9, <1>10, <1>11, <1>12, <1>13, <1>14, <1>15 DEF Kept
<1> QED
  BY <1>1, <1>16

\* The list of free keys begins at the first one; 0 is no key.
LEMMA First ==
  ASSUME HelpersAssumption, NEW m, NEW n, NEW fl, Kept(s1, s2, m, n, fl)
  PROVE  /\ n > 0 => AuxLib!FirstFree = fl[1] /\ fl[1] # 0
         /\ n = 0 => AuxLib!FirstFree = 0
<1>1. n \in Nat /\ m \in 0..MaxRefs /\ fl \in [1..n -> 1..m] /\ s1[0] = Link(fl, n, 1) /\ MaxRefs \in Nat
  BY DEF Kept, HelpersAssumption
<1>2. CASE n > 0
  <2>1. 1 \in 1..n /\ 1 <= n
    BY <1>1, <1>2
  <2>2. fl[1] \in 1..m
    BY <1>1, <2>1
  <2>3. fl[1] \in 1..MaxRefs /\ fl[1] # 0
    BY <1>1, <2>2
  <2>4. s1[0] = <<"free", fl[1]>>
    BY <1>1, <2>1 DEF Link
  <2>5. s1[0] # Nil
    BY <2>3, <2>4 DEF HelpersAssumption
  <2> QED
    BY <1>1, <1>2, <2>3, <2>4, <2>5 DEF AuxLib!FirstFree, AuxLib!FREELIST_REF
<1>3. CASE n = 0
  <2>1. s1[0] = Nil
    BY <1>1, <1>3 DEF Link
  <2> QED
    BY <1>3, <2>1 DEF AuxLib!FirstFree, AuxLib!FREELIST_REF
<1> QED
  BY <1>1, <1>2, <1>3

\* luaL_ref
LEMMA Referring ==
  ASSUME HelpersAssumption, ReferencesInv, NEW v \in Referred, AuxLib!Ref(v)
  PROVE  ReferencesInv'
<1>1. PICK m, n, fl : Kept(s1, s2, m, n, fl)
  BY DEF ReferencesInv
<1>2. n \in Nat /\ m \in 0..MaxRefs /\ MaxRefs \in Nat
  BY <1>1 DEF Kept, HelpersAssumption
<1>3. s2[v] = -2
  BY DEF AuxLib!Ref, AuxLib!NotHeld
<1>4. PICK ref \in IF AuxLib!FirstFree # 0 THEN {AuxLib!FirstFree}
                   ELSE {k + 1 : k \in AuxLib!Boundaries} \cap (1..MaxRefs) :
        /\ s2' = [s2 EXCEPT ![v] = ref]
        /\ s1' = [s1 EXCEPT ![0] = IF AuxLib!FirstFree # 0 THEN s1[ref] ELSE s1[0], ![ref] = <<"value", v>>]
  BY Zenon DEF AuxLib!Ref, AuxLib!FREELIST_REF
<1>5. CASE n > 0
  <2>1. AuxLib!FirstFree = fl[1] /\ fl[1] # 0
    BY <1>1, <1>5, First
  <2>2. ref = fl[1]
    BY <1>4, <2>1
  <2>3. s2' = [s2 EXCEPT ![v] = fl[1]] /\ s1' = [s1 EXCEPT ![0] = s1[fl[1]], ![fl[1]] = <<"value", v>>]
    BY <1>4, <2>1, <2>2
  <2>4. \E f : Kept(s1', s2', m, n - 1, f)
    BY <1>1, <1>3, <1>5, <2>3, FirstIsGiven, Zenon
  <2> QED
    BY <2>4 DEF ReferencesInv
<1>6. CASE n = 0
  <2>1. AuxLib!FirstFree = 0
    BY <1>1, <1>6, First
  <2>2. PICK k \in AuxLib!Boundaries : ref = k + 1 /\ ref \in 1..MaxRefs
    BY <1>4, <2>1
  <2>3. /\ k \in 0..MaxRefs /\ (k = 0 \/ s1[k] # Nil)
        /\ k + 1 \in 1..MaxRefs => s1[k + 1] = Nil
    BY <1>2, <2>2 DEF AuxLib!Boundaries
  <2>4. k = m
    <3>1. \A j \in m + 1..MaxRefs : s1[j] = Nil
      BY <1>1, Zenon DEF Kept
    <3>2. k <= m
      BY <1>2, <2>3, <3>1
    <3>3. ASSUME k < m PROVE FALSE
      <4>1. k + 1 \in 1..m /\ s1[k + 1] = Nil
        BY <1>2, <2>2, <2>3, <3>3
      <4>2. PICK w \in Referred : s2[w] = k + 1
        BY <1>1, <1>6, <4>1 DEF Kept
      <4>3. s2[w] # -2
        BY <4>1, <4>2
      <4>4. s1[k + 1] = <<"value", w>>
        BY <1>1, <4>2, <4>3, Zenon DEF Kept
      <4> QED
        BY <4>1, <4>4 DEF HelpersAssumption
    <3> QED
      BY <1>2, <2>3, <3>2, <3>3
  <2>5. ref = m + 1 /\ m + 1 <= MaxRefs
    BY <1>2, <2>2, <2>4
  <2>6. s2' = [s2 EXCEPT ![v] = m + 1] /\ s1' = [s1 EXCEPT ![0] = s1[0], ![m + 1] = <<"value", v>>]
    BY <1>4, <2>1, <2>5
  <2>7. Kept(s1, s2, m, 0, fl)
    BY <1>1, <1>6
  <2>8. \E f : Kept(s1', s2', m + 1, 0, f)
    BY <1>3, <2>5, <2>6, <2>7, NextIsGiven, Zenon
  <2> QED
    BY <2>8 DEF ReferencesInv
<1> QED
  BY <1>2, <1>5, <1>6

\* luaL_unref
LEMMA Unreferring ==
  ASSUME HelpersAssumption, ReferencesInv, NEW v \in Referred, AuxLib!Unref(v)
  PROVE  ReferencesInv'
<1>1. PICK m, n, fl : Kept(s1, s2, m, n, fl)
  BY DEF ReferencesInv
<1>2. /\ s2[v] # -2
      /\ s1' = [s1 EXCEPT ![s2[v]] = s1[0], ![0] = <<"free", s2[v]>>]
      /\ s2' = [s2 EXCEPT ![v] = -2]
  BY DEF AuxLib!Unref, AuxLib!NotHeld, AuxLib!FREELIST_REF
<1>3. \E f : Kept(s1', s2', m, n + 1, f)
  BY <1>1, <1>2, FreedIsFirst, Zenon
<1> QED
  BY <1>3 DEF ReferencesInv

\* No key is in use.
LEMMA NoneReferred ==
  ASSUME HelpersAssumption, AuxLib!RefsInit
  PROVE  ReferencesInv
<1>1. MaxRefs \in Nat /\ IsFiniteSet(Referred)
  BY DEF HelpersAssumption
<1>2. (1..MaxRefs) \cup {0} = 0..MaxRefs
  BY <1>1
<1>3. s1 = [k \in 0..MaxRefs |-> Nil] /\ s2 = [v \in Referred |-> -2]
  BY <1>2 DEF AuxLib!RefsInit, AuxLib!FREELIST_REF, AuxLib!NotHeld
<1>4. PICK f : f = [i \in 1..0 |-> 0]
  OBVIOUS
<1>5. f \in [1..0 -> 1..0] /\ \A i \in 1..0 : FALSE
  BY <1>4
<1>6. s1 = [k \in 0..MaxRefs |-> s1[k]] /\ s1[0] = Nil /\ \A k \in 0 + 1..MaxRefs : s1[k] = Nil
  BY <1>1, <1>3
<1>7. s2 \in [Referred -> 1..0 \cup {-2}] /\ \A v \in Referred : s2[v] = -2
  BY <1>3
<1>8. 0 \in 0..MaxRefs /\ 0 <= Cardinality(Referred)
  BY <1>1, FS_CardinalityType
<1>9. Link(f, 0, 1) = Nil
  BY DEF Link
<1>10. Kept(s1, s2, 0, 0, f)
  BY ONLY <1>5, <1>6, <1>7, <1>8, <1>9, 0 \in Nat, Zenon DEF Kept
<1> QED
  BY <1>10 DEF ReferencesInv

\* What the list of free keys says of the references
LEMMA ReferencesMean ==
  ASSUME HelpersAssumption, ReferencesInv
  PROVE  AuxLib!RefersToItsValue /\ AuxLib!KeysAreReused
<1>1. PICK m, n, fl : Kept(s1, s2, m, n, fl)
  BY DEF ReferencesInv
<1>2. AuxLib!RefersToItsValue
  BY <1>1, Zenon DEF Kept, AuxLib!RefersToItsValue, AuxLib!NotHeld
<1>3. AuxLib!KeysAreReused
  <2> SUFFICES ASSUME NEW ref \in 1..MaxRefs, ref > Cardinality(Referred) PROVE s1[ref] = Nil
    BY Zenon DEF AuxLib!KeysAreReused, AuxLib!Cardinality, Cardinality
  <2>1. m \in 0..MaxRefs /\ m <= Cardinality(Referred) /\ MaxRefs \in Nat /\ Cardinality(Referred) \in Nat
    BY <1>1, FS_CardinalityType DEF Kept, HelpersAssumption
  <2>2. ref \in m + 1..MaxRefs
    BY <2>1
  <2> QED
    BY <1>1, <2>2, Zenon DEF Kept
<1> QED
  BY <1>2, <1>3

\* The helpers, each in a behaviour of its own
HelpersInv == (part = "buffer" => BufferInv) /\ (part = "references" => ReferencesInv)

\* HelpersKeepWhatTheyGot, for buffers and tables of references of any size: a
\* string is what was added to it, in few pieces, and a reference is of its own
\* value (luaL_addchar, luaL_addvalue, adjuststack, luaL_ref, luaL_unref).
THEOREM HelpersKeepAll == MCSpec => []HelpersKeepWhatTheyGot
<1>1. MCInit => HelpersInv
  <2> SUFFICES ASSUME MCInit PROVE HelpersInv
    OBVIOUS
  <2>1. CASE part = "buffer"
    <3>1. s1 = <<>> /\ s2 = <<>> /\ s3 = 0
      BY <2>1 DEF MCInit, AuxLib!BufferInit
    <3>2. 0 \in Nat /\ 0 <= 0
      OBVIOUS
    <3>3. BufferInv
      BY <3>1, <3>2, NothingThere, HelpersAssumption DEF BufferInv
    <3> QED
      BY <2>1, <3>3 DEF HelpersInv
  <2>2. CASE part = "references"
    <3>1. AuxLib!RefsInit
      BY <2>2 DEF MCInit
    <3> QED
      BY <2>2, <3>1, NoneReferred, HelpersAssumption DEF HelpersInv
  <2> QED
    BY <2>1, <2>2 DEF HelpersInv
<1>2. HelpersInv /\ [MCNext]_<<vars, part, rest>> => HelpersInv'
  <2> SUFFICES ASSUME HelpersInv, [MCNext]_<<vars, part, rest>> PROVE HelpersInv'
    OBVIOUS
  <2>1. part' = part
    BY DEF MCNext
  <2>2. ASSUME UNCHANGED rest PROVE HelpersInv'
    <3>1. s1' = s1 /\ s2' = s2 /\ s3' = s3
      BY <2>2 DEF rest
    <3>2. BufferInv => BufferInv'
      BY <3>1 DEF BufferInv
    <3>3. ReferencesInv => ReferencesInv'
      BY <3>1 DEF ReferencesInv
    <3> QED
      BY <2>1, <3>2, <3>3 DEF HelpersInv
  <2>3. CASE part = "buffer" /\ AuxLib!BufferNext
    <3>1. BufferInv'
      BY <2>3, BufferSteps, HelpersAssumption DEF HelpersInv
    <3> QED
      BY <2>1, <2>3, <3>1 DEF HelpersInv
  <2>4. CASE part = "references" /\ AuxLib!RefsNext
    <3>1. PICK v \in Referred : AuxLib!Ref(v) \/ AuxLib!Unref(v)
      BY <2>4 DEF AuxLib!RefsNext
    <3>2. ReferencesInv'
      BY <2>4, <3>1, Referring, Unreferring, HelpersAssumption DEF HelpersInv
    <3> QED
      BY <2>1, <2>4, <3>2 DEF HelpersInv
  <2>5. CASE part \in {"table", "stack"}
    BY <2>1, <2>5 DEF HelpersInv
  <2> QED
    BY <2>2, <2>3, <2>4, <2>5 DEF MCNext
<1>3. HelpersInv => HelpersKeepWhatTheyGot
  BY BufferMeans, ReferencesMean, HelpersAssumption DEF HelpersInv, HelpersKeepWhatTheyGot
<1> QED
  BY <1>1, <1>2, <1>3, PTL DEF MCSpec

-----------------------------------------------------------------------------
(* Calls and coroutines *)

USE LimitsAssumption DEF Threads

\* A Lua thread keeps its calls in every behaviour of the whole.
THEOREM Invariance == MCSpec => []IInv
<1>1. MCInit => IInv
  BY InitIsGood DEF MCInit
<1>2. ASSUME IInv, [MCNext]_<<vars, part, rest>>
      PROVE  IInv'
  <2>1. Next \/ UNCHANGED vars
    BY <1>2 DEF MCNext, rest, vars
  <2> QED
    BY <1>2, <2>1, NextIsGood
<1> QED
  BY <1>1, <1>2, PTL DEF MCSpec

-----------------------------------------------------------------------------
(* What the invariant implies *)

\* The innermost of a thread's jump buffers is its greatest.
LEMMA TheInnermost ==
  ASSUME NEW S, S \subseteq Nat, NEW m, (m = 0 /\ S = {}) \/ (m \in S /\ \A j \in S : j <= m)
  PROVE  m = Max({0} \cup S)
<1>1. m \in {0} \cup S /\ {0} \cup S \subseteq Nat
  OBVIOUS
<1>2. \A j \in {0} \cup S : m >= j
  BY <1>1
<1>3. \A x \in {0} \cup S : (\A j \in {0} \cup S : x >= j) => x = m
  <2>1. ASSUME NEW x \in {0} \cup S, \A j \in {0} \cup S : x >= j
        PROVE  x = m
    <3>1. x >= m /\ m >= x /\ x \in Nat /\ m \in Nat
      BY <1>1, <1>2, <2>1
    <3> QED
      BY ONLY <3>1
  <2> QED
    BY <2>1
<1> QED
  BY ONLY <1>1, <1>2, <1>3, Zenon DEF Max

\* Levels, jump buffers and functions are those of the frames on the C stack.
LEMMA ActiveFrames == IInv => FramesAreActive
<1> SUFFICES ASSUME IInv PROVE FramesAreActive
  OBVIOUS
<1>1. PICK n \in Nat : n = Len(cstack) /\ DOMAIN cstack = 1..n
  <2>1. Len(cstack) \in Nat /\ DOMAIN cstack = 1..Len(cstack)
    BY Types DEF IInv
  <2> QED
    BY ONLY <2>1, Zenon
<1>2. L.nCcalls = Cardinality(Levels(n)) /\ Running \in Threads
  BY <1>1, TopFrame
<1>3. CLevelsAreCounted
  <2>1. {i \in DOMAIN cstack : cstack[i].kind \in Counted} = Levels(n)
    BY <1>1 DEF Levels, LevelsIn
  <2>2. L.nCcalls <= LUAI_MAXCCALLS + Extra /\ L.size <= 2 * LUAI_MAXCALLS
    BY <1>2 DEF IInv, LimitInv, L
  <2> QED
    BY ONLY <1>2, <2>1, <2>2, Zenon DEF CLevelsAreCounted
<1>4. JumpsToActiveFrame
  <2>1. ASSUME NEW t \in Threads
        PROVE  th[t].errorJmp = Max({0} \cup FramesOf(t, {"pcall", "resume"}))
    <3>1. FramesOf(t, {"pcall", "resume"}) = Jumps(t, n)
      BY <1>1 DEF FramesOf, Jumps
    <3>2. Innermost(th[t].errorJmp, t, n)
      BY <1>1 DEF IInv, JumpInv
    <3>3. Jumps(t, n) \subseteq Nat
      BY DEF Jumps
    <3> QED
      BY ONLY <3>1, <3>2, <3>3, TheInnermost DEF Innermost
  <2> QED
    BY <2>1 DEF JumpsToActiveFrame
<1>5. ExecuteOwnsItsFunctions
  BY Zenon DEF IInv, OwnerInv, Owned, ExecuteOwnsItsFunctions
<1> QED
  BY <1>3, <1>4, <1>5 DEF FramesAreActive

\* luaD_call, luaD_pcall, lua_resume, luaD_throw, luaV_execute: in any number of
\* coroutines and whatever the limits, the running thread counts all C levels and
\* stays within them, an error jumps to the innermost protected call that is still
\* active, and each execution counts the Lua functions it returns from.
THEOREM FramesStayActive == MCSpec => []FramesAreActive
BY Invariance, ActiveFrames, PTL

\* lua_yield, lua_resume, auxresume: in every behaviour a yield cuts off no C
\* function, and a coroutine that ended, or failed, stays dead.
THEOREM CoroutinesStayInPlace == MCSpec => CoroutinesKeepTheirPlace
<1>1. ASSUME IInv, MCNext
      PROVE  YieldCutsNoC /\ DeadStays
  <2>1. Next \/ UNCHANGED vars
    BY <1>1 DEF MCNext
  <2>2. Keeps
    BY <1>1, <2>1, NextIsGood
  <2> QED
    BY <1>1, <2>2, YieldsAlone, DeadIsLeftAlone
<1>2. IInv /\ [MCNext]_<<vars, part, rest>> => [YieldCutsNoC /\ DeadStays]_<<vars, part, rest>>
  BY <1>1
<1> QED
  BY <1>2, Invariance, PTL DEF MCSpec, CoroutinesKeepTheirPlace
=============================================================================
