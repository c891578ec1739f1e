---------------------------- MODULE FalseSharing ----------------------------
(***************************************************************************)
(* The parallel sum of labs/memory_bound/false_sharing_1: an OpenMP team   *)
(* shares the iterations of a loop, each thread adds its terms to its own  *)
(* 32-bit atomic accumulator, and the caller sums the accumulators up      *)
(* behind the loop's barrier.                                              *)
(*                                                                         *)
(* An accumulator is represented by what has been added to it, so that a   *)
(* term added twice and a term never added are told apart from a sum that  *)
(* happens to be right; AccumulatorValue is the number the program reads.  *)
(***************************************************************************)
EXTENDS Integers, FiniteSets, Functions, FiniteSetTheorems,
        WellFoundedInduction, TLAPS

CONSTANTS
  DataSize,     \* data.size()
  ThreadCount,  \* the argument thread_count
  Inputs,       \* the inputs under study
  Modulus       \* 2^32, the values of an accumulator

ASSUME SharingAssumption == DataSize \in Nat /\ ThreadCount \in Nat \ {0} /\ Modulus \in Nat \ {0}

Iterations == 0..DataSize - 1
Threads    == 0..ThreadCount - 1

\* An input is the term item % 13 that each of its items contributes.
ASSUME InputAssumption == Inputs \subseteq [Iterations -> 0..12]

VARIABLES
  data,     \* the input
  caller,   \* what the calling thread is doing
  team,     \* the threads the runtime granted
  left,     \* iterations no thread has taken yet
  doing,       \* what each thread is doing
  item,     \* the iteration a thread has taken
  added,    \* how often each term went into each accumulator
  next,     \* the accumulator the reduction reads next
  result    \* std::size_t result

sharingVars == <<data, caller, team, left, doing, item, added, next, result>>

\* The types of everything but the sum.
LoopTypeOK ==
  /\ data \in Inputs
  /\ caller \in {"call", "parallel", "reduce", "returned"}
  /\ team \subseteq Threads
  /\ left \subseteq Iterations
  /\ doing \in [Threads -> {"outside", "loop", "add", "barrier"}]
  /\ item \in [Threads -> Iterations \cup {-1}]
  /\ added \in [Threads -> [Iterations -> Nat]]
  /\ next \in 0..ThreadCount

SharingTypeOK == LoopTypeOK /\ result \in Nat

SharingInit ==
  /\ data \in Inputs
  /\ caller = "call"
  /\ team = {}
  /\ left = Iterations
  /\ doing = [t \in Threads |-> "outside"]
  /\ item = [t \in Threads |-> -1]
  /\ added = [t \in Threads |-> [i \in Iterations |-> 0]]
  /\ next = 0
  /\ result = 0

\* Mutant: one thread more than there are accumulators.
Requested(n) == 0..n

\* Thread numbers of a team of n threads.
Granted(n) == 0..n - 1

\* omp parallel num_threads(thread_count): the runtime may grant fewer.
Fork ==
  /\ caller = "call"
  /\ \E n \in 1..ThreadCount :
       /\ team' = Granted(n)
       /\ doing' = [t \in Threads |-> IF t \in Granted(n) THEN "loop" ELSE "outside"]
  /\ caller' = "parallel"
  /\ UNCHANGED <<data, left, item, added, next, result>>

\* Mutant: the iteration stays available to the other threads.
Shared(i) == left

\* An iteration goes to one thread; which one, the schedule decides.
Without(i) == left \ {i}

Take(t) ==
  /\ doing[t] = "loop"
  /\ \E i \in left :
       /\ left' = Without(i)
       /\ item' = [item EXCEPT ![t] = i]
  /\ doing' = [doing EXCEPT ![t] = "add"]
  /\ UNCHANGED <<data, caller, team, added, next, result>>

\* target.value += item % 13, an atomic read-modify-write.
Add(t) ==
  /\ doing[t] = "add"
  /\ added' = [added EXCEPT ![t][item[t]] = @ + 1]
  /\ doing' = [doing EXCEPT ![t] = "loop"]
  /\ item' = [item EXCEPT ![t] = -1]
  /\ UNCHANGED <<data, caller, team, left, next, result>>

ArriveAtBarrier(t) ==
  /\ doing[t] = "loop"
  /\ left = {}
  /\ doing' = [doing EXCEPT ![t] = "barrier"]
  /\ UNCHANGED <<data, caller, team, left, item, added, next, result>>

\* Mutant: the caller waits for the first thread that is done.
OneArrived == \E t \in team : doing[t] = "barrier"

AllArrived == \A t \in team : doing[t] = "barrier"

Join ==
  /\ caller = "parallel"
  /\ AllArrived
  /\ caller' = "reduce"
  /\ UNCHANGED <<data, team, left, doing, item, added, next, result>>

\* Sum of the terms in accumulator t, unbounded and as the program reads it.
AccumulatorSum(t) == SumFunction([i \in Iterations |-> added[t][i] * data[i]])
AccumulatorValue(t) == AccumulatorSum(t) % Modulus

\* Mutant: the last accumulator is forgotten.
UpToLast == ThreadCount - 1

\* accumulators.size()
AccumulatorCount == ThreadCount

Reduce ==
  /\ caller = "reduce"
  /\ IF next < AccumulatorCount
     THEN /\ result' = result + AccumulatorValue(next)
          /\ next' = next + 1
          /\ UNCHANGED caller
     ELSE /\ caller' = "returned"
          /\ UNCHANGED <<next, result>>
  /\ UNCHANGED <<data, team, left, doing, item, added>>

Thread(t) == Take(t) \/ Add(t) \/ ArriveAtBarrier(t)
Caller    == Fork \/ Join \/ Reduce

SharingReturned == caller = "returned" /\ UNCHANGED sharingVars

SharingNext == Caller \/ (\E t \in Threads : Thread(t)) \/ SharingReturned

SharingSpec == SharingInit /\ [][SharingNext]_sharingVars

-----------------------------------------------------------------------------
(* Properties *)

\* A term that has been added is in one accumulator, once.
AddedOnce ==
  /\ \A t \in Threads, i \in Iterations : added[t][i] <= 1
  /\ \A s, t \in Threads, i \in Iterations :
       added[s][i] > 0 /\ added[t][i] > 0 => s = t

\* Behind the barrier every term is in an accumulator, and none comes later:
\* the reduction reads the accumulators without synchronisation of its own.
CompleteBehindBarrier ==
  caller \in {"reduce", "returned"} =>
    \A i \in Iterations : \E t \in Threads : added[t][i] = 1

\* validate.cpp compares with a sequential sum in size_t.  The two agree,
\* whatever the schedule and the size of the team, as long as no accumulator's
\* share exceeds its 32 bits.
OriginalSolution == SumFunction(data)

MatchesOriginal ==
  (caller = "returned" /\ \A t \in Threads : AccumulatorSum(t) < Modulus) =>
    result = OriginalSolution

\* The function is a loop that executes each iteration once.
Once == INSTANCE OnceEach WITH
  executed <- {i \in Iterations : \E t \in Threads : added[t][i] > 0},
  returned <- caller \in {"reduce", "returned"}

ImplementsOnceEach == Once!Spec

---------------------------------------------------------------------------
\* For the run; the second input overflows an accumulator of 5 bits that gets
\* three terms.
MCInputs == {[i \in Iterations |-> i], [i \in Iterations |-> 12]}

---------------------------------------------------------------------------
(* Sums over a finite set.  The prover has no induction of its own, and the *)
(* library's has an operator for a parameter.  It is had from the library's *)
(* WFMin, for a set of numbers, and from there for the subsets of a finite  *)
(* set.                                                                     *)

\* Induction for a set of numbers, from the well-foundedness of <.
LEMMA SubsetInduction ==
  ASSUME NEW G \in SUBSET Nat, 0 \in G, \A n \in G : n + 1 \in G
  PROVE  G = Nat
<1> SUFFICES ASSUME G # Nat PROVE FALSE
  OBVIOUS
<1> DEFINE R == {ss \in Nat \X Nat : ss[1] < ss[2]}
<1>1. IsWellFoundedOn(R, Nat)
  BY NatLessThanWellFounded DEF OpToRel
<1>2. \E n \in Nat \ G : \A m \in Nat \ G : ~(<<m, n>> \in R)
  <2> HIDE DEF R
  <2> QED BY <1>1, WFMin
<1>3. PICK n \in Nat \ G : \A m \in Nat \ G : ~(m < n)
  BY <1>2
<1>4. n - 1 \in Nat /\ n - 1 < n
  OBVIOUS
<1> QED
  BY <1>3, <1>4

\* The element that the fold takes from a set, the recursion of the fold, and
\* the recursion up to sets of n elements.
First(s) == CHOOSE x \in s : TRUE

SumsOn(f, S) == CHOOSE g : g = [s \in SUBSET S |->
                  IF s = {} THEN 0 ELSE f[First(s)] + g[s \ {First(s)}]]

Recursion(f, g, S, n) ==
  \A s \in SUBSET S : Cardinality(s) <= n =>
    g[s] = IF s = {} THEN 0 ELSE f[First(s)] + g[s \ {First(s)}]

\* The fold of the library is a recursive function on the subsets.
LEMMA SumByRecursion == ASSUME NEW f, NEW S PROVE SumFunctionOnSet(f, S) = SumsOn(f, S)[S]
  BY DEF SumFunctionOnSet, FoldFunctionOnSet, MapThenFoldSet, SumsOn, First

\* A set without one of its elements.
LEMMA Removed ==
  ASSUME NEW s, IsFiniteSet(s), NEW x \in s
  PROVE  /\ IsFiniteSet(s \ {x})
         /\ Cardinality(s) \in Nat \ {0}
         /\ Cardinality(s \ {x}) = Cardinality(s) - 1
  BY FS_RemoveElement, FS_CardinalityType, FS_EmptySet

\* The element a sum takes first.
LEMMA FirstIn == ASSUME NEW s, s # {} PROVE First(s) \in s
  BY DEF First

\* Such a function exists: it is extended from the sets of n elements to those
\* of n + 1.
LEMMA SumsExist ==
  ASSUME NEW S, IsFiniteSet(S), NEW f, \A x \in S : f[x] \in Int
  PROVE  \E g \in [SUBSET S -> Int] : Recursion(f, g, S, Cardinality(S))
<1> DEFINE G == {n \in Nat : \E g \in [SUBSET S -> Int] : Recursion(f, g, S, n)}
<1>0. \A s \in SUBSET S : IsFiniteSet(s) /\ Cardinality(s) \in Nat
  BY FS_Subset, FS_CardinalityType
<1>1. 0 \in G
  <2> DEFINE g == [s \in SUBSET S |-> 0]
  <2>1. Recursion(f, g, S, 0)
    BY <1>0, FS_EmptySet DEF Recursion
  <2>2. g \in [SUBSET S -> Int]
    OBVIOUS
  <2> HIDE DEF g
  <2> QED BY <2>1, <2>2
<1>2. ASSUME NEW n \in G PROVE n + 1 \in G
  <2>1. PICK g \in [SUBSET S -> Int] : Recursion(f, g, S, n)
    BY <1>2
  <2> DEFINE h == [s \in SUBSET S |-> IF s = {} THEN 0 ELSE f[First(s)] + g[s \ {First(s)}]]
  <2>2. h \in [SUBSET S -> Int]
    BY FirstIn
  <2>3. \A s \in SUBSET S : Cardinality(s) <= n => h[s] = g[s]
    BY <2>1 DEF Recursion
  <2>4. ASSUME NEW s \in SUBSET S, Cardinality(s) <= n + 1, s # {}
        PROVE  h[s] = f[First(s)] + h[s \ {First(s)}]
    <3>1. First(s) \in s /\ s \ {First(s)} \in SUBSET S
      BY <2>4, FirstIn
    <3>2. Cardinality(s \ {First(s)}) <= n
      BY <3>1, <1>0, <2>4, Removed
    <3>3. h[s \ {First(s)}] = g[s \ {First(s)}]
      BY <3>1, <3>2, <2>3
    <3> QED BY <3>3, <2>4
  <2>5. Recursion(f, h, S, n + 1)
    <3>1. h[{}] = 0 OBVIOUS
    <3> HIDE DEF h
    <3> QED BY <2>4, <3>1 DEF Recursion
  <2>6. n + 1 \in Nat
    OBVIOUS
  <2> HIDE DEF h
  <2> QED BY <2>2, <2>5, <2>6
<1>3. G = Nat
  <2>1. G \in SUBSET Nat OBVIOUS
  <2> HIDE DEF G
  <2> QED BY <1>1, <1>2, <2>1, SubsetInduction
<1> QED
  BY <1>0, <1>3

\* So the chosen one satisfies its equation, and its values are integers.
LEMMA SumsOnRecursion ==
  ASSUME NEW S, IsFiniteSet(S), NEW f, \A x \in S : f[x] \in Int
  PROVE  /\ SumsOn(f, S) \in [SUBSET S -> Int]
         /\ Recursion(f, SumsOn(f, S), S, Cardinality(S))
<1>1. PICK g \in [SUBSET S -> Int] : Recursion(f, g, S, Cardinality(S))
  BY SumsExist
<1>2. \A s \in SUBSET S : IsFiniteSet(s) /\ Cardinality(s) \in Nat /\ Cardinality(s) <= Cardinality(S)
  BY FS_Subset, FS_CardinalityType
<1>3. g = [s \in SUBSET S |-> IF s = {} THEN 0 ELSE f[First(s)] + g[s \ {First(s)}]]
  BY <1>1, <1>2 DEF Recursion
<1>4. SumsOn(f, S) = [s \in SUBSET S |-> IF s = {} THEN 0 ELSE f[First(s)] + SumsOn(f, S)[s \ {First(s)}]]
  BY <1>3 DEF SumsOn
<1> DEFINE h == SumsOn(f, S)
           G == {n \in Nat : \A s \in SUBSET S : Cardinality(s) = n => h[s] \in Int}
<1>5. 0 \in G
  BY <1>2, <1>4, FS_EmptySet
<1>6. ASSUME NEW n \in G PROVE n + 1 \in G
  <2>1. ASSUME NEW s \in SUBSET S, Cardinality(s) = n + 1 PROVE h[s] \in Int
    <3>1. s # {}
      <4>1. n \in Nat /\ n + 1 # 0
        OBVIOUS
      <4> QED BY <2>1, <4>1, FS_EmptySet
    <3>2. First(s) \in s
      BY <3>1, FirstIn
    <3>3. Cardinality(s \ {First(s)}) = n
      BY <1>2, <2>1, <3>2, Removed
    <3>4. h[s \ {First(s)}] \in Int
      BY <3>3, <1>6
    <3>5. h[s] = f[First(s)] + h[s \ {First(s)}]
      BY <1>4, <3>1
    <3>6. f[First(s)] \in Int
      BY <3>2
    <3> HIDE DEF h
    <3> QED BY <3>4, <3>5, <3>6
  <2> HIDE DEF h
  <2> QED BY <2>1
<1>7. G = Nat
  <2>1. G \in SUBSET Nat OBVIOUS
  <2> HIDE DEF G
  <2> QED BY <1>5, <1>6, <2>1, SubsetInduction
<1>8. \A s \in SUBSET S : h[s] \in Int
  BY <1>2, <1>7
<1>9. h \in [SUBSET S -> Int]
  BY <1>4, <1>8
<1>10. Recursion(f, h, S, Cardinality(S))
  BY <1>4 DEF Recursion
<1> QED
  BY <1>9, <1>10

\* A subset has the same sum, whatever set it is taken from.
LEMMA SumsOnSubset ==
  ASSUME NEW S, IsFiniteSet(S), NEW f, \A x \in S : f[x] \in Int, NEW T \in SUBSET S
  PROVE  SumsOn(f, S)[T] = SumsOn(f, T)[T]
<1> DEFINE g == SumsOn(f, S)
           h == SumsOn(f, T)
           G == {n \in Nat : \A s \in SUBSET T : Cardinality(s) = n => g[s] = h[s]}
<1>1. /\ IsFiniteSet(T)
      /\ \A s \in SUBSET T : /\ IsFiniteSet(s) /\ Cardinality(s) \in Nat
                             /\ Cardinality(s) <= Cardinality(T)
                             /\ Cardinality(s) <= Cardinality(S)
  BY FS_Subset, FS_CardinalityType
<1>2. Recursion(f, g, S, Cardinality(S)) /\ Recursion(f, h, T, Cardinality(T))
  BY <1>1, SumsOnRecursion
<1> HIDE DEF g, h
<1>3. 0 \in G
  BY <1>1, <1>2, FS_EmptySet DEF Recursion
<1>4. ASSUME NEW n \in G PROVE n + 1 \in G
  <2>1. ASSUME NEW s \in SUBSET T, Cardinality(s) = n + 1 PROVE g[s] = h[s]
    <3>1. s # {}
      <4>1. n \in Nat /\ n + 1 # 0
        OBVIOUS
      <4> QED BY <2>1, <4>1, FS_EmptySet
    <3>2. First(s) \in s
      BY <3>1, FirstIn
    <3>3. Cardinality(s \ {First(s)}) = n
      BY <1>1, <2>1, <3>2, Removed
    <3>4. g[s \ {First(s)}] = h[s \ {First(s)}]
      BY <3>3, <1>4
    <3>5. /\ g[s] = f[First(s)] + g[s \ {First(s)}]
          /\ h[s] = f[First(s)] + h[s \ {First(s)}]
      BY <1>1, <1>2, <3>1 DEF Recursion
    <3> QED BY <3>4, <3>5
  <2> QED BY <2>1
<1>5. G = Nat
  <2>1. G \in SUBSET Nat OBVIOUS
  <2> HIDE DEF G
  <2> QED BY <1>3, <1>4, <2>1, SubsetInduction
<1>6. g[T] = h[T]
  BY <1>1, <1>5
<1> QED
  BY <1>6 DEF g, h

\* The recursion of the sum itself.
LEMMA SumStep ==
  ASSUME NEW S, IsFiniteSet(S), NEW f, \A x \in S : f[x] \in Int
  PROVE  /\ SumFunctionOnSet(f, S) \in Int
         /\ S = {} => SumFunctionOnSet(f, S) = 0
         /\ S # {} => SumFunctionOnSet(f, S) =
                        f[First(S)] + SumFunctionOnSet(f, S \ {First(S)})
<1> DEFINE g == SumsOn(f, S)
<1>1. g \in [SUBSET S -> Int] /\ Recursion(f, g, S, Cardinality(S))
  BY SumsOnRecursion
<1>2. SumFunctionOnSet(f, S) = g[S]
  BY SumByRecursion
<1>3. S # {} => g[S \ {First(S)}] = SumFunctionOnSet(f, S \ {First(S)})
  BY SumsOnSubset, SumByRecursion
<1>4. Cardinality(S) <= Cardinality(S)
  BY FS_CardinalityType
<1> HIDE DEF g
<1> QED
  BY <1>1, <1>2, <1>3, <1>4 DEF Recursion

\* The order of the terms does not matter: any of them may be taken first.
LEMMA SumRemove ==
  ASSUME NEW S, IsFiniteSet(S), NEW f, \A x \in S : f[x] \in Int, NEW a \in S
  PROVE  SumFunctionOnSet(f, S) = f[a] + SumFunctionOnSet(f, S \ {a})
<1> DEFINE Sum(s) == SumFunctionOnSet(f, s)
           G == {n \in Nat : \A s \in SUBSET S : Cardinality(s) = n =>
                               \A x \in s : Sum(s) = f[x] + Sum(s \ {x})}
<1>1. \A s \in SUBSET S : /\ IsFiniteSet(s) /\ Cardinality(s) \in Nat
                          /\ Sum(s) \in Int
                          /\ s # {} => Sum(s) = f[First(s)] + Sum(s \ {First(s)})
  BY FS_Subset, FS_CardinalityType, SumStep
<1> HIDE DEF Sum
<1>2. 0 \in G
  BY <1>1, FS_EmptySet
<1>3. ASSUME NEW n \in G PROVE n + 1 \in G
  <2>1. ASSUME NEW s \in SUBSET S, Cardinality(s) = n + 1, NEW x \in s, x # First(s)
        PROVE  Sum(s) = f[x] + Sum(s \ {x})
    <3>0. PICK c \in s : c = First(s)
      BY FirstIn
    <3>1. c # x /\ c \in S /\ x \in S
      BY <2>1, <3>0
    <3>2. Cardinality(s \ {c}) = n /\ Cardinality(s \ {x}) = n
      <4>1. \A y \in s : Cardinality(s \ {y}) = Cardinality(s) - 1
        BY <1>1, Removed
      <4> QED BY <2>1, <4>1
    <3>3. Sum(s) = f[c] + Sum(s \ {c})
      BY <1>1, <3>0
    <3>4. Sum(s \ {c}) = f[x] + Sum((s \ {c}) \ {x})
      BY <1>3, <2>1, <3>1, <3>2
    <3>5. Sum(s \ {x}) = f[c] + Sum((s \ {x}) \ {c})
      BY <1>3, <2>1, <3>1, <3>2
    <3>6. (s \ {c}) \ {x} = (s \ {x}) \ {c}
      OBVIOUS
    <3>7. Sum((s \ {c}) \ {x}) \in Int /\ f[c] \in Int /\ f[x] \in Int
      BY <1>1, <3>1
    <3>8. Sum((s \ {c}) \ {x}) = Sum((s \ {x}) \ {c})
      BY <3>6, Zenon
    <3> QED BY <3>3, <3>4, <3>5, <3>7, <3>8
  <2>2. \A s \in SUBSET S : Cardinality(s) = n + 1 => \A x \in s : Sum(s) = f[x] + Sum(s \ {x})
    BY <1>1, <2>1
  <2> QED BY <2>2
<1>4. G = Nat
  <2>1. G \in SUBSET Nat OBVIOUS
  <2> HIDE DEF G
  <2> QED BY <1>2, <1>3, <2>1, SubsetInduction
<1>5. Sum(S) = f[a] + Sum(S \ {a})
  BY <1>1, <1>4
<1> QED
  BY <1>5 DEF Sum

\* Induction over the subsets of a finite set.
LEMMA FiniteInduction ==
  ASSUME NEW S, IsFiniteSet(S), NEW G \in SUBSET (SUBSET S), {} \in G,
         \A s \in G : \A x \in S \ s : s \cup {x} \in G
  PROVE  S \in G
<1> DEFINE M == {n \in Nat : \A s \in SUBSET S : Cardinality(s) = n => s \in G}
<1>1. \A s \in SUBSET S : IsFiniteSet(s) /\ Cardinality(s) \in Nat
  BY FS_Subset, FS_CardinalityType
<1>2. 0 \in M
  BY <1>1, FS_EmptySet
<1>3. ASSUME NEW n \in M PROVE n + 1 \in M
  <2>1. ASSUME NEW s \in SUBSET S, Cardinality(s) = n + 1 PROVE s \in G
    <3>1. s # {}
      <4>1. n \in Nat /\ n + 1 # 0
        OBVIOUS
      <4> QED BY <2>1, <4>1, FS_EmptySet
    <3>2. PICK x \in s : TRUE
      BY <3>1
    <3>3. Cardinality(s \ {x}) = n
      BY <1>1, <2>1, Removed
    <3>4. s \ {x} \in G
      BY <3>3, <1>3
    <3>5. s = (s \ {x}) \cup {x} /\ x \in S \ (s \ {x})
      OBVIOUS
    <3>6. (s \ {x}) \cup {x} \in G
      BY <3>4, <3>5
    <3> QED BY <3>5, <3>6
  <2> QED BY <2>1
<1>4. M = Nat
  <2>1. M \in SUBSET Nat OBVIOUS
  <2> HIDE DEF M
  <2> QED BY <1>2, <1>3, <2>1, SubsetInduction
<1> QED
  BY <1>1, <1>4

\* One term more.
LEMMA SumAdd ==
  ASSUME NEW s, IsFiniteSet(s), NEW a, a \notin s, NEW f,
         \A x \in s \cup {a} : f[x] \in Int
  PROVE  SumFunctionOnSet(f, s \cup {a}) = f[a] + SumFunctionOnSet(f, s)
<1>1. IsFiniteSet(s \cup {a})
  BY FS_AddElement
<1>2. (s \cup {a}) \ {a} = s
  OBVIOUS
<1>3. SumFunctionOnSet(f, s \cup {a}) = f[a] + SumFunctionOnSet(f, (s \cup {a}) \ {a})
  BY <1>1, SumRemove
<1> QED
  BY <1>2, <1>3, Zenon

\* Sums of integers are integers, sums of naturals naturals.
LEMMA SumInt ==
  ASSUME NEW S, IsFiniteSet(S), NEW f, \A x \in S : f[x] \in Int
  PROVE  \A s \in SUBSET S : IsFiniteSet(s) /\ SumFunctionOnSet(f, s) \in Int
  BY FS_Subset, SumStep

\* A sum of naturals is a natural.
LEMMA SumNat ==
  ASSUME NEW S, IsFiniteSet(S), NEW f, \A x \in S : f[x] \in Nat
  PROVE  SumFunctionOnSet(f, S) \in Nat
<1> DEFINE Sum(s) == SumFunctionOnSet(f, s)
           G == {s \in SUBSET S : Sum(s) \in Nat}
<1>0. (\A x \in S : f[x] \in Int) /\ \A s \in SUBSET S : IsFiniteSet(s)
  BY FS_Subset
<1>1. {} \in G
  <2>1. Sum({}) = 0
    BY SumStep, FS_EmptySet
  <2> QED BY <2>1
<1>2. ASSUME NEW s \in G, NEW x \in S \ s PROVE s \cup {x} \in G
  <2>1. Sum(s \cup {x}) = f[x] + Sum(s)
    BY <1>0, SumAdd
  <2> QED BY <2>1
<1>3. S \in G
  <2>1. G \in SUBSET (SUBSET S) OBVIOUS
  <2> HIDE DEF G
  <2> QED BY <1>1, <1>2, <2>1, FiniteInduction
<1> QED
  BY <1>3

\* Terms that are zero outside A sum up to the terms in A.
LEMMA SumMarked ==
  ASSUME NEW S, IsFiniteSet(S), NEW f, NEW h, NEW A \in SUBSET S,
         \A x \in S : f[x] \in Int /\ h[x] = IF x \in A THEN f[x] ELSE 0
  PROVE  SumFunctionOnSet(h, S) = SumFunctionOnSet(f, A)
<1> DEFINE Sum(s) == SumFunctionOnSet(f, s)
           Marked(s) == SumFunctionOnSet(h, s)
           G == {s \in SUBSET S : Marked(s) = Sum(s \cap A)}
<1>0. \A s \in SUBSET S : IsFiniteSet(s) /\ Sum(s) \in Int /\ Marked(s) \in Int
  <2>1. \A x \in S : f[x] \in Int /\ h[x] \in Int
    OBVIOUS
  <2> QED BY <2>1, SumInt
<1>1. {} \in G
  <2>1. Marked({}) = 0 /\ Sum({}) = 0
    BY SumStep, FS_EmptySet
  <2>2. Sum({} \cap A) = Sum({})
    <3>1. {} \cap A = {}
      OBVIOUS
    <3> QED BY <3>1, Zenon
  <2> QED BY <2>1, <2>2
<1>2. ASSUME NEW s \in G, NEW x \in S \ s PROVE s \cup {x} \in G
  <2>1. Marked(s \cup {x}) = h[x] + Marked(s)
    BY <1>0, SumAdd
  <2>2. CASE x \in A
    <3>1. (s \cup {x}) \cap A = (s \cap A) \cup {x}
      BY <2>2
    <3>2. Sum((s \cap A) \cup {x}) = f[x] + Sum(s \cap A)
      BY <1>0, SumAdd
    <3>3. Sum((s \cup {x}) \cap A) = f[x] + Sum(s \cap A)
      BY <3>1, <3>2, Zenon
    <3>4. h[x] = f[x] /\ Marked(s) = Sum(s \cap A)
      BY <2>2
    <3>5. Marked(s \cup {x}) = Sum((s \cup {x}) \cap A)
      BY <2>1, <3>3, <3>4, Zenon
    <3> QED BY <3>5
  <2>3. CASE x \notin A
    <3>1. (s \cup {x}) \cap A = s \cap A
      BY <2>3
    <3>2. Sum((s \cup {x}) \cap A) = Sum(s \cap A)
      BY <3>1, Zenon
    <3>3. h[x] = 0 /\ Marked(s) = Sum(s \cap A) /\ Marked(s) \in Int
      BY <1>0, <2>3
    <3>4. Marked(s \cup {x}) = Marked(s)
      BY ONLY <2>1, <3>3
    <3>5. Marked(s \cup {x}) = Sum((s \cup {x}) \cap A)
      BY <3>2, <3>3, <3>4, Zenon
    <3> QED BY <3>5
  <2> QED BY <2>2, <2>3
<1>3. S \in G
  <2>1. G \in SUBSET (SUBSET S) OBVIOUS
  <2> HIDE DEF G
  <2> QED BY <1>1, <1>2, <2>1, FiniteInduction
<1>4. S \cap A = A
  OBVIOUS
<1>5. Marked(S) = Sum(S \cap A)
  BY <1>3
<1> QED
  BY <1>4, <1>5, Zenon

\* Disjoint sets of terms are summed up separately.
LEMMA SumUnion ==
  ASSUME NEW S, IsFiniteSet(S), NEW f, \A x \in S : f[x] \in Int,
         NEW A \in SUBSET S, NEW B \in SUBSET S, A \cap B = {}
  PROVE  SumFunctionOnSet(f, A \cup B) = SumFunctionOnSet(f, A) + SumFunctionOnSet(f, B)
<1> DEFINE Sum(s) == SumFunctionOnSet(f, s)
           G == {s \in SUBSET B : Sum(A \cup s) = Sum(A) + Sum(s)}
<1>0. \A s \in SUBSET S : IsFiniteSet(s) /\ Sum(s) \in Int
  BY SumInt
<1>1. {} \in G
  <2>1. Sum({}) = 0
    BY SumStep, FS_EmptySet
  <2>2. A \cup {} = A
    OBVIOUS
  <2>3. Sum(A \cup {}) = Sum(A)
    BY <2>2, Zenon
  <2>4. Sum(A) \in Int
    BY <1>0
  <2>5. Sum(A \cup {}) = Sum(A) + Sum({})
    BY ONLY <2>1, <2>3, <2>4
  <2> QED BY <2>5
<1>2. ASSUME NEW s \in G, NEW x \in B \ s PROVE s \cup {x} \in G
  <2>1. Sum(s \cup {x}) = f[x] + Sum(s)
    BY <1>0, SumAdd
  <2>2. Sum((A \cup s) \cup {x}) = f[x] + Sum(A \cup s)
    BY <1>0, SumAdd
  <2>3. A \cup (s \cup {x}) = (A \cup s) \cup {x}
    OBVIOUS
  <2>4. Sum(A \cup (s \cup {x})) = f[x] + Sum(A \cup s)
    BY <2>2, <2>3, Zenon
  <2>5. /\ Sum(A \cup s) = Sum(A) + Sum(s)
        /\ Sum(A) \in Int /\ Sum(s) \in Int /\ f[x] \in Int
    BY <1>0
  <2>6. Sum(A \cup (s \cup {x})) = Sum(A) + Sum(s \cup {x})
    <3> HIDE DEF Sum
    <3> QED BY ONLY <2>1, <2>4, <2>5
  <2> QED BY <2>6
<1>3. B \in G
  <2>1. IsFiniteSet(B)
    BY <1>0
  <2>2. G \in SUBSET (SUBSET B)
    OBVIOUS
  <2> HIDE DEF G
  <2> QED BY <1>1, <1>2, <2>1, <2>2, FiniteInduction
<1> QED
  BY <1>3

---------------------------------------------------------------------------
(* Proofs: the parallel loop executes each iteration once, for every number of
   items, every number of threads, requested or granted, and every schedule. *)

USE SharingAssumption

Behind == {"reduce", "returned"}

\* Where an iteration is: not taken, held by one thread, or added once.
HeldInv ==
  /\ \A t \in Threads : doing[t] = "add" =>
       /\ item[t] \in Iterations \ left
       /\ \A s \in Threads :
            /\ added[s][item[t]] = 0
            /\ (doing[s] = "add" /\ item[s] = item[t]) => s = t
  /\ \A i \in left, t \in Threads : added[t][i] = 0
  /\ \A i \in Iterations \ left :
       \E t \in Threads : added[t][i] = 1 \/ (doing[t] = "add" /\ item[t] = i)

\* A thread waits at the barrier only when every iteration is taken, and the
\* caller passes the barrier only when the whole team waits there.
TeamInv ==
  /\ caller = "call" => \A t \in Threads : doing[t] = "outside"
  /\ caller # "call" => 0 \in team
  /\ \A t \in Threads : doing[t] # "outside" => t \in team
  /\ \A t \in Threads : doing[t] = "barrier" => left = {}
  /\ caller \in Behind => /\ left = {}
                          /\ \A t \in Threads : doing[t] \in {"outside", "barrier"}

SharingInv == LoopTypeOK /\ HeldInv /\ TeamInv /\ AddedOnce

\* Before the team is forked nothing is handed out.
LEMMA InitInv == SharingInit => SharingInv
<1> SUFFICES ASSUME SharingInit PROVE SharingInv
  OBVIOUS
<1> USE DEF SharingInit
<1>1. LoopTypeOK
  BY DEF LoopTypeOK
<1>2. HeldInv /\ TeamInv /\ AddedOnce
  BY DEF HeldInv, TeamInv, AddedOnce, Behind
<1> QED
  BY <1>1, <1>2 DEF SharingInv

\* The fork keeps the inductive invariant.
LEMMA ForkInv == SharingInv /\ Fork => SharingInv'
<1> SUFFICES ASSUME SharingInv, Fork PROVE SharingInv'
  OBVIOUS
<1> USE DEF Fork, SharingInv, Granted, Threads
<1>1. LoopTypeOK'
  BY DEF LoopTypeOK
<1>2. HeldInv'
  <2>1. \A t \in Threads : doing[t] # "add" /\ doing'[t] # "add"
    BY DEF TeamInv
  <2>2. left' = left /\ added' = added /\ item' = item
    OBVIOUS
  <2> QED
    BY <2>1, <2>2 DEF HeldInv
<1>3. TeamInv'
  BY DEF TeamInv, LoopTypeOK, Behind
<1>4. AddedOnce'
  BY DEF AddedOnce
<1> QED
  BY <1>1, <1>2, <1>3, <1>4

\* A thread that takes an iteration takes it from the ones that are left.
LEMMA TakeInv ==
  ASSUME SharingInv, NEW t \in Threads, Take(t)
  PROVE  SharingInv'
<1> USE DEF Take, Without, SharingInv
<1>1. LoopTypeOK'
  BY DEF LoopTypeOK
<1>2. PICK i \in left :
        /\ left' = left \ {i}
        /\ item' = [item EXCEPT ![t] = i]
  OBVIOUS
<1>3. i \in Iterations /\ item'[t] = i /\ doing'[t] = "add" /\ added' = added
  BY <1>2 DEF LoopTypeOK
<1>4. \A s \in Threads : s # t => doing'[s] = doing[s] /\ item'[s] = item[s]
  BY <1>2 DEF LoopTypeOK
<1>5. HeldInv'
  <2>1. ASSUME NEW r \in Threads, doing'[r] = "add"
        PROVE  /\ item'[r] \in Iterations \ left'
               /\ \A s \in Threads :
                    /\ added'[s][item'[r]] = 0
                    /\ (doing'[s] = "add" /\ item'[s] = item'[r]) => s = r
    BY <1>2, <1>3, <1>4, <2>1 DEF HeldInv
  <2>2. \A j \in left', s \in Threads : added'[s][j] = 0
    BY <1>2, <1>3 DEF HeldInv
  <2>3. ASSUME NEW j \in Iterations \ left'
        PROVE  \E s \in Threads :
                 added'[s][j] = 1 \/ (doing'[s] = "add" /\ item'[s] = j)
    <3>1. CASE j = i
      BY <1>3, <3>1
    <3>2. CASE j # i
      <4>1. PICK s \in Threads : added[s][j] = 1 \/ (doing[s] = "add" /\ item[s] = j)
        BY <1>2, <3>2, <2>3 DEF HeldInv
      <4> QED
        BY <4>1, <1>3, <1>4
    <3> QED
      BY <3>1, <3>2
  <2> QED
    BY <2>1, <2>2, <2>3 DEF HeldInv
<1>6. TeamInv'
  BY DEF TeamInv, LoopTypeOK, Behind
<1>7. AddedOnce'
  BY DEF AddedOnce
<1> QED
  BY <1>1, <1>5, <1>6, <1>7

\* What an Add changes.
LEMMA AddEffect ==
  ASSUME LoopTypeOK, NEW t \in Threads, Add(t), item[t] \in Iterations,
         added[t][item[t]] = 0
  PROVE  /\ added' \in [Threads -> [Iterations -> Nat]]
         /\ added'[t][item[t]] = 1
         /\ \A s \in Threads, i \in Iterations :
              (s # t \/ i # item[t]) => added'[s][i] = added[s][i]
<1> DEFINE row == [added[t] EXCEPT ![item[t]] = 1]
<1>1. added' = [added EXCEPT ![t] = row]
  BY DEF Add
<1>2. row \in [Iterations -> Nat] /\ row[item[t]] = 1
      /\ \A i \in Iterations : i # item[t] => row[i] = added[t][i]
  BY DEF LoopTypeOK
<1> QED
  BY <1>1, <1>2 DEF LoopTypeOK

\* An addition is of an iteration that its thread holds and no other.
LEMMA AddInv ==
  ASSUME SharingInv, NEW t \in Threads, Add(t)
  PROVE  SharingInv'
<1> USE DEF Add, SharingInv
<1>1. /\ item[t] \in Iterations \ left
      /\ \A s \in Threads : added[s][item[t]] = 0
  BY DEF HeldInv
<1>2. /\ added'[t][item[t]] = 1
      /\ \A s \in Threads, i \in Iterations :
           (s # t \/ i # item[t]) => added'[s][i] = added[s][i]
  BY <1>1, AddEffect
<1>3. LoopTypeOK'
  <2>1. added' \in [Threads -> [Iterations -> Nat]]
    BY <1>1, AddEffect
  <2> QED
    BY <2>1 DEF LoopTypeOK
<1>4. HeldInv'
  <2>1. \A s \in Threads : s # t => doing'[s] = doing[s] /\ item'[s] = item[s]
    BY DEF LoopTypeOK
  <2>2. doing'[t] = "loop" /\ left' = left
    BY DEF LoopTypeOK
  <2>3. ASSUME NEW r \in Threads, doing'[r] = "add"
        PROVE  /\ item'[r] \in Iterations \ left'
               /\ \A s \in Threads :
                    /\ added'[s][item'[r]] = 0
                    /\ (doing'[s] = "add" /\ item'[s] = item'[r]) => s = r
    <3>1. r # t /\ doing[r] = "add" /\ item'[r] = item[r]
      BY <2>1, <2>2, <2>3
    <3>2. item[r] # item[t]
      BY <3>1 DEF HeldInv
    <3> QED
      BY <1>2, <2>1, <2>2, <3>1, <3>2 DEF HeldInv
  <2>4. \A j \in left', s \in Threads : added'[s][j] = 0
    BY <1>1, <1>2, <2>2 DEF HeldInv, LoopTypeOK
  <2>5. ASSUME NEW j \in Iterations \ left'
        PROVE  \E s \in Threads :
                 added'[s][j] = 1 \/ (doing'[s] = "add" /\ item'[s] = j)
    <3>1. CASE j = item[t]
      BY <1>2, <3>1
    <3>2. CASE j # item[t]
      <4>1. PICK s \in Threads : added[s][j] = 1 \/ (doing[s] = "add" /\ item[s] = j)
        BY <2>2, <2>5 DEF HeldInv
      <4> QED
        BY <4>1, <3>2, <1>2, <2>1
    <3> QED
      BY <3>1, <3>2
  <2> QED
    BY <2>3, <2>4, <2>5 DEF HeldInv
<1>5. TeamInv'
  BY DEF TeamInv, LoopTypeOK, Behind
<1>6. AddedOnce'
  <2>1. \A s \in Threads, i \in Iterations :
          added'[s][i] = added[s][i] \/ (s = t /\ i = item[t])
    BY <1>2
  <2>2. ASSUME NEW s \in Threads, NEW r \in Threads, NEW i \in Iterations,
               added'[s][i] > 0, added'[r][i] > 0
        PROVE  s = r
    <3>1. CASE i = item[t]
      BY <1>1, <1>2, <2>2, <3>1
    <3>2. CASE i # item[t]
      BY <1>2, <2>2, <3>2 DEF AddedOnce
    <3> QED
      BY <3>1, <3>2
  <2>3. \A s \in Threads, i \in Iterations : added'[s][i] <= 1
    BY <1>2, <2>1 DEF AddedOnce
  <2> QED
    BY <2>2, <2>3 DEF AddedOnce
<1> QED
  BY <1>3, <1>4, <1>5, <1>6

\* A thread arrives at the barrier when it holds no iteration.
LEMMA ArriveInv ==
  ASSUME SharingInv, NEW t \in Threads, ArriveAtBarrier(t)
  PROVE  SharingInv'
<1> USE DEF ArriveAtBarrier, SharingInv
<1>1. LoopTypeOK'
  BY DEF LoopTypeOK
<1>2. HeldInv' /\ AddedOnce'
  <2>1. \A s \in Threads : (doing'[s] = "add") <=> (doing[s] = "add")
    BY DEF LoopTypeOK
  <2> QED
    BY <2>1 DEF HeldInv, AddedOnce
<1>3. TeamInv'
  BY DEF TeamInv, LoopTypeOK, Behind
<1> QED
  BY <1>1, <1>2, <1>3

\* The caller's own steps come after the barrier.
LEMMA CallerInv == SharingInv /\ (Join \/ Reduce) => SharingInv'
<1> SUFFICES ASSUME SharingInv, Join \/ Reduce PROVE SharingInv'
  OBVIOUS
<1> USE DEF SharingInv, Join, Reduce, AccumulatorCount
<1>1. LoopTypeOK'
  <2>1. next' \in 0..ThreadCount
    BY DEF LoopTypeOK
  <2> QED
    BY <2>1 DEF LoopTypeOK
<1>2. HeldInv' /\ AddedOnce'
  BY DEF HeldInv, AddedOnce
<1>3. TeamInv'
  BY DEF TeamInv, LoopTypeOK, Behind, AllArrived
<1> QED
  BY <1>1, <1>2, <1>3

\* Every step keeps the inductive invariant.
LEMMA NextInv == SharingInv /\ [SharingNext]_sharingVars => SharingInv'
<1> SUFFICES ASSUME SharingInv, [SharingNext]_sharingVars PROVE SharingInv'
  OBVIOUS
<1>1. CASE UNCHANGED sharingVars
  BY <1>1 DEF sharingVars, SharingInv, LoopTypeOK, HeldInv, TeamInv, AddedOnce, Behind
<1> QED
  BY <1>1, ForkInv, TakeInv, AddInv, ArriveInv, CallerInv
     DEF SharingNext, Caller, Thread, SharingReturned

\* For every team, every number of iterations and every schedule, each
\* iteration is left, held by one thread, or added once.
THEOREM Invariant == SharingSpec => []SharingInv
  BY InitInv, NextInv, PTL DEF SharingSpec

\* No term is added twice: neither by one thread nor by two.
THEOREM NoTermTwice == SharingSpec => []AddedOnce
<1>1. SharingInv => AddedOnce
  BY DEF SharingInv
<1> QED
  BY Invariant, <1>1, PTL

\* Past the barrier nothing is left and nothing is held: every addition was made.
LEMMA BehindBarrier == SharingInv => CompleteBehindBarrier
  BY DEF SharingInv, HeldInv, TeamInv, Behind, CompleteBehindBarrier, LoopTypeOK

\* When the reduction reads the accumulators, they hold every term.
THEOREM ReductionReadsAll == SharingSpec => []CompleteBehindBarrier
  BY Invariant, BehindBarrier, PTL

-----------------------------------------------------------------------------
(* Refinement: an Add executes its iteration, Join returns, the rest is     *)
(* invisible.                                                               *)

Executed == {i \in Iterations : \E t \in Threads : added[t][i] > 0}
Done     == caller \in {"reduce", "returned"}

\* The initial states map to initial states of the specification by sets.
LEMMA InitRefines == SharingInit => Once!Init
  BY DEF SharingInit, Once!Init

\* An addition is the execution of one iteration that was not executed.
LEMMA AddRefines ==
  ASSUME SharingInv, NEW t \in Threads, Add(t)
  PROVE  Once!Next
<1>1. /\ item[t] \in Iterations
      /\ \A s \in Threads : added[s][item[t]] = 0
      /\ ~Done /\ ~Done'
  BY DEF Add, SharingInv, HeldInv, TeamInv, Behind, Done
<1>2. /\ added'[t][item[t]] = 1
      /\ \A s \in Threads, i \in Iterations :
           (s # t \/ i # item[t]) => added'[s][i] = added[s][i]
  BY <1>1, AddEffect DEF SharingInv
<1>3. Executed' = Executed \cup {item[t]}
  BY <1>1, <1>2 DEF Executed
<1>4. item[t] \notin Executed
  BY <1>1 DEF Executed
<1>5. PICK i \in Iterations : i = item[t]
  BY <1>1
<1>6. Once!Execute(i)
  BY <1>1, <1>3, <1>4, <1>5 DEF Once!Execute, Executed, Done
<1> QED
  BY <1>6 DEF Once!Next

\* Leaving the parallel region is the return, with every iteration executed.
LEMMA JoinRefines == SharingInv /\ SharingInv' /\ Join => Once!Return
<1> SUFFICES ASSUME SharingInv, SharingInv', Join PROVE Once!Return
  OBVIOUS
<1>1. Executed' = Executed /\ ~Done /\ Done'
  BY DEF Join, Executed, Done
<1>2. Executed = Iterations
  <2>1. CompleteBehindBarrier'
    BY BehindBarrier, PTL
  <2> QED
    BY <1>1, <2>1 DEF Executed, Done, CompleteBehindBarrier, Join
<1> QED
  BY <1>1, <1>2 DEF Once!Return, Executed, Done

\* Every step maps to a step of the specification by sets, or to a stutter.
LEMMA StepRefines ==
  ASSUME SharingInv, SharingInv', [SharingNext]_sharingVars
  PROVE  [Once!Next]_<<Executed, Done>>
<1>1. ASSUME NEW t \in Threads, Add(t) PROVE Once!Next
  BY <1>1, AddRefines
<1>2. CASE Join
  BY <1>2, JoinRefines DEF Once!Next
<1>3. ASSUME NEW t \in Threads, Take(t) \/ ArriveAtBarrier(t)
      PROVE  UNCHANGED <<Executed, Done>>
  BY <1>3 DEF Take, ArriveAtBarrier, Executed, Done
<1>4. CASE Fork \/ Reduce \/ UNCHANGED sharingVars
  BY <1>4 DEF Fork, Reduce, sharingVars, Executed, Done
<1> QED
  BY <1>1, <1>2, <1>3, <1>4 DEF SharingNext, Caller, Thread, SharingReturned

\* The parallel function implements the loop that executes each iteration
\* once and returns when all are executed.
THEOREM Refinement == SharingSpec => ImplementsOnceEach
<1>1. SharingInv /\ SharingInv' /\ [SharingNext]_sharingVars => [Once!Next]_<<Executed, Done>>
  BY StepRefines
<1> QED
  BY Invariant, InitRefines, <1>1, PTL
     DEF SharingSpec, ImplementsOnceEach, Once!Spec, Executed, Done

-----------------------------------------------------------------------------
(* The reduction.                                                            *)

\* No accumulator's share exceeds its 32 bits.
EachFits == \A t \in Threads : AccumulatorSum(t) < Modulus

\* The iterations whose terms the accumulators read so far hold.
ReadSoFar == {i \in Iterations : \E t \in 0..next - 1 : added[t][i] = 1}

\* The result is the sum of the terms read so far.
SumInv ==
  /\ result \in Nat
  /\ caller \notin Behind => next = 0 /\ result = 0
  /\ caller = "returned" => next = ThreadCount
  /\ (caller \in Behind /\ EachFits) => result = SumFunctionOnSet(data, ReadSoFar)

\* There are finitely many iterations.
LEMMA IterationsFinite == IsFiniteSet(Iterations)
  BY FS_Interval DEF Iterations

\* An accumulator holds the terms of the iterations it was given.
LEMMA AccumulatorHolds ==
  ASSUME SharingInv, NEW t \in Threads
  PROVE  /\ AccumulatorSum(t) \in Nat
         /\ AccumulatorSum(t) = SumFunctionOnSet(data, {i \in Iterations : added[t][i] = 1})
<1> DEFINE Terms == [i \in Iterations |-> added[t][i] * data[i]]
           Mine == {i \in Iterations : added[t][i] = 1}
<1>1. \A i \in Iterations : data[i] \in Nat /\ added[t][i] \in {0, 1}
  <2>1. \A i \in Iterations : added[t][i] \in Nat /\ added[t][i] <= 1
    BY DEF SharingInv, LoopTypeOK, AddedOnce
  <2>2. data \in [Iterations -> 0..12]
    BY InputAssumption DEF SharingInv, LoopTypeOK
  <2> QED BY <2>1, <2>2
<1>2. ASSUME NEW i \in Iterations
      PROVE  Terms[i] \in Nat /\ Terms[i] = IF i \in Mine THEN data[i] ELSE 0
  <2>1. CASE added[t][i] = 0
    BY <1>1, <2>1
  <2>2. CASE added[t][i] = 1
    BY <1>1, <2>2
  <2> QED BY <1>1, <2>1, <2>2
<1>3. AccumulatorSum(t) = SumFunctionOnSet(Terms, Iterations)
  BY DEF AccumulatorSum, SumFunction
<1>4. Mine \in SUBSET Iterations
  OBVIOUS
<1> HIDE DEF Terms, Mine
<1>5. SumFunctionOnSet(Terms, Iterations) \in Nat
  BY <1>2, IterationsFinite, SumNat
<1>6. SumFunctionOnSet(Terms, Iterations) = SumFunctionOnSet(data, Mine)
  BY <1>1, <1>2, <1>4, IterationsFinite, SumMarked
<1> QED
  BY <1>3, <1>5, <1>6 DEF Mine

\* What the program reads is a number below Modulus, and the sum if that is.
LEMMA AccumulatorReads ==
  ASSUME SharingInv, NEW t \in Threads
  PROVE  /\ AccumulatorValue(t) \in Nat
         /\ AccumulatorSum(t) < Modulus => AccumulatorValue(t) = AccumulatorSum(t)
<1>1. \A a \in Nat, b \in Nat \ {0} : a % b \in Nat /\ (a < b => a % b = a)
  OBVIOUS
<1> QED
  BY <1>1, AccumulatorHolds DEF AccumulatorValue

\* The reduction adds the partial sums of the team.
LEMMA ReduceSum == SharingInv /\ SumInv /\ Reduce => SumInv'
<1> SUFFICES ASSUME SharingInv, SumInv, Reduce PROVE SumInv'
  OBVIOUS
<1>1. /\ caller = "reduce" /\ UNCHANGED <<data, added>>
      /\ next \in Nat /\ next <= ThreadCount
      /\ EachFits' = EachFits
  BY DEF Reduce, SharingInv, LoopTypeOK, EachFits, AccumulatorSum
<1>2. CASE next < ThreadCount
  <2>1. next \in Threads
    BY <1>1, <1>2 DEF Threads
  <2>2. /\ result' = result + AccumulatorValue(next)
        /\ next' = next + 1 /\ caller' = "reduce"
    BY <1>1, <1>2 DEF Reduce, AccumulatorCount
  <2> DEFINE Mine == {i \in Iterations : added[next][i] = 1}
  <2>3. ReadSoFar' = ReadSoFar \cup Mine
    <3>1. 0..next' - 1 = (0..next - 1) \cup {next}
      BY <1>1, <2>2
    <3> QED BY <1>1, <3>1 DEF ReadSoFar
  <2>4. ReadSoFar \cap Mine = {}
    BY <1>1, <2>1 DEF ReadSoFar, SharingInv, AddedOnce, Threads
  <2>5. \A i \in Iterations : data[i] \in Int
    BY InputAssumption DEF SharingInv, LoopTypeOK
  <2>6. ReadSoFar \in SUBSET Iterations /\ Mine \in SUBSET Iterations
    BY DEF ReadSoFar
  <2>7. SumFunctionOnSet(data, ReadSoFar \cup Mine)
          = SumFunctionOnSet(data, ReadSoFar) + SumFunctionOnSet(data, Mine)
    <3> HIDE DEF Mine
    <3> QED BY <2>4, <2>5, <2>6, IterationsFinite, SumUnion
  <2>8. EachFits => result' = SumFunctionOnSet(data, ReadSoFar) + SumFunctionOnSet(data, Mine)
    <3>1. EachFits => result = SumFunctionOnSet(data, ReadSoFar)
      BY <1>1 DEF SumInv, Behind
    <3>2. EachFits => AccumulatorValue(next) = SumFunctionOnSet(data, Mine)
      BY <2>1, AccumulatorHolds, AccumulatorReads DEF EachFits
    <3> QED BY <2>2, <3>1, <3>2
  <2>9. EachFits' => result' = SumFunctionOnSet(data', ReadSoFar')
    BY <1>1, <2>3, <2>7, <2>8, Zenon
  <2>10. result' \in Nat
    BY <2>1, <2>2, AccumulatorReads DEF SumInv
  <2> QED
    BY <2>2, <2>9, <2>10 DEF SumInv, Behind
<1>3. CASE ~(next < ThreadCount)
  <2>1. /\ UNCHANGED <<next, result>> /\ caller' = "returned" /\ next = ThreadCount
    BY <1>1, <1>3 DEF Reduce, AccumulatorCount
  <2>2. ReadSoFar' = ReadSoFar
    BY <1>1, <2>1 DEF ReadSoFar
  <2> QED
    BY <1>1, <2>1, <2>2 DEF SumInv, Behind
<1> QED
  BY <1>2, <1>3

\* Every step keeps the sums of what was added.
LEMMA NextSum == SharingInv /\ SumInv /\ [SharingNext]_sharingVars => SumInv'
<1> SUFFICES ASSUME SharingInv, SumInv, [SharingNext]_sharingVars PROVE SumInv'
  OBVIOUS
<1>1. CASE Fork \/ \E t \in Threads : Thread(t)
  BY <1>1 DEF Fork, Thread, Take, Add, ArriveAtBarrier, SumInv, Behind, SharingInv, TeamInv
<1>2. CASE Join
  <2>1. caller' = "reduce" /\ UNCHANGED <<data, added, next, result>> /\ next = 0 /\ result = 0
    BY <1>2 DEF Join, SumInv, Behind
  <2>2. ReadSoFar' = {}
    BY <2>1 DEF ReadSoFar
  <2>3. SumFunctionOnSet(data', {}) = 0
    BY SumStep, FS_EmptySet
  <2>4. SumFunctionOnSet(data', ReadSoFar') = 0
    BY <2>2, <2>3, Zenon
  <2> QED
    BY <2>1, <2>4 DEF SumInv
<1>3. CASE UNCHANGED sharingVars
  <2>1. EachFits' = EachFits /\ ReadSoFar' = ReadSoFar
    BY <1>3 DEF sharingVars, EachFits, AccumulatorSum, ReadSoFar
  <2> QED
    BY <1>3, <2>1 DEF sharingVars, SumInv
<1> QED
  BY <1>1, <1>2, <1>3, ReduceSum DEF SharingNext, Caller, SharingReturned

\* What is returned is the sum of the original loop.
LEMMA ReturnedSum == SharingInv /\ SumInv => MatchesOriginal
<1> SUFFICES ASSUME SharingInv, SumInv, caller = "returned", EachFits
             PROVE  result = OriginalSolution
  BY DEF MatchesOriginal, EachFits
<1>1. result = SumFunctionOnSet(data, ReadSoFar) /\ next = ThreadCount
  BY DEF SumInv, Behind
<1>2. 0..next - 1 = Threads
  BY <1>1 DEF Threads
<1>3. ReadSoFar = Iterations
  BY <1>2, BehindBarrier DEF CompleteBehindBarrier, ReadSoFar
<1>4. DOMAIN data = Iterations
  BY InputAssumption DEF SharingInv, LoopTypeOK
<1> QED
  BY <1>1, <1>3, <1>4, Zenon DEF OriginalSolution, SumFunction

\* Before any addition all the sums are zero.
LEMMA InitSum == SharingInit => SumInv
  BY DEF SharingInit, SumInv, Behind

\* The parallel sum is the sequential sum, for every input, every number of
\* threads and every schedule, unless an accumulator overflows.
THEOREM SumIsRight == SharingSpec => []MatchesOriginal
<1>1. SharingInv /\ SumInv /\ [SharingNext]_sharingVars => SumInv'
  BY NextSum
<1> QED
  BY Invariant, InitSum, <1>1, ReturnedSum, PTL DEF SharingSpec

\* The variables keep their types; that of the sum needs those of its terms.
THEOREM TypeCorrect == SharingSpec => []SharingTypeOK
<1>1. SharingInv /\ SumInv /\ [SharingNext]_sharingVars => SumInv'
  BY NextSum
<1>2. SharingInv /\ SumInv => SharingTypeOK
  BY DEF SharingInv, SumInv, SharingTypeOK
<1> QED
  BY Invariant, InitSum, <1>1, <1>2, PTL DEF SharingSpec
=============================================================================
