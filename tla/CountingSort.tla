---------------------------- MODULE CountingSort ----------------------------
(***************************************************************************)
(* labs/memory_bound/data_packing: an array is shuffled and then sorted by *)
(* counting.  An element is known by its key i and its place before the    *)
(* shuffle.                                                                *)
(***************************************************************************)
EXTENDS LabParameters, Functions

N == Elements

cntSize  == maxRandom - minRandom + 1
Counters == 0..cntSize - 1
Keys     == minRandom..maxRandom - 1
Slots    == 0..N - 1
S        == [i : Keys, place : Slots]

\* A slot of the vector sorted that was not assigned yet.
Default == [i |-> minRandom, place |-> -1]

VARIABLES
  input,    \* the keys, as init has drawn them
  arr,
  cnt,
  sorted,
  n,        \* the loop variable, of every loop
  pc

vars == <<input, arr, cnt, sorted, n, pc>>

TypeOK ==
  /\ input \in [Slots -> Keys]
  /\ arr \in [Slots -> S]
  /\ cnt \in [Counters -> 0..N]
  /\ sorted \in [Slots -> S \cup {Default}]
  /\ n \in Nat
  /\ pc \in {"shuffle", "count", "sum", "place", "returned"}

Init ==
  /\ input \in [Slots -> Keys]
  /\ arr = [s \in Slots |-> [i |-> input[s], place |-> s]]
  /\ cnt = [c \in Counters |-> 0]
  /\ sorted = [s \in Slots |-> Default]
  /\ n = 0
  /\ pc = "shuffle"

-----------------------------------------------------------------------------

\* std::shuffle: any order.
Shuffle ==
  /\ pc = "shuffle"
  /\ \E p \in {f \in [Slots -> Slots] : IsInjective(f)} :
       arr' = [s \in Slots |-> arr[p[s]]]
  /\ pc' = "count"
  /\ UNCHANGED <<input, cnt, sorted, n>>

\* Mutant: the counter is not moved on.
Unmoved(c) == c

CounterOf(v) == v.i - minRandom + 1
Moved(c)     == c + 1

Count ==
  /\ pc = "count"
  /\ IF n < N
     THEN /\ cnt' = [cnt EXCEPT ![CounterOf(arr[n])] = @ + 1]
          /\ n' = n + 1
          /\ UNCHANGED pc
     ELSE /\ n' = 1
          /\ pc' = "sum"
          /\ UNCHANGED cnt
  /\ UNCHANGED <<input, arr, sorted>>

Sum ==
  /\ pc = "sum"
  /\ IF n < cntSize
     THEN /\ cnt' = [cnt EXCEPT ![n] = @ + cnt[n - 1]]
          /\ n' = n + 1
          /\ UNCHANGED pc
     ELSE /\ n' = 0
          /\ pc' = "place"
          /\ UNCHANGED cnt
  /\ UNCHANGED <<input, arr, sorted>>

\* sorted[cnt[v.i - minRandom]++] = v, and at the end arr = sorted
Place ==
  /\ pc = "place"
  /\ IF n < N
     THEN LET c == arr[n].i - minRandom IN
          /\ sorted' = [sorted EXCEPT ![cnt[c]] = arr[n]]
          /\ cnt' = [cnt EXCEPT ![c] = Moved(@)]
          /\ n' = n + 1
          /\ UNCHANGED <<arr, pc>>
     ELSE /\ arr' = sorted
          /\ pc' = "returned"
          /\ UNCHANGED <<cnt, sorted, n>>
  /\ UNCHANGED input

Returned == pc = "returned" /\ UNCHANGED vars

Next == Shuffle \/ Count \/ Sum \/ Place \/ Returned

Spec == Init /\ [][Next]_vars

-----------------------------------------------------------------------------
(* Properties *)

\* Every access is to an element of its array, although no access is checked.
InBounds ==
  /\ pc = "count" /\ n < N => CounterOf(arr[n]) \in Counters
  /\ pc = "sum" /\ n < cntSize => {n - 1, n} \subseteq Counters
  /\ pc = "place" /\ n < N =>
       /\ arr[n].i - minRandom \in Counters
       /\ cnt[arr[n].i - minRandom] \in Slots

\* What returns is the input's elements, each once, in the order of their keys.
SortedPermutation ==
  pc = "returned" =>
    /\ {arr[s] : s \in Slots} = {[i |-> input[s], place |-> s] : s \in Slots}
    /\ \A s, t \in Slots : s < t => arr[s].i <= arr[t].i
=============================================================================
