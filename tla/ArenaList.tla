----------------------------- MODULE ArenaList -----------------------------
(***************************************************************************)
(* labs/core_bound/dep_chains_1: two linked lists are built from random    *)
(* vectors, each in an arena of its own (arena.hpp, init.cpp), and the     *)
(* values of one are looked up in the other (solution.cpp).                *)
(*                                                                         *)
(* The memory of an arena is a function from cells, each large enough for  *)
(* a node, to nodes; a cell that was never written is Uninit.              *)
(***************************************************************************)
EXTENDS Naturals, Sequences, FiniteSets, Functions, Folds

CONSTANTS
  ArenaSize, \* random values drawn per list, and nodes an arena has room for
  Values,    \* the values of RandomRangeT
  Null,      \* nullptr
  Uninit     \* a cell the arena's constructor left as it was

ASSUME CapacityAssumption == ArenaSize \in Nat
ASSUME ValueAssumption == Values \subseteq Nat
ASSUME NullAssumption == Null \notin Nat

Cells    == 0..ArenaSize - 1
Pointers == Cells \cup {Null}
Node     == [value : Nat, next : Pointers]
Lists    == {1, 2}

ASSUME UninitAssumption == Uninit \notin Node

\* getRandomVector: ArenaSize draws without their duplicates, shuffled.
RandomVectors ==
  {s \in UNION {[1..n -> Values] : n \in 0..ArenaSize} :
     IsInjective(s) /\ (ArenaSize > 0 => s # <<>>)}

VARIABLES
  randoms,  \* the vector behind each list
  pc,       \* where the program is
  k,        \* the list under construction
  node,     \* the memory of each arena
  cur,      \* curPtr of each arena
  head,     \* what getRandomList returned, Null before
  last,     \* the local l of getRandomList
  taken,    \* random values appended so far
  l1, l2,   \* the cursors of solution
  retVal

vars == <<randoms, pc, k, node, cur, head, last, taken, l1, l2, retVal>>
building == <<randoms, k, node, cur, head, last, taken>>

Labels == {"head", "append", "outer", "inner", "returned"}

\* The types of everything but the sum.
PointerTypeOK ==
  /\ randoms \in [Lists -> Seq(Values)]
  /\ pc \in Labels
  /\ k \in Lists
  /\ node \in [Lists -> [Cells -> Node \cup {Uninit}]]
  /\ cur \in [Lists -> 0..ArenaSize]
  /\ head \in [Lists -> Pointers]
  /\ last \in Pointers
  /\ taken \in Nat
  /\ l1 \in Pointers /\ l2 \in Pointers

TypeOK == PointerTypeOK /\ retVal \in Nat

Init ==
  /\ randoms \in [Lists -> RandomVectors]
  /\ pc = "head"
  /\ k = 1
  /\ node = [i \in Lists |-> [c \in Cells |-> Uninit]]
  /\ cur = [i \in Lists |-> 0]
  /\ head = [i \in Lists |-> Null]
  /\ last = Null
  /\ taken = 0
  /\ l1 = Null /\ l2 = Null
  /\ retVal = 0

-----------------------------------------------------------------------------
(* Building the lists *)

\* Mutant: room for a node that only begins inside the arena.
RoomForOneMore(c) == c <= ArenaSize

\* allocate returns the next cell, or nullptr if no whole node fits.
HasRoom(c) == c < ArenaSize
Created(v) == [value |-> v, next |-> Null]

\* getRandomList returns p; the program builds the other list or looks up.
ReturnList(p) ==
  /\ head' = [head EXCEPT ![k] = p]
  /\ last' = Null
  /\ taken' = 0
  /\ IF k = 1
     THEN /\ k' = 2
          /\ pc' = "head"
          /\ UNCHANGED l1
     ELSE /\ pc' = "outer"
          /\ l1' = head[1]
          /\ UNCHANGED k

\* createNode(0), the head
CreateHead ==
  /\ pc = "head"
  /\ IF HasRoom(cur[k])
     THEN /\ node' = [node EXCEPT ![k][cur[k]] = Created(0)]
          /\ cur' = [cur EXCEPT ![k] = @ + 1]
          /\ last' = cur[k]
          /\ pc' = "append"
          /\ UNCHANGED <<k, head, taken, l1>>
     ELSE /\ ReturnList(Null)
          /\ UNCHANGED <<node, cur>>
  /\ UNCHANGED <<randoms, l2, retVal>>

\* l->next = createNode(v), for the next random value
AppendNode ==
  /\ pc = "append"
  /\ taken < Len(randoms[k])
  /\ IF HasRoom(cur[k])
     THEN /\ node' = [node EXCEPT
                        ![k] = [@ EXCEPT ![last].next = cur[k],
                                         ![cur[k]] = Created(randoms[k][taken + 1])]]
          /\ cur' = [cur EXCEPT ![k] = @ + 1]
          /\ last' = cur[k]
          /\ taken' = taken + 1
          /\ UNCHANGED <<pc, k, head, l1>>
     ELSE /\ ReturnList(Null)
          /\ UNCHANGED <<node, cur>>
  /\ UNCHANGED <<randoms, l2, retVal>>

ListComplete ==
  /\ pc = "append"
  /\ taken = Len(randoms[k])
  /\ ReturnList(0)
  /\ UNCHANGED <<randoms, node, cur, l2, retVal>>

-----------------------------------------------------------------------------
(* Looking up the values of the first list in the second *)

SumOfDigits[n \in Nat] == IF n = 0 THEN 0 ELSE (n % 10) + SumOfDigits[n \div 10]

\* Mutant: the search goes on where the last one stopped.
Onwards == l2

\* Every search starts at the second list's head.
SearchFrom == head[2]

Outer ==
  /\ pc = "outer"
  /\ IF l1 = Null
     THEN pc' = "returned" /\ UNCHANGED l2
     ELSE pc' = "inner" /\ l2' = SearchFrom
  /\ UNCHANGED <<building, l1, retVal>>

Inner ==
  /\ pc = "inner"
  /\ IF l2 # Null /\ node[2][l2].value # node[1][l1].value
     THEN /\ l2' = node[2][l2].next
          /\ UNCHANGED <<pc, l1, retVal>>
     ELSE /\ retVal' = IF l2 = Null THEN retVal
                       ELSE retVal + SumOfDigits[node[1][l1].value]
          /\ l1' = node[1][l1].next
          /\ pc' = "outer"
          /\ UNCHANGED l2
  /\ UNCHANGED building

Returned == pc = "returned" /\ UNCHANGED vars

Step == CreateHead \/ AppendNode \/ ListComplete \/ Outer \/ Inner

Next == Step \/ Returned

Spec == Init /\ [][Next]_vars

-----------------------------------------------------------------------------
(* Properties *)

\* The cells of arena i that hold a node.
Written(i) == {c \in Cells : c < cur[i] /\ node[i][c] # Uninit}

\* Pointers never leave the nodes that were allocated and written: the cursor
\* of the construction, the cursors of the lookup and every next.
PointsToNodes ==
  /\ pc = "append" => last \in Written(k)
  /\ l1 \in Written(1) \cup {Null}
  /\ l2 \in Written(2) \cup {Null}
  /\ \A i \in Lists, c \in Cells :
       node[i][c] # Uninit => node[i][c].next \in Written(i) \cup {Null}

\* What a list holds: 0 and its random values in their order.  It needs one node
\* more than it has random values, and there is no list without that room.
Expected(i) ==
  IF Len(randoms[i]) < ArenaSize THEN <<0>> \o randoms[i] ELSE <<>>

\* Where n steps along the next pointers lead.
At(i) ==
  LET at[n \in 0..ArenaSize] ==
        IF n = 0 THEN head[i]
        ELSE IF at[n - 1] = Null THEN Null ELSE node[i][at[n - 1]].next
  IN  at

Built == pc \in {"outer", "inner", "returned"}

\* A list that was returned is the expected one, read along its next pointers:
\* all of it or, if the arena was too small, nothing.
AllOrNothing ==
  Built => \A i \in Lists :
    LET size == Len(Expected(i)) IN
    /\ \A n \in 1..size :
         At(i)[n - 1] # Null /\ node[i][At(i)[n - 1]].value = Expected(i)[n]
    /\ At(i)[size] = Null

\* The result is the sum over the values the lists have in common, each once:
\* the second 0 a list may hold goes unnoticed because its digits add nothing.
LookupIsIntersection ==
  pc = "returned" =>
    retVal = MapThenFoldSet(+, 0, LAMBDA v : SumOfDigits[v],
                            LAMBDA S : CHOOSE v \in S : TRUE,
                            Range(Expected(1)) \cap Range(Expected(2)))
=============================================================================
