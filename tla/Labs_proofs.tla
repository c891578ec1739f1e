---------------------------- MODULE Labs_proofs ----------------------------
(***************************************************************************)
(* Theorems about the labs, for inputs of every size: the pointers of the  *)
(* arena lists, the grids of the game of life and the loops over images.   *)
(***************************************************************************)
EXTENDS MCLabs, FiniteSetTheorems, WellFoundedInduction, TLAPS

---------------------------------------------------------------------------
(* Memory safety of the arena lists, for arenas of every size, every range of
   values and every random vector. *)

\* An arena's cells are written in their order, as far as curPtr says.
ArenaInv ==
  \A x \in Lists, c \in Cells : c < cur[x] <=> node[x][c] # Uninit

\* The head of a list that was returned is a node, and the outer cursor is one
\* while the inner loop runs.
HeadInv ==
  /\ \A x \in Lists : head[x] \in Written(x) \cup {Null}
  /\ pc = "inner" => l1 # Null
  /\ k = 1 => l1 = Null /\ l2 = Null

ListsInv ==
  /\ PointerTypeOK
  /\ ArenaInv
  /\ HeadInv
  /\ PointsToNodes

USE CapacityAssumption, ValueAssumption, NullAssumption, UninitAssumption

\* Both lists start with nothing allocated and nothing linked.
LEMMA ListsInit == Init => ListsInv
<1> SUFFICES ASSUME Init PROVE ListsInv
  OBVIOUS
<1>1. randoms \in [Lists -> Seq(Values)]
  <2>1. RandomVectors \subseteq Seq(Values)
    BY DEF RandomVectors
  <2> QED
    BY <2>1 DEF Init
<1>2. PointerTypeOK
  BY <1>1 DEF Init, PointerTypeOK, Labels, Lists, Pointers
<1>3. ArenaInv /\ HeadInv /\ PointsToNodes
  BY DEF Init, ArenaInv, HeadInv, PointsToNodes, Cells, Written
<1> QED
  BY <1>2, <1>3 DEF ListsInv

\* A node goes into the next cell, every other cell but the predecessor's next
\* stays, and the nodes written before are nodes still.
LEMMA NewNode ==
  ASSUME ListsInv, HasRoom(cur[k]), NEW v \in Nat,
         \/ node' = [node EXCEPT ![k][cur[k]] = Created(v)]
         \/ /\ last \in Written(k)
            /\ node' = [node EXCEPT ![k] = [@ EXCEPT ![last].next = cur[k],
                                                     ![cur[k]] = Created(v)]],
         cur' = [cur EXCEPT ![k] = @ + 1],
         k' = k
  PROVE  /\ node' \in [Lists -> [Cells -> Node \cup {Uninit}]]
         /\ cur' \in [Lists -> 0..ArenaSize]
         /\ ArenaInv'
         /\ cur[k] \in Written(k)'
         /\ \A x \in Lists : Written(x) \subseteq Written(x)'
         /\ \A x \in Lists, c \in Cells :
              node'[x][c] # Uninit => node'[x][c].next \in Written(x)' \cup {Null}
<1> USE DEF ListsInv, PointerTypeOK, HasRoom, Cells, Pointers
<1>1. k \in Lists /\ cur[k] \in Cells /\ node[k] \in [Cells -> Node \cup {Uninit}]
  OBVIOUS
<1>2. Created(v) \in Node /\ Created(v) # Uninit /\ Created(v).next = Null
  BY DEF Created, Node
<1>3. cur' \in [Lists -> 0..ArenaSize] /\ cur'[k] = cur[k] + 1
  BY <1>1
<1>4. \A x \in Lists \ {k} : node'[x] = node[x] /\ cur'[x] = cur[x]
  BY <1>1
<1>5. /\ node'[k] \in [Cells -> Node \cup {Uninit}]
      /\ node'[k][cur[k]] = Created(v)
      /\ \A c \in Cells \ {cur[k]} :
           \/ node'[k][c] = node[k][c]
           \/ /\ node[k][c] # Uninit /\ node'[k][c] \in Node
              /\ node'[k][c].next = cur[k]
  <2>1. CASE node' = [node EXCEPT ![k][cur[k]] = Created(v)]
    BY <2>1, <1>1, <1>2
  <2>2. CASE /\ last \in Written(k)
             /\ node' = [node EXCEPT ![k] = [@ EXCEPT ![last].next = cur[k],
                                                      ![cur[k]] = Created(v)]]
    <3>1. last \in Cells /\ last < cur[k] /\ node[k][last] \in Node
      BY <2>2, <1>1 DEF Written
    <3>2. [node[k][last] EXCEPT !.next = cur[k]] \in Node
      BY <3>1, <1>1 DEF Node
    <3>3. node'[k] = [node[k] EXCEPT ![last].next = cur[k], ![cur[k]] = Created(v)]
      BY <2>2, <1>1
    <3>4. node'[k][cur[k]] = Created(v)
      BY <3>1, <3>3, <1>1
    <3>5. node'[k][last] = [node[k][last] EXCEPT !.next = cur[k]]
      <4>1. last # cur[k]
        BY <3>1, <1>1
      <4>2. [node[k] EXCEPT ![last].next = cur[k]][last]
              = [node[k][last] EXCEPT !.next = cur[k]]
        BY <3>1, <1>1
      <4> QED
        BY <3>1, <3>3, <4>1, <4>2, <1>1
    <3>6. \A c \in Cells \ {cur[k], last} : node'[k][c] = node[k][c]
      BY <3>1, <3>3, <1>1
    <3>7. node'[k] \in [Cells -> Node \cup {Uninit}]
      BY <3>1, <3>2, <3>3, <1>1, <1>2
    <3>8. node[k][last] # Uninit /\ node'[k][last].next = cur[k]
      BY <3>1, <3>5 DEF Node
    <3> QED
      BY <3>2, <3>4, <3>5, <3>6, <3>7, <3>8
  <2> QED
    BY <2>1, <2>2
<1>6. node' \in [Lists -> [Cells -> Node \cup {Uninit}]]
  BY <1>1, <1>4, <1>5
<1>7. ArenaInv'
  BY <1>1, <1>2, <1>3, <1>4, <1>5 DEF ArenaInv
<1>8. cur[k] \in Written(k)'
  BY <1>1, <1>2, <1>3, <1>5 DEF Written
<1>9. ASSUME NEW x \in Lists PROVE Written(x) \subseteq Written(x)'
  <2>1. CASE x = k
    BY <2>1, <1>1, <1>2, <1>3, <1>5 DEF Written
  <2>2. CASE x # k
    BY <2>2, <1>4 DEF Written
  <2> QED
    BY <2>1, <2>2
<1>10. ASSUME NEW x \in Lists, NEW c \in Cells, node'[x][c] # Uninit
       PROVE  node'[x][c].next \in Written(x)' \cup {Null}
  <2>1. node[x][c] # Uninit => node[x][c].next \in Written(x)' \cup {Null}
    BY <1>9 DEF PointsToNodes
  <2>2. CASE x = k
    BY <2>1, <2>2, <1>2, <1>5, <1>8, <1>10
  <2>3. CASE x # k
    BY <2>1, <2>3, <1>4, <1>10
  <2> QED
    BY <2>2, <2>3
<1> QED
  BY <1>3, <1>6, <1>7, <1>8, <1>9, <1>10

\* Returning a list changes no node, and its head is a node or nothing.
LEMMA ReturnInv ==
  ASSUME ListsInv, NEW p \in Written(k) \cup {Null}, ReturnList(p), pc \in {"head", "append"},
         UNCHANGED <<randoms, node, cur, l2, retVal>>
  PROVE  ListsInv'
<1> USE DEF ListsInv
<1>1. PointerTypeOK'
  BY DEF PointerTypeOK, ReturnList, Written, Labels, Lists, Pointers
<1>2. ArenaInv'
  BY DEF ArenaInv
<1>3. \A x \in Lists : Written(x)' = Written(x)
  BY DEF Written
<1>4. \A x \in Lists : head'[x] \in Written(x) \cup {Null}
  BY DEF HeadInv, ReturnList, PointerTypeOK
<1>5. l1' \in Written(1) \cup {Null} /\ (k' = 1 => l1' = Null /\ l2' = Null)
  <2>1. CASE k = 1
    BY <2>1 DEF HeadInv, ReturnList
  <2>2. CASE k # 1
    BY <2>2, <1>4 DEF ReturnList, PointsToNodes, HeadInv, PointerTypeOK, Lists
  <2> QED
    BY <2>1, <2>2
<1>6. HeadInv'
  BY <1>3, <1>4, <1>5 DEF HeadInv, ReturnList
<1>7. PointsToNodes'
  BY <1>3, <1>5 DEF PointsToNodes, ReturnList, Lists
<1> QED
  BY <1>1, <1>2, <1>6, <1>7

\* Every step of the construction and of the lookup keeps the invariant.
LEMMA ListsNext ==
  ASSUME ListsInv, [Next]_vars
  PROVE  ListsInv'
<1> USE DEF ListsInv
<1>1. CASE CreateHead /\ HasRoom(cur[k])
  <2> USE <1>1 DEF CreateHead
  <2>1. /\ node' \in [Lists -> [Cells -> Node \cup {Uninit}]]
        /\ cur' \in [Lists -> 0..ArenaSize]
        /\ ArenaInv'
        /\ cur[k] \in Written(k)'
        /\ \A x \in Lists : Written(x) \subseteq Written(x)'
        /\ \A x \in Lists, c \in Cells :
             node'[x][c] # Uninit => node'[x][c].next \in Written(x)' \cup {Null}
    BY NewNode
  <2>2. cur[k] \in Cells
    BY DEF PointerTypeOK, HasRoom, Cells
  <2>3. PointerTypeOK'
    BY <2>1, <2>2 DEF PointerTypeOK, Labels, Pointers
  <2>4. HeadInv'
    BY <2>1 DEF HeadInv
  <2>5. PointsToNodes'
    BY <2>1 DEF PointsToNodes, Lists
  <2> QED
    BY <2>1, <2>3, <2>4, <2>5
<1>2. CASE CreateHead /\ ~HasRoom(cur[k])
  BY <1>2, ReturnInv DEF CreateHead
<1>3. CASE AppendNode /\ HasRoom(cur[k])
  <2> USE <1>3 DEF AppendNode
  <2>1. last \in Written(k) /\ randoms[k][taken + 1] \in Nat
    BY DEF PointsToNodes, PointerTypeOK
  <2>2. /\ node' \in [Lists -> [Cells -> Node \cup {Uninit}]]
        /\ cur' \in [Lists -> 0..ArenaSize]
        /\ ArenaInv'
        /\ cur[k] \in Written(k)'
        /\ \A x \in Lists : Written(x) \subseteq Written(x)'
        /\ \A x \in Lists, c \in Cells :
             node'[x][c] # Uninit => node'[x][c].next \in Written(x)' \cup {Null}
    BY <2>1, NewNode
  <2>3. cur[k] \in Cells
    BY DEF PointerTypeOK, HasRoom, Cells
  <2>4. PointerTypeOK'
    BY <2>2, <2>3 DEF PointerTypeOK, Labels, Pointers
  <2>5. HeadInv'
    BY <2>2 DEF HeadInv
  <2>6. PointsToNodes'
    BY <2>2 DEF PointsToNodes, Lists
  <2> QED
    BY <2>2, <2>4, <2>5, <2>6
<1>4. CASE AppendNode /\ ~HasRoom(cur[k])
  BY <1>4, ReturnInv DEF AppendNode
<1>5. CASE ListComplete
  <2>1. 0 \in Written(k)
    BY <1>5 DEF ListComplete, PointsToNodes, PointerTypeOK, ArenaInv, Written, Cells
  <2> QED
    BY <1>5, <2>1, ReturnInv DEF ListComplete
<1>6. CASE Outer
  <2> USE <1>6 DEF Outer, SearchFrom, building
  <2>1. PointerTypeOK'
    BY DEF PointerTypeOK, Labels, Lists
  <2>2. ArenaInv' /\ \A x \in Lists : Written(x)' = Written(x)
    BY DEF ArenaInv, Written
  <2>3. HeadInv'
    BY <2>2 DEF HeadInv
  <2>4. PointsToNodes'
    BY <2>2 DEF PointsToNodes, HeadInv, Lists
  <2> QED
    BY <2>1, <2>2, <2>3, <2>4
<1>7. CASE Inner
  <2> USE <1>7 DEF Inner, building
  <2>1. l1 \in Written(1)
    BY DEF HeadInv, PointsToNodes
  <2>2. ArenaInv' /\ \A x \in Lists : Written(x)' = Written(x)
    BY DEF ArenaInv, Written
  <2>3. l1' \in Written(1) \cup {Null} /\ l2' \in Written(2) \cup {Null}
    BY <2>1 DEF PointsToNodes, Written, Lists
  <2>4. PointerTypeOK'
    BY <2>3 DEF PointerTypeOK, Labels, Written, Pointers
  <2>5. HeadInv'
    BY <2>2 DEF HeadInv
  <2>6. PointsToNodes'
    BY <2>2, <2>3 DEF PointsToNodes, Lists
  <2> QED
    BY <2>2, <2>4, <2>5, <2>6
<1>8. CASE UNCHANGED vars
  BY <1>8 DEF vars, PointerTypeOK, ArenaInv, HeadInv, PointsToNodes, Written, Labels
<1> QED
  BY <1>1, <1>2, <1>3, <1>4, <1>5, <1>6, <1>7, <1>8 DEF Next, Step, Returned

\* No cursor and no next pointer ever leaves the nodes of its own arena.
THEOREM MemorySafe == Spec => []PointsToNodes
<1>1. ListsInv /\ [Next]_vars => ListsInv'
  BY ListsNext
<1>2. ListsInv => PointsToNodes
  BY DEF ListsInv
<1> QED
  BY ListsInit, <1>1, <1>2, PTL DEF Spec


---------------------------------------------------------------------------
(* No cell of a generation comes from a grid that is partly overwritten. *)

USE SimsAssumption

\* A grid has at least one row and one column.
LEMMA LifeSizes == GameOfLife!M \in Nat \ {0} /\ GameOfLife!N \in Nat \ {0}
  BY GridAssumption DEF GameOfLife!M, GameOfLife!N

\* The games start from sequences of grids.
LEMMA StartingGrids == Starts \subseteq Seq(GameOfLife!Grids)
  BY StartsAssumption, Zenon DEF GameOfLife!Grids, GameOfLife!Cells, GameOfLife!M, GameOfLife!N

USE LifeSizes

\* The loops of solution and simulateNext begin at their beginning.
LifeLoops ==
  /\ at # "cells" => i = 0 /\ j = 0
  /\ at \in {"cells", "swap"} => sim < Sims

LifeInv == GameOfLife!GridTypeOK /\ LifeLoops /\ GameOfLife!FutureFromCurrent

\* The rules make grids of grids.
LEMMA FateType ==
  ASSUME NEW grid \in GameOfLife!Grids, NEW r \in 0..GameOfLife!M - 1, NEW c \in 0..GameOfLife!N - 1
  PROVE  GameOfLife!Fate(grid, r, c) \in {0, 1}
<1>1. grid[<<r, c>>] \in {0, 1}
  BY DEF GameOfLife!Grids, GameOfLife!Cells
<1> QED
  BY <1>1 DEF GameOfLife!Fate

\* Every game that is played is played on a grid.
LEMMA StartsType ==
  ASSUME GameOfLife!GridTypeOK, NEW m \in 1..Len(grids)
  PROVE  grids[m] \in GameOfLife!Grids
  BY StartingGrids DEF GameOfLife!GridTypeOK

\* Where the loops over the cells go on.
LEMMA NextCell ==
  ASSUME GameOfLife!GridTypeOK, GameOfLife!UpdateCell
  PROVE  /\ i' \in 0..GameOfLife!M - 1 /\ j' \in 0..GameOfLife!N - 1 /\ at' \in {"cells", "swap"}
         /\ at' # "cells" => i' = 0 /\ j' = 0
         /\ GameOfLife!Done' = GameOfLife!Done \cup {<<i, j>>}
<1> USE DEF GameOfLife!GridTypeOK, GameOfLife!UpdateCell, GameOfLife!EndOfRow, GameOfLife!Done, GameOfLife!Cells
<1>1. CASE ~GameOfLife!EndOfRow
  BY <1>1
<1>2. CASE GameOfLife!EndOfRow /\ i < GameOfLife!M - 1
  BY <1>2
<1>3. CASE GameOfLife!EndOfRow /\ ~(i < GameOfLife!M - 1)
  BY <1>3
<1> QED
  BY <1>1, <1>2, <1>3

\* The loops over the cells stay inside of the grid.
LEMMA LifeInductive == GameOfLife!Spec => []LifeInv
<1>1. GameOfLife!Init => LifeInv
  BY StartingGrids DEF GameOfLife!Init, LifeInv, GameOfLife!GridTypeOK, LifeLoops, GameOfLife!FutureFromCurrent, GameOfLife!Labels
<1>2. LifeInv /\ [GameOfLife!Next]_GameOfLife!vars => LifeInv'
  <2> SUFFICES ASSUME LifeInv, [GameOfLife!Next]_GameOfLife!vars PROVE LifeInv'
    OBVIOUS
  <2>1. CASE GameOfLife!Reset
    <3>1. GameOfLife!GridTypeOK'
      BY <2>1, StartsType DEF GameOfLife!Reset, GameOfLife!Continue, LifeInv, GameOfLife!GridTypeOK, GameOfLife!Labels
    <3>2. LifeLoops'
      BY <2>1 DEF GameOfLife!Reset, GameOfLife!Continue, LifeInv, LifeLoops
    <3>3. GameOfLife!Done' = {} \/ at' \notin {"cells", "swap"}
      BY <2>1, <3>1, <3>2 DEF GameOfLife!Reset, GameOfLife!Continue, LifeInv, LifeLoops, GameOfLife!GridTypeOK, GameOfLife!Done, GameOfLife!Cells
    <3> QED
      BY <3>1, <3>2, <3>3 DEF LifeInv, GameOfLife!FutureFromCurrent
  <2>2. CASE GameOfLife!UpdateCell
    <3>1. current \in GameOfLife!Grids /\ future \in GameOfLife!Grids /\ <<i, j>> \in GameOfLife!Cells
      BY <2>2 DEF GameOfLife!UpdateCell, LifeInv, GameOfLife!GridTypeOK, GameOfLife!Cells
    <3>2. GameOfLife!Fate(current, i, j) \in {0, 1}
      BY <3>1, FateType DEF LifeInv, GameOfLife!GridTypeOK
    <3>3. /\ future' = [future EXCEPT ![<<i, j>>] = GameOfLife!Fate(current, i, j)]
          /\ current' = current
      BY <2>2 DEF GameOfLife!UpdateCell, GameOfLife!Store
    <3>4. GameOfLife!GridTypeOK'
      BY <2>2, <3>1, <3>2, <3>3, NextCell DEF GameOfLife!UpdateCell, LifeInv, GameOfLife!GridTypeOK, GameOfLife!Labels, GameOfLife!Grids
    <3>5. ASSUME NEW p \in GameOfLife!Done' PROVE future'[p] = GameOfLife!Fate(current, p[1], p[2])
      <4>1. CASE p = <<i, j>>
        BY <3>1, <3>3, <4>1 DEF GameOfLife!Grids
      <4>2. CASE p # <<i, j>>
        <5>1. p \in GameOfLife!Done
          BY <2>2, <3>5, <4>2, NextCell DEF LifeInv
        <5>2. p \in GameOfLife!Cells
          BY <5>1 DEF GameOfLife!Done
        <5>3. future[p] = GameOfLife!Fate(current, p[1], p[2])
          BY <2>2, <5>1 DEF GameOfLife!UpdateCell, LifeInv, GameOfLife!FutureFromCurrent
        <5> QED
          BY <3>1, <3>3, <4>2, <5>2, <5>3 DEF GameOfLife!Grids
      <4> QED
        BY <4>1, <4>2
    <3>6. LifeLoops'
      BY <2>2, NextCell DEF GameOfLife!UpdateCell, LifeInv, LifeLoops
    <3> QED
      BY <3>3, <3>4, <3>5, <3>6 DEF LifeInv, GameOfLife!FutureFromCurrent
  <2>3. CASE GameOfLife!Swap
    <3>1. GameOfLife!GridTypeOK'
      BY <2>3 DEF GameOfLife!Swap, GameOfLife!Continue, LifeInv, LifeLoops, GameOfLife!GridTypeOK, GameOfLife!Labels
    <3>2. LifeLoops'
      BY <2>3 DEF GameOfLife!Swap, GameOfLife!Continue, LifeInv, LifeLoops, GameOfLife!GridTypeOK
    <3>3. GameOfLife!Done' = {} \/ at' \notin {"cells", "swap"}
      BY <2>3, <3>1 DEF GameOfLife!Swap, GameOfLife!Continue, LifeInv, LifeLoops, GameOfLife!GridTypeOK, GameOfLife!Done, GameOfLife!Cells
    <3> QED
      BY <3>1, <3>2, <3>3 DEF LifeInv, GameOfLife!FutureFromCurrent
  <2>4. CASE GameOfLife!Count
    BY <2>4 DEF GameOfLife!Count, LifeInv, GameOfLife!GridTypeOK, LifeLoops, GameOfLife!FutureFromCurrent, GameOfLife!Labels
  <2>5. CASE UNCHANGED GameOfLife!vars
    BY <2>5 DEF GameOfLife!vars, LifeInv, GameOfLife!GridTypeOK, LifeLoops, GameOfLife!FutureFromCurrent, GameOfLife!Done
  <2> QED
    BY <2>1, <2>2, <2>3, <2>4, <2>5 DEF GameOfLife!Next, GameOfLife!Returned
<1> QED
  BY <1>1, <1>2, PTL DEF GameOfLife!Spec

\* For grids of any size, any starting grids and any number of generations:
\* what simulateNext has written is the next generation of the grid as it was.
THEOREM WholeGenerations == GameOfLife!Spec => []GameOfLife!FutureFromCurrent
<1>1. LifeInv => GameOfLife!FutureFromCurrent
  BY DEF LifeInv
<1> QED
  BY <1>1, LifeInductive, PTL


---------------------------------------------------------------------------
(* The loops of the sliding window stay in the input for every size and radius. *)

USE ImageAssumption

\* Where each loop ends, and what the loops before it have passed at least.
SmoothLoops ==
  /\ at = "fill"   => limit = Smoothing!Lesser(size, radius) /\ pos = 0
  /\ at = "left"   => limit = Smoothing!LeftEnd
  /\ at = "main"   => limit = size - radius /\ pos >= Smoothing!LeftEnd
  /\ at = "narrow" => limit = Smoothing!Lesser(radius + 1, size)
  /\ at = "right"  => limit = size /\ pos >= Smoothing!Lesser(radius + 1, size)

SmoothInv == Smoothing!IndexTypeOK /\ SmoothLoops

\* The loop invariant is enough for every access.
LEMMA SmoothBounds == SmoothInv => Smoothing!ReadsInBounds
  BY DEF SmoothInv, Smoothing!IndexTypeOK, SmoothLoops, Smoothing!ReadsInBounds, Smoothing!Positions, Smoothing!Lesser, Smoothing!LeftEnd,
         Smoothing!Entering, Smoothing!Leaving, Smoothing!Loops

\* The loops over an image begin where they may, and every step keeps them there.
LEMMA SmoothInit == Smoothing!Init => SmoothInv
  BY DEF Smoothing!Init, SmoothInv, Smoothing!IndexTypeOK, SmoothLoops, Smoothing!Lesser, Smoothing!Loops

\* Every loop ends where the next one may begin.
LEMMA SmoothStep == SmoothInv /\ [Smoothing!Next]_Smoothing!vars => SmoothInv'
<1> SUFFICES ASSUME SmoothInv, [Smoothing!Next]_Smoothing!vars PROVE SmoothInv'
  OBVIOUS
<1>1. CASE Smoothing!Fill
  BY <1>1 DEF Smoothing!Fill, SmoothInv, Smoothing!IndexTypeOK, SmoothLoops, Smoothing!Positions, Smoothing!LeftEnd
<1>2. CASE Smoothing!Left \/ Smoothing!Main \/ Smoothing!Narrow \/ Smoothing!Right
  <2>1. /\ pos < limit /\ pos' = pos + 1 /\ at \in Smoothing!Loops \ {"fill"}
        /\ UNCHANGED <<size, radius, input, i, limit, at>>
    BY <1>2 DEF Smoothing!Left, Smoothing!Main, Smoothing!Narrow, Smoothing!Right, Smoothing!Store, Smoothing!Loops
  <2>2. pos < size
    BY <2>1, SmoothBounds DEF SmoothInv, Smoothing!ReadsInBounds, Smoothing!Positions, Smoothing!IndexTypeOK
  <2>3. Smoothing!IndexTypeOK'
    BY <2>1, <2>2 DEF SmoothInv, Smoothing!IndexTypeOK, Smoothing!Positions
  <2>4. SmoothLoops'
    BY <2>1 DEF SmoothInv, Smoothing!IndexTypeOK, SmoothLoops, Smoothing!LeftEnd, Smoothing!Lesser, Smoothing!Loops
  <2> QED
    BY <2>3, <2>4 DEF SmoothInv
<1>3. CASE Smoothing!NextLoop
  <2>1. Smoothing!IndexTypeOK'
    BY <1>3 DEF Smoothing!NextLoop, Smoothing!Leave, SmoothInv, Smoothing!IndexTypeOK, Smoothing!Positions, Smoothing!LeftEnd, Smoothing!Lesser, Smoothing!Loops
  <2>2. SmoothLoops'
    BY <1>3 DEF Smoothing!NextLoop, Smoothing!Leave, SmoothInv, Smoothing!IndexTypeOK, SmoothLoops, Smoothing!LeftEnd, Smoothing!Lesser, Smoothing!Loops
  <2> QED
    BY <2>1, <2>2 DEF SmoothInv
<1>4. CASE UNCHANGED Smoothing!vars
  BY <1>4 DEF Smoothing!vars, SmoothInv, Smoothing!IndexTypeOK, SmoothLoops, Smoothing!Positions, Smoothing!LeftEnd
<1> QED
  BY <1>1, <1>2, <1>3, <1>4 DEF Smoothing!Next, Smoothing!Returned

\* The three loops of the smoothing stay where the input allows.
LEMMA SmoothInductive == Smoothing!Spec => []SmoothInv
  BY SmoothInit, SmoothStep, PTL DEF Smoothing!Spec

\* For inputs of any size, none and inputs narrower than the window included,
\* and any radius, no loop reads or writes outside of the input.
THEOREM NoLoopLeavesInput == Smoothing!Spec => []Smoothing!ReadsInBounds
  BY SmoothInductive, SmoothBounds, PTL

---------------------------------------------------------------------------
(* Counting sort, for arrays of every size and keys of every range. *)

USE KeyAssumption

\* Of an array a: where the counter of an element is, the elements before place b
\* that are counted for c, and those that go in front of one with counter c at
\* place b.  Their number is where that one goes.
Key(a, u) == a[u].i - minRandom
CountedFor(a, c, b) == {u \in 0..b - 1 : Key(a, u) + 1 = c}
InFront(a, c, b) == {u \in Sort!Slots : Key(a, u) < c \/ (Key(a, u) = c /\ u < b)}
Goal(a, u) == Cardinality(InFront(a, Key(a, u), u))

Arrays == [Sort!Slots -> Sort!S]

\* What the shuffle makes of the input.
Shuffled(a) ==
  \E p \in [Sort!Slots -> Sort!Slots] :
    /\ \A u, v \in Sort!Slots : p[u] = p[v] => u = v
    /\ \A u \in Sort!Slots : a[u] = [i |-> input[p[u]], place |-> p[u]]

\* Each element of what is counted up to a counter, and then added up.
SortInv ==
  /\ input \in [Sort!Slots -> Sort!Keys]
  /\ n \in Nat
  /\ at = "shuffle" => n = 0 /\ arr = [s \in Sort!Slots |-> [i |-> input[s], place |-> s]]
  /\ at \in {"shuffle", "count"} =>
       cnt = [c \in Sort!Counters |-> Cardinality(CountedFor(arr, c, n))]
  /\ at = "sum" => n \in 1..Sort!cntSize
  /\ at = "sum" =>
       cnt = [c \in Sort!Counters |-> IF c < n THEN Cardinality(InFront(arr, c, 0))
                                      ELSE Cardinality(CountedFor(arr, c, Elements))]
  /\ at = "place" =>
       cnt = [c \in Sort!Counters |-> Cardinality(InFront(arr, c, n))]
  /\ at \in {"count", "place"} => n <= Elements
  /\ at \in {"shuffle", "count", "sum", "place"} => arr \in Arrays /\ Shuffled(arr)
  /\ at # "returned" => sorted \in [Sort!Slots -> Sort!S \cup {Sort!Default}]
  /\ at = "place" => \A u \in 0..n - 1 : sorted[Goal(arr, u)] = arr[u]
  /\ Sort!SortedPermutation

\* The places of an array, and the numbers of its elements.
LEMMA SlotsAreFinite ==
  /\ IsFiniteSet(Sort!Slots) /\ Cardinality(Sort!Slots) = Elements
  /\ \A b \in Nat : IsFiniteSet(0..b - 1)
<1>1. ASSUME NEW b \in Nat PROVE IsFiniteSet(0..b - 1) /\ Cardinality(0..b - 1) = b
  <2>1. 0 \in Int /\ b - 1 \in Int
    OBVIOUS
  <2>2. IsFiniteSet(0..b - 1) /\ Cardinality(0..b - 1) = IF 0 > b - 1 THEN 0 ELSE b - 1 - 0 + 1
    BY ONLY <2>1, FS_Interval
  <2> QED
    BY <2>2
<1> QED
  BY <1>1 DEF Sort!Slots, Sort!N

\* The elements in front of a place, and the ones counted for a key, are finitely many.
LEMMA NumbersAreNaturals ==
  ASSUME NEW a, NEW c, NEW b
  PROVE  /\ IsFiniteSet(InFront(a, c, b)) /\ Cardinality(InFront(a, c, b)) \in Nat
         /\ b \in Nat => IsFiniteSet(CountedFor(a, c, b)) /\ Cardinality(CountedFor(a, c, b)) \in Nat
<1>1. InFront(a, c, b) \in SUBSET Sort!Slots /\ CountedFor(a, c, b) \in SUBSET (0..b - 1)
  BY DEF InFront, CountedFor
<1>2. IsFiniteSet(InFront(a, c, b))
  BY <1>1, SlotsAreFinite, FS_Subset
<1>3. b \in Nat => IsFiniteSet(CountedFor(a, c, b))
  BY <1>1, SlotsAreFinite, FS_Subset
<1> QED
  BY <1>2, <1>3, FS_CardinalityType

\* The key of an element, and the one after it, index a counter.
LEMMA KeyType ==
  ASSUME NEW a \in Arrays, NEW u \in Sort!Slots
  PROVE  /\ Key(a, u) \in 0..Sort!cntSize - 2
         /\ Key(a, u) \in Sort!Counters /\ Key(a, u) + 1 \in Sort!Counters
         /\ Sort!CounterOf(a[u]) = Key(a, u) + 1
<1>1. a[u].i \in minRandom..maxRandom - 1
  BY DEF Arrays, Sort!S, Sort!Keys
<1> QED
  BY <1>1 DEF Key, Sort!CounterOf, Sort!Counters, Sort!cntSize

\* One element more is counted for its own counter only.
LEMMA CountOne ==
  ASSUME NEW a \in Arrays, NEW b \in Sort!Slots, NEW c \in Sort!Counters
  PROVE  Cardinality(CountedFor(a, c, b + 1)) =
           Cardinality(CountedFor(a, c, b)) + (IF Key(a, b) + 1 = c THEN 1 ELSE 0)
<1>1. b \in Nat /\ b + 1 - 1 = b
  BY DEF Sort!Slots, Sort!N
<1>2. IsFiniteSet(CountedFor(a, c, b)) /\ Cardinality(CountedFor(a, c, b)) \in Nat
  BY <1>1, NumbersAreNaturals
<1>3. b \notin CountedFor(a, c, b)
  BY <1>1 DEF CountedFor
<1>4. CASE Key(a, b) + 1 = c
  <2>1. CountedFor(a, c, b + 1) = CountedFor(a, c, b) \cup {b}
    BY <1>1, <1>4 DEF CountedFor
  <2> QED
    BY <1>2, <1>3, <1>4, <2>1, FS_AddElement
<1>5. CASE Key(a, b) + 1 # c
  <2>1. CountedFor(a, c, b + 1) = CountedFor(a, c, b)
    BY <1>1, <1>5 DEF CountedFor
  <2> QED
    BY <1>2, <1>5, <2>1
<1> QED
  BY <1>4, <1>5

\* What goes in front of the next counter is what is in front of this one and
\* what was counted for the next.
LEMMA SumOne ==
  ASSUME NEW a \in Arrays, NEW c \in Sort!Counters \ {0}
  PROVE  Cardinality(InFront(a, c, 0)) =
           Cardinality(CountedFor(a, c, Elements)) + Cardinality(InFront(a, c - 1, 0))
<1> DEFINE A == CountedFor(a, c, Elements)
           B == InFront(a, c - 1, 0)
<1>1. \A u \in Sort!Slots : Key(a, u) \in Int /\ ~ (u < 0)
  BY KeyType DEF Sort!Slots, Sort!N
<1>2. c \in Int /\ Sort!Slots = 0..Elements - 1
  BY DEF Sort!Counters, Sort!Slots, Sort!N, Sort!cntSize
<1>3. InFront(a, c, 0) = A \cup B /\ A \cap B = {}
  BY <1>1, <1>2 DEF InFront, CountedFor
<1>4. IsFiniteSet(A) /\ IsFiniteSet(B) /\ Cardinality(A) \in Nat /\ Cardinality(B) \in Nat
  BY NumbersAreNaturals
<1>5. Cardinality(A \cup B) = Cardinality(A) + Cardinality(B) - Cardinality(A \cap B)
  BY <1>4, FS_Union
<1> QED
  <2>1. Cardinality(A \cap B) = 0
    BY <1>3, FS_EmptySet
  <2>2. Cardinality(A \cup B) = Cardinality(A) + Cardinality(B)
    BY ONLY <1>4, <1>5, <2>1
  <2> QED
    BY ONLY <1>3, <2>2

\* A place behind an element of a counter is one further on.
LEMMA PlaceOne ==
  ASSUME NEW a \in Arrays, NEW b \in Sort!Slots, NEW c \in Sort!Counters
  PROVE  Cardinality(InFront(a, c, b + 1)) =
           Cardinality(InFront(a, c, b)) + (IF Key(a, b) = c THEN 1 ELSE 0)
<1>0. ASSUME NEW u \in Sort!Slots PROVE Key(a, u) \in Int /\ u \in Nat
  BY KeyType DEF Sort!Slots, Sort!N
<1>1. /\ b \in Nat /\ c \in Int
      /\ \A u \in Sort!Slots : Key(a, u) \in Int /\ (u < b + 1 <=> u < b \/ u = b) /\ ~ (b < b)
  BY <1>0 DEF Sort!Counters
<1>2. IsFiniteSet(InFront(a, c, b)) /\ Cardinality(InFront(a, c, b)) \in Nat
  BY NumbersAreNaturals
<1>3. CASE Key(a, b) = c
  <2>1. InFront(a, c, b + 1) = InFront(a, c, b) \cup {b}
    BY ONLY <1>1, <1>3, b \in Sort!Slots, Zenon DEF InFront
  <2>2. b \notin InFront(a, c, b)
    BY ONLY <1>1, <1>3 DEF InFront
  <2> QED
    BY <1>2, <1>3, <2>1, <2>2, FS_AddElement
<1>4. CASE Key(a, b) # c
  <2>1. InFront(a, c, b + 1) = InFront(a, c, b)
    BY ONLY <1>1, <1>4, b \in Sort!Slots DEF InFront
  <2> QED
    BY <1>2, <1>4, <2>1
<1> QED
  BY <1>3, <1>4

\* Every element goes to a place of the array, and behind those in front of it.
LEMMA GoalsAreOrdered ==
  ASSUME NEW a \in Arrays, NEW u \in Sort!Slots
  PROVE  /\ Goal(a, u) \in Sort!Slots
         /\ \A v \in Sort!Slots : u \in InFront(a, Key(a, v), v) => Goal(a, u) < Goal(a, v)
<1>1. \A v \in Sort!Slots : Key(a, v) \in Int /\ v \in Int
  BY KeyType DEF Sort!Slots, Sort!N
<1>2. u \notin InFront(a, Key(a, u), u)
  BY <1>1 DEF InFront
<1>3. ASSUME NEW T, IsFiniteSet(T), InFront(a, Key(a, u), u) \in SUBSET T, u \in T
      PROVE  Goal(a, u) < Cardinality(T)
  <2>1. /\ Cardinality(InFront(a, Key(a, u), u)) <= Cardinality(T)
        /\ Cardinality(T) = Cardinality(InFront(a, Key(a, u), u)) => T = InFront(a, Key(a, u), u)
    BY <1>3, FS_Subset
  <2>2. Cardinality(T) \in Nat /\ Cardinality(InFront(a, Key(a, u), u)) \in Nat
    BY <1>3, FS_CardinalityType, NumbersAreNaturals
  <2> QED
    BY <1>2, <1>3, <2>1, <2>2 DEF Goal
<1>4. Goal(a, u) \in Sort!Slots
  <2>1. Goal(a, u) < Cardinality(Sort!Slots)
    BY <1>3, SlotsAreFinite DEF InFront
  <2> QED
    BY <2>1, SlotsAreFinite, NumbersAreNaturals DEF Goal, Sort!Slots, Sort!N
<1>5. ASSUME NEW v \in Sort!Slots, u \in InFront(a, Key(a, v), v)
      PROVE  Goal(a, u) < Goal(a, v)
  <2>1. InFront(a, Key(a, u), u) \in SUBSET InFront(a, Key(a, v), v)
    BY <1>1, <1>5 DEF InFront
  <2>2. IsFiniteSet(InFront(a, Key(a, v), v))
    BY NumbersAreNaturals
  <2>3. Goal(a, u) < Cardinality(InFront(a, Key(a, v), v))
    BY <1>3, <1>5, <2>1, <2>2
  <2> QED
    BY <2>3 DEF Goal
<1> QED
  BY <1>4, <1>5

\* Of two elements one goes in front of the other.
LEMMA GoalsDiffer ==
  ASSUME NEW a \in Arrays, NEW u \in Sort!Slots, NEW v \in Sort!Slots, u # v
  PROVE  /\ Goal(a, u) # Goal(a, v)
         /\ Goal(a, u) < Goal(a, v) => Key(a, u) <= Key(a, v)
<1>1. Key(a, u) \in Int /\ Key(a, v) \in Int /\ u \in Int /\ v \in Int
  BY KeyType DEF Sort!Slots, Sort!N
<1>2. u \in InFront(a, Key(a, v), v) \/ v \in InFront(a, Key(a, u), u)
  BY <1>1 DEF InFront
<1>3. Goal(a, u) \in Int /\ Goal(a, v) \in Int
  BY GoalsAreOrdered DEF Sort!Slots, Sort!N
<1>4. u \in InFront(a, Key(a, v), v) => Goal(a, u) < Goal(a, v) /\ Key(a, u) <= Key(a, v)
  BY <1>1, GoalsAreOrdered DEF InFront
<1>5. v \in InFront(a, Key(a, u), u) => Goal(a, v) < Goal(a, u)
  BY GoalsAreOrdered
<1> QED
  BY <1>2, <1>3, <1>4, <1>5

\* Every place is where an element goes.
LEMMA GoalsAreAll ==
  ASSUME NEW a \in Arrays, NEW s \in Sort!Slots
  PROVE  \E u \in Sort!Slots : Goal(a, u) = s
<1> DEFINE g == [u \in Sort!Slots |-> Goal(a, u)]
<1>1. g \in Injection(Sort!Slots, Sort!Slots)
  <2>1. g \in [Sort!Slots -> Sort!Slots]
    BY GoalsAreOrdered
  <2>2. \A u, v \in Sort!Slots : g[u] = g[v] => u = v
    BY GoalsDiffer
  <2> QED
    BY <2>1, <2>2 DEF Injection, IsInjective
<1>2. g \in Surjection(Sort!Slots, Sort!Slots)
  BY <1>1, SlotsAreFinite, FS_Injection
<1> QED
  BY <1>2 DEF Surjection

\* The sort starts with the elements in the order of the input.
LEMMA SortInit == Sort!Init => SortInv
<1> SUFFICES ASSUME Sort!Init PROVE SortInv
  OBVIOUS
<1>1. arr \in Arrays
  BY DEF Sort!Init, Arrays, Sort!S, Sort!Slots, Sort!Keys
<1>2. Shuffled(arr)
  <2> DEFINE p == [u \in Sort!Slots |-> u]
  <2>1. p \in [Sort!Slots -> Sort!Slots] /\ \A u \in Sort!Slots : p[u] = u
    OBVIOUS
  <2>2. \A u \in Sort!Slots : arr[u] = [i |-> input[p[u]], place |-> p[u]]
    BY <2>1 DEF Sort!Init
  <2> HIDE DEF p
  <2> QED
    BY <2>1, <2>2 DEF Shuffled
<1>3. ASSUME NEW c \in Sort!Counters PROVE Cardinality(CountedFor(arr, c, n)) = 0
  <2>1. CountedFor(arr, c, n) = {}
    BY DEF Sort!Init, CountedFor
  <2> QED
    BY <2>1, FS_EmptySet
<1>4. cnt = [c \in Sort!Counters |-> Cardinality(CountedFor(arr, c, n))]
  BY <1>3 DEF Sort!Init
<1>5. sorted \in [Sort!Slots -> Sort!S \cup {Sort!Default}]
  BY DEF Sort!Init
<1> QED
  BY <1>1, <1>2, <1>4, <1>5 DEF Sort!Init, SortInv, Sort!SortedPermutation

\* A shuffle keeps every element, once.
LEMMA ShuffleStep ==
  ASSUME SortInv, Sort!Shuffle
  PROVE  SortInv'
<1> USE DEF SortInv, Sort!Shuffle
<1>1. PICK p \in [Sort!Slots -> Sort!Slots] :
        Sort!IsInjective(p) /\ arr' = [s \in Sort!Slots |-> arr[p[s]]]
  <2>1. \E p \in {f \in [Sort!Slots -> Sort!Slots] : Sort!IsInjective(f)} :
          arr' = [s \in Sort!Slots |-> arr[p[s]]]
    BY DEF Sort!Shuffle
  <2> QED
    <3>1. PICK p \in {f \in [Sort!Slots -> Sort!Slots] : Sort!IsInjective(f)} :
            arr' = [s \in Sort!Slots |-> arr[p[s]]]
      BY ONLY <2>1
    <3>2. p \in [Sort!Slots -> Sort!Slots] /\ Sort!IsInjective(p)
      OBVIOUS
    <3> QED
      BY ONLY <3>1, <3>2
<1>2. \A s \in Sort!Slots : arr'[s] = [i |-> input[p[s]], place |-> p[s]]
  BY <1>1
<1>3. arr' \in Arrays
  BY <1>1 DEF Arrays
<1>4. Shuffled(arr)'
  <2>1. \A u, v \in Sort!Slots : p[u] = p[v] => u = v
    BY <1>1 DEF Sort!IsInjective
  <2> QED
    BY <1>1, <1>2, <2>1 DEF Shuffled
<1>5. ASSUME NEW c \in Sort!Counters
      PROVE  cnt[c] = Cardinality(CountedFor(arr, c, 0)')
  <2>1. \A u \in 0..0 - 1 : FALSE
    OBVIOUS
  <2>2. CountedFor(arr, c, 0) = {} /\ CountedFor(arr, c, 0)' = {}
    BY ONLY <2>1 DEF CountedFor
  <2>3. cnt[c] = Cardinality(CountedFor(arr, c, 0))
    OBVIOUS
  <2> QED
    BY ONLY <2>2, <2>3
<1>6. cnt' = [c \in Sort!Counters |-> Cardinality(CountedFor(arr, c, n))']
  BY <1>5
<1> QED
  BY <1>3, <1>4, <1>6 DEF Sort!SortedPermutation

\* Counting an element adds it to the counter behind its key.
LEMMA CountStep ==
  ASSUME SortInv, Sort!Count
  PROVE  SortInv'
<1>1. /\ at = "count" /\ arr \in Arrays /\ Shuffled(arr) /\ n \in Nat /\ n <= Elements
      /\ input \in [Sort!Slots -> Sort!Keys]
      /\ sorted \in [Sort!Slots -> Sort!S \cup {Sort!Default}]
      /\ UNCHANGED <<input, arr, sorted>>
  BY DEF SortInv, Sort!Count
<1>2. cnt = [c \in Sort!Counters |-> Cardinality(CountedFor(arr, c, n))]
  BY <1>1 DEF SortInv
<1>3. /\ input' \in [Sort!Slots -> Sort!Keys] /\ arr' \in Arrays /\ Shuffled(arr)'
      /\ sorted' \in [Sort!Slots -> Sort!S \cup {Sort!Default}]
  BY <1>1 DEF Shuffled
<1>4. CASE n < Elements
  <2>1. n \in Sort!Slots /\ Key(arr, n) + 1 \in Sort!Counters
    <3>1. n \in Sort!Slots
      BY <1>1, <1>4 DEF Sort!Slots, Sort!N
    <3> QED
      BY <1>1, <3>1, KeyType
  <2>2. /\ n' = n + 1 /\ at' = "count"
        /\ cnt' = [cnt EXCEPT ![Key(arr, n) + 1] = @ + 1]
    BY <1>1, <1>4, <2>1, KeyType DEF Sort!Count, Sort!N
  <2>3. ASSUME NEW c \in Sort!Counters
        PROVE  cnt'[c] = Cardinality(CountedFor(arr, c, n + 1))
    <3>1. Cardinality(CountedFor(arr, c, n + 1)) =
            Cardinality(CountedFor(arr, c, n)) + (IF Key(arr, n) + 1 = c THEN 1 ELSE 0)
      BY <1>1, <2>1, CountOne
    <3>2. Cardinality(CountedFor(arr, c, n)) \in Nat
      BY <1>1, NumbersAreNaturals
    <3>3. cnt'[c] = cnt[c] + (IF Key(arr, n) + 1 = c THEN 1 ELSE 0)
      BY ONLY <1>2, <2>2, <3>2, c \in Sort!Counters
    <3> QED
      BY ONLY <1>2, <3>1, <3>3, c \in Sort!Counters
  <2>4. cnt' = [c \in Sort!Counters |-> Cardinality(CountedFor(arr, c, n))']
    <3>1. DOMAIN cnt' = Sort!Counters /\ cnt' = [c \in DOMAIN cnt' |-> cnt'[c]]
      BY ONLY <1>2, <2>2
    <3>2. \A c \in Sort!Counters : CountedFor(arr, c, n)' = CountedFor(arr, c, n + 1)
      BY <1>1, <2>2 DEF CountedFor, Key
    <3> QED
      BY ONLY <2>3, <3>1, <3>2
  <2>5. n' \in Nat /\ n' <= Elements
    BY ONLY <1>1, <1>4, <2>2, KeyAssumption
  <2> QED
    BY <1>3, <2>2, <2>4, <2>5 DEF SortInv, Sort!SortedPermutation
<1>5. CASE ~ (n < Elements)
  <2>1. n = Elements /\ n' = 1 /\ at' = "sum" /\ cnt' = cnt
    BY <1>1, <1>5 DEF Sort!Count, Sort!N
  <2>2. ASSUME NEW c \in Sort!Counters, c < 1
        PROVE  Cardinality(CountedFor(arr, c, Elements)) = Cardinality(InFront(arr, c, 0))
    <3>1. \A u \in Sort!Slots : Key(arr, u) \in Nat /\ u \in Nat
      BY <1>1, KeyType DEF Sort!Slots, Sort!N
    <3>2. c = 0 /\ Sort!Slots = 0..Elements - 1
      BY <2>2 DEF Sort!Counters, Sort!Slots, Sort!N
    <3>3. CountedFor(arr, c, Elements) = {} /\ InFront(arr, c, 0) = {}
      BY ONLY <3>1, <3>2 DEF CountedFor, InFront
    <3> QED
      BY <3>3
  <2>3. cnt' = [c \in Sort!Counters |->
                  IF c < n THEN Cardinality(InFront(arr, c, 0))
                  ELSE Cardinality(CountedFor(arr, c, Elements))]'
    <3>1. cnt' = [c \in Sort!Counters |-> Cardinality(CountedFor(arr, c, Elements))]
      BY ONLY <1>2, <2>1
    <3>2. \A c \in Sort!Counters : /\ InFront(arr, c, 0)' = InFront(arr, c, 0)
                                   /\ CountedFor(arr, c, Elements)' = CountedFor(arr, c, Elements)
      BY <1>1 DEF InFront, CountedFor, Key
    <3> QED
      BY ONLY <2>1, <2>2, <3>1, <3>2
  <2>4. n' \in Nat /\ n' \in 1..Sort!cntSize
    BY <2>1 DEF Sort!cntSize
  <2> QED
    BY <1>3, <2>1, <2>3, <2>4 DEF SortInv, Sort!SortedPermutation
<1> QED
  BY <1>4, <1>5

\* The partial sums are the numbers of elements with smaller keys.
LEMMA SumStep ==
  ASSUME SortInv, Sort!Sum
  PROVE  SortInv'
<1>1. /\ at = "sum" /\ arr \in Arrays /\ Shuffled(arr) /\ n \in 1..Sort!cntSize
      /\ input \in [Sort!Slots -> Sort!Keys]
      /\ sorted \in [Sort!Slots -> Sort!S \cup {Sort!Default}]
      /\ UNCHANGED <<input, arr, sorted>> /\ Sort!cntSize \in Nat
  BY DEF SortInv, Sort!Sum, Sort!cntSize
<1>2. cnt = [c \in Sort!Counters |-> IF c < n THEN Cardinality(InFront(arr, c, 0))
                                     ELSE Cardinality(CountedFor(arr, c, Elements))]
  BY <1>1 DEF SortInv
<1>3. /\ input' \in [Sort!Slots -> Sort!Keys] /\ arr' \in Arrays /\ Shuffled(arr)'
      /\ sorted' \in [Sort!Slots -> Sort!S \cup {Sort!Default}]
  BY <1>1 DEF Shuffled
<1>4. \A c \in Sort!Counters : /\ InFront(arr, c, 0)' = InFront(arr, c, 0)
                               /\ CountedFor(arr, c, Elements)' = CountedFor(arr, c, Elements)
  BY <1>1 DEF InFront, CountedFor, Key
<1>5. CASE n < Sort!cntSize
  <2>1. /\ n' = n + 1 /\ at' = "sum" /\ cnt' = [cnt EXCEPT ![n] = @ + cnt[n - 1]]
    BY <1>1, <1>5 DEF Sort!Sum
  <2>2. /\ n \in Sort!Counters \ {0} /\ n - 1 \in Sort!Counters /\ n - 1 < n /\ ~ (n < n)
        /\ n' \in Nat /\ n' \in 1..Sort!cntSize
    BY <1>1, <1>5, <2>1 DEF Sort!Counters
  <2>3. cnt'[n] = Cardinality(InFront(arr, n, 0))
    <3>1. cnt[n] = Cardinality(CountedFor(arr, n, Elements)) /\ cnt[n - 1] = Cardinality(InFront(arr, n - 1, 0))
      BY ONLY <1>2, <2>2
    <3>2. cnt'[n] = cnt[n] + cnt[n - 1]
      BY ONLY <1>2, <2>1, <2>2
    <3>3. Cardinality(InFront(arr, n, 0)) =
            Cardinality(CountedFor(arr, n, Elements)) + Cardinality(InFront(arr, n - 1, 0))
      BY <1>1, <2>2, SumOne
    <3> QED
      BY ONLY <3>1, <3>2, <3>3
  <2>4. ASSUME NEW c \in Sort!Counters
        PROVE  cnt'[c] = IF c < n + 1 THEN Cardinality(InFront(arr, c, 0))
                         ELSE Cardinality(CountedFor(arr, c, Elements))
    <3>1. CASE c = n
      BY <1>1, <2>3, <3>1
    <3>2. CASE c # n
      <4>1. cnt'[c] = cnt[c]
        BY ONLY <1>2, <2>1, <3>2, c \in Sort!Counters
      <4>2. c < n + 1 <=> c < n
        BY <1>1, <3>2 DEF Sort!Counters
      <4> QED
        BY ONLY <1>2, <4>1, <4>2, c \in Sort!Counters
    <3> QED
      BY <3>1, <3>2
  <2>5. cnt' = [c \in Sort!Counters |->
                  IF c < n THEN Cardinality(InFront(arr, c, 0))
                  ELSE Cardinality(CountedFor(arr, c, Elements))]'
    <3>1. DOMAIN cnt' = Sort!Counters /\ cnt' = [c \in DOMAIN cnt' |-> cnt'[c]]
      BY ONLY <1>2, <2>1
    <3> QED
      BY ONLY <1>4, <2>1, <2>4, <3>1
  <2> QED
    BY <1>3, <2>1, <2>2, <2>5 DEF SortInv, Sort!SortedPermutation
<1>6. CASE ~ (n < Sort!cntSize)
  <2>1. n = Sort!cntSize /\ n' = 0 /\ at' = "place" /\ cnt' = cnt
    BY <1>1, <1>6 DEF Sort!Sum
  <2>2. \A c \in Sort!Counters : c < n
    BY <1>1, <2>1 DEF Sort!Counters
  <2>3. cnt' = [c \in Sort!Counters |-> Cardinality(InFront(arr, c, n))]'
    BY ONLY <1>2, <1>4, <2>1, <2>2
  <2>4. \A u \in 0..n' - 1 : FALSE
    BY ONLY <2>1
  <2>5. n' \in Nat /\ n' <= Elements
    BY <2>1
  <2> QED
    BY <1>3, <2>1, <2>3, <2>4, <2>5 DEF SortInv, Sort!SortedPermutation
<1> QED
  BY <1>5, <1>6

\* An element is placed behind the ones with smaller keys and the equal ones before it;
\* when the last one is placed the array is sorted.
LEMMA PlaceStep ==
  ASSUME SortInv, Sort!Place
  PROVE  SortInv'
<1>1. /\ at = "place" /\ arr \in Arrays /\ Shuffled(arr) /\ n \in Nat /\ n <= Elements
      /\ input \in [Sort!Slots -> Sort!Keys] /\ input' = input
      /\ sorted \in [Sort!Slots -> Sort!S \cup {Sort!Default}]
      /\ \A u \in 0..n - 1 : sorted[Goal(arr, u)] = arr[u]
  BY DEF SortInv, Sort!Place
<1>2. cnt = [c \in Sort!Counters |-> Cardinality(InFront(arr, c, n))]
  BY <1>1 DEF SortInv
<1>3. Sort!Slots = 0..Elements - 1
  BY DEF Sort!Slots, Sort!N
<1>4. CASE n < Elements
  <2>1. n \in Sort!Slots /\ \A u \in 0..n - 1 : u \in Sort!Slots /\ u # n
    BY <1>1, <1>3, <1>4
  <2>2. Key(arr, n) \in Sort!Counters /\ cnt[Key(arr, n)] = Goal(arr, n) /\ Goal(arr, n) \in Sort!Slots
    <3>1. Key(arr, n) \in Sort!Counters
      BY <1>1, <2>1, KeyType
    <3> QED
      BY <1>1, <1>2, <2>1, <3>1, GoalsAreOrdered DEF Goal
  <2>3. /\ n' = n + 1 /\ at' = "place" /\ arr' = arr
        /\ sorted' = [sorted EXCEPT ![cnt[Key(arr, n)]] = arr[n]]
        /\ cnt' = [cnt EXCEPT ![Key(arr, n)] = @ + 1]
    BY <1>1, <1>4 DEF Sort!Place, Sort!N, Sort!Moved, Key
  <2>4. sorted' = [sorted EXCEPT ![Goal(arr, n)] = arr[n]]
    BY ONLY <2>2, <2>3
  <2>5. arr[n] \in Sort!S /\ sorted' \in [Sort!Slots -> Sort!S \cup {Sort!Default}]
    <3>1. arr[n] \in Sort!S
      BY <1>1, <2>1 DEF Arrays
    <3> QED
      BY ONLY <1>1, <2>2, <2>4, <3>1
  <2>6. ASSUME NEW u \in 0..n
        PROVE  sorted'[Goal(arr, u)] = arr[u]
    <3>1. CASE u = n
      BY ONLY <1>1, <2>2, <2>4, <3>1
    <3>2. CASE u # n
      <4>1. u \in 0..n - 1
        BY <1>1, <3>2
      <4>2. Goal(arr, u) # Goal(arr, n)
        BY <1>1, <2>1, <4>1, GoalsDiffer
      <4> QED
        BY ONLY <1>1, <2>4, <4>1, <4>2
    <3> QED
      BY <3>1, <3>2
  <2>7. ASSUME NEW c \in Sort!Counters
        PROVE  cnt'[c] = Cardinality(InFront(arr, c, n + 1))
    <3>1. Cardinality(InFront(arr, c, n + 1)) =
            Cardinality(InFront(arr, c, n)) + (IF Key(arr, n) = c THEN 1 ELSE 0)
      BY <1>1, <2>1, PlaceOne
    <3>2. Cardinality(InFront(arr, c, n)) \in Nat
      BY NumbersAreNaturals
    <3>3. cnt'[c] = cnt[c] + (IF Key(arr, n) = c THEN 1 ELSE 0)
      BY ONLY <1>2, <2>3, <3>2, c \in Sort!Counters
    <3> QED
      BY ONLY <1>2, <3>1, <3>3, c \in Sort!Counters
  <2>8. cnt' = [c \in Sort!Counters |-> Cardinality(InFront(arr, c, n))]'
    <3>1. DOMAIN cnt' = Sort!Counters /\ cnt' = [c \in DOMAIN cnt' |-> cnt'[c]]
      BY ONLY <1>2, <2>3
    <3>2. \A c \in Sort!Counters : InFront(arr, c, n)' = InFront(arr, c, n + 1)
      BY <1>1, <2>3 DEF InFront, Key
    <3> QED
      BY ONLY <2>7, <3>1, <3>2
  <2>9. n' \in Nat /\ n' <= Elements /\ n' - 1 = n
    BY ONLY <1>1, <1>4, <2>3, KeyAssumption
  <2>10. \A u \in 0..n' - 1 : sorted'[Goal(arr, u)'] = arr'[u]
    <3>1. \A u \in 0..n : Goal(arr, u)' = Goal(arr, u)
      BY <2>3 DEF Goal, InFront, Key
    <3> QED
      BY ONLY <2>3, <2>6, <2>9, <3>1
  <2>11. arr' \in Arrays /\ Shuffled(arr)' /\ input' \in [Sort!Slots -> Sort!Keys]
    BY <1>1, <2>3 DEF Shuffled
  <2> QED
    BY <2>3, <2>5, <2>8, <2>9, <2>10, <2>11 DEF SortInv, Sort!SortedPermutation
<1>5. CASE ~ (n < Elements)
  <2>1. arr' = sorted /\ at' = "returned" /\ n' = n
    BY <1>1, <1>5 DEF Sort!Place, Sort!N
  <2>2. \A u \in Sort!Slots : Goal(arr, u) \in Sort!Slots /\ arr'[Goal(arr, u)] = arr[u]
    BY <1>1, <1>3, <1>5, <2>1, GoalsAreOrdered
  <2>3. {arr'[s] : s \in Sort!Slots} = {arr[u] : u \in Sort!Slots}
    <3>1. ASSUME NEW s \in Sort!Slots PROVE \E u \in Sort!Slots : arr'[s] = arr[u]
      <4>1. PICK u \in Sort!Slots : Goal(arr, u) = s
        BY <1>1, GoalsAreAll
      <4> QED
        BY <2>2, <4>1
    <3> QED
      BY ONLY <2>2, <3>1
  <2>4. {arr[u] : u \in Sort!Slots} = {[i |-> input[s], place |-> s] : s \in Sort!Slots}
    <3>1. PICK p \in [Sort!Slots -> Sort!Slots] :
            /\ \A u, v \in Sort!Slots : p[u] = p[v] => u = v
            /\ \A u \in Sort!Slots : arr[u] = [i |-> input[p[u]], place |-> p[u]]
      BY <1>1 DEF Shuffled
    <3>2. p \in Injection(Sort!Slots, Sort!Slots)
      BY ONLY <3>1 DEF Injection, IsInjective
    <3>3. \A s \in Sort!Slots : \E u \in Sort!Slots : p[u] = s
      <4>1. p \in Surjection(Sort!Slots, Sort!Slots)
        BY <3>2, SlotsAreFinite, FS_Injection
      <4> QED
        BY <4>1 DEF Surjection
    <3>4. \A u \in Sort!Slots : \E s \in Sort!Slots : arr[u] = [i |-> input[s], place |-> s]
      BY ONLY <3>1
    <3>5. \A s \in Sort!Slots : \E u \in Sort!Slots : arr[u] = [i |-> input[s], place |-> s]
      BY ONLY <3>1, <3>3
    <3>6. ASSUME NEW x \in {arr[u] : u \in Sort!Slots}
          PROVE  x \in {[i |-> input[s], place |-> s] : s \in Sort!Slots}
      BY ONLY <3>4, <3>6, Zenon
    <3>7. ASSUME NEW x \in {[i |-> input[s], place |-> s] : s \in Sort!Slots}
          PROVE  x \in {arr[u] : u \in Sort!Slots}
      BY ONLY <3>5, <3>7, Zenon
    <3> QED
      BY ONLY <3>6, <3>7
  <2>5. ASSUME NEW s \in Sort!Slots, NEW t \in Sort!Slots, s < t
        PROVE  arr'[s].i <= arr'[t].i
    <3>1. PICK u \in Sort!Slots : Goal(arr, u) = s
      BY <1>1, GoalsAreAll
    <3>2. PICK v \in Sort!Slots : Goal(arr, v) = t
      BY <1>1, GoalsAreAll
    <3>3. u # v
      BY <1>3, <2>5, <3>1, <3>2
    <3>4. Key(arr, u) <= Key(arr, v)
      BY <1>1, <2>5, <3>1, <3>2, <3>3, GoalsDiffer
    <3>5. arr[u].i \in Int /\ arr[v].i \in Int
      BY <1>1 DEF Arrays, Sort!S, Sort!Keys
    <3>6. arr[u].i <= arr[v].i
      BY ONLY <3>4, <3>5, KeyAssumption DEF Key
    <3> QED
      BY <2>2, <3>1, <3>2, <3>6
  <2>6. Sort!SortedPermutation'
    BY <1>1, <2>3, <2>4, <2>5 DEF Sort!SortedPermutation
  <2> QED
    BY <1>1, <2>1, <2>6 DEF SortInv
<1> QED
  BY <1>4, <1>5

\* Every step keeps the invariant of the sort.
LEMMA SortStep == SortInv /\ [Sort!Next]_Sort!vars => SortInv'
<1> SUFFICES ASSUME SortInv, [Sort!Next]_Sort!vars PROVE SortInv'
  OBVIOUS
<1>1. CASE UNCHANGED Sort!vars
  <2>1. UNCHANGED <<input, arr, cnt, sorted, n, at>>
    BY <1>1 DEF Sort!vars
  <2>2. /\ \A c : CountedFor(arr, c, n)' = CountedFor(arr, c, n)
        /\ \A c : CountedFor(arr, c, Elements)' = CountedFor(arr, c, Elements)
        /\ \A c : InFront(arr, c, n)' = InFront(arr, c, n)
        /\ \A c : InFront(arr, c, 0)' = InFront(arr, c, 0)
    BY ONLY <2>1 DEF CountedFor, InFront, Key
  <2>3. /\ (cnt = [c \in Sort!Counters |-> Cardinality(CountedFor(arr, c, n))])'
             <=> cnt = [c \in Sort!Counters |-> Cardinality(CountedFor(arr, c, n))]
        /\ (cnt = [c \in Sort!Counters |-> IF c < n THEN Cardinality(InFront(arr, c, 0))
                                           ELSE Cardinality(CountedFor(arr, c, Elements))])'
             <=> cnt = [c \in Sort!Counters |-> IF c < n THEN Cardinality(InFront(arr, c, 0))
                                                ELSE Cardinality(CountedFor(arr, c, Elements))]
        /\ (cnt = [c \in Sort!Counters |-> Cardinality(InFront(arr, c, n))])'
             <=> cnt = [c \in Sort!Counters |-> Cardinality(InFront(arr, c, n))]
    BY ONLY <2>1, <2>2
  <2>4. (\A u \in 0..n - 1 : sorted[Goal(arr, u)] = arr[u])'
          <=> \A u \in 0..n - 1 : sorted[Goal(arr, u)] = arr[u]
    BY ONLY <2>1 DEF Goal, InFront, Key
  <2>5. Shuffled(arr)' <=> Shuffled(arr)
    BY ONLY <2>1 DEF Shuffled
  <2>6. Sort!SortedPermutation' <=> Sort!SortedPermutation
    BY ONLY <2>1 DEF Sort!SortedPermutation
  <2> QED
    BY ONLY <2>1, <2>3, <2>4, <2>5, <2>6, SortInv DEF SortInv
<1> QED
  BY <1>1, ShuffleStep, CountStep, SumStep, PlaceStep DEF Sort!Next, Sort!Returned

\* The counters lead to places of the arrays, and nowhere else.
LEMMA SortBounds == SortInv => Sort!InBounds
<1> SUFFICES ASSUME SortInv PROVE Sort!InBounds
  OBVIOUS
<1>1. ASSUME at \in {"count", "place"}, n < Sort!N
      PROVE  n \in Sort!Slots /\ arr \in Arrays
  BY <1>1 DEF SortInv, Sort!Slots, Sort!N
<1>2. ASSUME at = "place", n < Sort!N
      PROVE  Key(arr, n) \in Sort!Counters /\ cnt[Key(arr, n)] \in Sort!Slots
  <2>1. n \in Sort!Slots /\ arr \in Arrays
    BY <1>1, <1>2
  <2>2. Key(arr, n) \in Sort!Counters
    BY <2>1, KeyType
  <2>3. cnt[Key(arr, n)] = Goal(arr, n)
    BY <1>2, <2>2 DEF SortInv, Goal
  <2> QED
    BY <2>1, <2>2, <2>3, GoalsAreOrdered
<1>3. at = "sum" /\ n < Sort!cntSize => {n - 1, n} \subseteq Sort!Counters
  BY DEF SortInv, Sort!Counters, Sort!cntSize
<1>4. at = "count" /\ n < Sort!N => Sort!CounterOf(arr[n]) \in Sort!Counters
  BY <1>1, KeyType
<1> QED
  BY <1>2, <1>3, <1>4 DEF Sort!InBounds, Key

\* For arrays of every size, keys of every range and every shuffle, the array that
\* returns has the elements of the input, each once, in the order of their keys.
THEOREM CountingSorts == Sort!Spec => []Sort!SortedPermutation
<1>1. SortInv => Sort!SortedPermutation
  BY DEF SortInv
<1> QED
  BY <1>1, SortInit, SortStep, PTL DEF Sort!Spec

---------------------------------------------------------------------------
(* Sums over a finite set, as far as the blur needs them *)

\* A set of numbers that has 0 and the number after each of its own has them all.
LEMMA AllNumbers ==
  ASSUME NEW G \in SUBSET Nat, 0 \in G, \A x \in G : x + 1 \in G
  PROVE  G = Nat
<1> SUFFICES ASSUME G # Nat PROVE FALSE
  OBVIOUS
<1> DEFINE R == {ss \in Nat \X Nat : ss[1] < ss[2]}
<1>1. IsWellFoundedOn(R, Nat)
  BY NatLessThanWellFounded DEF OpToRel
<1>2. \E x \in Nat \ G : \A y \in Nat \ G : ~(<<y, x>> \in R)
  <2> HIDE DEF R
  <2> QED BY <1>1, WFMin
<1>3. PICK x \in Nat \ G : \A y \in Nat \ G : ~(y < x)
  BY <1>2
<1>4. x - 1 \in Nat /\ x - 1 < x
  OBVIOUS
<1> QED
  BY <1>3, <1>4

\* The element that a sum takes from a set, and the function that the sum is: on
\* all subsets, and on those of as many as x elements
Taken(s) == CHOOSE x \in s : TRUE
Adding(f, g, s) == IF s = {} THEN 0 ELSE f[Taken(s)] + g[s \ {Taken(s)}]
SumsOn(f, S) == CHOOSE g : g = [s \in SUBSET S |-> IF s = {} THEN 0 ELSE f[Taken(s)] + g[s \ {Taken(s)}]]
AddsUp(f, g, S, x) == \A s \in SUBSET S : Cardinality(s) <= x => g[s] = Adding(f, g, s)

\* What is left of a set is smaller.
LEMMA OneLess ==
  ASSUME NEW s, IsFiniteSet(s), s # {}
  PROVE  /\ Taken(s) \in s /\ Cardinality(s) \in Nat \ {0}
         /\ Cardinality(s \ {Taken(s)}) = Cardinality(s) - 1
<1>1. Taken(s) \in s
  BY DEF Taken
<1> QED
  BY <1>1, FS_RemoveElement, FS_CardinalityType, FS_EmptySet

\* There is such a function: it is extended from the sets of x elements to those of
\* x + 1.
LEMMA ThereAreSums ==
  ASSUME NEW S, IsFiniteSet(S), NEW f, \A e \in S : f[e] \in Nat
  PROVE  \E g \in [SUBSET S -> Nat] : AddsUp(f, g, S, Cardinality(S))
<1> DEFINE G == {x \in Nat : \E g \in [SUBSET S -> Nat] : AddsUp(f, g, S, x)}
<1>0. \A s \in SUBSET S : IsFiniteSet(s) /\ Cardinality(s) \in Nat
  BY FS_Subset, FS_CardinalityType
<1>1. 0 \in G
  <2> DEFINE g == [s \in SUBSET S |-> 0]
  <2>1. AddsUp(f, g, S, 0)
    BY <1>0, FS_EmptySet DEF AddsUp, Adding
  <2>2. g \in [SUBSET S -> Nat]
    OBVIOUS
  <2> HIDE DEF g
  <2> QED BY <2>1, <2>2
<1>2. ASSUME NEW x \in G PROVE x + 1 \in G
  <2>1. PICK g \in [SUBSET S -> Nat] : AddsUp(f, g, S, x)
    BY <1>2
  <2>2. PICK h : h = [s \in SUBSET S |-> Adding(f, g, s)]
    OBVIOUS
  <2>3. h \in [SUBSET S -> Nat]
    <3>1. ASSUME NEW s \in SUBSET S, s # {} PROVE Adding(f, g, s) \in Nat
      <4>1. Taken(s) \in s /\ s \ {Taken(s)} \in SUBSET S
        BY ONLY <1>0, <3>1, s \in SUBSET S, OneLess
      <4>2. f[Taken(s)] \in Nat /\ g[s \ {Taken(s)}] \in Nat
        BY ONLY <4>1, \A e \in S : f[e] \in Nat, g \in [SUBSET S -> Nat], s \in SUBSET S
      <4>3. Adding(f, g, s) = f[Taken(s)] + g[s \ {Taken(s)}]
        BY ONLY <3>1 DEF Adding
      <4> QED
        BY ONLY <4>2, <4>3
    <3>2. Adding(f, g, {}) = 0
      BY DEF Adding
    <3>3. \A s \in SUBSET S : Adding(f, g, s) \in Nat
      <4>1. ASSUME NEW s \in SUBSET S PROVE Adding(f, g, s) \in Nat
        <5>1. CASE s = {}
          BY <3>2, <5>1
        <5>2. CASE s # {}
          BY <3>1, <5>2
        <5> QED
          BY <5>1, <5>2
      <4> QED
        BY <4>1
    <3> QED
      BY ONLY <2>2, <3>3
  <2>4. \A s \in SUBSET S : Cardinality(s) <= x => h[s] = g[s]
    BY <2>1, <2>2 DEF AddsUp
  <2>5. ASSUME NEW s \in SUBSET S, Cardinality(s) <= x + 1 PROVE h[s] = Adding(f, h, s)
    <3>1. CASE s = {}
      BY <2>2, <3>1 DEF Adding
    <3>2. CASE s # {}
      <4>1. s \ {Taken(s)} \in SUBSET S /\ Cardinality(s \ {Taken(s)}) <= x
        BY <1>0, <2>5, <3>2, OneLess
      <4>2. h[s \ {Taken(s)}] = g[s \ {Taken(s)}]
        BY <2>4, <4>1
      <4> QED
        BY <2>2, <3>2, <4>2 DEF Adding
    <3> QED
      BY <3>1, <3>2
  <2>6. AddsUp(f, h, S, x + 1) /\ x + 1 \in Nat
    BY <2>5 DEF AddsUp
  <2> QED
    BY <2>3, <2>6
<1>3. G = Nat
  <2>1. G \in SUBSET Nat
    OBVIOUS
  <2> HIDE DEF G
  <2> QED BY <1>1, <1>2, <2>1, AllNumbers
<1> QED
  BY <1>0, <1>3

\* A sum of naturals is a natural, and no less than the first of them.
LEMMA NaturalSum ==
  ASSUME NEW S, IsFiniteSet(S), NEW f, \A e \in S : f[e] \in Nat
  PROVE  /\ SumFunctionOnSet(f, S) \in Nat
         /\ S # {} => \E e \in S : f[e] <= SumFunctionOnSet(f, S)
<1>1. PICK g \in [SUBSET S -> Nat] : AddsUp(f, g, S, Cardinality(S))
  BY ThereAreSums
<1>2. \A s \in SUBSET S : IsFiniteSet(s) /\ Cardinality(s) \in Nat /\ Cardinality(s) <= Cardinality(S)
  BY FS_Subset, FS_CardinalityType
<1>3. g = [s \in SUBSET S |-> IF s = {} THEN 0 ELSE f[Taken(s)] + g[s \ {Taken(s)}]]
  BY <1>1, <1>2 DEF AddsUp, Adding
<1>4. PICK h : h = SumsOn(f, S)
  OBVIOUS
<1>5. h = [s \in SUBSET S |-> IF s = {} THEN 0 ELSE f[Taken(s)] + h[s \ {Taken(s)}]]
  BY <1>3, <1>4 DEF SumsOn
<1> DEFINE G == {x \in Nat : \A s \in SUBSET S : Cardinality(s) = x => h[s] \in Nat}
<1>6. 0 \in G
  BY <1>2, <1>5, FS_EmptySet
<1>7. ASSUME NEW x \in G PROVE x + 1 \in G
  <2>1. ASSUME NEW s \in SUBSET S, Cardinality(s) = x + 1 PROVE h[s] \in Nat
    <3>1. s # {}
      <4>1. x \in Nat /\ x + 1 # 0
        OBVIOUS
      <4> QED
        BY <2>1, <4>1, FS_EmptySet
    <3>2. Taken(s) \in S /\ Cardinality(s \ {Taken(s)}) = x
      BY <1>2, <2>1, <3>1, OneLess
    <3>3. h[s \ {Taken(s)}] \in Nat
      BY <1>7, <3>2
    <3>4. h[s] = f[Taken(s)] + h[s \ {Taken(s)}]
      BY <1>5, <3>1
    <3> QED
      BY <3>2, <3>3, <3>4
  <2> QED
    BY <2>1
<1>8. G = Nat
  <2>1. G \in SUBSET Nat
    OBVIOUS
  <2> HIDE DEF G
  <2> QED BY <1>6, <1>7, <2>1, AllNumbers
<1>9. \A s \in SUBSET S : h[s] \in Nat
  BY <1>2, <1>8
<1>10. SumFunctionOnSet(f, S) = h[S]
  BY <1>4 DEF SumFunctionOnSet, FoldFunctionOnSet, MapThenFoldSet, SumsOn, Taken
<1>11. ASSUME S # {} PROVE \E e \in S : f[e] <= h[S]
  <2>1. Taken(S) \in S
    BY <1>11, OneLess
  <2>2. h[S] = f[Taken(S)] + h[S \ {Taken(S)}]
    BY <1>5, <1>11
  <2>3. h[S \ {Taken(S)}] \in Nat /\ f[Taken(S)] \in Nat
    BY <1>9, <2>1
  <2> QED
    BY <2>1, <2>2, <2>3
<1> QED
  BY <1>9, <1>10, <1>11

---------------------------------------------------------------------------
(* The blur reads pixels of the picture and weights of the kernel only. *)

\* The pixels of the picture
Pixels == Blurring!Pixels(width, height)

\* How far the loops are, and what the first pass has written by then
BlurInv ==
  /\ width \in Nat \ {0} /\ height \in Nat \ {0}
  /\ input \in [Pixels -> 0..255]
  /\ temp \in [Pixels -> 0..255 \cup {Blurring!Unset}]
  /\ at \in {"vertical", "horizontal", "returned"} /\ part \in {"top", "middle", "bottom"}
  /\ line \in 0..Blurring!Lines - 1 /\ pos \in Nat
  /\ part = "top" => pos <= Blurring!Lesser(Blurring!radius, Blurring!Length)
  /\ part = "middle" => pos >= Blurring!radius
  /\ part = "bottom" => pos >= Blurring!BottomBegin
  /\ at = "vertical" =>
       \A q \in Pixels : q[2] < line \/ (q[2] = line /\ q[1] < pos) => temp[q] # Blurring!Unset
  /\ at # "vertical" => \A q \in Pixels : temp[q] # Blurring!Unset

\* What each part of a line reads, in numbers
LEMMA PartOfLine ==
  ASSUME BlurInv
  PROVE  /\ width \in Nat \ {0} /\ height \in Nat \ {0} /\ Blurring!Length \in Nat \ {0}
         /\ line \in Nat /\ pos \in Nat /\ line < Blurring!Lines
         /\ Blurring!Begin["middle"] = 2 /\ Blurring!Begin["bottom"] = Blurring!BottomBegin
         /\ Blurring!BottomBegin \in Nat /\ Blurring!BottomBegin >= 2
         /\ Blurring!BottomBegin >= Blurring!Length - 2
         /\ Blurring!BottomBegin = 2 \/ Blurring!BottomBegin = Blurring!Length - 2
         /\ Blurring!End["top"] \in Nat /\ Blurring!End["top"] <= 2 /\ Blurring!End["top"] <= Blurring!Length
         /\ Blurring!End["top"] = 2 \/ Blurring!End["top"] = Blurring!Length
         /\ Blurring!End["middle"] = Blurring!Length - 2 /\ Blurring!End["bottom"] = Blurring!Length
         /\ part = "top" => pos <= Blurring!End["top"]
         /\ part = "middle" => pos >= 2
         /\ part = "bottom" => pos >= Blurring!BottomBegin
<1>1. width \in Nat \ {0} /\ height \in Nat \ {0} /\ Blurring!Length \in Nat \ {0} /\ Blurring!Lines \in Nat \ {0}
  BY DEF BlurInv, Blurring!Length, Blurring!Lines
<1>2. line \in 0..Blurring!Lines - 1 /\ pos \in Nat
  BY DEF BlurInv
<1>3. line \in Nat /\ line < Blurring!Lines
  BY <1>1, <1>2
<1>4. /\ Blurring!Begin["middle"] = 2 /\ Blurring!Begin["bottom"] = Blurring!BottomBegin
      /\ Blurring!End["top"] = Blurring!Lesser(2, Blurring!Length)
      /\ Blurring!End["middle"] = Blurring!Length - 2 /\ Blurring!End["bottom"] = Blurring!Length
  BY DEF Blurring!Begin, Blurring!End, Blurring!radius
<1>5. /\ Blurring!BottomBegin \in Nat /\ Blurring!BottomBegin >= 2
      /\ Blurring!BottomBegin >= Blurring!Length - 2
      /\ Blurring!BottomBegin = 2 \/ Blurring!BottomBegin = Blurring!Length - 2
  BY <1>1 DEF Blurring!BottomBegin, Blurring!Greater, Blurring!radius
<1>6. /\ Blurring!End["top"] \in Nat /\ Blurring!End["top"] <= 2 /\ Blurring!End["top"] <= Blurring!Length
      /\ Blurring!End["top"] = 2 \/ Blurring!End["top"] = Blurring!Length
  BY <1>1, <1>4 DEF Blurring!Lesser
<1>7. /\ part = "top" => pos <= Blurring!End["top"]
      /\ part = "middle" => pos >= 2
      /\ part = "bottom" => pos >= Blurring!BottomBegin
  BY <1>4 DEF BlurInv, Blurring!radius
<1> QED
  BY <1>1, <1>2, <1>3, <1>4, <1>5, <1>6, <1>7

\* The pixels around the one that is computed lie on its line, and as many weights
\* lie in the kernel.
LEMMA KernelFits ==
  ASSUME BlurInv, at # "returned", pos < Blurring!End[part]
  PROVE  /\ pos < Blurring!Length /\ pos \in Blurring!Read
         /\ Blurring!Read \subseteq 0..Blurring!Length - 1
         /\ \A p \in Blurring!Read : Blurring!KernelFrom[part] + p - Blurring!First[part] \in 0..4
<1>1. PICK l \in Nat \ {0} : l = Blurring!Length
  BY PartOfLine
<1>2. part \in {"top", "middle", "bottom"} /\ pos \in Nat
  BY DEF BlurInv
<1>3. CASE part = "top"
  <2>1. Blurring!Read = 0..Blurring!Lesser(pos + 2, l - 1) /\ pos < 2 /\ pos < l
    BY <1>1, <1>2, <1>3, PartOfLine DEF Blurring!Read, Blurring!First, Blurring!Last, Blurring!radius
  <2>2. Blurring!KernelFrom[part] = 2 - pos /\ Blurring!First[part] = 0
    BY <1>3 DEF Blurring!KernelFrom, Blurring!First, Blurring!radius
  <2>3. PICK b \in Int : b = Blurring!Lesser(pos + 2, l - 1)
    BY <1>1, <1>2 DEF Blurring!Lesser
  <2>4. pos <= b /\ b <= l - 1 /\ b <= pos + 2
    BY <1>1, <1>2, <2>1, <2>3 DEF Blurring!Lesser
  <2>5. \A p \in 0..b : 2 - pos + p - 0 \in 0..4 /\ p \in 0..l - 1
    BY <1>1, <1>2, <2>1, <2>3, <2>4
  <2>6. pos \in 0..b
    BY <1>2, <2>3, <2>4
  <2> QED
    BY <1>1, <2>1, <2>2, <2>3, <2>5, <2>6
<1>4. CASE part = "middle"
  <2>1. Blurring!Read = pos - 2..pos + 2 /\ pos >= 2 /\ pos < l - 2
    BY <1>1, <1>2, <1>4, PartOfLine DEF Blurring!Read, Blurring!First, Blurring!Last, Blurring!radius
  <2>2. Blurring!KernelFrom[part] = 0 /\ Blurring!First[part] = pos - 2
    BY <1>4 DEF Blurring!KernelFrom, Blurring!First, Blurring!radius
  <2>3. \A p \in pos - 2..pos + 2 : 0 + p - (pos - 2) \in 0..4 /\ p \in 0..l - 1
    BY <1>1, <1>2, <2>1
  <2>4. pos \in pos - 2..pos + 2 /\ pos < l
    BY <1>1, <1>2, <2>1
  <2> QED
    BY <1>1, <2>1, <2>2, <2>3, <2>4
<1>5. CASE part = "bottom"
  <2>1. Blurring!Read = pos - 2..l - 1 /\ pos >= 2 /\ pos >= l - 2 /\ pos < l
    BY <1>1, <1>2, <1>5, PartOfLine DEF Blurring!Read, Blurring!First, Blurring!Last, Blurring!radius
  <2>2. Blurring!KernelFrom[part] = 0 /\ Blurring!First[part] = pos - 2
    BY <1>5 DEF Blurring!KernelFrom, Blurring!First, Blurring!radius
  <2>3. \A p \in pos - 2..l - 1 : 0 + p - (pos - 2) \in 0..4 /\ p \in 0..l - 1
    BY <1>1, <1>2, <2>1
  <2>4. pos \in pos - 2..l - 1
    BY <1>1, <1>2, <2>1
  <2> QED
    BY <1>1, <2>1, <2>2, <2>3, <2>4
<1> QED
  BY <1>2, <1>3, <1>4, <1>5

\* Every position of the line is a pixel.
LEMMA OnThePicture ==
  ASSUME BlurInv, at # "returned", NEW p \in 0..Blurring!Length - 1
  PROVE  Blurring!At(p) \in Pixels
<1>1. CASE at = "vertical"
  <2>1. p \in 0..height - 1 /\ line \in 0..width - 1
    BY <1>1 DEF BlurInv, Blurring!Length, Blurring!Lines
  <2> QED
    BY <1>1, <2>1 DEF Blurring!At, Blurring!Pixels, Pixels
<1>2. CASE at # "vertical"
  <2>1. p \in 0..width - 1 /\ line \in 0..height - 1
    BY <1>2 DEF BlurInv, Blurring!Length, Blurring!Lines
  <2> QED
    BY <1>2, <2>1 DEF Blurring!At, Blurring!Pixels, Pixels
<1> QED
  BY <1>1, <1>2

\* What is read was written.
LEMMA ValuesAreSet ==
  ASSUME BlurInv, at # "returned", NEW p \in 0..Blurring!Length - 1
  PROVE  Blurring!Value(p) \in 0..255
<1>1. Blurring!At(p) \in Pixels
  BY OnThePicture
<1>2. CASE at = "vertical"
  BY <1>1, <1>2 DEF BlurInv, Blurring!Value
<1>3. CASE at # "vertical"
  BY <1>1, <1>3 DEF BlurInv, Blurring!Value
<1> QED
  BY <1>2, <1>3

\* Every access of the blur is inside of the buffers.
LEMMA BlurBounds == BlurInv => Blurring!ReadsInBounds
<1> SUFFICES ASSUME BlurInv, at # "returned", pos < Blurring!End[part]
             PROVE  /\ pos >= 0
                    /\ Blurring!Read \subseteq 0..Blurring!Length - 1
                    /\ \A p \in Blurring!Read : Blurring!KernelFrom[part] + p - Blurring!First[part] \in 0..2 * Blurring!radius
                    /\ \A p \in Blurring!Read : Blurring!Value(p) # Blurring!Unset
  BY DEF Blurring!ReadsInBounds
<1>1. pos >= 0
  BY DEF BlurInv
<1>2. /\ Blurring!Read \subseteq 0..Blurring!Length - 1
      /\ \A p \in Blurring!Read : Blurring!KernelFrom[part] + p - Blurring!First[part] \in 0..4
  BY KernelFits
<1>3. 2 * Blurring!radius = 4
  BY DEF Blurring!radius
<1>4. \A p \in Blurring!Read : Blurring!Value(p) # Blurring!Unset
  BY <1>2, ValuesAreSet DEF Blurring!Unset
<1> QED
  BY <1>1, <1>2, <1>3, <1>4

\* The value of a pixel is a number.
LEMMA PixelType ==
  ASSUME BlurInv, at # "returned", pos < Blurring!End[part]
  PROVE  Blurring!NewValue % 256 \in 0..255
<1>1. PICK S : S = Blurring!Read
  OBVIOUS
<1>2. /\ S \subseteq 0..Blurring!Length - 1 /\ pos \in S
      /\ \A p \in S : Blurring!KernelFrom[part] + p - Blurring!First[part] \in 0..4
  BY <1>1, KernelFits
<1>3. IsFiniteSet(S)
  <2>1. 0 \in Int /\ Blurring!Length - 1 \in Int
    BY PartOfLine
  <2>2. IsFiniteSet(0..Blurring!Length - 1)
    BY ONLY <2>1, FS_Interval
  <2> QED
    BY ONLY <1>2, <2>2, FS_Subset
<1>4. \A p \in S : Blurring!WeightOf(p) \in Nat /\ Blurring!WeightOf(p) >= 1
  <2>1. \A x \in 0..4 : Blurring!Weight(x) \in Nat /\ Blurring!Weight(x) >= 1
    <3> SUFFICES ASSUME NEW x \in 0..4 PROVE <<1, 4, 6, 4, 1>>[x + 1] \in Nat /\ <<1, 4, 6, 4, 1>>[x + 1] >= 1
      BY DEF Blurring!Weight, Blurring!kernel
    <3>1. x = 0 \/ x = 1 \/ x = 2 \/ x = 3 \/ x = 4
      OBVIOUS
    <3> QED
      BY <3>1
  <2> QED
    BY <1>2, <2>1 DEF Blurring!WeightOf
<1>5. \A p \in S : Blurring!Value(p) \in Nat
  BY <1>2, ValuesAreSet
<1>6. PICK f, g : f = [p \in S |-> Blurring!Value(p) * Blurring!WeightOf(p)] /\ g = [p \in S |-> Blurring!WeightOf(p)]
  OBVIOUS
<1>7. \A p \in S : f[p] \in Nat /\ g[p] \in Nat /\ g[p] >= 1
  <2>1. \A x \in Nat, y \in Nat : x * y \in Nat
    OBVIOUS
  <2> QED
    BY <1>4, <1>5, <1>6, <2>1
<1>8. PICK dot, sum : dot = SumFunctionOnSet(f, S) /\ sum = SumFunctionOnSet(g, S)
  OBVIOUS
<1>9. dot \in Nat
  BY <1>3, <1>7, <1>8, NaturalSum
<1>10. sum \in Nat /\ sum >= 1
  <2>1. sum \in Nat /\ \E e \in S : g[e] <= sum
    BY <1>2, <1>3, <1>7, <1>8, NaturalSum
  <2> QED
    BY <1>7, <2>1
<1>11. Blurring!Dot = dot /\ Blurring!Sum = sum
  BY <1>1, <1>6, <1>8 DEF Blurring!Dot, Blurring!Sum, Blurring!SumFunctionOnSet, SumFunctionOnSet,
       Blurring!FoldFunctionOnSet, FoldFunctionOnSet, Blurring!MapThenFoldSet, MapThenFoldSet
<1>12. Blurring!NewValue \in Int
  <2>1. (dot + 8) \div 16 \in Int
    BY <1>9
  <2>2. 2 * dot + sum \in Nat /\ 2 * sum \in Nat /\ 2 * sum > 0
    BY <1>9, <1>10
  <2>3. PICK x \in Nat, y \in Nat : x = 2 * dot + sum /\ y = 2 * sum /\ y > 0
    BY <2>2
  <2>4. x \div y \in Int
    BY <2>3
  <2>5. Blurring!NewValue = IF part = "middle" THEN (dot + 8) \div 16 ELSE (2 * dot + sum) \div (2 * sum)
    BY <1>11 DEF Blurring!NewValue, Blurring!Normalized, Blurring!Rounded, Blurring!rounding, Blurring!whole
  <2> QED
    BY <2>1, <2>3, <2>4, <2>5
<1>13. \A x \in Int : x % 256 \in 0..255
  OBVIOUS
<1> QED
  BY <1>12, <1>13

\* Nothing is computed yet.
LEMMA BlurInit == Blurring!Init => BlurInv
<1> SUFFICES ASSUME Blurring!Init PROVE BlurInv
  OBVIOUS
<1>1. PICK p \in Pictures : width = p[1] /\ height = p[2] /\ input = p[3]
  BY DEF Blurring!Init
<1>2. /\ width \in Nat \ {0} /\ height \in Nat \ {0}
      /\ input \in [Pixels -> 0..255]
  BY <1>1, PicturesAssumption DEF Pixels, Blurring!Pixels
<1>3. /\ temp = [q \in Pixels |-> Blurring!Unset] /\ at = "vertical"
      /\ line = 0 /\ part = "top" /\ pos = 0
  BY DEF Blurring!Init, Pixels
<1>4. temp \in [Pixels -> 0..255 \cup {Blurring!Unset}]
  BY <1>3
<1>5. line \in 0..Blurring!Lines - 1 /\ pos <= Blurring!Lesser(Blurring!radius, Blurring!Length)
  BY <1>2, <1>3 DEF Blurring!Lines, Blurring!Length, Blurring!Lesser, Blurring!radius
<1>6. \A q \in Pixels : ~ (q[2] < line \/ (q[2] = line /\ q[1] < pos))
  <2>1. \A q \in Pixels : q[1] \in 0..height - 1 /\ q[2] \in 0..width - 1
    BY DEF Pixels, Blurring!Pixels
  <2> QED
    BY <1>2, <1>3, <2>1
<1> QED
  BY <1>2, <1>3, <1>4, <1>5, <1>6 DEF BlurInv

\* A pixel is computed.
LEMMA PixelStep ==
  ASSUME BlurInv, Blurring!Pixel
  PROVE  BlurInv'
<1>1. /\ at # "returned" /\ pos < Blurring!End[part] /\ pos' = pos + 1
      /\ UNCHANGED <<width, height, input, at, line, part>>
  BY DEF Blurring!Pixel
<1>2. /\ width \in Nat \ {0} /\ height \in Nat \ {0} /\ input \in [Pixels -> 0..255]
      /\ temp \in [Pixels -> 0..255 \cup {Blurring!Unset}]
      /\ at \in {"vertical", "horizontal"} /\ part \in {"top", "middle", "bottom"}
      /\ line \in 0..Blurring!Lines - 1 /\ pos \in Nat /\ pos' \in Nat
  BY <1>1 DEF BlurInv
<1>3. /\ Pixels' = Pixels /\ Blurring!Lines' = Blurring!Lines /\ Blurring!Length' = Blurring!Length
      /\ Blurring!BottomBegin' = Blurring!BottomBegin /\ Blurring!Begin' = Blurring!Begin /\ Blurring!End' = Blurring!End
  BY <1>1 DEF Pixels, Blurring!Lines, Blurring!Length, Blurring!BottomBegin, Blurring!Begin, Blurring!End
<1>4. pos < Blurring!Length /\ pos \in 0..Blurring!Length - 1
  BY <1>1, <1>2, KernelFits, PartOfLine
<1>5. PICK value \in 0..255 : value = Blurring!NewValue % 256
  BY <1>1, PixelType
<1>6. PICK here \in Pixels : here = Blurring!At(pos)
  BY <1>1, <1>4, OnThePicture
<1>7. value # Blurring!Unset
  BY DEF Blurring!Unset
<1>8. /\ temp' \in [Pixels -> 0..255 \cup {Blurring!Unset}]
      /\ \A q \in Pixels : temp[q] # Blurring!Unset => temp'[q] # Blurring!Unset
      /\ at = "vertical" => temp'[here] # Blurring!Unset
  <2>1. CASE at = "vertical"
    <3>1. temp' = [temp EXCEPT ![here] = value]
      BY <1>5, <1>6, <2>1 DEF Blurring!Pixel
    <3> QED
      BY <1>2, <1>7, <3>1
  <2>2. CASE at # "vertical"
    <3>1. temp' = temp
      BY <2>2 DEF Blurring!Pixel
    <3> QED
      BY <1>2, <2>2, <3>1
  <2> QED
    BY <2>1, <2>2
<1>9. /\ part = "top" => pos' <= Blurring!Lesser(Blurring!radius, Blurring!Length)
      /\ part = "middle" => pos' >= Blurring!radius
      /\ part = "bottom" => pos' >= Blurring!BottomBegin
  <2>1. part = "top" => pos' <= Blurring!Lesser(Blurring!radius, Blurring!Length)
    <3>1. part = "top" => pos < Blurring!Lesser(Blurring!radius, Blurring!Length)
      BY <1>1 DEF Blurring!End
    <3>2. Blurring!Lesser(Blurring!radius, Blurring!Length) \in Nat
      BY PartOfLine DEF Blurring!End, Blurring!Lesser, Blurring!radius
    <3> QED
      BY <1>1, <1>2, <3>1, <3>2
  <2>2. part = "middle" => pos' >= Blurring!radius
    BY <1>1, <1>2 DEF BlurInv, Blurring!radius
  <2>3. part = "bottom" => pos' >= Blurring!BottomBegin
    BY <1>1, <1>2, PartOfLine
  <2> QED
    BY <2>1, <2>2, <2>3
<1>10. ASSUME at = "vertical", NEW q \in Pixels, q[2] < line \/ (q[2] = line /\ q[1] < pos + 1)
       PROVE  temp'[q] # Blurring!Unset
  <2>1. CASE q[2] < line \/ (q[2] = line /\ q[1] < pos)
    BY <1>8, <1>10, <2>1 DEF BlurInv
  <2>2. CASE q[2] = line /\ q[1] = pos
    <3>1. q = <<pos, line>>
      BY <2>2 DEF Pixels, Blurring!Pixels
    <3>2. q = here
      BY <1>6, <1>10, <3>1 DEF Blurring!At
    <3> QED
      BY <1>8, <1>10, <3>2
  <2>3. q[1] \in Int
    BY <1>2 DEF Pixels, Blurring!Pixels
  <2> QED
    BY <1>2, <1>10, <2>1, <2>2, <2>3
<1>11. at # "vertical" => \A q \in Pixels : temp'[q] # Blurring!Unset
  BY <1>8 DEF BlurInv
<1>12. (at' = "vertical" =>
         \A q \in Pixels : q[2] < line \/ (q[2] = line /\ q[1] < pos') => temp'[q] # Blurring!Unset)
  BY <1>1, <1>10
<1>13. Blurring!Unset' = Blurring!Unset /\ Blurring!radius' = Blurring!radius
  BY DEF Blurring!Unset, Blurring!radius
<1>14. Blurring!Lesser(Blurring!radius, Blurring!Length)' = Blurring!Lesser(Blurring!radius, Blurring!Length)
  BY <1>1 DEF Blurring!Lesser, Blurring!radius, Blurring!Length
<1> QED
  BY ONLY <1>1, <1>2, <1>3, <1>8, <1>9, <1>11, <1>12, <1>13, <1>14 DEF BlurInv

\* A loop ends.
LEMMA LoopStep ==
  ASSUME BlurInv, Blurring!EndOfLoop
  PROVE  BlurInv'
<1>1. /\ at # "returned" /\ pos >= Blurring!End[part]
      /\ UNCHANGED <<width, height, input, temp>>
  BY DEF Blurring!EndOfLoop
<1>2. /\ width \in Nat \ {0} /\ height \in Nat \ {0} /\ input \in [Pixels -> 0..255]
      /\ temp \in [Pixels -> 0..255 \cup {Blurring!Unset}]
      /\ at \in {"vertical", "horizontal"} /\ part \in {"top", "middle", "bottom"}
      /\ line \in 0..Blurring!Lines - 1 /\ pos \in Nat
  BY <1>1 DEF BlurInv
<1>3. Pixels' = Pixels /\ Blurring!Unset' = Blurring!Unset /\ Blurring!radius' = Blurring!radius
  BY <1>1 DEF Pixels, Blurring!Unset, Blurring!radius
<1>4. \A q \in Pixels : q[1] \in 0..height - 1 /\ q[2] \in 0..width - 1
  BY DEF Pixels, Blurring!Pixels
<1>5. CASE part # "bottom"
  <2>1. /\ part' = IF part = "top" THEN "middle" ELSE "bottom"
        /\ pos' = Blurring!Begin[part'] /\ UNCHANGED <<at, line>>
    BY <1>5 DEF Blurring!EndOfLoop
  <2>2. Blurring!Length' = Blurring!Length /\ Blurring!Lines' = Blurring!Lines /\ Blurring!BottomBegin' = Blurring!BottomBegin
    BY <1>1, <2>1 DEF Blurring!Length, Blurring!Lines, Blurring!BottomBegin
  <2>3. pos' = IF part = "top" THEN 2 ELSE Blurring!BottomBegin
    BY <1>2, <1>5, <2>1, <2>2 DEF Blurring!Begin, Blurring!radius
  <2>4. /\ pos' \in Nat /\ part' \in {"middle", "bottom"}
        /\ part' = "middle" => pos' >= 2
        /\ part' = "bottom" => pos' >= Blurring!BottomBegin
    BY <1>2, <1>5, <2>1, <2>3, PartOfLine
  <2>5. ASSUME at = "vertical", NEW q \in Pixels, q[2] < line \/ (q[2] = line /\ q[1] < pos')
        PROVE  temp[q] # Blurring!Unset
    <3>1. q[1] < pos' => q[1] < pos
      <4>1. Blurring!Length = height
        BY <2>5 DEF Blurring!Length
      <4>2. q[1] \in Nat /\ q[1] < height
        BY <1>2, <1>4
      <4>3. CASE part = "top"
        <5>1. pos >= Blurring!End["top"] /\ pos' = 2
          BY <1>1, <2>3, <4>3
        <5> QED
          BY <1>2, <4>1, <4>2, <5>1, PartOfLine
      <4>4. CASE part = "middle"
        <5>1. pos >= Blurring!Length - 2 /\ pos >= 2 /\ pos' = Blurring!BottomBegin
          BY <1>1, <2>3, <4>4, PartOfLine
        <5> QED
          BY <1>2, <4>2, <5>1, PartOfLine
      <4> QED
        BY <1>2, <1>5, <4>3, <4>4
    <3> QED
      BY <2>5, <3>1 DEF BlurInv
  <2>6. at # "vertical" => \A q \in Pixels : temp[q] # Blurring!Unset
    BY DEF BlurInv
  <2>7. Blurring!radius = 2
    BY DEF Blurring!radius
  <2>8. /\ part' \in {"top", "middle", "bottom"} /\ part' # "top"
        /\ (at = "vertical" =>
             \A q \in Pixels : q[2] < line \/ (q[2] = line /\ q[1] < pos') => temp[q] # Blurring!Unset)
    BY <2>4, <2>5
  <2> QED
    BY ONLY <1>1, <1>2, <1>3, <2>1, <2>2, <2>4, <2>6, <2>7, <2>8 DEF BlurInv
<1>6. CASE part = "bottom"
  <2>1. /\ part' = "top" /\ pos' = 0
        /\ IF line < Blurring!Lines - 1 THEN line' = line + 1 /\ UNCHANGED at
           ELSE line' = 0 /\ at' = IF at = "vertical" THEN "horizontal" ELSE "returned"
    BY <1>6 DEF Blurring!EndOfLoop
  <2>2. Blurring!Length' \in Nat \ {0} /\ Blurring!Lines' \in Nat \ {0} /\ at' \in {"vertical", "horizontal", "returned"}
    BY <1>1, <1>2, <2>1 DEF Blurring!Length, Blurring!Lines
  <2>3. 0 <= Blurring!Lesser(Blurring!radius, Blurring!Length)'
    BY <2>2 DEF Blurring!Lesser, Blurring!radius
  <2>4. line' \in 0..Blurring!Lines' - 1
    <3>1. CASE line < Blurring!Lines - 1
      <4>1. line' = line + 1 /\ Blurring!Lines' = Blurring!Lines
        BY <1>1, <2>1, <3>1 DEF Blurring!Lines
      <4> QED
        BY <1>2, <2>2, <3>1, <4>1
    <3>2. CASE ~ line < Blurring!Lines - 1
      <4>1. PICK l \in Nat \ {0} : l = Blurring!Lines'
        BY <2>2
      <4>2. 0 \in 0..l - 1
        BY ONLY l \in Nat \ {0}
      <4>3. line' = 0
        BY <2>1, <3>2
      <4> QED
        BY ONLY <4>1, <4>2, <4>3
    <3> QED
      BY <3>1, <3>2
  <2>5. ASSUME at = "vertical", NEW q \in Pixels, q[2] < line + 1
        PROVE  temp[q] # Blurring!Unset
    <3>1. Blurring!End["bottom"] = height
      BY <2>5 DEF Blurring!End, Blurring!Length
    <3>2. q[1] < pos
      BY <1>1, <1>2, <1>4, <1>6, <3>1
    <3>3. q[2] < line \/ q[2] = line
      BY <1>2, <1>4, <2>5
    <3> QED
      BY <2>5, <3>2, <3>3 DEF BlurInv
  <2>6. at' # "vertical" => \A q \in Pixels : temp[q] # Blurring!Unset
    <3>1. CASE at # "vertical"
      BY <3>1 DEF BlurInv
    <3>2. CASE at = "vertical" /\ at' # "vertical"
      <4>1. ~ line < Blurring!Lines - 1 /\ Blurring!Lines = width
        BY <2>1, <3>2 DEF Blurring!Lines
      <4>2. \A q \in Pixels : q[2] < line + 1
        BY <1>2, <1>4, <4>1
      <4> QED
        BY <2>5, <3>2, <4>2
    <3> QED
      BY <3>1, <3>2
  <2>7. at' = "vertical" => \A q \in Pixels : q[2] < line' \/ (q[2] = line' /\ q[1] < pos') => temp[q] # Blurring!Unset
    <3> SUFFICES ASSUME at' = "vertical", NEW q \in Pixels, q[2] < line' \/ (q[2] = line' /\ q[1] < pos')
                 PROVE  temp[q] # Blurring!Unset
      OBVIOUS
    <3>1. at = "vertical" /\ line' = line + 1
      BY <1>2, <2>1
    <3>2. ~ q[1] < pos'
      BY <1>2, <1>4, <2>1
    <3> QED
      BY <2>5, <3>1, <3>2
  <2>8. pos' \in Nat /\ pos' <= Blurring!Lesser(Blurring!radius, Blurring!Length)'
    BY <2>1, <2>3
  <2> QED
    BY ONLY <1>1, <1>2, <1>3, <2>1, <2>2, <2>4, <2>6, <2>7, <2>8 DEF BlurInv
<1> QED
  BY <1>5, <1>6

\* A step of the blur
LEMMA BlurStep == BlurInv /\ [Blurring!Next]_Blurring!vars => BlurInv'
<1> SUFFICES ASSUME BlurInv, [Blurring!Next]_Blurring!vars PROVE BlurInv'
  OBVIOUS
<1>1. CASE UNCHANGED Blurring!vars
  <2>1. UNCHANGED <<width, height, input, temp, at, line, part, pos>>
    BY <1>1 DEF Blurring!vars
  <2>2. /\ Pixels' = Pixels /\ Blurring!Lines' = Blurring!Lines /\ Blurring!BottomBegin' = Blurring!BottomBegin
        /\ Blurring!Lesser(Blurring!radius, Blurring!Length)' = Blurring!Lesser(Blurring!radius, Blurring!Length)
        /\ Blurring!Unset' = Blurring!Unset /\ Blurring!radius' = Blurring!radius
    BY <2>1 DEF Pixels, Blurring!Lines, Blurring!BottomBegin, Blurring!Length, Blurring!Lesser, Blurring!Unset, Blurring!radius
  <2> QED
    BY ONLY BlurInv, <2>1, <2>2 DEF BlurInv
<1> QED
  BY <1>1, PixelStep, LoopStep DEF Blurring!Next, Blurring!Returned

---------------------------------------------------------------------------
(* The three labs with loops over arrays together *)

BoundsInv ==
  /\ lab = "sort" => SortInv
  /\ lab = "smooth" => SmoothInv
  /\ lab = "blur" => BlurInv

\* A behaviour is of one lab, which begins and goes on as that lab does.
LEMMA BoundsInit == MCInit => BoundsInv
  BY SortInit, SmoothInit, BlurInit DEF MCInit, FunctionInit, BoundsInv

\* A lab whose turn it is takes a step or stutters.
LEMMA LabStep ==
  ASSUME [MCNext]_<<lab, vars, ofFunctions>>
  PROVE  /\ lab' = lab
         /\ lab = "sort" => [Sort!Next]_Sort!vars
         /\ lab = "smooth" => [Smoothing!Next]_Smoothing!vars
         /\ lab = "blur" => [Blurring!Next]_Blurring!vars
<1>1. CASE UNCHANGED <<lab, vars, ofFunctions>>
  <2>1. UNCHANGED <<lab, at, i, input, arr, cnt, sorted, n, size, radius, limit, currentSum,
                    output, pos, width, height, temp, line, part>>
    BY <1>1 DEF ofFunctions, ofSort, ofSmooth, ofImages, ofBlur
  <2> QED
    BY <2>1 DEF Sort!vars, Smoothing!vars, Blurring!vars
<1>2. CASE MCNext
  <2>1. lab' = lab
    BY <1>2 DEF MCNext
  <2>2. lab = "sort" => Sort!Next
    BY <1>2 DEF MCNext, FunctionNext
  <2>3. lab = "smooth" => Smoothing!Next
    BY <1>2 DEF MCNext, FunctionNext
  <2>4. lab = "blur" => Blurring!Next
    BY <1>2 DEF MCNext, FunctionNext
  <2> QED
    BY <2>1, <2>2, <2>3, <2>4
<1> QED
  BY <1>1, <1>2

\* And keeps its invariant.
LEMMA BoundsStep == BoundsInv /\ [MCNext]_<<lab, vars, ofFunctions>> => BoundsInv'
<1> SUFFICES ASSUME BoundsInv, [MCNext]_<<lab, vars, ofFunctions>> PROVE BoundsInv'
  OBVIOUS
<1>1. lab = "sort" => SortInv'
  BY LabStep, SortStep DEF BoundsInv
<1>2. lab = "smooth" => SmoothInv'
  BY LabStep, SmoothStep DEF BoundsInv
<1>3. lab = "blur" => BlurInv'
  BY LabStep, BlurStep DEF BoundsInv
<1> QED
  BY <1>1, <1>2, <1>3, LabStep DEF BoundsInv

\* Whatever their input, the sort, the smoothing and the blur access nothing outside
\* of their arrays, and read nothing that was not written: keys of every range,
\* every radius, and pictures of every size, those smaller than the kernel too.
THEOREM EveryAccessInBounds == MCSpec => []ReadsInBounds
<1>1. BoundsInv => ReadsInBounds
  BY SortBounds, SmoothBounds, BlurBounds DEF BoundsInv, ReadsInBounds
<1> QED
  BY <1>1, BoundsInit, BoundsStep, PTL DEF MCSpec

============================================================================
