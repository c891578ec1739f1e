-------------------------------- MODULE Life --------------------------------
(***************************************************************************)
(* labs/bad_speculation/branches_to_cmov_1: games of life, one after the   *)
(* other, on two grids that change places after every generation.          *)
(***************************************************************************)
EXTENDS LabParameters, FiniteSets, FiniteSetsExt

M == Rows
N == Columns

Cells == (0..M - 1) \X (0..N - 1)
Grids == [Cells -> {0, 1}]

VARIABLES
  grids,            \* the argument of solution
  game,             \* the grid that is being played, from 1
  current, future,  \* the grids of class Life, before the first reset empty
  pc,
  sim,              \* generations of this game so far
  i, j,             \* the cell simulateNext is at
  popCounts

vars == <<grids, game, current, future, pc, sim, i, j, popCounts>>

Labels == {"reset", "cells", "swap", "count", "returned"}

\* The types of everything but the counts.
GridTypeOK ==
  /\ grids \in Starts
  /\ game \in 1..Len(grids) + 1
  /\ pc \in Labels
  /\ pc \in {"cells", "swap", "count"} =>
       current \in Grids /\ future \in Grids /\ game <= Len(grids)
  /\ sim \in 0..Sims
  /\ i \in 0..M - 1 /\ j \in 0..N - 1

TypeOK == GridTypeOK /\ popCounts \in Seq(0..M * N)

Init ==
  /\ grids \in Starts
  /\ game = 1
  /\ current = <<>> /\ future = <<>>
  /\ pc = "reset"
  /\ sim = 0
  /\ i = 0 /\ j = 0
  /\ popCounts = <<>>

-----------------------------------------------------------------------------

\* The loop of solution over the generations, of which some are done.
Continue(done) == pc' = IF done < Sims THEN "cells" ELSE "count"

\* life.reset(grid), or the end of the loop over the grids.
Reset ==
  /\ pc = "reset"
  /\ IF game <= Len(grids)
     THEN /\ current' = grids[game]
          /\ future' = grids[game]
          /\ Continue(0)
     ELSE /\ pc' = "returned"
          /\ UNCHANGED <<current, future>>
  /\ sim' = 0
  /\ UNCHANGED <<grids, game, i, j, popCounts>>

\* The cells from a cell's upper left to its lower right neighbour that lie in
\* the grid, the cell among them, and their sum without the cell.
Around(r, c) == {p \in (r - 1..r + 1) \X (c - 1..c + 1) : p \in Cells}

AliveNeighbours(grid, r, c) ==
  MapThenSumSet(LAMBDA p : grid[p], Around(r, c)) - grid[<<r, c>>]

\* Mutant: a cell with two neighbours is born as well.
FateOfTwo(grid, r, c) ==
  IF AliveNeighbours(grid, r, c) \in {2, 3} THEN 1 ELSE 0

\* The switch over the number of neighbours.
Fate(grid, r, c) ==
  IF AliveNeighbours(grid, r, c) = 2 THEN grid[<<r, c>>]
  ELSE IF AliveNeighbours(grid, r, c) = 3 THEN 1 ELSE 0

\* Mutants: the row ends one cell late; there is only one grid.
PastEndOfRow == j = N
InPlace(v) ==
  /\ current' = [current EXCEPT ![<<i, j>>] = v]
  /\ UNCHANGED future

EndOfRow == j = N - 1
Store(v) ==
  /\ future' = [future EXCEPT ![<<i, j>>] = v]
  /\ UNCHANGED current

\* One cell of simulateNext.
UpdateCell ==
  /\ pc = "cells"
  /\ Store(Fate(current, i, j))
  /\ IF ~EndOfRow
     THEN j' = j + 1 /\ UNCHANGED <<i, pc>>
     ELSE IF i < M - 1
     THEN i' = i + 1 /\ j' = 0 /\ UNCHANGED pc
     ELSE i' = 0 /\ j' = 0 /\ pc' = "swap"
  /\ UNCHANGED <<grids, game, sim, popCounts>>

\* The end of simulateNext.
Swap ==
  /\ pc = "swap"
  /\ current' = future
  /\ future' = current
  /\ sim' = sim + 1
  /\ Continue(sim + 1)
  /\ UNCHANGED <<grids, game, i, j, popCounts>>

\* getPopulationCount
Count ==
  /\ pc = "count"
  /\ popCounts' = Append(popCounts, MapThenSumSet(LAMBDA p : current[p], Cells))
  /\ game' = game + 1
  /\ pc' = "reset"
  /\ UNCHANGED <<grids, current, future, sim, i, j>>

Returned == pc = "returned" /\ UNCHANGED vars

Next == Reset \/ UpdateCell \/ Swap \/ Count \/ Returned

Spec == Init /\ [][Next]_vars

-----------------------------------------------------------------------------
(* Properties *)

\* The cells of the next generation that simulateNext has written.
Done == IF pc = "swap" THEN Cells
        ELSE {p \in Cells : p[1] < i \/ (p[1] = i /\ p[2] < j)}

\* Every cell of a generation comes from the whole generation before: while a
\* generation is being written, the part that is done agrees with the rules
\* applied to the grid as it was, and is never read.
FutureFromCurrent ==
  pc \in {"cells", "swap"} =>
    \A p \in Done : future[p] = Fate(current, p[1], p[2])

\* The game by its definition: the live cells after n generations.
Neighbours(p) == {q \in Cells \ {p} : /\ q[1] - p[1] \in -1..1
                                      /\ q[2] - p[2] \in -1..1}

Survivors(live) ==
  {p \in Cells : LET n == Cardinality(Neighbours(p) \cap live)
                 IN  n = 3 \/ (n = 2 /\ p \in live)}

Live(grid, sims) ==
  LET after[n \in 0..sims] ==
        IF n = 0 THEN {p \in Cells : grid[p] = 1} ELSE Survivors(after[n - 1])
  IN  after[sims]

\* The population counts are those of the definition, game by game.
CountsAreRight ==
  /\ \A n \in DOMAIN popCounts : popCounts[n] = Cardinality(Live(grids[n], Sims))
  /\ pc = "returned" => Len(popCounts) = Len(grids)
=============================================================================
