----------------------------- MODULE Alignment -----------------------------
(***************************************************************************)
(* labs/core_bound/vectorization_1: the score of the best global alignment *)
(* of two sequences, computed in one column that is overwritten in place.  *)
(* One pair of sequences: the variables are local to the loop over pairs.  *)
(***************************************************************************)
EXTENDS LabParameters, FiniteSetsExt

\* The scores of the program.
gap_open      == -11
gap_extension == -1
match         == 6
mismatch      == -4

\* A result that is stored in a score_t.
Score(n) == ((n + 32768) % 65536) - 32768
Scores   == -32768..32767

Positions == 1..SequenceSize
Rows0     == 0..SequenceSize
Sequences == [Positions -> Symbols]

VARIABLES
  sequence1, sequence2,
  score_column, horizontal_gap_column,
  last_vertical_gap, last_diagonal_score,
  col, row,
  pc,
  matrix     \* history: the columns that were completed, by their number

vars == <<sequence1, sequence2, score_column, horizontal_gap_column,
          last_vertical_gap, last_diagonal_score, col, row, pc, matrix>>

TypeOK ==
  /\ sequence1 \in Sequences /\ sequence2 \in Sequences
  /\ {score_column, horizontal_gap_column} \subseteq [Rows0 -> Scores]
  /\ {last_vertical_gap, last_diagonal_score} \subseteq Scores
  /\ col \in 1..SequenceSize + 1 /\ row \in 1..SequenceSize + 1
  /\ pc \in {"first", "column", "cell", "returned"}
  /\ matrix \in [0..col - 1 -> [Rows0 -> Scores]] \cup {<<>>}

Init ==
  /\ sequence1 \in Sequences /\ sequence2 \in Sequences
  /\ score_column = [r \in Rows0 |-> 0]
  /\ horizontal_gap_column = [r \in Rows0 |-> IF r = 0 THEN gap_open ELSE 0]
  /\ last_vertical_gap = gap_open
  /\ last_diagonal_score = 0
  /\ col = 1 /\ row = 1
  /\ pc = "first"
  /\ matrix = <<>>

-----------------------------------------------------------------------------

\* The columns that are complete when this one, of number c, is.
Complete(c) == matrix' = [d \in 0..c |-> IF d = c THEN score_column ELSE matrix[d]]

\* The first column: its gaps lead from the corner downwards.
FirstColumn ==
  /\ pc = "first"
  /\ IF row <= SequenceSize
     THEN /\ score_column' = [score_column EXCEPT ![row] = last_vertical_gap]
          /\ horizontal_gap_column' =
               [horizontal_gap_column EXCEPT ![row] =
                  Score(last_vertical_gap + gap_open)]
          /\ last_vertical_gap' = Score(last_vertical_gap + gap_extension)
          /\ row' = row + 1
          /\ UNCHANGED <<pc, matrix>>
     ELSE /\ pc' = "column"
          /\ Complete(0)
          /\ UNCHANGED <<score_column, horizontal_gap_column,
                         last_vertical_gap, row>>
  /\ UNCHANGED <<sequence1, sequence2, last_diagonal_score, col>>

\* The head of the loop over the columns.
Column ==
  /\ pc = "column"
  /\ IF col <= SequenceSize
     THEN /\ last_diagonal_score' = score_column[0]
          /\ score_column' = [score_column EXCEPT ![0] = horizontal_gap_column[0]]
          /\ last_vertical_gap' = Score(horizontal_gap_column[0] + gap_open)
          /\ horizontal_gap_column' =
               [horizontal_gap_column EXCEPT ![0] = Score(@ + gap_extension)]
          /\ row' = 1
          /\ pc' = "cell"
     ELSE /\ pc' = "returned"
          /\ UNCHANGED <<score_column, horizontal_gap_column, last_vertical_gap,
                         last_diagonal_score, row>>
  /\ UNCHANGED <<sequence1, sequence2, col, matrix>>

\* The score of a cell: from the diagonal or at the end of a gap.
Substitution(r, c) == IF sequence1[r] = sequence2[c] THEN match ELSE mismatch

BestCellScore ==
  Max({Score(last_diagonal_score + Substitution(row, col)),
       last_vertical_gap, horizontal_gap_column[row]})

\* A gap that goes on, or one that begins behind this cell.
NextGap(gap, best) ==
  Max({Score(gap + gap_extension), Score(best + gap_open)})

\* Mutant: the cell is cached after it was overwritten.
Overwritten(best) == best

CachedDiagonal(best) == score_column[row]

Cell ==
  /\ pc = "cell"
  /\ IF row <= SequenceSize
     THEN LET best == BestCellScore IN
          /\ last_diagonal_score' = CachedDiagonal(best)
          /\ score_column' = [score_column EXCEPT ![row] = best]
          /\ last_vertical_gap' = NextGap(last_vertical_gap, best)
          /\ horizontal_gap_column' =
               [horizontal_gap_column EXCEPT ![row] = NextGap(@, best)]
          /\ row' = row + 1
          /\ UNCHANGED <<col, pc, matrix>>
     ELSE /\ col' = col + 1
          /\ pc' = "column"
          /\ Complete(col)
          /\ UNCHANGED <<score_column, horizontal_gap_column, last_vertical_gap,
                         last_diagonal_score, row>>
  /\ UNCHANGED <<sequence1, sequence2>>

Returned == pc = "returned" /\ UNCHANGED vars

Next == FirstColumn \/ Column \/ Cell \/ Returned

Spec == Init /\ [][Next]_vars

-----------------------------------------------------------------------------
(* Properties *)

\* The score of a gap by its length: opening it pays for the first position.
Gap(n) == gap_open + (n - 1) * gap_extension

\* The best alignment of the first r and the first c symbols ends with two symbols
\* or with a gap of some length in one of the sequences.
BestEnding(r, c) ==
  IF r = 0 /\ c = 0 THEN 0
  ELSE Max((IF r > 0 /\ c > 0 THEN {matrix[c - 1][r - 1] + Substitution(r, c)}
                               ELSE {})
           \cup {matrix[c][r - n] + Gap(n) : n \in 1..r}
           \cup {matrix[c - n][r] + Gap(n) : n \in 1..c})

\* Whenever the one column in memory is complete, it is that column of the score
\* matrix as it is defined, without any record of where gaps began and without
\* a score that did not fit.
ColumnsOfTheMatrix ==
  pc = "column" => \A r \in Rows0 : score_column[r] = BestEnding(r, col - 1)
=============================================================================
