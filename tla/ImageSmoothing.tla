--------------------------- MODULE ImageSmoothing ---------------------------
(***************************************************************************)
(* labs/core_bound/compiler_intrinsics_1: the sums of a sliding window, in *)
(* five loops: one that fills the window and four over the positions, of   *)
(* which some are empty if the input is small for the radius.              *)
(***************************************************************************)
EXTENDS LabParameters, FiniteSetsExt

VARIABLES
  size, radius, input,   \* the input has positions 0 to size - 1
  output,                \* its elements, of which zero() has made as many
  i, pos, limit,         \* loop variables and the end of the loop
  currentSum,
  pc

vars == <<size, radius, input, output, i, pos, limit, currentSum, pc>>

Positions == 0..size - 1
Lesser(m, n) == IF m < n THEN m ELSE n

Loops == {"fill", "left", "main", "narrow", "right"}

\* The types of everything but the sums.
IndexTypeOK ==
  /\ size \in 0..MaxSize /\ radius \in 0..MaxRadius
  /\ input \in [Positions -> 0..MaxValue]
  /\ i \in Nat /\ pos \in 0..size /\ limit \in Int
  /\ pc \in Loops \cup {"returned"}

TypeOK ==
  /\ IndexTypeOK
  /\ output \in [Positions -> 0..Wrap - 1]
  /\ currentSum \in Nat

Init ==
  /\ size \in 0..MaxSize /\ radius \in 0..MaxRadius
  /\ input \in [Positions -> 0..MaxValue]
  /\ output = [p \in Positions |-> 0]
  /\ i = 0 /\ pos = 0
  /\ limit = Lesser(size, radius)
  /\ currentSum = 0
  /\ pc = "fill"

-----------------------------------------------------------------------------

\* The first loop, over i.
Fill ==
  /\ pc = "fill" /\ i < limit
  /\ currentSum' = currentSum + input[i]
  /\ i' = i + 1
  /\ UNCHANGED <<size, radius, input, output, pos, limit, pc>>

\* Mutant: a value leaves the window one position late.
LateLeave == pos - radius

LeftEnd == Lesser(radius + 1, size - radius)
Leaving == pos - radius - 1
Entering == pos + radius

\* A loop over pos that ends at limit: the window moves and its sum is stored.
Store(sum) ==
  /\ pos < limit
  /\ currentSum' = sum
  /\ output' = [output EXCEPT ![pos] = sum % Wrap]
  /\ pos' = pos + 1
  /\ UNCHANGED <<size, radius, input, i, limit, pc>>

Left   == pc = "left"   /\ Store(currentSum + input[Entering])
Main   == pc = "main"   /\ Store(currentSum - input[Leaving] + input[Entering])
Narrow == pc = "narrow" /\ Store(currentSum)
Right  == pc = "right"  /\ Store(currentSum - input[Leaving])

\* A loop is over and the next one gets its limit; pos goes on where it is.
Leave(loop, next, end) ==
  /\ pc = loop
  /\ IF loop = "fill" THEN i >= limit ELSE pos >= limit
  /\ pc' = next
  /\ limit' = end
  /\ UNCHANGED <<size, radius, input, output, i, pos, currentSum>>

NextLoop ==
  \/ Leave("fill", "left", LeftEnd)
  \/ Leave("left", "main", size - radius)
  \/ Leave("main", "narrow", Lesser(radius + 1, size))
  \/ Leave("narrow", "right", size)
  \/ Leave("right", "returned", size)

Returned == pc = "returned" /\ UNCHANGED vars

Next == Fill \/ Left \/ Main \/ Narrow \/ Right \/ NextLoop \/ Returned

Spec == Init /\ [][Next]_vars

-----------------------------------------------------------------------------
(* Properties *)

\* No loop reads in front of the input or behind it, however small the input is
\* for the radius.
ReadsInBounds ==
  /\ pc = "fill" /\ i < limit => i \in Positions
  /\ pc \in {"left", "main"} /\ pos < limit => Entering \in Positions
  /\ pc \in {"main", "right"} /\ pos < limit => Leaving \in Positions
  /\ pc \in Loops \ {"fill"} /\ pos < limit => pos \in Positions

\* What is left of the window at the borders.
Window(p) == {q \in Positions : p - radius <= q /\ q <= p + radius}

\* Every position that was passed holds the sum of its window, and in the end all
\* were passed.
WindowSums ==
  /\ \A p \in Positions :
       p < pos => output[p] = MapThenSumSet(LAMBDA q : input[q], Window(p))
  /\ pc = "returned" => pos = size
=============================================================================
