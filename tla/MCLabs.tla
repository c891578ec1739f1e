------------------------------ MODULE MCLabs ------------------------------
(***************************************************************************)
(* The labs that are a function of their input, one at a time: every       *)
(* behaviour is of one of them, and the variables of the others are idle.  *)
(* Those of the arenas, whose module this one extends, idle at types that  *)
(* its properties can be evaluated on.                                     *)
(***************************************************************************)
EXTENDS LabParameters, ArenaList

VARIABLES lab,
  at, i, input,                                            \* of several labs
  grids, game, current, future, sim, j, popCounts,         \* Life
  bits, mem, productCurrent, productNext,                     \* MatrixPower
  elementCurrent, elementNext,
  arr, cnt, sorted, n,                                     \* CountingSort
  size, radius, output, pos, limit, currentSum,            \* ImageSmoothing
  sequence1, sequence2, score_column, horizontal_gap_column,
  last_vertical_gap, last_diagonal_score, col, row, matrix,  \* Alignment
  width, height, temp, line, part                 \* Blur, with output and pos

ofLife   == <<grids, game, current, future, sim, j, popCounts>>
ofPower  == <<bits, mem, productCurrent, productNext, elementCurrent, elementNext>>
ofSort   == <<arr, cnt, sorted, n>>
ofSmooth == <<size, radius, limit, currentSum>>
ofImages == <<output, pos>>
ofAlign  == <<sequence1, sequence2, score_column, horizontal_gap_column,
              last_vertical_gap, last_diagonal_score, col, row, matrix>>
ofBlur   == <<width, height, temp, line, part>>
ofFunctions == <<at, i, input, ofLife, ofPower, ofSort, ofSmooth, ofImages,
                 ofAlign, ofBlur>>

GameOfLife == INSTANCE Life WITH pc <- at
Power      == INSTANCE MatrixPower WITH pc <- at, k <- bits
Sort       == INSTANCE CountingSort WITH pc <- at
Smoothing  == INSTANCE ImageSmoothing WITH pc <- at
Aligning   == INSTANCE Alignment WITH pc <- at
Blurring   == INSTANCE Blur WITH pc <- at

Idle == "idle"

NoLife == /\ grids = Idle /\ game = Idle /\ current = Idle /\ future = Idle
          /\ sim = Idle /\ j = Idle /\ popCounts = Idle
NoPower == /\ bits = Idle /\ mem = Idle /\ productCurrent = Idle
           /\ productNext = Idle /\ elementCurrent = Idle /\ elementNext = Idle
NoSort == arr = Idle /\ cnt = Idle /\ sorted = Idle /\ n = Idle
NoSmooth == size = Idle /\ radius = Idle /\ limit = Idle /\ currentSum = Idle
NoImage == output = Idle /\ pos = Idle
NoAlign == /\ sequence1 = Idle /\ sequence2 = Idle /\ score_column = Idle
           /\ horizontal_gap_column = Idle /\ last_vertical_gap = Idle
           /\ last_diagonal_score = Idle /\ col = Idle /\ row = Idle
           /\ matrix = Idle
NoBlur == /\ width = Idle /\ height = Idle /\ temp = Idle /\ line = Idle
          /\ part = Idle

\* Arenas for vectors of one or two values; those of three do not fit.
MCValues == {0, 7, 12, 40}

NoArena ==
  /\ randoms = [x \in Lists |-> <<>>] /\ pc = "head" /\ k = 1
  /\ node = [x \in Lists |-> [c \in Cells |-> Uninit]]
  /\ cur = [x \in Lists |-> 0] /\ head = [x \in Lists |-> Null]
  /\ last = Null /\ taken = 0 /\ l1 = Null /\ l2 = Null /\ retVal = 0

FunctionInit ==
  \/ /\ lab = "life" /\ GameOfLife!Init /\ input = Idle
     /\ NoPower /\ NoSort /\ NoSmooth /\ NoImage /\ NoAlign /\ NoBlur
  \/ /\ lab = "power" /\ Power!Init
     /\ NoLife /\ NoSort /\ NoSmooth /\ NoImage /\ NoAlign /\ NoBlur
  \/ /\ lab = "sort" /\ Sort!Init /\ i = Idle
     /\ NoLife /\ NoPower /\ NoSmooth /\ NoImage /\ NoAlign /\ NoBlur
  \/ /\ lab = "smooth" /\ Smoothing!Init
     /\ NoLife /\ NoPower /\ NoSort /\ NoAlign /\ NoBlur
  \/ /\ lab = "align" /\ Aligning!Init /\ i = Idle /\ input = Idle
     /\ NoLife /\ NoPower /\ NoSort /\ NoSmooth /\ NoImage /\ NoBlur
  \/ /\ lab = "blur" /\ Blurring!Init /\ i = Idle
     /\ NoLife /\ NoPower /\ NoSort /\ NoSmooth /\ NoAlign

FunctionNext ==
     \/ /\ lab = "life" /\ GameOfLife!Next /\ UNCHANGED input
        /\ UNCHANGED <<ofPower, ofSort, ofSmooth, ofImages, ofAlign, ofBlur>>
     \/ /\ lab = "power" /\ Power!Next
        /\ UNCHANGED <<ofLife, ofSort, ofSmooth, ofImages, ofAlign, ofBlur>>
     \/ /\ lab = "sort" /\ Sort!Next /\ UNCHANGED i
        /\ UNCHANGED <<ofLife, ofPower, ofSmooth, ofImages, ofAlign, ofBlur>>
     \/ /\ lab = "smooth" /\ Smoothing!Next
        /\ UNCHANGED <<ofLife, ofPower, ofSort, ofAlign, ofBlur>>
     \/ /\ lab = "align" /\ Aligning!Next /\ UNCHANGED <<i, input>>
        /\ UNCHANGED <<ofLife, ofPower, ofSort, ofSmooth, ofImages, ofBlur>>
     \/ /\ lab = "blur" /\ Blurring!Next /\ UNCHANGED i
        /\ UNCHANGED <<ofLife, ofPower, ofSort, ofSmooth, ofAlign>>

NoFunction ==
  /\ at = Idle /\ i = Idle /\ input = Idle
  /\ NoLife /\ NoPower /\ NoSort /\ NoSmooth /\ NoImage /\ NoAlign /\ NoBlur

MCInit ==
  \/ FunctionInit /\ NoArena
  \/ lab = "arena" /\ Init /\ NoFunction

MCNext ==
  /\ UNCHANGED lab
  /\ \/ FunctionNext /\ UNCHANGED vars
     \/ lab = "arena" /\ Next /\ UNCHANGED ofFunctions

MCSpec == MCInit /\ [][MCNext]_<<lab, vars, ofFunctions>>

\* Grids of three rows and four columns with few live cells or few dead ones, and
\* two games one after the other.
Squares == (0..Rows - 1) \X (0..Columns - 1)
Grid(live) == [p \in Squares |-> IF p \in live THEN 1 ELSE 0]
Few == {{p, q, r} : p, q, r \in Squares}
MCStarts == {<<Grid(S)>> : S \in Few \cup {{}}}
       \cup {<<Grid(Squares \ {p, q})>> : p, q \in Squares}
       \cup {<<Grid(S), Grid(T)>> :
               S, T \in {{}, Squares, {<<1, 0>>, <<1, 1>>, <<1, 2>>}}}

\* Pictures with fewer pixels than the kernel has weights in either direction, and
\* lines of one, two and more pixels, up to those that have a middle.
Painted(w, h, values) ==
  {<<w, h, p>> : p \in [(0..h - 1) \X (0..w - 1) -> values]}
MCPictures ==
  UNION {Painted(s[1], s[2], {0, 7, 255}) :
           s \in {<<1, 1>>, <<1, 2>>, <<2, 1>>, <<2, 2>>, <<1, 3>>, <<1, 5>>, <<5, 1>>}}
  \cup UNION {Painted(s[1], s[2], {0, 255}) : s \in {<<2, 3>>, <<3, 2>>, <<1, 7>>, <<7, 1>>}}

-----------------------------------------------------------------------------
(* Properties *)

\* CountingSort, ImageSmoothing, Blur: no loop accesses anything outside of its
\* arrays, or reads what was not written.
ReadsInBounds ==
  /\ lab = "sort" => Sort!InBounds
  /\ lab = "smooth" => Smoothing!ReadsInBounds
  /\ lab = "blur" => Blurring!ReadsInBounds

\* What the loops keep of their work, in running sums, columns, counters and
\* powers, is at every step what its definition says: the generation a cell comes
\* from and its population, a power still to multiply, a window's sum, a column of
\* the score matrix, the mean of means of a pixel, the elements in the order of
\* their keys, lists that are whole or not there, and their intersection.
AgreesWithDefinition ==
  /\ lab = "life" => GameOfLife!FutureFromCurrent /\ GameOfLife!CountsAreRight
  /\ lab = "power" => Power!PowerSoFar
  /\ lab = "sort" => Sort!SortedPermutation
  /\ lab = "smooth" => Smoothing!WindowSums
  /\ lab = "align" => Aligning!ColumnsOfTheMatrix
  /\ lab = "blur" => Blurring!MeanOfMeans
  /\ lab = "arena" => AllOrNothing /\ LookupIsIntersection
=============================================================================
