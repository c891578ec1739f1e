--------------------------- MODULE LabParameters ---------------------------
(* The sizes of the labs that are a function of their input, and the inputs   *)
(* under study.  One module, so that one instance can give all their values.  *)
EXTENDS Integers, Sequences

CONSTANTS
  Rows, Columns,         \* of a grid of the game of life
  Sims,                  \* NumberOfSims
  Starts                 \* sequences of starting grids

ASSUME GridAssumption == Rows \in Nat \ {0} /\ Columns \in Nat \ {0}
ASSUME SimsAssumption == Sims \in Nat
ASSUME StartsAssumption ==
  Starts \subseteq Seq([(0..Rows - 1) \X (0..Columns - 1) -> {0, 1}])

CONSTANTS
  Order,                 \* rows and columns of the matrix that is raised
  Mod,                   \* its entries are numbers modulo Mod
  MaxPower               \* bound on the exponent

ASSUME PowerAssumption == Order \in Nat /\ Mod \in Nat \ {0} /\ MaxPower \in Nat

CONSTANTS
  Elements,              \* elements of the array that is sorted
  minRandom, maxRandom   \* their keys go up to maxRandom - 1

ASSUME KeyAssumption == /\ Elements \in Nat
                        /\ minRandom \in Int /\ maxRandom \in Int
                        /\ minRandom < maxRandom

CONSTANTS
  MaxSize,               \* bound on the size of the image that is smoothed
  MaxRadius,             \* bound on the radius
  MaxValue,              \* the largest input value, 255 in the program
  Wrap                   \* the values of an output element, 2^16 in the program

ASSUME ImageAssumption == MaxSize \in Nat /\ MaxRadius \in Nat /\ MaxValue \in Nat

\* solution.h: "assume diameter (2 * radius + 1) to be less than 256 so results
\* fits in uint16_t"
ASSUME WidthAssumption == Wrap \in Nat /\ (2 * MaxRadius + 1) * MaxValue < Wrap

CONSTANTS
  SequenceSize,          \* sequence_size_v
  Symbols,               \* the alphabet of the sequences that are aligned
  Pictures               \* width, height and pixels of those that are blurred

\* Two gaps over everything have a score of 16 bits.
ASSUME SequenceAssumption ==
  SequenceSize \in Nat \ {0} /\ 2 * (10 + SequenceSize) + 11 <= 32768

ASSUME PicturesAssumption ==
  \A p \in Pictures :
    /\ p = <<p[1], p[2], p[3]>>
    /\ p[1] \in Nat \ {0} /\ p[2] \in Nat \ {0}
    /\ p[3] \in [(0..p[2] - 1) \X (0..p[1] - 1) -> 0..255]
=============================================================================
