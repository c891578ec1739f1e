-------------------------------- MODULE Blur --------------------------------
(***************************************************************************)
(* labs/memory_bound/loop_interchange_2: the Gaussian blur of an image, a  *)
(* vertical pass into temp and a horizontal pass into output.  The passes  *)
(* are one algorithm with rows and columns exchanged: a line has a part at *)
(* either end where the kernel does not fit, and a middle where it does.   *)
(***************************************************************************)
EXTENDS LabParameters, FiniteSetsExt, Functions

radius == 2
kernel == <<1, 4, 6, 4, 1>>     \* from 1, the code's from 0
rounding == 8                   \* 1 << (shift - 1)
whole  == 16                    \* 1 << shift, sum(kernel)
Weight(i) == kernel[i + 1]

Lesser(m, n)  == IF m < n THEN m ELSE n
Greater(m, n) == IF m < n THEN n ELSE m

\* The pixels of a picture of w by h, by row and column.
Pixels(w, h) == (0..h - 1) \X (0..w - 1)

\* What the buffers temp and output hold before they are written.
Unset == -1

VARIABLES
  width, height, input, temp, output,
  pc,               \* the pass: "vertical", "horizontal" or "returned"
  line, part, pos   \* the outer loop, which inner loop, and its position

vars == <<width, height, input, temp, output, pc, line, part, pos>>

Lines  == IF pc = "vertical" THEN width ELSE height
Length == IF pc = "vertical" THEN height ELSE width

TypeOK ==
  /\ width \in Nat \ {0} /\ height \in Nat \ {0}
  /\ input \in [Pixels(width, height) -> 0..255]
  /\ {temp, output} \subseteq [Pixels(width, height) -> 0..255 \cup {Unset}]
  /\ pc \in {"vertical", "horizontal", "returned"}
  /\ part \in {"top", "middle", "bottom"}
  /\ line \in 0..Lines - 1 /\ pos \in 0..Greater(Length, radius)

Init ==
  /\ \E p \in Pictures : width = p[1] /\ height = p[2] /\ input = p[3]
  /\ temp = [p \in Pixels(width, height) |-> Unset]
  /\ output = temp
  /\ pc = "vertical"
  /\ line = 0 /\ part = "top" /\ pos = 0

-----------------------------------------------------------------------------

\* The place of position p in the line, and what the pass reads there.
At(p)    == IF pc = "vertical" THEN <<p, line>> ELSE <<line, p>>
Value(p) == IF pc = "vertical" THEN input[At(p)] ELSE temp[At(p)]

\* Mutant: the last part begins where the kernel leaves a line that is long
\* enough for it, however short the line is.
LongLine == Length - radius

BottomBegin == Greater(radius, Length - radius)

Begin == [top |-> 0, middle |-> radius, bottom |-> BottomBegin]
End   == [top |-> Lesser(radius, Length), middle |-> Length - radius,
          bottom |-> Length]

\* The positions that are read for pos, and the kernel's index for the first.
First == [top |-> 0, middle |-> pos - radius, bottom |-> pos - radius]
Last  == [top |-> Lesser(pos + radius, Length - 1), middle |-> pos + radius,
          bottom |-> Length - 1]
KernelFrom == [top |-> radius - pos, middle |-> 0, bottom |-> 0]

Read == First[part]..Last[part]
WeightOf(p) == Weight(KernelFrom[part] + p - First[part])

Dot == SumFunctionOnSet([p \in Read |-> Value(p) * WeightOf(p)], Read)
Sum == SumFunctionOnSet([p \in Read |-> WeightOf(p)], Read)

\* dot / static_cast<float>(sum) + 0.5f, truncated: the floats are exact enough,
\* since a quotient is half an integer exactly or off by 1 / (2 * sum) or more.
Rounded(dot, sum) == (2 * dot + sum) \div (2 * sum)

\* Mutant: the partial kernels are normalised like the whole one.
Shifted(dot, sum) == (dot + rounding) \div whole

Normalized(dot, sum) == Rounded(dot, sum)

NewValue ==
  IF part = "middle" THEN (Dot + rounding) \div whole
  ELSE Normalized(Dot, Sum)

Pixel ==
  /\ pc # "returned"
  /\ pos < End[part]
  /\ IF pc = "vertical"
     THEN /\ temp' = [temp EXCEPT ![At(pos)] = NewValue % 256]
          /\ UNCHANGED output
     ELSE /\ output' = [output EXCEPT ![At(pos)] = NewValue % 256]
          /\ UNCHANGED temp
  /\ pos' = pos + 1
  /\ UNCHANGED <<width, height, input, pc, line, part>>

\* An inner loop ends: the next one of the line, the next line or the next pass.
EndOfLoop ==
  /\ pc # "returned"
  /\ pos >= End[part]
  /\ \/ /\ part # "bottom"
        /\ part' = IF part = "top" THEN "middle" ELSE "bottom"
        /\ pos' = Begin[part']
        /\ UNCHANGED <<pc, line>>
     \/ /\ part = "bottom"
        /\ part' = "top" /\ pos' = 0
        /\ IF line < Lines - 1
           THEN line' = line + 1 /\ UNCHANGED pc
           ELSE /\ line' = 0
                /\ pc' = IF pc = "vertical" THEN "horizontal" ELSE "returned"
  /\ UNCHANGED <<width, height, input, temp, output>>

Returned == pc = "returned" /\ UNCHANGED vars

Next == Pixel \/ EndOfLoop \/ Returned

Spec == Init /\ [][Next]_vars

-----------------------------------------------------------------------------
(* Properties *)

\* Every read is of a pixel of the line and of a weight of the kernel, and the
\* second pass reads nothing that the first has not written.
ReadsInBounds ==
  pc # "returned" /\ pos < End[part] =>
    /\ pos >= 0
    /\ Read \subseteq 0..Length - 1
    /\ \A p \in Read : KernelFrom[part] + p - First[part] \in 0..2 * radius
    /\ \A p \in Read : Value(p) # Unset

\* A weighted mean over the positions around p that a line of n has.
Mean(value(_), n, p) ==
  LET near == {q \in 0..n - 1 : p - radius <= q /\ q <= p + radius}
      w(q) == Weight(q - p + radius)
  IN  Rounded(MapThenSumSet(LAMBDA q : value(q) * w(q), near),
              MapThenSumSet(w, near))

\* When it returns, every pixel is the mean of means, at the borders and in
\* pictures smaller than the kernel too.
MeanOfMeans ==
  pc = "returned" =>
    \A p \in Pixels(width, height) :
      /\ temp[p] = Mean(LAMBDA r : input[<<r, p[2]>>], height, p[1])
      /\ output[p] = Mean(LAMBDA c : temp[<<p[1], c>>], width, p[2])
=============================================================================
