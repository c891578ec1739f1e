---------------------------- MODULE MatrixPower ----------------------------
(***************************************************************************)
(* labs/memory_bound/loop_interchange_1: the power of a square matrix by   *)
(* repeated squaring, with two pairs of buffers of which one is written    *)
(* while the other is read.  Entries are taken modulo Mod; the program's   *)
(* are floats, whose rounding is not modelled.                             *)
(***************************************************************************)
EXTENDS LabParameters, FiniteSetsExt

N == Order

Indices  == 0..N - 1
Matrices == [Indices \X Indices -> 0..Mod - 1]

Buffers == 1..4

VARIABLES
  input, k,
  i,                  \* the bits of k that are left
  mem,                \* what the four allocated matrices hold
  productCurrent, productNext, elementCurrent, elementNext,   \* the pointers
  pc

vars == <<input, k, i, mem, productCurrent, productNext,
          elementCurrent, elementNext, pc>>

Pointers == <<productCurrent, productNext, elementCurrent, elementNext>>

TypeOK ==
  /\ input \in Matrices
  /\ k \in 0..MaxPower /\ i \in 0..k
  /\ mem \in [Buffers -> Matrices]
  /\ {Pointers[n] : n \in 1..4} = Buffers
  /\ pc \in {"loop", "square", "returned"}

Zero     == [p \in Indices \X Indices |-> 0]
Identity == [p \in Indices \X Indices |-> IF p[1] = p[2] THEN 1 ELSE 0]

Product(a, b) ==
  [p \in Indices \X Indices |->
     MapThenSumSet(LAMBDA q : a[<<p[1], q>>] * b[<<q, p[2]>>], Indices) % Mod]

Init ==
  /\ input \in Matrices /\ k \in 0..MaxPower
  /\ i = k
  /\ mem = [b \in Buffers |-> IF b = 1 THEN Identity
                              ELSE IF b = 3 THEN input ELSE Zero]
  /\ productCurrent = 1 /\ productNext = 2
  /\ elementCurrent = 3 /\ elementNext = 4
  /\ pc = "loop"

-----------------------------------------------------------------------------

\* multiply(result, a, b): the result is zeroed first, which is felt if it is one
\* of the factors.
Multiply(result, a, b) ==
  LET zeroed == [mem EXCEPT ![result] = Zero]
  IN  mem' = [mem EXCEPT ![result] = Product(zeroed[a], zeroed[b])]

\* Mutant: the powers of the element are one behind.
Behind == elementNext

Element == elementCurrent

\* The head of the loop, and its conditional product for a bit that is set.
Bit ==
  /\ pc = "loop"
  /\ i > 0
  /\ IF i % 2 # 0
     THEN /\ Multiply(productNext, productCurrent, Element)
          /\ productCurrent' = productNext
          /\ productNext' = productCurrent
          /\ pc' = IF i = 1 THEN "returned" ELSE "square"
     ELSE /\ pc' = "square"
          /\ UNCHANGED <<mem, productCurrent, productNext>>
  /\ UNCHANGED <<input, k, i, elementCurrent, elementNext>>

Square ==
  /\ pc = "square"
  /\ Multiply(elementNext, elementCurrent, elementCurrent)
  /\ elementCurrent' = elementNext
  /\ elementNext' = elementCurrent
  /\ i' = i \div 2
  /\ pc' = "loop"
  /\ UNCHANGED <<input, k, productCurrent, productNext>>

NoBitLeft ==
  /\ pc = "loop"
  /\ i = 0
  /\ pc' = "returned"
  /\ UNCHANGED <<input, k, i, mem, productCurrent, productNext,
                 elementCurrent, elementNext>>

Returned == pc = "returned" /\ UNCHANGED vars

Next == Bit \/ Square \/ NoBitLeft \/ Returned

Spec == Init /\ [][Next]_vars

-----------------------------------------------------------------------------
(* Properties *)

\* The power by its definition.
Power(a, n) ==
  LET power[m \in 0..n] == IF m = 0 THEN Identity ELSE Product(power[m - 1], a)
  IN  power[n]

\* The loop invariant: product * element ^ i is always the power wanted, with the
\* bit of i that was already multiplied in left out.
PowerSoFar ==
  LET left == CASE pc = "loop" -> i [] pc = "square" -> i - (i % 2) [] OTHER -> 0
  IN  Product(mem[productCurrent], Power(mem[elementCurrent], left)) = Power(input, k)
=============================================================================
