---------------------------- MODULE LuaTableLib ----------------------------
(***************************************************************************)
(* The table library of the Lua interpreter in the pgo lab (ltablib.c):    *)
(* sort with any comparison it is given, insert, remove and concat.        *)
(*                                                                         *)
(* A table is a function on the integers the library may reach, Absent     *)
(* where it has no value.  The sort gives [t, error].                      *)
(***************************************************************************)
EXTENDS Integers, Sequences, SequencesExt

CONSTANT Absent

Swapped(t, i, j) == [t EXCEPT ![i] = t[j], ![j] = t[i]]     \* set2

---------------------------------------------------------------------------
\* auxsort; less is the comparison, a set of pairs

\* a[l], a[(l+u)/2] and a[u] in order
Median3(t, l, u, less) ==
  LET i == (l + u) \div 2
      ends == IF <<t[u], t[l]>> \in less THEN Swapped(t, l, u) ELSE t
  IN  IF u - l = 1 THEN ends
      ELSE IF <<ends[i], ends[l]>> \in less THEN Swapped(ends, i, l)
      ELSE IF <<ends[u], ends[i]>> \in less THEN Swapped(ends, i, u) ELSE ends

\* the two loops that look for elements to swap: where they stop, or that
\* they raise "invalid order function for sorting"
RECURSIVE Up(_, _, _, _, _)
Up(t, i, u, pivot, less) ==
  IF <<t[i + 1], pivot>> \notin less THEN [at |-> i + 1, error |-> FALSE]
  ELSE IF i + 1 > u THEN [at |-> i + 1, error |-> TRUE]
  ELSE Up(t, i + 1, u, pivot, less)

RECURSIVE Down(_, _, _, _, _)
Down(t, j, l, pivot, less) ==
  IF <<pivot, t[j - 1]>> \notin less THEN [at |-> j - 1, error |-> FALSE]
  ELSE IF j - 1 < l THEN [at |-> j - 1, error |-> TRUE]
  ELSE Down(t, j - 1, l, pivot, less)

\* the for (;;); i is where the pivot belongs in the end
RECURSIVE Partition(_, _, _, _, _, _, _)
Stopped(t, l, u, up, down, pivot, less) ==
  IF up.error \/ down.error THEN [t |-> t, i |-> up.at, error |-> TRUE]
  ELSE IF down.at < up.at THEN [t |-> Swapped(t, u - 1, up.at), i |-> up.at, error |-> FALSE]
  ELSE Partition(Swapped(t, up.at, down.at), l, u, up.at, down.at, pivot, less)
Partition(t, l, u, i, j, pivot, less) ==
  Stopped(t, l, u, Up(t, i, u, pivot, less), Down(t, j, l, pivot, less), pivot, less)

\* The smaller half is sorted by a call, the larger one by the loop.
RECURSIVE AuxSort(_, _, _, _)
Halves(m, l, u, less) ==
  LET i == (l + u) \div 2 IN Partition(Swapped(m, i, u - 1), l, u, l, u - 1, m[i], less)
ThenSort(first, l, u, less) == IF first.error THEN first ELSE AuxSort(first.t, l, u, less)
SortHalves(p, l, u, less) ==
  IF p.error THEN [t |-> p.t, error |-> TRUE]
  ELSE IF p.i - l < u - p.i THEN ThenSort(AuxSort(p.t, l, p.i - 1, less), p.i + 1, u, less)
  ELSE ThenSort(AuxSort(p.t, p.i + 1, u, less), l, p.i - 1, less)
AuxSort(t, l, u, less) ==
  IF l >= u THEN [t |-> t, error |-> FALSE]
  ELSE IF u - l <= 2 THEN [t |-> Median3(t, l, u, less), error |-> FALSE]
  ELSE SortHalves(Halves(Median3(t, l, u, less), l, u, less), l, u, less)

---------------------------------------------------------------------------
\* tinsert with a position, of a table of length n
RECURSIVE MoveUp(_, _, _)
MoveUp(t, i, pos) == IF i > pos THEN MoveUp([t EXCEPT ![i] = t[i - 1]], i - 1, pos) ELSE t
TInsert(t, n, pos, v) ==
  LET e == IF pos > n + 1 THEN pos ELSE n + 1
  IN  [MoveUp(t, e, pos) EXCEPT ![pos] = v]

\* tremove: [t, value]
RECURSIVE MoveDown(_, _, _)
MoveDown(t, pos, e) == IF pos < e THEN MoveDown([t EXCEPT ![pos] = t[pos + 1]], pos + 1, e) ELSE t
TRemove(t, n, pos) ==
  IF ~ (1 <= pos /\ pos <= n) THEN [t |-> t, value |-> Absent]
  ELSE [t |-> [MoveDown(t, pos, n) EXCEPT ![n] = Absent], value |-> t[pos]]

\* tconcat, the values as sequences of characters; Absent is no string
RECURSIVE TConcat(_, _, _, _)
TConcat(t, sep, i, last) ==
  IF i > last THEN <<>>
  ELSE LET value == IF t[i] = Absent THEN <<Absent>> ELSE <<t[i]>>
       IN  IF i < last /\ t[i] # Absent THEN value \o sep \o TConcat(t, sep, i + 1, last) ELSE value
=============================================================================
