----------------------------- MODULE DiffReport -----------------------------
(***************************************************************************)
(* The comparison of two benchmark reports: get_difference_report of       *)
(* gbench/report.py, called by the CI driver and by check_speedup.py with  *)
(* the baseline's report first, and the driver's getAverageSpeedup.        *)
(*                                                                         *)
(* A report is a sequence of entries.  A "run" has a unit and times, the   *)
(* summary "bigo" a unit but no times, the summary "rms" neither.  The     *)
(* order of the entries matters: repetitions are paired by position.       *)
(***************************************************************************)
EXTENDS Integers, Sequences, SequencesExt

CONSTANTS
  Names,    \* benchmark names
  Units,    \* time units
  Times,    \* real_time of a run
  Reports   \* the reports under study

Kinds == {"run", "bigo", "rms"}
Entry == [name : Names, kind : Kinds, unit : Units, time : Times]

VARIABLES
  lhs, rhs,    \* json1 and json2
  pc,
  next,        \* the name or partition the loop is at
  partitions,  \* pairs of groups of entries
  diff,        \* diff_report: name and pairs of entries
  speedup      \* getAverageSpeedup as a numerator and a denominator

vars == <<lhs, rhs, pc, next, partitions, diff, speedup>>

Pair == [old : Entry, new : Entry]
Labels == {"partition", "compare", "average", "done",
           "no_field", "no_data", "zero_division"}

TypeOK ==
  /\ lhs \in Reports /\ rhs \in Reports
  /\ pc \in Labels
  /\ next \in Nat
  /\ partitions \in Seq(Seq(Entry) \X Seq(Entry))
  /\ diff \in Seq([name : Names, measurements : Seq(Pair)])
  /\ speedup \in Int \X (Nat \ {0})

Init ==
  /\ lhs \in Reports /\ rhs \in Reports
  /\ pc = "partition"
  /\ next = 1
  /\ partitions = <<>>
  /\ diff = <<>>
  /\ speedup = <<0, 1>>

-----------------------------------------------------------------------------
(* Partitioning by name *)

HasUnit(x)    == x.kind \in {"run", "bigo"}
Comparable(x) == x.kind = "run"

\* get_unique_benchmark_names, in the order of their first entries
UniqueNames(json) ==
  FoldLeft(LAMBDA seen, x : IF Contains(seen, x.name) THEN seen
                            ELSE Append(seen, x.name),
           <<>>, json)

\* intersect
CommonNames ==
  SelectSeq(UniqueNames(lhs), LAMBDA name : Contains(UniqueNames(rhs), name))

Named(json, name) == SelectSeq(json, LAMBDA x : x.name = name)

\* Mutant: entries are selected by their name only.
AnyUnit(group, unit) == group

InUnit(group, unit) == SelectSeq(group, LAMBDA x : x.unit = unit)

\* One name of partition_benchmarks.  An entry of that name without a time
\* unit raises KeyError in the filters.
Partition ==
  /\ pc = "partition"
  /\ next <= Len(CommonNames)
  /\ LET old == Named(lhs, CommonNames[next])
         new == Named(rhs, CommonNames[next])
         runs == SelectSeq(old, Comparable)
     IN  IF runs = <<>>
         THEN /\ next' = next + 1
              /\ UNCHANGED <<pc, partitions>>
         ELSE IF \E x \in Range(old) \cup Range(new) : ~HasUnit(x)
         THEN /\ pc' = "no_field"
              /\ UNCHANGED <<next, partitions>>
         ELSE /\ partitions' = Append(partitions, <<InUnit(old, runs[1].unit),
                                                    InUnit(new, runs[1].unit)>>)
              /\ next' = next + 1
              /\ UNCHANGED pc
  /\ UNCHANGED <<lhs, rhs, diff, speedup>>

Partitioned ==
  /\ pc = "partition"
  /\ next > Len(CommonNames)
  /\ pc' = "compare"
  /\ next' = 1
  /\ UNCHANGED <<lhs, rhs, partitions, diff, speedup>>

-----------------------------------------------------------------------------
(* Comparing the entries of a partition *)

Smaller(m, n) == IF m < n THEN m ELSE n

\* Mutant: as many pairs as the first group has entries, the last one repeated.
AllOfTheFirst(p) ==
  [i \in 1..IF p[2] = <<>> THEN 0 ELSE Len(p[1]) |->
     [old |-> p[1][i], new |-> p[2][Smaller(i, Len(p[2]))]]]

\* The repetitions are paired in their order, as far as both go.
Measurements(p) ==
  [i \in 1..Smaller(Len(p[1]), Len(p[2])) |-> [old |-> p[1][i], new |-> p[2][i]]]

\* One partition of get_difference_report, with its U test: extract_field reads
\* the times of all entries, paired or not, and raises KeyError without one.
Compare ==
  /\ pc = "compare"
  /\ next <= Len(partitions)
  /\ LET p == partitions[next] IN
     IF \E x \in Range(p[1]) \cup Range(p[2]) : ~Comparable(x)
     THEN /\ pc' = "no_field"
          /\ UNCHANGED <<next, diff>>
     ELSE /\ diff' = IF Measurements(p) = <<>> THEN diff
                     ELSE Append(diff, [name |-> p[1][1].name,
                                        measurements |-> Measurements(p)])
          /\ next' = next + 1
          /\ UNCHANGED pc
  /\ UNCHANGED <<lhs, rhs, partitions, speedup>>

Compared ==
  /\ pc = "compare"
  /\ next > Len(partitions)
  /\ pc' = "average"
  /\ next' = 1
  /\ UNCHANGED <<lhs, rhs, partitions, diff, speedup>>

-----------------------------------------------------------------------------
(* getAverageSpeedup of the driver *)

NoTime(p) == p.old.time = 0
Gain(p)   == p.old.time - p.new.time

\* The mean over the benchmarks of (old - new) / old of their first pair, as a
\* fraction whose denominator is the product of the old times and their number.
Average ==
  /\ pc = "average"
  /\ LET first == [i \in DOMAIN diff |-> diff[i].measurements[1]]
         add(f, p) == <<f[1] * p.old.time + Gain(p) * f[2],
                        f[2] * p.old.time>>
         sum == FoldLeft(add, <<0, 1>>, first)
     IN  IF \E p \in Range(first) : NoTime(p)
         THEN pc' = "zero_division" /\ UNCHANGED speedup
         ELSE IF diff = <<>>
         THEN pc' = "no_data" /\ UNCHANGED speedup
         ELSE pc' = "done" /\ speedup' = <<sum[1], sum[2] * Len(diff)>>
  /\ UNCHANGED <<lhs, rhs, next, partitions, diff>>

Finished ==
  /\ pc \in {"done", "no_field", "no_data", "zero_division"}
  /\ UNCHANGED vars

Next == Partition \/ Partitioned \/ Compare \/ Compared \/ Average \/ Finished

Spec == Init /\ [][Next]_vars

-----------------------------------------------------------------------------
(* Properties *)

\* A speedup is computed from entries that can be compared: runs of the same
\* benchmark in the same unit, one from each report, at the same position among
\* the repetitions.
PairsAreComparable ==
  \A d \in Range(diff) : \A i \in DOMAIN d.measurements :
    LET p == d.measurements[i]
        group(json) ==
          SelectSeq(json, LAMBDA x : x.name = d.name /\ x.unit = p.old.unit)
    IN  /\ p.old.name = d.name /\ p.new.name = d.name
        /\ p.old.unit = p.new.unit
        /\ p.old.kind = "run" /\ p.new.kind = "run"
        /\ i <= Len(group(lhs)) /\ p.old = group(lhs)[i]
        /\ i <= Len(group(rhs)) /\ p.new = group(rhs)[i]

\* Every benchmark that both reports ran takes part, once and in the baseline's
\* order, unless the unit of its first run is not found in the other report.
NothingMissed ==
  pc \in {"average", "done", "no_data", "zero_division"} =>
    [i \in DOMAIN diff |-> diff[i].name] =
    SelectSeq(UniqueNames(lhs), LAMBDA name :
      LET runs == SelectSeq(Named(lhs, name), Comparable) IN
      /\ runs # <<>>
      /\ \E x \in Range(Named(rhs, name)) : Comparable(x) /\ x.unit = runs[1].unit)

\* If every common benchmark got faster, or every one slower, so did the average.
AverageAgrees ==
  pc = "done" =>
    LET first == {diff[i].measurements[1] : i \in DOMAIN diff} IN
    /\ speedup[1] <= speedup[2]
    /\ (\A p \in first : p.new.time < p.old.time) => speedup[1] > 0
    /\ (\A p \in first : p.new.time > p.old.time) => speedup[1] < 0
=============================================================================
