---------------------------- MODULE RunCI_proofs ----------------------------
(* Theorems about the CI driver, for every table, push and set of speedups. *)
EXTENDS RunCI, TLAPS

-----------------------------------------------------------------------------
(* The inductive invariant *)

BeforeCheckout == {"analyze", "build_solution", "checkout"}
Measuring      == {"run_solution", "run_baseline", "compare"}
AfterCheckout  == {"build_baseline", "benchmark"} \cup Measuring

\* The working tree follows the script.
TreeInv ==
  /\ pc \in BeforeCheckout => tree = "branch"
  /\ pc \in AfterCheckout => tree = "main"
  /\ pc = "analyze" => scope = None
  /\ pc \notin {"analyze", "done"} => scope \in {"all", "one"}
  /\ (pc \in BeforeCheckout \cup AfterCheckout /\ scope = "one") => cur \in Lab
  /\ pending \subseteq Listed

\* An executable comes from the revision of its build directory.
BuildInv ==
  \A l \in Lab, v \in Variant :
    build[l][v].stage \in Linked =>
      build[l][v].from = IF v = "solution" THEN "branch" ELSE "main"

\* A build that did not succeed is on record, as a result of the lab or as the
\* end of the script.
FailureInv ==
  /\ pc = "analyze" => \A l \in Lab, v \in Variant : build[l][v].stage = "absent"
  /\ pc \in BeforeCheckout =>
       \A l \in Lab :
         /\ build[l]["baseline"].stage = "absent"
         /\ \A v \in Variant : report[l][v].kind = "absent"
         /\ l \in Listed => result[l] \in {READY, "BUILD_FAILED"}
  /\ (scope = "one" /\ pc # "done") =>
       \A l \in Lab, v \in Variant : build[l][v].stage \in {"absent", "valid"}
  /\ scope = "all" =>
       \A l \in Listed, v \in Variant :
         build[l][v].stage \in {"directory", "executable"} =>
           result[l] = "BUILD_FAILED"
  /\ (scope = "all" /\ pc \in {"build_solution", "checkout"}) =>
       \A l \in Listed \ pending :
         (result[l] = READY /\ l \in push.disk["branch"]) =>
           build[l]["solution"].stage = "valid"
  /\ (pc = "checkout" /\ scope = "all") => pending = {}
  /\ pc = "build_baseline" =>
       \A l \in Lab, v \in Variant : report[l][v].kind = "absent"
  /\ scope # "all" => \A l \in Listed : result[l] = READY

\* The lab being measured is undecided and its executables are not alike.
MeasuringInv ==
  pc \in Measuring =>
    /\ cur \in Lab
    /\ scope = "all" => cur \in Listed /\ result[cur] = READY
    /\ ~NoChangesToTheBaseline(cur)

IInv ==
  /\ TypeOK
  /\ TreeInv
  /\ BuildInv
  /\ FailureInv
  /\ MeasuringInv
  /\ MeasuredAsBuilt
  /\ PassedIsEarned

-----------------------------------------------------------------------------
(* Type correctness *)

USE LabAssumption, ScoreAssumption, PushAssumption
USE DEF Lab, Rev, Variant, Scored, READY, Linked, Stage, BuildType, ReportType

\* The script starts with no result and nothing on disk that counts.
LEMMA InitType == Init => TypeOK
  BY DEF Init, TypeOK, Labels, Outcomes

\* The variant of a building phase and of a measuring phase.
LEMMA PhaseVariant ==
  /\ DOMAIN Building = {"build_solution", "build_baseline"}
  /\ DOMAIN Running = {"run_solution", "run_baseline"}
  /\ Building["build_solution"] = "solution"
  /\ Building["build_baseline"] = "baseline"
  /\ Running["run_solution"] = "solution"
  /\ Running["run_baseline"] = "baseline"
  BY DEF Building, Running

\* Building a lab leaves the types as they are.
LEMMA BuildLabType ==
  ASSUME TypeOK, NEW l \in Lab, NEW v \in Variant, NEW stage \in Stage,
         BuildLab(l, v, stage)
  PROVE  build' \in [Lab -> [Variant -> BuildType]]
  BY DEF TypeOK, BuildLab

\* A directory listing shows labs.
LEMMA OnDiskType ==
  ASSUME TypeOK, NEW rev \in Rev
  PROVE  OnDisk(rev) \subseteq Lab
  BY DEF TypeOK, OnDisk, PushType

\* Every step keeps the types.
LEMMA NextType ==
  ASSUME TypeOK, [Next]_vars
  PROVE  TypeOK'
<1> USE DEF TypeOK, Labels, Outcomes
<1>1. CASE Analyze
  BY <1>1 DEF Analyze, ScanFor, OnDisk, MustCheckAll, artefacts
<1>2. CASE AnalyzeFails
  BY <1>2 DEF AnalyzeFails, Finish, artefacts
<1>3. ASSUME NEW l \in Listed, BuildAction(l) PROVE TypeOK'
  <2>1. /\ pending' \subseteq Lab
        /\ result' \in [Listed -> Scored]
    BY <1>3 DEF BuildAction, Rest
  <2>2. build' \in [Lab -> [Variant -> BuildType]]
    BY <1>3, PhaseVariant, BuildLabType DEF BuildAction
  <2> QED
    BY <1>3, <2>1, <2>2 DEF BuildAction
<1>4. ASSUME NEW l \in Listed, PassOver(l) PROVE TypeOK'
  BY <1>4 DEF PassOver, Rest, artefacts
<1>5. ASSUME NEW l \in Listed, BenchmarkAction(l) PROVE TypeOK'
  BY <1>5 DEF BenchmarkAction, Rest, artefacts
<1>6. CASE SolutionsBuilt
  BY <1>6 DEF SolutionsBuilt, artefacts
<1>7. CASE BaselinesBuilt
  BY <1>7 DEF BaselinesBuilt, ScanFor, artefacts
<1>8. CASE BuildTheLab
  <2>1. cur \in Lab
    BY <1>8, OnDiskType DEF BuildTheLab
  <2>2. build' \in [Lab -> [Variant -> BuildType]]
    BY <1>8, <2>1, PhaseVariant, BuildLabType DEF BuildTheLab
  <2> QED
    BY <1>8, <2>2 DEF BuildTheLab, Finish
<1>9. CASE TheLabIsGone
  BY <1>9 DEF TheLabIsGone, Finish, artefacts
<1>10. CASE CheckoutBaseline
  BY <1>10 DEF CheckoutBaseline, ScanFor, artefacts
<1>11. CASE CheckoutFails
  BY <1>11 DEF CheckoutFails, Finish, artefacts
<1>12. CASE BenchmarkTheLab
  BY <1>12 DEF BenchmarkTheLab, Finish, artefacts
<1>13. CASE BenchmarkSolutionOrBaseline
  <2>1. report' \in [Lab -> [Variant -> ReportType]]
    <3>1. CASE cur \in Lab
      BY <1>13, <3>1, PhaseVariant
         DEF BenchmarkSolutionOrBaseline, RevisionMeasured
    <3>2. CASE cur = None
      BY <1>13, <3>2 DEF BenchmarkSolutionOrBaseline
    <3> QED
      BY <3>1, <3>2
  <2> QED
    BY <1>13, <2>1 DEF BenchmarkSolutionOrBaseline
<1>14. CASE LoadFails
  BY <1>14 DEF LoadFails, Finish, artefacts
<1>15. CASE NothingInCommon
  BY <1>15 DEF NothingInCommon, Finish, artefacts
<1>16. CASE BenchmarkLab
  <2>1. speedup' \in [Lab -> Speedups \cup {None}]
    <3>1. PICK s \in Speedups : speedup' = [speedup EXCEPT ![cur] = s]
      BY <1>16 DEF BenchmarkLab
    <3> QED
      BY <3>1
  <2>2. /\ result' \in [Listed -> Scored]
        /\ cur' \in Lab \cup {None}
    BY <1>16 DEF BenchmarkLab
  <2>3. pc' \in Labels /\ outcome' \in Outcomes
    BY <1>16 DEF BenchmarkLab, Finish
  <2> QED
    BY <1>16, <2>1, <2>2, <2>3 DEF BenchmarkLab
<1>17. CASE Summary
  BY <1>17 DEF Summary, Finish, artefacts
<1>18. CASE Kill
  BY <1>18 DEF Kill, Finish, artefacts
<1>19. CASE UNCHANGED vars
  BY <1>19 DEF vars
<1> QED
  BY <1>1, <1>2, <1>3, <1>4, <1>5, <1>6, <1>7, <1>8, <1>9, <1>10, <1>11,
     <1>12, <1>13, <1>14, <1>15, <1>16, <1>17, <1>18, <1>19
     DEF Next, Step, Terminated

\* Every variable keeps its type: in particular the lab handled, the labs to
\* visit and the statuses written always name labs the script knows.
THEOREM TypeCorrect == Spec => []TypeOK
<1>1. TypeOK /\ [Next]_vars => TypeOK'
  BY NextType
<1> QED
  BY InitType, <1>1, PTL DEF Spec
-----------------------------------------------------------------------------
(* The invariant is inductive *)

\* The first checkout is the push.
LEMMA InitInv == Init => IInv
<1> SUFFICES ASSUME Init PROVE IInv
  OBVIOUS
<1> USE DEF Init, BeforeCheckout, AfterCheckout, Measuring
<1>1. TreeInv /\ BuildInv /\ MeasuringInv
  BY DEF TreeInv, BuildInv, MeasuringInv
<1>2. FailureInv
  BY DEF FailureInv
<1>3. MeasuredAsBuilt /\ PassedIsEarned
  BY DEF MeasuredAsBuilt, PassedIsEarned
<1> QED
  BY InitType, <1>1, <1>2, <1>3 DEF IInv

\* What a call of buildLab changes.
LEMMA BuildLabEffect ==
  ASSUME TypeOK, NEW l \in Lab, NEW v \in Variant, NEW stage \in Stage,
         BuildLab(l, v, stage)
  PROVE  /\ \A m \in Lab, w \in Variant :
              (m # l \/ w # v) => build'[m][w] = build[m][w]
         /\ build'[l][v].stage = stage
         /\ stage \in Linked => build'[l][v].from = tree
  BY DEF TypeOK, BuildLab

\* An end of the script changes no tree, no result and no artefact.
LEMMA FinishInv ==
  ASSUME IInv, pc' = "done", UNCHANGED <<push, scope, tree, pending, cur, result, artefacts>>
  PROVE  (TreeInv /\ BuildInv /\ FailureInv /\ MeasuringInv /\ MeasuredAsBuilt /\ PassedIsEarned)'
  BY DEF IInv, TreeInv, BuildInv, FailureInv, MeasuringInv, MeasuredAsBuilt, PassedIsEarned,
         BeforeCheckout, AfterCheckout, Measuring, artefacts

\* The analysis scans the checkout of the push.
LEMMA AnalyzeInv ==
  ASSUME IInv, TypeOK', Analyze
  PROVE  IInv'
<1> USE DEF IInv, BeforeCheckout, AfterCheckout, Measuring, Analyze, ScanFor, OnDisk, MustCheckAll, artefacts
<1>1. TreeInv'
  BY PhaseVariant DEF TypeOK, TreeInv, Labels
<1>2. BuildInv'
  BY PhaseVariant DEF TypeOK, BuildInv, Labels
<1>3. FailureInv'
  <2>1. build' = build /\ report' = report /\ result' = result
    OBVIOUS
  <2> QED
    BY <2>1, PhaseVariant DEF TypeOK, FailureInv, TreeInv
<1>4. MeasuringInv'
  BY PhaseVariant DEF TypeOK, MeasuringInv, Labels
<1>5. MeasuredAsBuilt'
  BY PhaseVariant DEF TypeOK, MeasuredAsBuilt, Labels
<1>6. PassedIsEarned'
  BY PhaseVariant DEF TypeOK, PassedIsEarned, Labels
<1> QED
  BY <1>1, <1>2, <1>3, <1>4, <1>5, <1>6

\* A build measures the tree that is checked out.
LEMMA BuildActionInv ==
  ASSUME IInv, TypeOK', NEW l \in Listed, BuildAction(l)
  PROVE  IInv'
<1> USE DEF IInv, BeforeCheckout, AfterCheckout, Measuring, BuildAction, BuildLab, BuildSucceeded, IsReady, Rest
<1>1. TreeInv'
  BY PhaseVariant DEF TypeOK, TreeInv, Labels
<1>2. BuildInv'
  <2>1. PICK stage \in Stage : BuildLab(l, Building[pc], stage)
    OBVIOUS
  <2>2. Building[pc] = IF tree = "branch" THEN "solution" ELSE "baseline"
    BY PhaseVariant DEF TreeInv
  <2> QED
    BY <2>1, <2>2, BuildLabEffect DEF BuildInv, TypeOK
<1>3. FailureInv'
  BY PhaseVariant DEF TypeOK, FailureInv, Labels
<1>4. MeasuringInv'
  BY PhaseVariant DEF TypeOK, MeasuringInv, Labels
<1>5. MeasuredAsBuilt'
  <2>1. \A m \in Lab, w \in Variant : report[m][w].kind = "absent"
    BY PhaseVariant DEF FailureInv
  <2> QED
    BY <2>1 DEF MeasuredAsBuilt
<1>6. PassedIsEarned'
  BY PhaseVariant DEF TypeOK, PassedIsEarned, Labels
<1> QED
  BY <1>1, <1>2, <1>3, <1>4, <1>5, <1>6

\* A lab that is passed over has its verdict.
LEMMA PassOverInv ==
  ASSUME IInv, TypeOK', NEW l \in Listed, PassOver(l)
  PROVE  IInv'
<1> USE DEF IInv, BeforeCheckout, AfterCheckout, Measuring, PassOver, Rest, artefacts
<1>1. TreeInv'
  BY PhaseVariant DEF TypeOK, TreeInv, Labels
<1>2. BuildInv'
  BY PhaseVariant DEF TypeOK, BuildInv, Labels
<1>3. FailureInv'
  BY PhaseVariant DEF TypeOK, FailureInv, Labels
<1>4. MeasuringInv'
  BY PhaseVariant DEF TypeOK, MeasuringInv, Labels
<1>5. MeasuredAsBuilt'
  BY PhaseVariant DEF TypeOK, MeasuredAsBuilt, Labels
<1>6. PassedIsEarned'
  BY PhaseVariant DEF TypeOK, PassedIsEarned, Labels
<1> QED
  BY <1>1, <1>2, <1>3, <1>4, <1>5, <1>6

\* A lab is compared when both of its builds are there.
LEMMA BenchmarkActionInv ==
  ASSUME IInv, TypeOK', NEW l \in Listed, BenchmarkAction(l)
  PROVE  IInv'
<1> USE DEF IInv, BeforeCheckout, AfterCheckout, Measuring, BenchmarkAction, IsReady, Rest, artefacts
<1>1. TreeInv'
  BY PhaseVariant DEF TypeOK, TreeInv, Labels
<1>2. BuildInv'
  BY PhaseVariant DEF TypeOK, BuildInv, Labels
<1>3. FailureInv'
  BY PhaseVariant DEF TypeOK, FailureInv, Labels
<1>4. MeasuringInv'
  <2>1. NoChangesToTheBaseline(l)' <=> NoChangesToTheBaseline(l)
    BY DEF NoChangesToTheBaseline, HasExecutable
  <2> QED
    BY <2>1, PhaseVariant DEF MeasuringInv, NoChangesToTheBaseline, HasExecutable
<1>5. MeasuredAsBuilt'
  BY PhaseVariant DEF TypeOK, MeasuredAsBuilt, Labels
<1>6. PassedIsEarned'
  BY PhaseVariant DEF TypeOK, PassedIsEarned, Labels
<1> QED
  BY <1>1, <1>2, <1>3, <1>4, <1>5, <1>6

\* The baseline is checked out when every solution is built.
LEMMA SolutionsBuiltInv ==
  ASSUME IInv, TypeOK', SolutionsBuilt
  PROVE  IInv'
<1> USE DEF IInv, BeforeCheckout, AfterCheckout, Measuring, SolutionsBuilt, artefacts
<1>1. TreeInv'
  BY PhaseVariant DEF TypeOK, TreeInv, Labels
<1>2. BuildInv'
  BY PhaseVariant DEF TypeOK, BuildInv, Labels
<1>3. FailureInv'
  BY PhaseVariant DEF TypeOK, FailureInv, Labels
<1>4. MeasuringInv'
  BY PhaseVariant DEF TypeOK, MeasuringInv, Labels
<1>5. MeasuredAsBuilt'
  BY PhaseVariant DEF TypeOK, MeasuredAsBuilt, Labels
<1>6. PassedIsEarned'
  BY PhaseVariant DEF TypeOK, PassedIsEarned, Labels
<1> QED
  BY <1>1, <1>2, <1>3, <1>4, <1>5, <1>6

\* The benchmarks start when every baseline is built.
LEMMA BaselinesBuiltInv ==
  ASSUME IInv, TypeOK', BaselinesBuilt
  PROVE  IInv'
<1> USE DEF IInv, BeforeCheckout, AfterCheckout, Measuring, BaselinesBuilt, ScanFor, artefacts
<1>1. TreeInv'
  BY PhaseVariant DEF TypeOK, TreeInv, Labels
<1>2. BuildInv'
  BY PhaseVariant DEF TypeOK, BuildInv, Labels
<1>3. FailureInv'
  BY PhaseVariant DEF TypeOK, FailureInv, Labels
<1>4. MeasuringInv'
  BY PhaseVariant DEF TypeOK, MeasuringInv, Labels
<1>5. MeasuredAsBuilt'
  BY PhaseVariant DEF TypeOK, MeasuredAsBuilt, Labels
<1>6. PassedIsEarned'
  BY PhaseVariant DEF TypeOK, PassedIsEarned, Labels
<1> QED
  BY <1>1, <1>2, <1>3, <1>4, <1>5, <1>6

\* The build of one lab, of its solution or of its baseline.
LEMMA BuildTheLabInv ==
  ASSUME IInv, TypeOK', BuildTheLab
  PROVE  IInv'
<1> USE DEF IInv, BeforeCheckout, AfterCheckout, Measuring, BuildTheLab, BuildLab, BuildSucceeded, Finish
<1>1. TreeInv'
  BY PhaseVariant DEF TypeOK, TreeInv, Labels
<1>2. BuildInv'
  <2>1. PICK stage \in Stage : BuildLab(cur, Building[pc], stage)
    OBVIOUS
  <2>2. /\ Building[pc] = IF tree = "branch" THEN "solution" ELSE "baseline"
        /\ cur \in Lab
    BY PhaseVariant DEF TreeInv
  <2> QED
    BY <2>1, <2>2, BuildLabEffect DEF BuildInv, TypeOK
<1>3. FailureInv'
  BY PhaseVariant DEF TypeOK, FailureInv, Labels
<1>4. MeasuringInv'
  BY PhaseVariant DEF TypeOK, MeasuringInv, Labels
<1>5. MeasuredAsBuilt'
  <2>1. \A m \in Lab, w \in Variant : report[m][w].kind = "absent"
    BY PhaseVariant DEF FailureInv
  <2> QED
    BY <2>1 DEF MeasuredAsBuilt
<1>6. PassedIsEarned'
  <2>1. \A m \in Listed : result[m] = READY
    BY PhaseVariant DEF FailureInv
  <2> QED
    BY <2>1 DEF PassedIsEarned
<1> QED
  BY <1>1, <1>2, <1>3, <1>4, <1>5, <1>6

\* The checkout replaces the tree and leaves the artefacts of the solutions.
LEMMA CheckoutBaselineInv ==
  ASSUME IInv, TypeOK', CheckoutBaseline
  PROVE  IInv'
<1> USE DEF IInv, BeforeCheckout, AfterCheckout, Measuring, CheckoutBaseline, ScanFor, artefacts
<1>1. TreeInv'
  BY PhaseVariant DEF TypeOK, TreeInv, Labels
<1>2. BuildInv'
  BY PhaseVariant DEF TypeOK, BuildInv, Labels
<1>3. FailureInv'
  BY PhaseVariant DEF TypeOK, FailureInv, Labels
<1>4. MeasuringInv'
  BY PhaseVariant DEF TypeOK, MeasuringInv, Labels
<1>5. MeasuredAsBuilt'
  BY PhaseVariant DEF TypeOK, MeasuredAsBuilt, Labels
<1>6. PassedIsEarned'
  BY PhaseVariant DEF TypeOK, PassedIsEarned, Labels
<1> QED
  BY <1>1, <1>2, <1>3, <1>4, <1>5, <1>6

\* The comparison of one lab.
LEMMA BenchmarkTheLabInv ==
  ASSUME IInv, TypeOK', BenchmarkTheLab
  PROVE  IInv'
<1> USE DEF IInv, BeforeCheckout, AfterCheckout, Measuring, BenchmarkTheLab, Finish, artefacts
<1>1. TreeInv'
  BY PhaseVariant DEF TypeOK, TreeInv, Labels
<1>2. BuildInv'
  BY PhaseVariant DEF TypeOK, BuildInv, Labels
<1>3. FailureInv'
  BY PhaseVariant DEF TypeOK, FailureInv, Labels
<1>4. MeasuringInv'
  <2>1. NoChangesToTheBaseline(cur)' <=> NoChangesToTheBaseline(cur)
    BY DEF NoChangesToTheBaseline, HasExecutable
  <2> QED
    BY <2>1, PhaseVariant DEF MeasuringInv, TreeInv, NoChangesToTheBaseline, HasExecutable
<1>5. MeasuredAsBuilt'
  BY PhaseVariant DEF TypeOK, MeasuredAsBuilt, Labels
<1>6. PassedIsEarned'
  BY PhaseVariant DEF TypeOK, PassedIsEarned, Labels
<1> QED
  BY <1>1, <1>2, <1>3, <1>4, <1>5, <1>6

\* A measurement is of the revision whose turn it is.
LEMMA BenchmarkSolutionOrBaselineInv ==
  ASSUME IInv, TypeOK', BenchmarkSolutionOrBaseline
  PROVE  IInv'
<1> USE DEF IInv, BeforeCheckout, AfterCheckout, Measuring, BenchmarkSolutionOrBaseline, RevisionMeasured
<1>1. TreeInv'
  BY PhaseVariant DEF TypeOK, TreeInv, Labels
<1>2. BuildInv'
  BY PhaseVariant DEF TypeOK, BuildInv, Labels
<1>3. FailureInv'
  BY PhaseVariant DEF TypeOK, FailureInv, Labels
<1>4. MeasuringInv'
  <2>1. NoChangesToTheBaseline(cur)' <=> NoChangesToTheBaseline(cur)
    BY DEF NoChangesToTheBaseline, HasExecutable
  <2> QED
    BY <2>1, PhaseVariant DEF MeasuringInv, NoChangesToTheBaseline, HasExecutable
<1>5. MeasuredAsBuilt'
  <2>1. /\ cur \in Lab
        /\ Running[pc] \in Variant
    BY PhaseVariant DEF MeasuringInv
  <2>2. PICK kind \in {"absent", "broken", "complete"} :
          /\ report' = [report EXCEPT ![cur][Running[pc]] =
                          [kind |-> kind, of |-> build[cur][Running[pc]].from]]
          /\ kind # "absent" => HasExecutable(cur, Running[pc])
    OBVIOUS
  <2>3. HasExecutable(cur, Running[pc]) => build[cur][Running[pc]].stage = "valid"
    BY <2>1, PhaseVariant
       DEF HasExecutable, FailureInv, MeasuringInv, TreeInv
  <2> QED
    BY <2>1, <2>2, <2>3 DEF MeasuredAsBuilt, BuildInv, TypeOK, HasExecutable
<1>6. PassedIsEarned'
  <2>1. \A l \in Listed : result[l] = "PASSED" => l # cur
    BY PhaseVariant DEF MeasuringInv, FailureInv, TreeInv
  <2>2. \A l \in Lab : l # cur => report'[l] = report[l]
    BY DEF TypeOK
  <2> QED
    BY <2>1, <2>2 DEF PassedIsEarned
<1> QED
  BY <1>1, <1>2, <1>3, <1>4, <1>5, <1>6

\* The comparison of both measurements ends the check of one lab.
LEMMA BenchmarkLabInv ==
  ASSUME IInv, TypeOK', BenchmarkLab
  PROVE  IInv'
<1> USE DEF IInv, BeforeCheckout, AfterCheckout, Measuring, BenchmarkLab, Finish
<1>1. TreeInv'
  BY PhaseVariant DEF TypeOK, TreeInv, Labels
<1>2. BuildInv'
  BY PhaseVariant DEF TypeOK, BuildInv, Labels
<1>3. FailureInv'
  <2>1. CASE scope = "all"
    BY <2>1 DEF TypeOK, FailureInv, MeasuringInv
  <2>2. CASE scope = "one"
    BY <2>2 DEF FailureInv, MeasuringInv
  <2> QED
    BY <2>1, <2>2
<1>4. MeasuringInv'
  BY PhaseVariant DEF TypeOK, MeasuringInv, Labels
<1>5. MeasuredAsBuilt'
  BY PhaseVariant DEF TypeOK, MeasuredAsBuilt, Labels
<1>6. PassedIsEarned'
  <2>1. PICK s \in Speedups :
          /\ speedup' = [speedup EXCEPT ![cur] = s]
          /\ scope = "all" => result' = [result EXCEPT ![cur] =
                IF FastEnough(cur, s) THEN "PASSED" ELSE "BENCH_FAILED"]
          /\ scope = "one" => result' = result
    OBVIOUS
  <2>2. cur \in Lab /\ \A l \in Listed : result[l] = "PASSED" => l # cur
    BY DEF MeasuringInv, FailureInv, TreeInv
  <2>3. ASSUME NEW l \in Listed, l # cur, result'[l] = "PASSED"
        PROVE  result[l] = "PASSED" /\ speedup'[l] = speedup[l]
    BY <2>1, <2>2, <2>3 DEF TypeOK, TreeInv
  <2>4. ASSUME cur \in Listed, result'[cur] = "PASSED"
        PROVE  /\ \A v \in Variant : /\ build[cur][v].stage = "valid"
                                     /\ report[cur][v].kind = "complete"
               /\ cur \in push.differs
               /\ speedup'[cur] >= 2 /\ speedup'[cur] >= Threshold[cur]
    <3>1. scope = "all" /\ FastEnough(cur, s)
      BY <2>1, <2>2, <2>4 DEF TypeOK, TreeInv
    <3>2. speedup'[cur] = s /\ s \in Int
      BY <2>1, <2>2 DEF TypeOK
    <3>3. s >= 2 /\ s >= Threshold[cur]
      BY <3>1, <3>2, <2>4 DEF FastEnough, Similar
    <3>4. \A v \in Variant : /\ report[cur][v].kind = "complete"
                             /\ build[cur][v].stage = "valid"
      BY <2>2 DEF BothReports, MeasuredAsBuilt
    <3>5. cur \in push.differs
      BY <3>4, <2>2 DEF MeasuringInv, NoChangesToTheBaseline, HasExecutable
    <3> QED
      BY <3>2, <3>3, <3>4, <3>5
  <2> QED
    BY <2>3, <2>4 DEF PassedIsEarned
<1> QED
  BY <1>1, <1>2, <1>3, <1>4, <1>5, <1>6

\* Every step keeps the inductive invariant.
LEMMA NextInv ==
  ASSUME IInv, [Next]_vars
  PROVE  IInv'
<1>1. TypeOK'
  BY NextType DEF IInv
<1>2. ASSUME pc' = "done",
             UNCHANGED <<push, scope, tree, pending, cur, result, artefacts>>
      PROVE  IInv'
  BY <1>1, <1>2, FinishInv DEF IInv
<1>3. CASE AnalyzeFails \/ CheckoutFails \/ TheLabIsGone \/ LoadFails
           \/ NothingInCommon \/ Summary \/ Kill
  BY <1>2, <1>3 DEF AnalyzeFails, CheckoutFails, TheLabIsGone, LoadFails,
                    NothingInCommon, Summary, Kill, Finish
<1>4. ASSUME NEW l \in Listed, BuildAction(l) \/ PassOver(l) \/ BenchmarkAction(l)
      PROVE  IInv'
  BY <1>1, <1>4, BuildActionInv, PassOverInv, BenchmarkActionInv
<1>5. CASE Analyze
  BY <1>1, <1>5, AnalyzeInv
<1>6. CASE SolutionsBuilt \/ BaselinesBuilt \/ BuildTheLab \/ CheckoutBaseline
  BY <1>1, <1>6, SolutionsBuiltInv, BaselinesBuiltInv, BuildTheLabInv,
     CheckoutBaselineInv
<1>7. CASE BenchmarkTheLab \/ BenchmarkSolutionOrBaseline \/ BenchmarkLab
  BY <1>1, <1>7, BenchmarkTheLabInv, BenchmarkSolutionOrBaselineInv,
     BenchmarkLabInv
<1>8. CASE UNCHANGED vars
  BY <1>1, <1>8
     DEF vars, IInv, TreeInv, BuildInv, FailureInv, MeasuringInv,
         MeasuredAsBuilt, PassedIsEarned, NoChangesToTheBaseline, HasExecutable
<1> QED
  BY <1>3, <1>4, <1>5, <1>6, <1>7, <1>8 DEF Next, Step, Terminated

\* For any set of labs and any push, the results, the artefacts and the tree
\* stay in step with where the script is.
THEOREM Invariant == Spec => []IInv
<1>1. IInv /\ [Next]_vars => IInv'
  BY NextInv
<1> QED
  BY InitInv, <1>1, PTL DEF Spec

-----------------------------------------------------------------------------
(* What follows *)

\* What a benchmark measures is a validated executable, the solution's from
\* the pushed branch and the baseline's from main, for every set of labs and
\* whatever fails on the way.
THEOREM MeasurementsAreSound == Spec => []MeasuredAsBuilt
<1>1. IInv => MeasuredAsBuilt
  BY DEF IInv
<1> QED
  BY Invariant, <1>1, PTL

\* No lab is reported as passed unless both its executables were validated,
\* differ, were measured, and differ in speed by its threshold.
THEOREM PassesAreEarned == Spec => []PassedIsEarned
<1>1. IInv => PassedIsEarned
  BY DEF IInv
<1> QED
  BY Invariant, <1>1, PTL

\* A verdict is never overwritten by a later phase: each phase visits READY
\* labs only, and the lab being measured is READY until its measurement ends.
THEOREM VerdictsAreFinal == Spec => VerdictIsFinal
<1> DEFINE Kept == \A l \in Listed : result[l] # READY => result'[l] = result[l]
<1>1. ASSUME IInv, [Next]_vars PROVE Kept
  <2>1. ASSUME NEW l \in Listed, BuildAction(l) \/ PassOver(l) \/ BenchmarkAction(l)
        PROVE  Kept
    <3>1. result' = result
          \/ (result[l] = READY /\ \E r \in Scored : result' = [result EXCEPT ![l] = r])
      BY <2>1 DEF BuildAction, PassOver, BenchmarkAction, IsReady
    <3> QED
      BY <1>1, <3>1 DEF IInv, TypeOK
  <2>2. CASE BenchmarkLab
    BY <1>1, <2>2 DEF BenchmarkLab, IInv, MeasuringInv, Measuring, TypeOK
  <2>3. CASE UNCHANGED result
    BY <2>3
  <2>4. [Next]_vars => \/ \E l \in Listed : BuildAction(l) \/ PassOver(l) \/ BenchmarkAction(l)
                       \/ BenchmarkLab
                       \/ UNCHANGED result
    BY DEF Next, Step, Terminated, vars, Kill, Analyze, AnalyzeFails, SolutionsBuilt,
           BaselinesBuilt, BuildTheLab, TheLabIsGone, CheckoutBaseline,
           CheckoutFails, BenchmarkTheLab, BenchmarkSolutionOrBaseline,
           LoadFails, NothingInCommon, Summary
  <2> QED
    BY <1>1, <2>1, <2>2, <2>3, <2>4
<1>2. IInv /\ [Next]_vars => [Kept]_vars
  BY <1>1
<1> QED
  BY Invariant, <1>2, PTL DEF Spec, VerdictIsFinal

\* main is checked out once, when no baseline is built and every listed lab of
\* the branch has a validated solution or a failed build on record.
THEOREM PhasesAreSeparate == Spec => CheckoutSeparatesPhases
<1> DEFINE Separate ==
      tree' # tree =>
        /\ tree = "branch"
        /\ \A l \in Listed :
             /\ result[l] \in {READY, "BUILD_FAILED"}
             /\ build[l]["baseline"].stage = "absent"
             /\ (scope = "all" /\ result[l] = READY /\ l \in push.disk["branch"])
                  => build[l]["solution"].stage = "valid"
<1>1. ASSUME IInv, [Next]_vars, tree' # tree PROVE Separate
  <2>1. CheckoutBaseline
    BY <1>1
       DEF Next, Step, Terminated, vars, Kill, Analyze, AnalyzeFails, SolutionsBuilt,
           BaselinesBuilt, BuildTheLab, TheLabIsGone, CheckoutFails,
           BenchmarkTheLab, BenchmarkSolutionOrBaseline, LoadFails,
           NothingInCommon, Summary, BuildAction, PassOver, BenchmarkAction,
           BenchmarkLab
  <2>2. pc = "checkout"
    BY <2>1 DEF CheckoutBaseline
  <2> QED
    BY <1>1, <2>2 DEF IInv, TreeInv, FailureInv, BeforeCheckout
<1>2. IInv /\ [Next]_vars => [Separate]_vars
  BY <1>1
<1> QED
  BY Invariant, <1>2, PTL DEF Spec, CheckoutSeparatesPhases

-----------------------------------------------------------------------------
(* What a green run says *)

BaselinesAreBuilt == {"benchmark"} \cup Measuring

\* Nothing to benchmark in l: it has no directory, or its executables are alike.
Settled(l) ==
  \/ l \notin OnDisk("main")
  \/ /\ \A v \in Variant : build[l][v].stage = "valid"
     /\ l \notin push.differs

\* A full check has visited each lab in each phase when the phase ends.
SkipInv ==
  /\ (scope = "all" /\ tree = "main") =>
       \A l \in Listed : (result[l] = READY /\ l \in push.disk["branch"]) =>
         build[l]["solution"].stage = "valid"
  /\ (scope = "all" /\ pc \in BaselinesAreBuilt) =>
       \A l \in Listed \ pending :
         (result[l] = READY /\ (pc \in Measuring => l # cur)) => Settled(l)
  /\ SkippedIsUnchanged

\* A check of one lab has built it when the phase ends.
OneLabInv ==
  /\ pc # "done" => outcome = "running"
  /\ scope = "one" => cur \in Touched /\ ~push.checkAll
  /\ (scope = "one" /\ pc \in {"checkout"} \cup AfterCheckout) => build[cur]["solution"].stage = "valid"
  /\ (scope = "one" /\ pc \in BaselinesAreBuilt) => build[cur]["baseline"].stage = "valid"
  /\ OneLabGreen

VerdictInv == SkipInv /\ OneLabInv

\* Executables of different revisions are alike only if the lab does not differ.
LEMMA AlikeIsUnchanged ==
  ASSUME IInv, NEW l \in Lab, NoChangesToTheBaseline(l),
         \A v \in Variant : build[l][v].stage \in Linked => build[l][v].stage = "valid"
  PROVE  /\ \A v \in Variant : build[l][v].stage = "valid"
         /\ l \notin push.differs
  BY DEF IInv, BuildInv, NoChangesToTheBaseline, HasExecutable

\* The steps that end the process without success or failure, or before the
\* checkout, leave nothing to say.
LEMMA EndVerdict ==
  ASSUME IInv, VerdictInv, pc' = "done", UNCHANGED <<push, scope, tree, pending, cur, result, artefacts>>,
         outcome' \notin {"success", "failure"}
         \/ (outcome' = "failure" /\ (tree = "branch" \/ scope = "one"))
  PROVE  VerdictInv'
  BY DEF IInv, TypeOK, VerdictInv, SkipInv, OneLabInv, SkippedIsUnchanged, OneLabGreen, BaselinesAreBuilt, Measuring,
         AfterCheckout, Touched, artefacts

\* The lab that is checked alone is one that the commit touched.
LEMMA AnalyzeVerdict == ASSUME IInv, IInv', VerdictInv, Analyze PROVE VerdictInv'
<1>1. /\ pc = "analyze" /\ pc' = "build_solution" /\ tree = "branch" /\ tree' = "branch"
      /\ UNCHANGED <<push, outcome>> /\ outcome = "running"
  BY DEF Analyze, ScanFor, IInv, TreeInv, BeforeCheckout, VerdictInv, OneLabInv
<1>2. scope' = "one" => cur' \in Touched' /\ ~push'.checkAll
  <2> SUFFICES ASSUME scope' = "one" PROVE cur' \in Touched /\ ~push.checkAll
    BY <1>1 DEF Touched
  <2>1. PICK lines \in DirstatOutputs : ~ MustCheckAll(lines) /\ cur' = lines[1]
    BY DEF Analyze
  <2>2. PICK n \in 0..MaxLines : lines \in [1..n -> Reported \cup {Elsewhere}]
    BY <2>1 DEF DirstatOutputs
  <2>3. lines \in Seq(Reported \cup {Elsewhere}) /\ Len(lines) = n
    BY <2>2, LinesAssumption
  <2>4. n # 0
    BY <2>1, <2>3 DEF MustCheckAll
  <2>5. lines[1] \in Reported
    BY <2>1, <2>2, <2>4, LinesAssumption DEF MustCheckAll
  <2> QED BY <2>1, <2>5 DEF MustCheckAll, Reported
<1> QED BY <1>1, <1>2 DEF VerdictInv, SkipInv, OneLabInv, SkippedIsUnchanged, OneLabGreen, BaselinesAreBuilt,
             Measuring, AfterCheckout

\* The phases of a full check before its benchmarks: each leaves the labs that
\* are still READY built.
LEMMA BuildActionVerdict ==
  ASSUME IInv, IInv', VerdictInv, NEW l \in Listed, BuildAction(l)
  PROVE  VerdictInv'
<1>1. /\ scope = "all" /\ pc \in {"build_solution", "build_baseline"}
      /\ pc' = pc /\ tree' = tree /\ scope' = scope /\ push' = push
      /\ outcome' = outcome /\ outcome = "running"
  BY PhaseVariant DEF BuildAction, VerdictInv, OneLabInv
<1>2. ASSUME tree = "main", NEW m \in Listed, result'[m] = READY, m \in push.disk["branch"]
      PROVE  build'[m]["solution"].stage = "valid"
  <2>1. pc = "build_baseline" /\ Building[pc] = "baseline"
    BY <1>1, <1>2, PhaseVariant DEF IInv, TreeInv, BeforeCheckout
  <2>2. result[m] = READY
    BY <1>2 DEF BuildAction, BuildSucceeded, IInv, TypeOK
  <2>3. build[m]["solution"].stage = "valid"
    BY <1>1, <1>2, <2>2 DEF VerdictInv, SkipInv
  <2>4. build'[m]["solution"] = build[m]["solution"]
    BY <2>1, BuildLabEffect DEF BuildAction, IInv
  <2> QED BY <2>3, <2>4
<1> QED
  BY <1>1, <1>2 DEF VerdictInv, SkipInv, OneLabInv, SkippedIsUnchanged, OneLabGreen,
                    BaselinesAreBuilt, Measuring, AfterCheckout

\* Checking out the baseline changes no verdict.
LEMMA SolutionsBuiltVerdict ==
  ASSUME IInv, IInv', VerdictInv, SolutionsBuilt \/ CheckoutBaseline
  PROVE  VerdictInv'
<1>1. /\ pc \in {"build_solution", "checkout"} /\ pc' \in {"checkout", "build_baseline"}
      /\ UNCHANGED <<push, scope, cur, result, artefacts, outcome>>
      /\ pc = "build_solution" => scope = "all" /\ tree' = tree
      /\ tree = "branch" /\ outcome = "running"
  BY DEF SolutionsBuilt, CheckoutBaseline, ScanFor, IInv, TreeInv, BeforeCheckout, VerdictInv, OneLabInv
<1>2. ASSUME scope = "all", pc = "checkout", NEW m \in Listed, result[m] = READY, m \in push.disk["branch"]
      PROVE  build[m]["solution"].stage = "valid"
  BY <1>2 DEF IInv, FailureInv
<1>3. SkipInv'
  BY <1>1, <1>2 DEF SkipInv, SkippedIsUnchanged, BaselinesAreBuilt, Measuring, artefacts
<1>4. OneLabInv'
  BY <1>1 DEF VerdictInv, OneLabInv, OneLabGreen, BaselinesAreBuilt, Measuring, AfterCheckout,
              Touched, artefacts
<1> QED BY <1>3, <1>4 DEF VerdictInv

\* The benchmarks visit every lab that main has a directory of.
LEMMA BaselinesBuiltVerdict ==
  ASSUME IInv, IInv', VerdictInv, BaselinesBuilt
  PROVE  VerdictInv'
<1>1. /\ scope = "all" /\ pc = "build_baseline" /\ pc' = "benchmark" /\ tree = "main"
      /\ UNCHANGED <<push, scope, tree, cur, result, artefacts, outcome>>
      /\ pending' = OnDisk("main") \cap Listed
      /\ outcome = "running"
  BY DEF BaselinesBuilt, ScanFor, IInv, TreeInv, AfterCheckout, VerdictInv, OneLabInv
<1>2. ASSUME NEW m \in Listed \ pending' PROVE Settled(m)'
  BY <1>1, <1>2 DEF Settled, OnDisk, artefacts
<1>3. SkipInv'
  BY <1>1, <1>2 DEF VerdictInv, SkipInv, SkippedIsUnchanged, artefacts
<1> QED
  BY <1>1, <1>3 DEF VerdictInv, OneLabInv, OneLabGreen, artefacts

\* Passing over a lab that did not build leaves its verdict.
LEMMA PassOverVerdict ==
  ASSUME IInv, IInv', VerdictInv, NEW l \in Listed, PassOver(l)
  PROVE  VerdictInv'
<1>1. /\ scope = "all" /\ ~(result[l] = READY) /\ pending' = pending \ {l}
      /\ UNCHANGED <<push, pc, scope, tree, cur, result, artefacts, outcome>>
      /\ outcome = "running"
  BY DEF PassOver, Rest, IsReady, VerdictInv, OneLabInv
<1>2. ASSUME NEW m \in Listed PROVE Settled(m)' <=> Settled(m)
  BY <1>1, <1>2 DEF Settled, OnDisk, artefacts
<1>3. SkipInv'
  BY <1>1, <1>2 DEF VerdictInv, SkipInv, SkippedIsUnchanged, artefacts
<1> QED
  BY <1>1, <1>3 DEF VerdictInv, OneLabInv, OneLabGreen, artefacts

\* A lab found unchanged has two valid executables: a full check had put a
\* failed build on record.
LEMMA BenchmarkActionVerdict ==
  ASSUME IInv, IInv', VerdictInv, NEW l \in Listed, BenchmarkAction(l)
  PROVE  VerdictInv'
<1>1. /\ scope = "all" /\ pc = "benchmark" /\ result[l] = READY
      /\ pending' = pending \ {l}
      /\ UNCHANGED <<push, scope, tree, artefacts, outcome>>
      /\ result' = result
      /\ outcome = "running"
      /\ \/ NoChangesToTheBaseline(l) /\ UNCHANGED <<pc, cur>>
         \/ cur' = l /\ pc' = "run_solution"
  BY DEF BenchmarkAction, Rest, IsReady, VerdictInv, OneLabInv, IInv, TypeOK
<1>2. ASSUME NEW m \in Listed PROVE Settled(m)' <=> Settled(m)
  BY <1>1, <1>2 DEF Settled, OnDisk, artefacts
<1>3. NoChangesToTheBaseline(l) => Settled(l)
  <2> SUFFICES ASSUME NoChangesToTheBaseline(l) PROVE Settled(l)
    OBVIOUS
  <2>1. \A v \in Variant : build[l][v].stage \in Linked => build[l][v].stage = "valid"
    BY <1>1 DEF IInv, FailureInv
  <2> QED BY <2>1, AlikeIsUnchanged DEF Settled
<1>4. SkipInv'
  BY <1>1, <1>2, <1>3 DEF VerdictInv, SkipInv, SkippedIsUnchanged, BaselinesAreBuilt, Measuring, artefacts
<1> QED
  BY <1>1, <1>4 DEF VerdictInv, OneLabInv, OneLabGreen, artefacts

\* The check of one lab goes on only if its build was validated.
LEMMA BuildTheLabVerdict ==
  ASSUME IInv, IInv', VerdictInv, BuildTheLab
  PROVE  VerdictInv'
<1>1. /\ scope = "one" /\ pc \in {"build_solution", "build_baseline"} /\ cur \in Lab
      /\ UNCHANGED <<push, scope, tree, pending, cur, result, report, speedup>>
      /\ outcome = "running"
  BY PhaseVariant, OnDiskType DEF BuildTheLab, VerdictInv, OneLabInv, IInv, TypeOK
<1>2. PICK stage \in Stage :
        /\ BuildLab(cur, Building[pc], stage)
        /\ \/ pc' = "done" /\ outcome' = "failure"
           \/ /\ stage = "valid" /\ outcome' = outcome
              /\ pc' = IF pc = "build_solution" THEN "checkout" ELSE "benchmark"
  BY DEF BuildTheLab, BuildSucceeded, Finish
<1>3. Building[pc] \in Variant
  BY <1>1, PhaseVariant
<1>4. /\ build'[cur][Building[pc]].stage = stage
      /\ \A w \in Variant : w # Building[pc] => build'[cur][w] = build[cur][w]
  BY <1>1, <1>2, <1>3, BuildLabEffect DEF IInv
<1>5. SkipInv'
  BY <1>1 DEF SkipInv, SkippedIsUnchanged
<1>6. CASE pc' = "done" /\ outcome' = "failure"
  BY <1>1, <1>6 DEF VerdictInv, OneLabInv, OneLabGreen, BaselinesAreBuilt, Measuring,
                    AfterCheckout, Touched, SkipInv, SkippedIsUnchanged
<1>7. CASE /\ stage = "valid" /\ outcome' = outcome
           /\ pc' = IF pc = "build_solution" THEN "checkout" ELSE "benchmark"
  <2>1. build'[cur]["solution"].stage = "valid"
    BY <1>1, <1>4, <1>7, PhaseVariant DEF VerdictInv, OneLabInv, AfterCheckout
  <2>2. pc' = "benchmark" => build'[cur]["baseline"].stage = "valid"
    BY <1>1, <1>4, <1>7, PhaseVariant
  <2> QED
    BY <1>1, <1>5, <1>7, <2>1, <2>2
       DEF VerdictInv, OneLabInv, OneLabGreen, BaselinesAreBuilt, Measuring, Touched
<1> QED BY <1>2, <1>6, <1>7

\* The only lab has its verdict when the script ends.
LEMMA BenchmarkTheLabVerdict ==
  ASSUME IInv, IInv', VerdictInv, BenchmarkTheLab
  PROVE  VerdictInv'
<1>1. /\ scope = "one" /\ pc = "benchmark" /\ cur \in Lab /\ outcome = "running"
      /\ UNCHANGED <<push, scope, tree, pending, cur, result, artefacts>>
      /\ \/ NoChangesToTheBaseline(cur) /\ pc' = "done" /\ outcome' = "success"
         \/ pc' = "run_solution" /\ outcome' = outcome
  BY DEF BenchmarkTheLab, Finish, VerdictInv, OneLabInv, IInv, TreeInv, AfterCheckout
<1>2. SkipInv'
  BY <1>1 DEF SkipInv, SkippedIsUnchanged
<1>3. \A v \in Variant : build[cur][v].stage = "valid"
  BY <1>1 DEF VerdictInv, OneLabInv, BaselinesAreBuilt, AfterCheckout
<1>4. NoChangesToTheBaseline(cur) => cur \notin push.differs
  BY <1>1, <1>3, AlikeIsUnchanged
<1> QED
  BY <1>1, <1>2, <1>3, <1>4
     DEF VerdictInv, OneLabInv, OneLabGreen, BaselinesAreBuilt, Measuring, AfterCheckout,
         Touched, artefacts

\* A measurement gives no verdict.
LEMMA BenchmarkSolutionOrBaselineVerdict ==
  ASSUME IInv, IInv', VerdictInv, BenchmarkSolutionOrBaseline
  PROVE  VerdictInv'
<1>1. /\ pc \in {"run_solution", "run_baseline"} /\ pc' \in Measuring
      /\ UNCHANGED <<push, scope, tree, pending, cur, build, result, speedup, outcome>>
      /\ outcome = "running"
  BY PhaseVariant DEF BenchmarkSolutionOrBaseline, Measuring, VerdictInv, OneLabInv
<1>2. ASSUME NEW m \in Listed PROVE Settled(m)' <=> Settled(m)
  BY <1>1, <1>2 DEF Settled, OnDisk
<1>3. SkipInv'
  BY <1>1, <1>2 DEF VerdictInv, SkipInv, SkippedIsUnchanged, BaselinesAreBuilt, Measuring
<1> QED
  BY <1>1, <1>3 DEF VerdictInv, OneLabInv, OneLabGreen, BaselinesAreBuilt, Measuring, AfterCheckout, Touched

\* A measurement settles its lab: in a full check by a result, otherwise by the
\* end of the script.
LEMMA BenchmarkLabVerdict ==
  ASSUME IInv, IInv', VerdictInv, BenchmarkLab
  PROVE  VerdictInv'
<1>1. /\ pc = "compare" /\ cur \in Lab /\ outcome = "running" /\ scope \in {"all", "one"}
      /\ UNCHANGED <<push, scope, tree, pending, build, report>>
  BY DEF BenchmarkLab, VerdictInv, OneLabInv, IInv, TreeInv, MeasuringInv, Measuring
<1>2. CASE scope = "all"
  <2>1. /\ cur \in Listed /\ pc' = "benchmark" /\ outcome' = outcome /\ scope' = "all"
        /\ result'[cur] # READY
        /\ \A m \in Listed : m # cur => result'[m] = result[m]
    BY <1>1, <1>2 DEF BenchmarkLab, IInv, TypeOK, MeasuringInv, Measuring
  <2>2. ASSUME NEW m \in Listed PROVE Settled(m)' <=> Settled(m)
    BY <1>1, <2>2 DEF Settled, OnDisk
  <2>3. SkipInv'
    BY <1>1, <1>2, <2>1, <2>2
       DEF VerdictInv, SkipInv, SkippedIsUnchanged, BaselinesAreBuilt, Measuring
  <2> QED
    BY <1>1, <1>2, <2>1, <2>3 DEF VerdictInv, OneLabInv, OneLabGreen
<1>3. CASE scope = "one"
  <2>1. SkipInv'
    BY <1>1, <1>3 DEF SkipInv, SkippedIsUnchanged
  <2>2. PICK s \in Speedups :
          /\ speedup' = [speedup EXCEPT ![cur] = s]
          /\ pc' = "done" /\ cur' = cur
          /\ outcome' = IF Similar(s) \/ s < 0 THEN "failure"
                        ELSE IF cur \notin Listed THEN "exception"
                        ELSE IF s < Threshold[cur] THEN "failure" ELSE "success"
    BY <1>3 DEF BenchmarkLab, Finish
  <2>3. speedup'[cur] = s /\ s \in Int
    BY <1>1, <2>2 DEF IInv, TypeOK
  <2>4. outcome' = "success" => cur \in Listed /\ s >= 2 /\ s >= Threshold[cur]
    BY <2>2, <2>3 DEF Similar
  <2>5. \A v \in Variant : build[cur][v].stage = "valid"
    BY <1>1, <1>3 DEF VerdictInv, OneLabInv, BaselinesAreBuilt, Measuring, AfterCheckout
  <2>6. /\ outcome' # "running" /\ cur \in Touched /\ ~push.checkAll
    BY <1>1, <1>3, <2>2 DEF VerdictInv, OneLabInv
  <2> QED
    BY <1>1, <1>3, <2>1, <2>2, <2>3, <2>4, <2>5, <2>6
       DEF VerdictInv, OneLabInv, OneLabGreen, BaselinesAreBuilt, Measuring, AfterCheckout, Touched
<1> QED BY <1>1, <1>2, <1>3

\* The summary finds no lab left to visit.
LEMMA SummaryVerdict ==
  ASSUME IInv, IInv', VerdictInv, Summary
  PROVE  VerdictInv'
<1>1. /\ scope = "all" /\ pc = "benchmark" /\ pending = {} /\ tree = "main"
      /\ pc' = "done" /\ outcome' \in {"success", "failure"}
      /\ UNCHANGED <<push, scope, tree, pending, cur, result, artefacts>>
  BY DEF Summary, Finish, IInv, TreeInv, AfterCheckout
<1>2. ASSUME NEW l \in Listed, result[l] = "SKIPPED"
      PROVE  \/ \A rev \in Rev : l \notin push.disk[rev]
             \/ /\ \A v \in Variant : build[l][v].stage = "valid"
                /\ l \notin push.differs
  <2>1. Settled(l)
    BY <1>1, <1>2 DEF VerdictInv, SkipInv, BaselinesAreBuilt, Measuring
  <2>2. l \in push.disk["branch"] => build[l]["solution"].stage = "valid"
    BY <1>1, <1>2 DEF VerdictInv, SkipInv
  <2> QED BY <2>1, <2>2 DEF Settled, OnDisk
<1>3. SkipInv'
  BY <1>1, <1>2 DEF VerdictInv, SkipInv, SkippedIsUnchanged, BaselinesAreBuilt, Measuring, artefacts
<1> QED
  BY <1>1, <1>3 DEF VerdictInv, OneLabInv, OneLabGreen

\* No verdict at the start.
LEMMA InitVerdict == Init => VerdictInv
  BY DEF Init, VerdictInv, SkipInv, OneLabInv, SkippedIsUnchanged, OneLabGreen,
         BaselinesAreBuilt, Measuring, AfterCheckout

\* Every step keeps the verdicts true.
LEMMA NextVerdict ==
  ASSUME IInv, IInv', VerdictInv, [Next]_vars
  PROVE  VerdictInv'
<1>1. CASE AnalyzeFails \/ CheckoutFails \/ TheLabIsGone \/ LoadFails
           \/ NothingInCommon \/ Kill
  BY <1>1, EndVerdict
     DEF AnalyzeFails, CheckoutFails, TheLabIsGone, LoadFails, NothingInCommon, Kill,
         Finish, IInv, TreeInv, BeforeCheckout
<1>2. ASSUME NEW l \in Listed, BuildAction(l) \/ PassOver(l) \/ BenchmarkAction(l)
      PROVE  VerdictInv'
  BY <1>2, BuildActionVerdict, PassOverVerdict, BenchmarkActionVerdict
<1>3. CASE UNCHANGED vars
  <2>1. \A l \in Listed : Settled(l)' <=> Settled(l)
    BY <1>3 DEF Settled, OnDisk, vars
  <2> QED
    BY <1>3, <2>1 DEF VerdictInv, SkipInv, OneLabInv, SkippedIsUnchanged, OneLabGreen,
                      BaselinesAreBuilt, Touched, vars
<1> QED
  BY <1>1, <1>2, <1>3, AnalyzeVerdict, SolutionsBuiltVerdict, BaselinesBuiltVerdict,
     BuildTheLabVerdict, BenchmarkTheLabVerdict, BenchmarkSolutionOrBaselineVerdict,
     BenchmarkLabVerdict, SummaryVerdict
     DEF Next, Step, Terminated

\* In the report of a full check, SKIPPED means that there was nothing to check,
\* although the script uses the same value for a lab it has yet to visit.
THEOREM SkippedIsSound == Spec => []SkippedIsUnchanged
<1>1. IInv /\ IInv' /\ VerdictInv /\ [Next]_vars => VerdictInv'
  BY NextVerdict
<1>2. VerdictInv => SkippedIsUnchanged
  BY DEF VerdictInv, SkipInv
<1> QED
  BY Invariant, InitVerdict, <1>1, <1>2, PTL DEF Spec

\* A green check of one lab vouches for a lab that the commit touched: it was
\* validated at both revisions, and it is unchanged or fast enough.
THEOREM GreenIsEarned == Spec => []OneLabGreen
<1>1. IInv /\ IInv' /\ VerdictInv /\ [Next]_vars => VerdictInv'
  BY NextVerdict
<1>2. VerdictInv => OneLabGreen
  BY DEF VerdictInv, OneLabInv
<1> QED
  BY Invariant, InitVerdict, <1>1, <1>2, PTL DEF Spec
=============================================================================
