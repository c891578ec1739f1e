------------------------------- MODULE RunCI -------------------------------
(***************************************************************************)
(* The continuous-integration driver, buildbot/runCI.py.  A push is        *)
(* checked by one run of the script on a runner whose working tree holds   *)
(* the pushed branch: it decides from the last commit which labs to check, *)
(* builds their solutions, checks out main, builds the baselines and       *)
(* benchmarks every pair of executables that differ.                       *)
(*                                                                         *)
(* A compiler, a test program or a benchmark may fail at any call, and the *)
(* job may be killed by the workflow's timeout between any two of them.    *)
(***************************************************************************)
EXTENDS Integers, Sequences, FiniteSets, Functions, TLC

CONSTANTS
  Listed,      \* the labs in the runner's table Labs
  Unlisted,    \* lab directories the table leaves out
  Elsewhere,   \* stands for a directory that is not inside a lab
  Threshold,   \* pass threshold of each listed lab, in percent
  Speedups,    \* the speedups a comparison can come to, in percent
  Pushes,      \* the pushes under study, see PushType
  MaxLines,    \* the longest --dirstat output under study
  None         \* no revision, no lab, no speedup

Lab       == Listed \cup Unlisted
Rev       == {"branch", "main"}
Variant   == {"solution", "baseline"}
Scored    == {"SKIPPED", "BUILD_FAILED", "BENCH_FAILED", "PASSED"}
READY     == "SKIPPED"          \* an Enum alias: READY *is* SKIPPED

\* How far buildAndValidate got in a build directory.
Stage     == {"absent", "directory", "executable", "valid"}
Linked    == {"executable", "valid"}
BuildType == [stage : Stage, from : Rev \cup {None}]

\* result.json of a build directory and the revision it measured.
ReportType == [kind : {"absent", "broken", "complete"}, of : Rev \cup {None}]

\* What the script is given: the commit (message flag and how much it changed
\* in each directory), the labs that exist at each revision, and the labs
\* whose executables differ between the two.
PushType  == [checkAll : BOOLEAN, changes : [Lab \cup {Elsewhere} -> Nat],
              disk : [Rev -> SUBSET Lab], differs : SUBSET Lab]

ASSUME LabAssumption ==
  /\ Listed \cap Unlisted = {}
  /\ Elsewhere \notin Lab
  /\ None \notin Lab \cup Rev \cup Int \cup {"all", "one"}
ASSUME ScoreAssumption ==
  /\ Threshold \in [Listed -> Int]
  /\ Speedups \subseteq Int
ASSUME PushAssumption == Pushes \subseteq PushType
ASSUME LinesAssumption == MaxLines \in Nat

VARIABLES
  push,      \* the input, fixed during a run
  pc,        \* where the script is
  scope,     \* "all" once checkAll is set, "one" for a single lab
  tree,      \* the revision git has checked out
  pending,   \* labs a directory listing still has to visit
  cur,       \* the lab being handled, None outside
  build,     \* the build directories
  report,    \* their result.json
  result,    \* Labs[category][name].result
  speedup,   \* the speedup measured for a lab
  outcome    \* how the process ended

vars == <<push, pc, scope, tree, pending, cur, build, report, result, speedup, outcome>>
artefacts == <<build, report, speedup>>

Outcomes == {"running", "success", "failure", "exception", "killed"}
Labels == {"analyze", "build_solution", "checkout", "build_baseline",
           "benchmark", "run_solution", "run_baseline", "compare", "done"}

TypeOK ==
  /\ push \in Pushes
  /\ pc \in Labels
  /\ scope \in {None, "all", "one"}
  /\ tree \in Rev
  /\ pending \subseteq Lab
  /\ cur \in Lab \cup {None}
  /\ build \in [Lab -> [Variant -> BuildType]]
  /\ report \in [Lab -> [Variant -> ReportType]]
  /\ result \in [Listed -> Scored]
  /\ speedup \in [Lab -> Speedups \cup {None}]
  /\ outcome \in Outcomes

Init ==
  /\ push \in Pushes
  /\ pc = "analyze"
  /\ scope = None
  /\ tree = "branch"
  /\ pending = {}
  /\ cur = None
  /\ build = [l \in Lab |-> [v \in Variant |-> [stage |-> "absent", from |-> None]]]
  /\ report = [l \in Lab |-> [v \in Variant |-> [kind |-> "absent", of |-> None]]]
  /\ result = [l \in Listed |-> READY]
  /\ speedup = [l \in Lab |-> None]
  /\ outcome = "running"

-----------------------------------------------------------------------------
(* Ending the process: sys.exit, or an exception nobody catches. *)

Finish(how) ==
  /\ pc' = "done"
  /\ outcome' = how

Kill ==
  /\ pc # "done"
  /\ Finish("killed")
  /\ UNCHANGED <<push, scope, tree, pending, cur, result, artefacts>>

-----------------------------------------------------------------------------
(* Which labs to check.                                                    *)

Touched == {d \in DOMAIN push.changes : push.changes[d] > 0}

\* git lists a directory with at least 3% of the commit's changes, in the
\* order of the paths, a lab once for each of its directories that has so
\* many; a parent of several directories may be listed as well.
Reported ==
  LET total == SumFunction(push.changes)
  IN  {d \in Touched : push.changes[d] * 1000 >= 30 * total}

DirstatOutputs ==
  {s \in UNION {[1..n -> Reported \cup {Elsewhere}] : n \in 0..MaxLines} :
     /\ Reported \subseteq Range(s)
     /\ Touched = {} => s = <<>>}

ChangedMultipleLabs(lines) ==
  /\ lines[1] \in Lab
  /\ \E i \in 2..Len(lines) : lines[i] \in Lab /\ lines[i] # lines[1]

\* Mutant: the first directory is taken for a lab without matching it.
AnyPathIsALab(lines) ==
  push.checkAll \/ lines = <<>> \/ ChangedMultipleLabs(lines)

MustCheckAll(lines) ==
  \/ push.checkAll
  \/ lines = <<>>
  \/ ChangedMultipleLabs(lines)
  \/ lines[1] \notin Lab

\* os.listdir: the labs of the revision checked out, and those whose untracked
\* build directory kept the directory alive through the checkout.
OnDisk(rev) ==
  push.disk[rev] \cup {l \in Lab : \E v \in Variant : build[l][v].stage # "absent"}

\* Entering runActionForAllLabs with an action.
ScanFor(label, rev) ==
  /\ pc' = label
  /\ pending' = OnDisk(rev) \cap Listed

Analyze ==
  /\ pc = "analyze"
  /\ \E lines \in DirstatOutputs :
       IF MustCheckAll(lines)
       THEN /\ scope' = "all"
            /\ ScanFor("build_solution", tree)
            /\ UNCHANGED cur
       ELSE /\ scope' = "one"
            /\ cur' = lines[1]
            /\ pc' = "build_solution"
            /\ UNCHANGED pending
  /\ UNCHANGED <<push, tree, result, artefacts, outcome>>

AnalyzeFails ==
  /\ pc = "analyze"
  /\ Finish("failure")
  /\ UNCHANGED <<push, scope, tree, pending, cur, result, artefacts>>

-----------------------------------------------------------------------------
(* Building and validating (buildAndValidate, buildLab).                   *)

\* The stages a build of lab l from revision rev may stop at.  Without the
\* lab's CMakeLists.txt it stops at the directory.
BuildOutcomes(l, rev) ==
  IF l \in push.disk[rev] THEN Stage ELSE {"absent", "directory"}

\* buildLab(l, v), reaching a stage; the sources are those checked out.
BuildLab(l, v, stage) ==
  /\ stage \in BuildOutcomes(l, tree)
  /\ build' = [build EXCEPT ![l][v] =
                 [stage |-> stage,
                  from |-> IF stage \in Linked THEN tree ELSE None]]

\* Mutant: the result of validateLab is ignored.
LinkingSuffices(stage) == stage \in Linked

BuildSucceeded(stage) == stage = "valid"

\* Mutants: a lab is visited whatever its status; a visited lab stays.
AnyStatus(l)  == TRUE
VisitAgain(l) == pending

\* runActionForAllLabs calls its action for READY labs, each lab once.
IsReady(l) == result[l] = READY
Rest(l)    == pending \ {l}

\* The variant a labelled building phase is about.
Building == [build_solution |-> "solution", build_baseline |-> "baseline"]

\* One lab of runActionForAllLabs(buildSolutionAction / buildBaselineAction).
BuildAction(l) ==
  /\ pc \in DOMAIN Building
  /\ scope = "all"
  /\ l \in pending
  /\ IsReady(l)
  /\ pending' = Rest(l)
  /\ \E stage \in Stage :
       /\ BuildLab(l, Building[pc], stage)
       /\ result' = IF BuildSucceeded(stage) THEN result
                    ELSE [result EXCEPT ![l] = "BUILD_FAILED"]
  /\ UNCHANGED <<push, pc, scope, tree, cur, report, speedup, outcome>>

\* runActionForAllLabs passes over a lab that is no longer READY.
PassOver(l) ==
  /\ pc \in {"build_baseline", "benchmark"}
  /\ scope = "all"
  /\ l \in pending
  /\ ~IsReady(l)
  /\ pending' = Rest(l)
  /\ UNCHANGED <<push, pc, scope, tree, cur, result, artefacts, outcome>>

SolutionsBuilt ==
  /\ pc = "build_solution"
  /\ scope = "all"
  /\ pending = {}
  /\ pc' = "checkout"
  /\ UNCHANGED <<push, scope, tree, pending, cur, result, artefacts, outcome>>

BaselinesBuilt ==
  /\ pc = "build_baseline"
  /\ scope = "all"
  /\ pending = {}
  /\ ScanFor("benchmark", tree)
  /\ UNCHANGED <<push, scope, tree, cur, result, artefacts, outcome>>

\* The script's only lab: a failed build ends the script, and os.chdir raises
\* when the commit removed the lab's directory.
BuildTheLab ==
  /\ pc \in DOMAIN Building
  /\ scope = "one"
  /\ cur \in OnDisk(tree)
  /\ \E stage \in Stage :
       /\ BuildLab(cur, Building[pc], stage)
       /\ IF ~BuildSucceeded(stage)
          THEN Finish("failure")
          ELSE /\ pc' = IF pc = "build_solution" THEN "checkout" ELSE "benchmark"
               /\ UNCHANGED outcome
  /\ UNCHANGED <<push, scope, tree, pending, cur, result, report, speedup>>

TheLabIsGone ==
  /\ pc \in DOMAIN Building
  /\ scope = "one"
  /\ cur \notin OnDisk(tree)
  /\ Finish("exception")
  /\ UNCHANGED <<push, scope, tree, pending, cur, result, artefacts>>

\* git checkout main
CheckoutBaseline ==
  /\ pc = "checkout"
  /\ tree' = "main"
  /\ IF scope = "all"
     THEN ScanFor("build_baseline", "main")
     ELSE pc' = "build_baseline" /\ UNCHANGED pending
  /\ UNCHANGED <<push, scope, cur, result, artefacts, outcome>>

CheckoutFails ==
  /\ pc = "checkout"
  /\ Finish("failure")
  /\ UNCHANGED <<push, scope, tree, pending, cur, result, artefacts>>

-----------------------------------------------------------------------------
(* Comparing the two executables and benchmarking them.                    *)

HasExecutable(l, v) == build[l][v].stage \in Linked

\* Mutant: two files that cannot be read are alike.
NothingToTellApart(l) == l \notin push.differs

\* cmp succeeds: both files exist and are equal.  Builds are reproducible.
NoChangesToTheBaseline(l) ==
  /\ \A v \in Variant : HasExecutable(l, v)
  /\ \/ build[l]["solution"].from = build[l]["baseline"].from
     \/ l \notin push.differs

\* benchmarkAction, up to its call of benchmarkLab.
BenchmarkAction(l) ==
  /\ pc = "benchmark"
  /\ scope = "all"
  /\ l \in pending
  /\ IsReady(l)
  /\ pending' = Rest(l)
  /\ IF NoChangesToTheBaseline(l)
     THEN /\ result' = [result EXCEPT ![l] = "SKIPPED"]
          /\ UNCHANGED <<pc, cur>>
     ELSE /\ cur' = l
          /\ pc' = "run_solution"
          /\ UNCHANGED result
  /\ UNCHANGED <<push, scope, tree, artefacts, outcome>>

BenchmarkTheLab ==
  /\ pc = "benchmark"
  /\ scope = "one"
  /\ IF NoChangesToTheBaseline(cur)
     THEN Finish("success")
     ELSE pc' = "run_solution" /\ UNCHANGED outcome
  /\ UNCHANGED <<push, scope, tree, pending, cur, result, artefacts>>

Running == [run_solution |-> "solution", run_baseline |-> "baseline"]

\* Mutant: the target depends on the executable, which the checkout outdated.
RebuiltFirst(l, v) == tree

\* The CI targets have no dependencies: the executable that runs is the one
\* that was built, whatever is checked out.
RevisionMeasured(l, v) == build[l][v].from

\* benchmarkSolutionOrBaseline: the target runs the executable of the build
\* directory and does not rebuild it.  The caller ignores a failure, which may
\* leave no result.json, a part of one or all of it.
BenchmarkSolutionOrBaseline ==
  /\ pc \in DOMAIN Running
  /\ LET v == Running[pc] IN
     \E kind \in IF HasExecutable(cur, v)
                 THEN {"absent", "broken", "complete"} ELSE {"absent"} :
       report' = [report EXCEPT ![cur][v] =
                    [kind |-> kind, of |-> RevisionMeasured(cur, v)]]
  /\ pc' = IF pc = "run_solution" THEN "run_baseline" ELSE "compare"
  /\ UNCHANGED <<push, scope, tree, pending, cur, build, result, speedup, outcome>>

BothReports == \A v \in Variant : report[cur][v].kind = "complete"

\* open() raises for a missing file, and the except clause for a malformed one
\* names an undefined JSONDecodeError, so it raises too.
LoadFails ==
  /\ pc = "compare"
  /\ ~BothReports
  /\ Finish("exception")
  /\ UNCHANGED <<push, scope, tree, pending, cur, result, artefacts>>

\* statistics.mean raises when the reports have no benchmark in common.
NothingInCommon ==
  /\ pc = "compare"
  /\ BothReports
  /\ Finish("exception")
  /\ UNCHANGED <<push, scope, tree, pending, cur, result, artefacts>>

Similar(s) == -2 < s /\ s < 2

\* Mutant: faster is fast enough.
Faster(l, s) == ~Similar(s) /\ s >= 0

FastEnough(l, s) == ~Similar(s) /\ s >= 0 /\ s >= Threshold[l]

\* The verdict of benchmarkLab on the lab, from a measured speedup.  The
\* threshold of a lab that is not in the table raises KeyError.
BenchmarkLab ==
  /\ pc = "compare"
  /\ BothReports
  /\ \E s \in Speedups :
       /\ speedup' = [speedup EXCEPT ![cur] = s]
       /\ \/ /\ scope = "all"
             /\ result' = [result EXCEPT ![cur] =
                             IF FastEnough(cur, s) THEN "PASSED" ELSE "BENCH_FAILED"]
             /\ pc' = "benchmark"
             /\ cur' = None
             /\ UNCHANGED outcome
          \/ /\ scope = "one"
             /\ Finish(IF Similar(s) \/ s < 0 THEN "failure"
                       ELSE IF cur \notin Listed THEN "exception"
                       ELSE IF s < Threshold[cur] THEN "failure" ELSE "success")
             /\ UNCHANGED <<result, cur>>
  /\ UNCHANGED <<push, scope, tree, pending, build, report>>

-----------------------------------------------------------------------------
(* The summary of a full check.                                            *)

AllSkipped == \A l \in Listed : result[l] = "SKIPPED"
SomePassed == \E l \in Listed : result[l] = "PASSED"

Summary ==
  /\ pc = "benchmark"
  /\ scope = "all"
  /\ pending = {}
  /\ Finish(IF SomePassed \/ AllSkipped THEN "success" ELSE "failure")
  /\ UNCHANGED <<push, scope, tree, pending, cur, result, artefacts>>

-----------------------------------------------------------------------------
Step ==
  \/ Analyze \/ AnalyzeFails
  \/ \E l \in Listed : BuildAction(l) \/ PassOver(l) \/ BenchmarkAction(l)
  \/ SolutionsBuilt \/ BaselinesBuilt
  \/ BuildTheLab \/ TheLabIsGone
  \/ CheckoutBaseline \/ CheckoutFails
  \/ BenchmarkTheLab \/ BenchmarkSolutionOrBaseline
  \/ LoadFails \/ NothingInCommon \/ BenchmarkLab
  \/ Summary

\* The process has ended.
Terminated == pc = "done" /\ UNCHANGED vars

Next == Step \/ Kill \/ Terminated

\* Every call of the script returns, unless the job is killed.
Spec == Init /\ [][Next]_vars
FairSpec == Spec /\ WF_vars(Step)

-----------------------------------------------------------------------------
(* Properties *)

\* A benchmark measures a validated executable of the right revision: the
\* solution as pushed although main is checked out by then, and the baseline
\* as it is on main.
MeasuredAsBuilt ==
  \A l \in Lab, v \in Variant :
    report[l][v].kind # "absent" =>
      /\ build[l][v].stage = "valid"
      /\ report[l][v].of = IF v = "solution" THEN "branch" ELSE "main"

\* PASSED is earned: both executables were validated, they differ, both were
\* measured, and the speedup is beyond the noise and the lab's threshold.
PassedIsEarned ==
  \A l \in Listed : result[l] = "PASSED" =>
    /\ \A v \in Variant :
         build[l][v].stage = "valid" /\ report[l][v].kind = "complete"
    /\ l \in push.differs
    /\ speedup[l] >= 2 /\ speedup[l] >= Threshold[l]

\* The summary prints "Skipped" for SKIPPED, which is also READY.  When a full
\* check ends by its summary, a lab reported so has nothing to check: it is at
\* neither revision, or both its executables are valid and identical.
SkippedIsUnchanged ==
  (scope = "all" /\ tree = "main" /\ outcome \in {"success", "failure"}) =>
    \A l \in Listed : result[l] = "SKIPPED" =>
      \/ \A rev \in Rev : l \notin push.disk[rev]
      \/ /\ \A v \in Variant : build[l][v].stage = "valid"
         /\ l \notin push.differs

\* A green run that checked one lab checked a lab the commit touched, and that
\* lab builds and validates at both revisions and is unchanged or fast enough.
OneLabGreen ==
  (scope = "one" /\ outcome = "success") =>
    /\ cur \in Touched /\ ~push.checkAll
    /\ \A v \in Variant : build[cur][v].stage = "valid"
    /\ \/ cur \notin push.differs
       \/ /\ cur \in Listed
          /\ speedup[cur] >= 2 /\ speedup[cur] >= Threshold[cur]

\* A lab that failed to build is not benchmarked later, and no later phase
\* changes a verdict: once it has left READY, a lab's result is final.
VerdictIsFinal ==
  [][\A l \in Listed : result[l] # READY => result'[l] = result[l]]_vars

\* The sources change under the build directories once only, from the pushed
\* branch to main, and then no lab is half built: every verdict but a failed
\* build is given after it.
CheckoutSeparatesPhases ==
  [][tree' # tree =>
       /\ tree = "branch"
       /\ \A l \in Listed :
            /\ result[l] \in {READY, "BUILD_FAILED"}
            /\ build[l]["baseline"].stage = "absent"
            /\ (scope = "all" /\ result[l] = READY /\ l \in push.disk["branch"])
                 => build[l]["solution"].stage = "valid"]_vars

\* The script ends, whatever the builds and the benchmarks do.
Terminates == <>(pc = "done")

\* "Error while loading solution's result.json file. Submission for the lab
\* ... failed." (and the same for the baseline): a malformed result.json is a
\* failure of its lab, not the end of the script.
MalformedReportFailsItsLab ==
  outcome = "exception" =>
    ~ /\ cur \in Lab
      /\ \/ report[cur]["solution"].kind = "broken"
         \/ /\ report[cur]["solution"].kind = "complete"
            /\ report[cur]["baseline"].kind = "broken"

---------------------------------------------------------------------------
(* An instance for TLC: two listed labs and one the table leaves out. *)

CONSTANTS a, b, u, elsewhere

MCListed == {a, b}
MCUnlisted == {u}
MCThreshold == a :> 10 @@ b :> 60

\* Around every limit benchmarkLab compares with.
MCSpeedups == {-5, -1, 1, 2, 9, 10, 60}

At(branch, main) == [branch |-> branch, main |-> main]

\* Changes of a commit that touches some directories: a little (less than 3%
\* of the total) or much.
Changes(little, much) ==
  [d \in Lab \cup {elsewhere} |->
     IF d \in much THEN 50 ELSE IF d \in little THEN 1 ELSE 0]

\* A full check: any of the labs may be missing at a revision.
FullPushes ==
  {[checkAll |-> TRUE, changes |-> Changes({}, {a}), disk |-> d, differs |-> x] :
     d \in {At({a, b, u}, {a, b, u}), At({a, u}, {a, b}), At({a, b}, {b})},
     x \in SUBSET {a, b}}

\* The commit decides; each lab at either revision, changed or not.
CommitPushes ==
  {[checkAll |-> c, changes |-> t, disk |-> At(d, m), differs |-> x] :
     c \in BOOLEAN,
     t \in {Changes(s[1], s[2]) :
              s \in {<<{}, {}>>, <<{}, {a}>>, <<{}, {u}>>, <<{}, {elsewhere}>>,
                     <<{u}, {a}>>, <<{}, {a, u}>>, <<{elsewhere}, {a}>>}},
     d \in {{a, u}, {b}}, m \in {{a, u}, {b}}, x \in SUBSET {a, u}}

MCPushes == FullPushes \cup CommitPushes
=============================================================================
