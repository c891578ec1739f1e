---------------------------- MODULE CheckSpeedup ----------------------------
(***************************************************************************)
(* tools/check_speedup.py: builds and runs the baseline and the solution   *)
(* of a lab num_runs times each, every time in a build directory of its    *)
(* own, and then compares the reports pairwise.  The directories stay      *)
(* where they are and are found again by the next call of the script,      *)
(* whatever became of this one.                                            *)
(***************************************************************************)
EXTENDS Integers, Sequences, TLAPS

CONSTANTS
  MaxRuns,    \* the largest num_runs
  MaxCalls,   \* bound on the calls of the script
  None,       \* no such file
  Broken      \* a result.json that is not complete

ASSUME MaxRunsAssumption == MaxRuns \in Nat \ {0}
ASSUME MaxCallsAssumption == MaxCalls \in Nat

Variants   == {"baseline", "solution"}
Runs == 0..MaxRuns - 1

\* A measurement is known by the call, the iteration and the variant it is of;
\* so is the executable that is measured.
Stamps == [call : 1..MaxCalls, iter : Runs, variant : Variants]

ASSUME NoneAssumption   == None \notin Stamps
ASSUME BrokenAssumption == Broken \notin Stamps

\* A build directory: the executables in it, whether validate accepted them,
\* and result.json.
Directories == [exists : BOOLEAN, exe : Stamps \cup {None}, valid : BOOLEAN,
                report : Stamps \cup {None, Broken}]

VARIABLES
  call,      \* calls of the script so far
  stage,     \* the call the script is at, or how it ended
  numRuns,
  iteration, \* i of either loop
  variant,
  dir,       \* the build directories, by variant and iteration
  compared   \* the pairs of reports whose comparison this call has printed

checkVars == <<call, stage, numRuns, iteration, variant, dir, compared>>

Calls  == {"make", "configure", "build", "validate", "benchmark"}
Ended  == {"done", "raised", "killed"}
Stages == Calls \cup Ended \cup {"remove", "compare"}

CheckTypeOK ==
  /\ call \in 0..MaxCalls
  /\ stage \in Stages
  /\ numRuns \in 1..MaxRuns
  /\ iteration \in Runs
  /\ variant \in Variants
  /\ dir \in [Variants -> [Runs -> Directories]]
  /\ compared \in Seq([baseline : Stamps, solution : Stamps])

Absent == [exists |-> FALSE, exe |-> None, valid |-> FALSE, report |-> None]

CheckInit ==
  /\ call = 0
  /\ stage = "done"
  /\ numRuns = 1
  /\ iteration = 0
  /\ variant = "baseline"
  /\ dir = [v \in Variants |-> [n \in Runs |-> Absent]]
  /\ compared = <<>>

\* The script is called, with a num_runs of its own.
Start ==
  /\ stage \in Ended
  /\ call < MaxCalls
  /\ call' = call + 1
  /\ stage' = "remove"
  /\ numRuns' \in 1..MaxRuns
  /\ iteration' = 0
  /\ variant' = "baseline"
  /\ compared' = <<>>
  /\ UNCHANGED dir

-----------------------------------------------------------------------------
(* buildAndRunBench *)

Here == dir[variant][iteration]
Stamp == [call |-> call, iter |-> iteration, variant |-> variant]

LeaveHere(d) == dir' = [dir EXCEPT ![variant][iteration] = d]

\* Mutant: directories of earlier calls are kept.
Kept(d) == d

Emptied(d) == Absent

\* The current directory once the call at stage has succeeded.
After ==
  CASE stage = "remove"    -> Emptied(Here)
    [] stage = "make"      -> [Here EXCEPT !.exists = TRUE]
    [] stage = "build"     -> [Here EXCEPT !.exe = Stamp, !.valid = FALSE]
    [] stage = "validate"  -> [Here EXCEPT !.valid = TRUE]
    [] stage = "benchmark" -> [Here EXCEPT !.report = Here.exe]
    [] OTHER               -> Here

\* What a call that fails, or is cut short, can leave behind: rmtree some of the
\* files, the build no executables or new ones, the benchmark any report.
Leftovers ==
  CASE stage = "remove"    -> {Here, [Here EXCEPT !.exe = None],
                               [Here EXCEPT !.report = None],
                               [Here EXCEPT !.exe = None, !.report = None]}
    [] stage = "build"     -> {[Here EXCEPT !.exe = e, !.valid = FALSE] :
                                 e \in {Here.exe, None, Stamp}}
    [] stage = "benchmark" -> {[Here EXCEPT !.report = r] :
                                 r \in {Here.report, Broken, Here.exe}}
    [] OTHER               -> {Here}

LastIteration == iteration = numRuns - 1

\* On to the solution of this iteration, to the next iteration or to the
\* comparisons.  Whether buildAndRunBench returned True is not looked at.
NextRun ==
  IF variant = "baseline"
  THEN /\ variant' = "solution"
       /\ stage' = "remove"
       /\ UNCHANGED iteration
  ELSE /\ variant' = "baseline"
       /\ IF LastIteration
          THEN stage' = "compare" /\ iteration' = 0
          ELSE stage' = "remove"  /\ iteration' = iteration + 1

Following == [remove |-> "make", make |-> "configure", configure |-> "build",
              build |-> "validate", validate |-> "benchmark"]

Succeed ==
  /\ stage \in Calls \cup {"remove"}
  /\ LeaveHere(After)
  /\ IF stage = "benchmark"
     THEN NextRun
     ELSE stage' = Following[stage] /\ UNCHANGED <<iteration, variant>>
  /\ UNCHANGED <<call, numRuns, compared>>

\* Mutant: a failed validation is reported only.
CarryOn ==
  IF stage = "validate"
  THEN stage' = "benchmark" /\ UNCHANGED <<iteration, variant>>
  ELSE NextRun

\* The except clause: it catches everything, an interrupt from the keyboard too.
GiveUp == NextRun

Fail ==
  /\ stage \in Calls
  /\ \E d \in Leftovers : LeaveHere(d)
  /\ GiveUp
  /\ UNCHANGED <<call, numRuns, compared>>

\* rmtree is outside of the try block: its exception ends the script.
RemoveFails ==
  /\ stage = "remove"
  /\ Here.exists
  /\ \E d \in Leftovers : LeaveHere(d)
  /\ stage' = "raised"
  /\ UNCHANGED <<call, numRuns, iteration, variant, compared>>

-----------------------------------------------------------------------------
(* compareResults, and the end *)

Reports == [baseline |-> dir["baseline"][iteration].report,
            solution |-> dir["solution"][iteration].report]

\* load_benchmark_results raises for a file that is missing or not complete.
CompareFails ==
  /\ stage = "compare"
  /\ \E v \in Variants : Reports[v] \in {None, Broken}
  /\ stage' = "raised"
  /\ UNCHANGED <<call, numRuns, iteration, variant, dir, compared>>

CompareResults ==
  /\ stage = "compare"
  /\ \A v \in Variants : Reports[v] \notin {None, Broken}
  /\ compared' = Append(compared, Reports)
  /\ IF LastIteration
     THEN stage' = "done" /\ UNCHANGED iteration
     ELSE iteration' = iteration + 1 /\ UNCHANGED stage
  /\ UNCHANGED <<call, numRuns, variant, dir>>

\* The script is killed, and the command it waits for with it.
Kill ==
  /\ stage \notin Ended
  /\ \E d \in Leftovers : LeaveHere(d)
  /\ stage' = "killed"
  /\ UNCHANGED <<call, numRuns, iteration, variant, compared>>

\* Nobody calls the script any more.
NoMoreCalls == stage \in Ended /\ call = MaxCalls /\ UNCHANGED checkVars

CheckStep == Succeed \/ Fail \/ RemoveFails \/ CompareFails \/ CompareResults

CheckNext == Start \/ CheckStep \/ Kill \/ NoMoreCalls

CheckSpec == CheckInit /\ [][CheckNext]_checkVars

-----------------------------------------------------------------------------
(* Properties *)

\* Every printed comparison is of two reports that this call of the script
\* measured, in the iteration it is printed for, and of one variant each: never
\* of a report that an earlier call or an earlier iteration left behind.
ComparedAreFresh ==
  \A n \in 1..Len(compared), v \in Variants :
    compared[n][v] = [call |-> call, iter |-> n - 1, variant |-> v]

\* A report that can be loaded is of executables that validate accepted,
\* although nothing looks at the result of buildAndRunBench.
ReportedAreValid ==
  \A v \in Variants, n \in Runs :
    dir[v][n].report \in Stamps => dir[v][n].valid

\* The script only comes to its normal end if every run of this call built an
\* executable that was validated and measured: no failure goes unnoticed but
\* that of a benchmark whose report is complete.
NothingSkipped ==
  stage = "done" /\ call > 0 =>
    /\ Len(compared) = numRuns
    /\ \A v \in Variants, n \in 0..numRuns - 1 :
         dir[v][n].exe = [call |-> call, iter |-> n, variant |-> v]

---------------------------------------------------------------------------
(* Proofs, for any number of runs and calls. *)

\* The script is at work on an iteration of this call.
Running == stage \in Calls \cup {"remove"}

CallInv == stage \notin Ended => call \in 1..MaxCalls /\ iteration < numRuns

StampOf(v, n) == [call |-> call, iter |-> n, variant |-> v]

\* This call has removed directory n of variant v and now uses it, or has
\* already left it behind.
Handled(v, n) ==
  \/ stage = "compare"
  \/ n < iteration
  \/ n = iteration /\ v = "baseline" /\ variant = "solution"
  \/ n = iteration /\ v = variant /\ stage # "remove"

\* Nothing of an earlier call is left in a directory that was handled.
Clean(d, s) == d.exe \in {None, s} /\ d.report \in {None, Broken, s}

CleanInv ==
  stage \notin Ended =>
    \A v \in Variants, n \in Runs :
      n < numRuns /\ Handled(v, n) => Clean(dir[v][n], StampOf(v, n))

\* How far the current directory has got.
HereInv ==
  /\ stage \in {"make", "configure", "build", "validate"} => Here.report = None
  /\ stage = "benchmark" => Here.valid

ComparedInv ==
  /\ Running => compared = <<>>
  /\ stage = "compare" => Len(compared) = iteration

CheckInv == CheckTypeOK /\ CallInv /\ CleanInv /\ HereInv /\ ComparedInv
          /\ ComparedAreFresh /\ ReportedAreValid

USE MaxRunsAssumption, MaxCallsAssumption, NoneAssumption, BrokenAssumption

-----------------------------------------------------------------------------
(* Directories *)

\* While a call is made, the directory of the loop and its stamp are of their types.
LEMMA StampType ==
  ASSUME CheckTypeOK, CallInv, stage \notin Ended
  PROVE  Stamp \in Stamps /\ Here \in Directories
  BY DEF CheckTypeOK, CallInv, Stamp, Stamps, Here

\* A build that fails leaves the old program, none, or a new one, and never a valid report.
LEMMA LeftoversOfBuild ==
  ASSUME stage = "build", NEW d \in Leftovers
  PROVE  \E e \in {Here.exe, None, Stamp} :
           d = [Here EXCEPT !.exe = e, !.valid = FALSE]
<1>1. Leftovers = {[Here EXCEPT !.exe = e, !.valid = FALSE] :
                     e \in {Here.exe, None, Stamp}}
  BY DEF Leftovers
<1> QED
  BY <1>1, Zenon

\* What a call leaves behind, finished or not, is a directory.
LEMMA DirectoryTypes ==
  ASSUME CheckTypeOK, CallInv, stage \notin Ended
  PROVE  Leftovers \subseteq Directories /\ After \in Directories
<1>1. Stamp \in Stamps /\ Here \in Directories
  BY StampType
<1>2. After \in Directories
  BY <1>1 DEF After, Emptied, Absent, Directories
<1>3. ASSUME NEW d \in Leftovers PROVE d \in Directories
  <2>1. CASE stage = "remove"
    BY <1>1, <1>3, <2>1 DEF Leftovers, Directories
  <2>2. CASE stage = "build"
    <3>1. PICK e \in {Here.exe, None, Stamp} :
                 d = [Here EXCEPT !.exe = e, !.valid = FALSE]
      BY <1>3, <2>2, LeftoversOfBuild
    <3> QED
      BY <1>1, <3>1 DEF Directories
  <2>3. CASE stage = "benchmark"
    BY <1>1, <1>3, <2>3 DEF Leftovers, Directories
  <2>4. CASE stage \notin {"remove", "build", "benchmark"}
    BY <1>1, <1>3, <2>4 DEF Leftovers
  <2> QED
    BY <2>1, <2>2, <2>3, <2>4
<1> QED
  BY <1>2, <1>3

\* An action writes to the current directory only.
LEMMA OnlyHere ==
  ASSUME CheckTypeOK, NEW d, LeaveHere(d)
  PROVE  \A v \in Variants, n \in Runs :
           dir'[v][n] = IF v = variant /\ n = iteration THEN d ELSE dir[v][n]
  BY DEF CheckTypeOK, LeaveHere

\* Leaving a directory to the loop keeps the type of dir.
LEMMA DirStaysTyped ==
  ASSUME CheckTypeOK, NEW d \in Directories, LeaveHere(d)
  PROVE  dir' \in [Variants -> [Runs -> Directories]]
  BY DEF CheckTypeOK, LeaveHere

\* Where the loop goes on, in the current call.
LEMMA NextRunType ==
  ASSUME CheckTypeOK, CallInv, stage \in Calls \cup {"remove"}, NextRun, UNCHANGED numRuns
  PROVE  /\ stage' \in {"remove", "compare"}
         /\ iteration' \in Runs /\ variant' \in Variants /\ iteration' < numRuns
  BY DEF CheckTypeOK, CallInv, NextRun, LastIteration, Runs, Variants, Calls, Ended

-----------------------------------------------------------------------------
(* Type correctness *)

\* Every step keeps the types and what is known of the call that is made.
LEMMA TypeStep == CheckTypeOK /\ CallInv /\ [CheckNext]_checkVars => CheckTypeOK' /\ CallInv'
<1> SUFFICES ASSUME CheckTypeOK, CallInv, [CheckNext]_checkVars
             PROVE  CheckTypeOK' /\ CallInv'
  OBVIOUS
<1>1. CASE Start
  BY <1>1 DEF Start, CheckTypeOK, CallInv, Stages, Runs, Variants, Ended
<1>2. CASE Succeed
  <2>1. stage \notin Ended
    BY <1>2 DEF Succeed, Calls, Ended
  <2>2. dir' \in [Variants -> [Runs -> Directories]]
    BY <1>2, <2>1, DirectoryTypes, DirStaysTyped DEF Succeed
  <2>3. CASE stage = "benchmark"
    <3>1. stage' \in {"remove", "compare"} /\ iteration' \in Runs /\ variant' \in Variants
            /\ iteration' < numRuns
      BY <1>2, <2>3, NextRunType DEF Succeed, Calls
    <3> QED
      BY <1>2, <2>1, <2>2, <3>1 DEF Succeed, CheckTypeOK, CallInv, Stages
  <2>4. CASE stage # "benchmark"
    <3>1. stage' \in Calls
      BY <1>2, <2>4 DEF Succeed, Following, Calls
    <3> QED
      BY <1>2, <2>1, <2>2, <2>4, <3>1 DEF Succeed, CheckTypeOK, CallInv, Stages
  <2> QED
    BY <2>3, <2>4
<1>3. CASE Fail
  <2>1. stage \notin Ended
    BY <1>3 DEF Fail, Calls, Ended
  <2>2. dir' \in [Variants -> [Runs -> Directories]]
    BY <1>3, <2>1, DirectoryTypes, DirStaysTyped DEF Fail
  <2>3. stage' \in {"remove", "compare"} /\ iteration' \in Runs /\ variant' \in Variants
          /\ iteration' < numRuns
    BY <1>3, NextRunType DEF Fail, GiveUp
  <2> QED
    BY <1>3, <2>1, <2>2, <2>3 DEF Fail, CheckTypeOK, CallInv, Stages
<1>4. CASE RemoveFails \/ Kill
  <2>1. stage \notin Ended
    BY <1>4 DEF RemoveFails, Kill, Ended
  <2>2. dir' \in [Variants -> [Runs -> Directories]]
    BY <1>4, <2>1, DirectoryTypes, DirStaysTyped DEF RemoveFails, Kill
  <2> QED
    BY <1>4, <2>2 DEF RemoveFails, Kill, CheckTypeOK, CallInv, Stages, Ended
<1>5. CASE CompareFails
  BY <1>5 DEF CompareFails, CheckTypeOK, CallInv, Stages, Ended
<1>6. CASE CompareResults
  <2>1. Reports \in [baseline : Stamps, solution : Stamps]
    BY <1>6 DEF CompareResults, Reports, CheckTypeOK, Directories, Variants
  <2>2. compared' \in Seq([baseline : Stamps, solution : Stamps])
    BY <1>6, <2>1 DEF CompareResults, CheckTypeOK
  <2>3. stage' \in {"done", "compare"} /\ iteration' \in Runs
          /\ (stage' = "compare" => iteration' < numRuns)
    BY <1>6 DEF CompareResults, LastIteration, CheckTypeOK, CallInv, Runs, Ended
  <2> QED
    BY <1>6, <2>2, <2>3 DEF CompareResults, CheckTypeOK, CallInv, Stages, Ended
<1>7. CASE UNCHANGED checkVars
  BY <1>7 DEF checkVars, CheckTypeOK, CallInv
<1> QED
  BY <1>1, <1>2, <1>3, <1>4, <1>5, <1>6, <1>7 DEF CheckNext, CheckStep, NoMoreCalls

-----------------------------------------------------------------------------
(* What the calls do to the current directory *)

\* A directory that was removed for this run stays free of what an earlier run left, whatever the calls do to it.
LEMMA HereStaysClean ==
  ASSUME CheckTypeOK, CallInv, stage \in Calls \cup {"remove"},
         stage # "remove" => Clean(Here, Stamp)
  PROVE  /\ Clean(After, Stamp)
         /\ stage # "remove" => \A d \in Leftovers : Clean(d, Stamp)
<1>. Here \in Directories
  BY StampType DEF Calls, Ended
<1>1. Clean(After, Stamp)
  BY DEF After, Emptied, Absent, Clean, Directories, Calls
<1>2. ASSUME stage # "remove", NEW d \in Leftovers PROVE Clean(d, Stamp)
  <2>1. CASE stage = "build"
    BY <1>2, <2>1, LeftoversOfBuild DEF Clean, Directories
  <2>2. CASE stage # "build"
    BY <1>2, <2>2 DEF Leftovers, Clean, Directories
  <2> QED
    BY <2>1, <2>2
<1> QED
  BY <1>1, <1>2

Accepted(d) == d.report \in Stamps => d.valid

\* A report in the current directory comes from a program that validated, finished calls and failed ones alike.
LEMMA HereStaysAccepted ==
  ASSUME CheckTypeOK, CallInv, stage \in Calls \cup {"remove"}, HereInv, Accepted(Here)
  PROVE  Accepted(After) /\ \A d \in Leftovers : Accepted(d)
<1>1. Here \in Directories
  BY StampType DEF Calls, Ended
<1>2. Accepted(After)
  BY <1>1 DEF After, Emptied, Absent, Accepted, HereInv, Directories, Calls
<1>3. ASSUME NEW d \in Leftovers PROVE Accepted(d)
  <2>1. CASE stage = "remove"
    BY <1>1, <1>3, <2>1 DEF Leftovers, Accepted, Directories
  <2>2. CASE stage = "build"
    BY <1>1, <1>3, <2>2, LeftoversOfBuild DEF HereInv, Accepted, Directories
  <2>3. CASE stage = "benchmark"
    BY <1>1, <1>3, <2>3 DEF Leftovers, HereInv, Accepted, Directories
  <2>4. CASE stage \in {"make", "configure", "validate"}
    BY <1>1, <1>3, <2>4 DEF Leftovers, Accepted
  <2> QED
    BY <2>1, <2>2, <2>3, <2>4 DEF Calls
<1> QED
  BY <1>2, <1>3

-----------------------------------------------------------------------------
(* The inductive step *)

\* What is handled after a step of the loop was handled before, or is here.
LEMMA HandledBefore ==
  ASSUME CheckTypeOK, CallInv, stage \in Calls \cup {"remove"}, UNCHANGED numRuns,
         NextRun \/ (stage' \in Calls /\ UNCHANGED <<iteration, variant>>),
         NEW v \in Variants, NEW n \in Runs, n < numRuns, Handled(v, n)'
  PROVE  (v = variant /\ n = iteration) \/ Handled(v, n)
<1> USE DEF CheckTypeOK, CallInv, Runs, Variants, Calls, Ended
<1>1. CASE NextRun /\ variant = "baseline"
  BY <1>1 DEF NextRun, Handled
<1>2. CASE NextRun /\ variant = "solution" /\ LastIteration
  BY <1>2 DEF NextRun, Handled, LastIteration
<1>3. CASE NextRun /\ variant = "solution" /\ ~LastIteration
  BY <1>3 DEF NextRun, Handled
<1>4. CASE stage' \in Calls /\ UNCHANGED <<iteration, variant>>
  BY <1>4 DEF Handled
<1> QED
  BY <1>1, <1>2, <1>3, <1>4

\* Going on with the next directory keeps every directory that was handled clean.
LEMMA LoopKeepsClean ==
  ASSUME CheckInv, stage \in Calls \cup {"remove"}, UNCHANGED <<call, numRuns>>,
         NextRun \/ (stage' \in Calls /\ UNCHANGED <<iteration, variant>>),
         NEW d, Clean(d, Stamp), LeaveHere(d)
  PROVE  CleanInv'
<1> SUFFICES ASSUME NEW v \in Variants, NEW n \in Runs, n < numRuns, Handled(v, n)'
             PROVE  Clean(dir'[v][n], StampOf(v, n))
  BY DEF CleanInv, Clean, StampOf
<1>1. (v = variant /\ n = iteration) \/ Handled(v, n)
  BY HandledBefore DEF CheckInv
<1>2. dir'[v][n] = IF v = variant /\ n = iteration THEN d ELSE dir[v][n]
  BY OnlyHere DEF CheckInv
<1>3. Handled(v, n) => Clean(dir[v][n], StampOf(v, n))
  BY DEF CheckInv, CleanInv, Calls, Ended
<1>4. v = variant /\ n = iteration => Stamp = StampOf(v, n)
  BY DEF Stamp, StampOf
<1> QED
  BY <1>1, <1>2, <1>3, <1>4

\* Leaving the current directory as a call made it keeps every report accepted.
LEMMA HereKeepsAccepted ==
  ASSUME CheckInv, stage \notin Ended, NEW d \in Leftovers \cup {After}, LeaveHere(d)
  PROVE  ReportedAreValid'
<1>1. Accepted(Here)
  BY DEF CheckInv, CheckTypeOK, ReportedAreValid, Accepted, Here
<1>2. Accepted(d)
  <2>1. CASE stage = "compare"
    BY <1>1, <2>1 DEF Leftovers, After
  <2>2. CASE stage # "compare"
    <3>1. stage \in Calls \cup {"remove"}
      BY <2>2 DEF CheckInv, CheckTypeOK, Stages, Ended
    <3> QED
      BY <1>1, <3>1, HereStaysAccepted DEF CheckInv
  <2> QED
    BY <2>1, <2>2
<1>3. \A v \in Variants, n \in Runs :
        dir'[v][n] = IF v = variant /\ n = iteration THEN d ELSE dir[v][n]
  BY OnlyHere DEF CheckInv
<1> QED
  BY <1>2, <1>3 DEF CheckInv, ReportedAreValid, Accepted

\* Every step keeps the directories that were handled free of earlier runs.
LEMMA CleanStep == CheckInv /\ [CheckNext]_checkVars => CleanInv'
<1> SUFFICES ASSUME CheckInv, [CheckNext]_checkVars PROVE CleanInv'
  OBVIOUS
<1>1. CASE Start
  BY <1>1 DEF Start, CleanInv, Handled, Runs
<1>2. ASSUME stage \in Calls \cup {"remove"}, stage # "remove" PROVE Clean(Here, Stamp)
  BY <1>2 DEF CheckInv, CheckTypeOK, CallInv, CleanInv, Handled, Here, Stamp, StampOf, Ended, Calls
<1>3. CASE Succeed
  <2>1. Clean(After, Stamp)
    BY <1>2, <1>3, HereStaysClean DEF CheckInv, Succeed
  <2>2. NextRun \/ (stage' \in Calls /\ UNCHANGED <<iteration, variant>>)
    BY <1>3 DEF Succeed, Following, Calls
  <2> QED
    BY <1>3, <2>1, <2>2, LoopKeepsClean DEF Succeed
<1>4. CASE Fail
  <2>1. PICK d \in Leftovers : LeaveHere(d)
    BY <1>4 DEF Fail
  <2>2. stage # "remove"
    BY <1>4 DEF Fail, Calls
  <2>3. Clean(d, Stamp)
    BY <1>2, <1>4, <2>1, <2>2, HereStaysClean DEF CheckInv, Fail
  <2> QED
    BY <1>4, <2>1, <2>3, LoopKeepsClean DEF Fail, GiveUp
<1>5. CASE RemoveFails \/ CompareFails \/ Kill
  BY <1>5 DEF RemoveFails, CompareFails, Kill, CleanInv, Ended
<1>6. CASE CompareResults
  <2> SUFFICES ASSUME stage' = "compare", NEW v \in Variants, NEW n \in Runs,
                      n < numRuns
               PROVE  Clean(dir[v][n], StampOf(v, n))
    BY <1>6 DEF CompareResults, CleanInv, Clean, StampOf, Ended
  <2> QED
    BY <1>6 DEF CompareResults, CheckInv, CleanInv, Handled, Ended
<1>7. CASE UNCHANGED checkVars
  BY <1>7 DEF checkVars, CheckInv, CleanInv, Handled, Clean, StampOf
<1> QED
  BY <1>1, <1>3, <1>4, <1>5, <1>6, <1>7 DEF CheckNext, CheckStep, NoMoreCalls

\* Every step keeps what is known of the current directory, and the reports accepted.
LEMMA HereStep == CheckInv /\ [CheckNext]_checkVars => HereInv' /\ ReportedAreValid'
<1> SUFFICES ASSUME CheckInv, [CheckNext]_checkVars PROVE HereInv' /\ ReportedAreValid'
  OBVIOUS
<1>1. CASE Start
  BY <1>1 DEF Start, CheckInv, HereInv, ReportedAreValid
<1>2. CASE Succeed
  <2>1. ReportedAreValid'
    BY <1>2, HereKeepsAccepted DEF Succeed, Calls, Ended
  <2>2. CASE stage = "benchmark"
    BY <1>2, <2>1, <2>2 DEF Succeed, NextRun, HereInv, LastIteration
  <2>3. CASE stage # "benchmark"
    <3>1. Here' = After
      BY <1>2, <2>3, OnlyHere DEF CheckInv, CheckTypeOK, Succeed, Here
    <3>2. Here \in Directories
      BY <1>2, StampType DEF CheckInv, Succeed, Calls, Ended
    <3> QED
      BY <1>2, <2>1, <2>3, <3>1, <3>2
      DEF Succeed, Following, After, Emptied, Absent, CheckInv, HereInv, Directories, Calls
  <2> QED
    BY <2>2, <2>3
<1>3. CASE Fail
  <2>1. ReportedAreValid'
    BY <1>3, HereKeepsAccepted DEF Fail, Calls, Ended
  <2> QED
    BY <1>3, <2>1 DEF Fail, GiveUp, NextRun, HereInv
<1>4. CASE RemoveFails \/ Kill
  <2>1. ReportedAreValid'
    BY <1>4, HereKeepsAccepted DEF RemoveFails, Kill, Ended
  <2> QED
    BY <1>4, <2>1 DEF RemoveFails, Kill, HereInv
<1>5. CASE CompareFails \/ CompareResults
  BY <1>5 DEF CompareFails, CompareResults, CheckInv, HereInv, ReportedAreValid
<1>6. CASE UNCHANGED checkVars
  BY <1>6 DEF checkVars, CheckInv, HereInv, Here, ReportedAreValid
<1> QED
  BY <1>1, <1>2, <1>3, <1>4, <1>5, <1>6 DEF CheckNext, CheckStep, NoMoreCalls

\* Every step keeps what a finished comparison has read.
LEMMA ComparedStep == CheckInv /\ [CheckNext]_checkVars => ComparedInv' /\ ComparedAreFresh'
<1> SUFFICES ASSUME CheckInv, [CheckNext]_checkVars PROVE ComparedInv' /\ ComparedAreFresh'
  OBVIOUS
<1>1. CASE Start
  BY <1>1 DEF Start, ComparedInv, ComparedAreFresh, Running
<1>2. CASE Succeed \/ Fail
  <2>1. compared = <<>> /\ compared' = <<>>
    BY <1>2 DEF Succeed, Fail, CheckInv, ComparedInv, Running
  <2>2. ComparedInv'
    <3>1. stage' = "compare" => iteration' = 0
      BY <1>2 DEF Succeed, Fail, GiveUp, NextRun, Following, Calls
    <3> QED
      BY <2>1, <3>1 DEF ComparedInv
  <2> QED
    BY <2>1, <2>2 DEF ComparedAreFresh
<1>3. CASE RemoveFails \/ CompareFails \/ Kill
  BY <1>3 DEF RemoveFails, CompareFails, Kill, CheckInv, ComparedInv, ComparedAreFresh,
              Running, Calls, Ended
<1>4. CASE CompareResults
  <2>1. Len(compared) = iteration /\ iteration \in Nat /\ iteration < numRuns
    BY <1>4 DEF CompareResults, CheckInv, ComparedInv, CallInv, CheckTypeOK, Runs, Ended
  <2>2. \A v \in Variants : Reports[v] = StampOf(v, iteration)
    <3> TAKE v \in Variants
    <3>1. Clean(dir[v][iteration], StampOf(v, iteration))
      BY <1>4, <2>1 DEF CompareResults, CheckInv, CheckTypeOK, CleanInv, Handled, Ended
    <3> QED
      BY <1>4, <3>1 DEF CompareResults, Reports, Clean, Variants
  <2>3. compared' = Append(compared, Reports) /\ call' = call
    BY <1>4 DEF CompareResults
  <2>4. Len(compared') = iteration + 1
    BY <2>1, <2>3 DEF CheckInv, CheckTypeOK
  <2>5. ASSUME NEW n \in 1..Len(compared'), NEW v \in Variants
        PROVE  compared'[n][v] = [call |-> call', iter |-> n - 1, variant |-> v]
    <3>1. CASE n = iteration + 1
      BY <2>1, <2>2, <2>3, <3>1 DEF CheckInv, CheckTypeOK, StampOf
    <3>2. CASE n # iteration + 1
      BY <2>1, <2>3, <2>4, <2>5, <3>2 DEF CheckInv, CheckTypeOK, ComparedAreFresh
    <3> QED
      BY <3>1, <3>2
  <2>6. ComparedInv'
    BY <1>4, <2>4 DEF CompareResults, ComparedInv, Running, Calls
  <2> QED
    BY <2>5, <2>6 DEF ComparedAreFresh
<1>5. CASE UNCHANGED checkVars
  BY <1>5 DEF checkVars, CheckInv, ComparedInv, ComparedAreFresh, Running
<1> QED
  BY <1>1, <1>2, <1>3, <1>4, <1>5 DEF CheckNext, CheckStep, NoMoreCalls

\* The inductive invariant holds in every state of the script.
LEMMA Inductive == CheckSpec => []CheckInv
<1>1. CheckInit => CheckInv
  BY DEF CheckInit, CheckInv, CheckTypeOK, CallInv, CleanInv, HereInv, ComparedInv, ComparedAreFresh,
         ReportedAreValid, Absent, Directories, Running, Stages, Calls, Ended,
         Runs, Variants
<1>2. CheckInv /\ [CheckNext]_checkVars => CheckInv'
  BY TypeStep, CleanStep, HereStep, ComparedStep DEF CheckInv
<1> QED
  BY <1>1, <1>2, PTL DEF CheckSpec

-----------------------------------------------------------------------------
(* Theorems *)

\* For any num_runs, any number of calls and any failures and kills, a printed
\* comparison is of the reports that this call measured in that iteration.
THEOREM FreshComparisons == CheckSpec => []ComparedAreFresh
<1>1. CheckInv => ComparedAreFresh
  BY DEF CheckInv
<1> QED
  BY <1>1, Inductive, PTL

\* Ignoring the result of buildAndRunBench never lets an executable be measured
\* that validate did not accept.
THEOREM ValidatedReports == CheckSpec => []ReportedAreValid
<1>1. CheckInv => ReportedAreValid
  BY DEF CheckInv
<1> QED
  BY <1>1, Inductive, PTL
=============================================================================
