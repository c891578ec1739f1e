---------------------------- MODULE MCPerfNinja ----------------------------
(***************************************************************************)
(* The parts of the course that stand for themselves, one at a time: two   *)
(* calls of check_speedup.py, the second of which finds whatever the first *)
(* one left; the comparison of two reports; the parallel sum; the objects  *)
(* that map files; one of the other labs.  The part at work is "active",   *)
(* all others stay in one of their initial states.  The modules of the     *)
(* first four put their name before Init, Next and the like, so that one   *)
(* module can extend them all.                                             *)
(***************************************************************************)
EXTENDS CheckSpeedup, FalseSharing, MappedFile, MCLabs

CONSTANTS Names, Units, Times

VARIABLES active,
  lhs, rhs, step, name, partitions, diff, speedup  \* the comparison

ofDiff == <<lhs, rhs, step, name, partitions, diff, speedup>>
ofLabs == <<lab, vars, ofFunctions>>

\* A report is a file, so a summary may have the name of a run: code that reads a
\* field it lacks has to show.
MCEntry == {[name |-> x, kind |-> "run", unit |-> u, time |-> t] :
              x \in Names, u \in Units, t \in Times}
      \cup {[name |-> x, kind |-> y, unit |-> "ms", time |-> 0] :
              x \in Names, y \in {"bigo", "rms"}}

Run(x, u, t) == [name |-> x, kind |-> "run", unit |-> u, time |-> t]

\* Reports of up to two entries, and some of three for their repetitions.
MCReports == UNION {[1..len -> MCEntry] : len \in 0..2}
        \cup {<<Run("x", u, 2), Run("y", "ms", 1), Run("x", "ms", 1)>> : u \in Units}
        \cup {<<Run("x", "ms", 1), Run("x", u, 2), Run("x", "ms", 2)>> : u \in Units}

Report == INSTANCE DiffReport WITH pc <- step, next <- name, Reports <- MCReports

NoDiff == /\ lhs = <<>> /\ rhs = <<>> /\ step = "idle" /\ name = 1
          /\ partitions = <<>> /\ diff = <<>> /\ speedup = <<0, 1>>

NoSharing == SharingInit /\ data = [x \in Iterations |-> x]
NoFile    == FileInit /\ platform = "linux"
NoLab     == lab = "none" /\ NoFunction /\ NoArena

PartsInit ==
  \/ active = "check"   /\ CheckInit /\ NoDiff /\ NoSharing /\ NoFile /\ NoLab
  \/ active = "diff"    /\ CheckInit /\ Report!Init /\ NoSharing /\ NoFile /\ NoLab
  \/ active = "sharing" /\ CheckInit /\ NoDiff /\ SharingInit /\ NoFile /\ NoLab
  \/ active = "file"    /\ CheckInit /\ NoDiff /\ NoSharing /\ FileInit /\ NoLab
  \/ active = "lab"     /\ CheckInit /\ NoDiff /\ NoSharing /\ NoFile /\ MCInit

PartsNext ==
  /\ UNCHANGED active
  /\ \/ /\ active = "check" /\ CheckNext
        /\ UNCHANGED <<ofDiff, sharingVars, fileVars, ofLabs>>
     \/ /\ active = "diff" /\ Report!Next
        /\ UNCHANGED <<checkVars, sharingVars, fileVars, ofLabs>>
     \/ /\ active = "sharing" /\ SharingNext
        /\ UNCHANGED <<checkVars, ofDiff, fileVars, ofLabs>>
     \/ /\ active = "file" /\ FileNext
        /\ UNCHANGED <<checkVars, ofDiff, sharingVars, ofLabs>>
     \/ /\ active = "lab" /\ MCNext
        /\ UNCHANGED <<checkVars, ofDiff, sharingVars, fileVars>>

PartsSpec ==
  PartsInit /\ [][PartsNext]_<<active, checkVars, ofDiff, sharingVars, fileVars, ofLabs>>

-----------------------------------------------------------------------------
(* Properties *)

\* get_difference_report, getAverageSpeedup, check_speedup.py: only runs of one
\* benchmark, in one unit and at one position among the repetitions are compared;
\* every benchmark that both reports ran takes part, once, and every run of the
\* script; the mean has the sign all of its parts have.
ComparisonsAreComplete ==
  /\ Report!PairsAreComparable /\ Report!NothingMissed /\ Report!AverageAgrees
  /\ NothingSkipped
=============================================================================
