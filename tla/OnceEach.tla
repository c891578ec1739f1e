------------------------------ MODULE OnceEach ------------------------------
(***************************************************************************)
(* What a work-shared loop promises its caller: every iteration is         *)
(* executed once, in any order, and the caller continues when all are.     *)
(***************************************************************************)
CONSTANT Iterations

VARIABLES executed, returned

Init == executed = {} /\ returned = FALSE

Execute(i) ==
  /\ ~returned
  /\ i \notin executed
  /\ executed' = executed \cup {i}
  /\ UNCHANGED returned

Return ==
  /\ executed = Iterations
  /\ returned' = TRUE
  /\ UNCHANGED executed

Next == (\E i \in Iterations : Execute(i)) \/ Return

Spec == Init /\ [][Next]_<<executed, returned>>
=============================================================================
