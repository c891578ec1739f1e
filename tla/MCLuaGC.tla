------------------------------ MODULE MCLuaGC ------------------------------
(***************************************************************************)
(* LuaGC on small heaps.  A behaviour allocates from one pool only, so the *)
(* tables, weak or not, and the userdata meet in one part of the state     *)
(* space and the coroutines, closures and upvalues in another.             *)
(***************************************************************************)
EXTENDS LuaGC, TLC

CONSTANTS Pools   \* [objects, slots, metas]: what a behaviour may allocate and use

VARIABLE pool

\* The globals refer to the tables and closures, a table to the userdata.
MCShapes ==
  [t \in Tables |->
     IF t = Registry THEN {<<Scalar, o>> : o \in OtherTables \cup Closures}
     ELSE {<<Scalar, d>> : d \in Userdata} \cup {<<d, Scalar>> : d \in Userdata}]

InPool ==
  /\ \A d \in Userdata : metatable'[d] \in pool.metas \cup {None}
  /\ heap' \subseteq pool.objects
  /\ \A t \in Threads, s \in Slots \ pool.slots : stack'[t][s] = Scalar
  /\ \A u \in Upvals : where'[u] \in {Closed} \cup (Threads \X pool.slots)

MCInit == Init /\ pool \in Pools
MCNext == Next /\ InPool /\ UNCHANGED pool
MCSpec == MCInit /\ [][MCNext]_<<vars, pool>>
MCFairSpec == MCSpec /\ Fairness

CONSTANTS M, R, c1, t1, f1, f2, u1, d1, s1, a, b
PoolsOfBoth ==
  {[objects |-> {M, R, t1, d1}, slots |-> {a, b}, metas |-> {t1}]}
    \cup {[objects |-> {M, R, c1, f1, f2, u1}, slots |-> {s}, metas |-> {}] : s \in {a, b}}
\* The table of globals is the userdata's metatable: it has a finalizer.
OnePool == {[objects |-> {M, R, c1, d1, s1}, slots |-> {a}, metas |-> {R}]}
Swaps == Permutations({a, b}) \cup Permutations({f1, f2})
=============================================================================
