------------------------------- MODULE LuaMap -------------------------------
(***************************************************************************)
(* What a Lua table promises: a map from keys to values, nil for the keys  *)
(* that are absent, and a traversal that visits every key that stays       *)
(* present once, as long as the program assigns to no absent field.        *)
(***************************************************************************)
CONSTANTS Keys, Vals, Nil

VARIABLES map,   \* key -> value or Nil
          todo   \* the keys the traversal under way has still to visit

Present(m) == {k \in Keys : m[k] # Nil}

Init == map = [k \in Keys |-> Nil] /\ todo = {}

\* A traversal begins, or visits one more key.
Begin(m, later) == later = Present(m)
Visit(keys, later) == \E k \in keys : later = keys \ {k}

\* An assignment of v; to an absent field, it ends the traversal.
Store(m, k, v, keys, later) ==
  later = IF m[k] = Nil THEN {} ELSE IF v = Nil THEN keys \ {k} ELSE keys

\* From map m to map n, with the keys to visit before and after
Move(m, n, keys, later) ==
  \/ n = m /\ (Begin(m, later) \/ Visit(keys, later))
  \/ \E k \in Keys : /\ \A j \in Keys \ {k} : n[j] = m[j]
                     /\ Store(m, k, n[k], keys, later)

Next == Move(map, map', todo, todo')

Spec == Init /\ [][Next]_<<map, todo>>
=============================================================================
