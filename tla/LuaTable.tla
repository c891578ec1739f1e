------------------------------ MODULE LuaTable ------------------------------
(***************************************************************************)
(* A table of the Lua interpreter in the pgo lab (ltable.c): an array part *)
(* and a hash part that is a scatter table with chains through its own     *)
(* nodes (Brent's variation), resized when an insertion finds no free      *)
(* node.  A program assigns to its fields, asks for its length and         *)
(* traverses it; the collector clears entries of it.                       *)
(*                                                                         *)
(* The common dummynode of an empty hash part is a node vector of size 0.  *)
(* A key with "dead" set has type LUA_TDEADKEY.                            *)
(***************************************************************************)
EXTENDS Integers, FiniteSets, SequencesExt

CONSTANTS Nil,
          Ints,     \* the integer keys
          Others,   \* the other keys, all of them strings
          Hash,     \* key -> its hash
          Vals,
          Fields,   \* bound: the <<key, value>> a program may store
          NoNode,   \* the end of a chain
          Off,      \* no traversal is under way
          MAX_INT,  \* bound: of the C int, for luaH_getn
          MaxSizes  \* bound: [array, hash], the sizes a constructor asks for

Keys == Ints \cup Others

VARIABLES t,      \* Table: array, node, lastfree
          cursor  \* the key on the stack of a traversal; Nil before the first

vars == <<t, cursor>>

---------------------------------------------------------------------------
\* Searching

SizeNode(h) == Cardinality(DOMAIN h.node)
InArray(h, k) == k \in Ints /\ k \in DOMAIN h.array

\* hashstr, hashmod
MainPosition(h, k) ==
  IF k \in Others THEN Hash[k] % SizeNode(h)
  ELSE Hash[k] % (IF SizeNode(h) = 1 THEN 1 ELSE SizeNode(h) - 1)

\* the first node with key k from node i on; a dead key may do
Search(h, i, k, dead) ==
  LET from[n \in DOMAIN h.node] ==
        IF h.node[n].key = k /\ (dead \/ ~ h.node[n].dead) THEN n
        ELSE IF h.node[n].next = NoNode THEN NoNode ELSE from[h.node[n].next]
  IN  from[i]

NodeOf(h, k) ==
  IF SizeNode(h) = 0 THEN NoNode ELSE Search(h, MainPosition(h, k), k, FALSE)

\* luaH_get
Get(h, k) ==
  IF InArray(h, k) THEN h.array[k]
  ELSE LET i == NodeOf(h, k) IN IF i = NoNode THEN Nil ELSE h.node[i].val

\* findindex
FindIndex(h, k) ==
  CASE k = Nil       -> -1
    [] InArray(h, k) -> k - 1
    [] k # Nil /\ ~ InArray(h, k) ->
         Len(h.array) + Search(h, MainPosition(h, k), k, TRUE)

\* Every element with its place, array first
Items(h) ==
  [i \in 1..(Len(h.array) + SizeNode(h)) |->
     IF i <= Len(h.array) THEN <<i, h.array[i]>>
     ELSE LET n == h.node[i - 1 - Len(h.array)] IN <<n.key, n.val>>]

---------------------------------------------------------------------------
\* Insertion.  The operators take a table and return it changed.

Empty(array, size) ==
  [array |-> array, lastfree |-> size,
   node  |-> [i \in 0..(size - 1) |-> [key |-> Nil, dead |-> FALSE, val |-> Nil, next |-> NoNode]]]

\* setnodevector, ceillog2
NodeVectorSize(n) ==
  IF n = 0 THEN 0 ELSE CHOOSE s \in {1, 2, 4, 8, 16, 32} : n <= s /\ s < 2 * n

\* Mutant: a reused node keeps the mark of its dead key.
FillKey(h, i, k, v) == [h EXCEPT !.node[i].key = k, !.node[i].val = v]

Fill(h, i, k, v) == [h EXCEPT !.node[i].key = k, !.node[i].dead = FALSE, !.node[i].val = v]

\* Mutant: a node whose value is nil is free although chains lead through it.
EmptyPositions(h) == {i \in 0..(h.lastfree - 1) : h.node[i].val = Nil}

\* getfreepos
FreePositions(h) == {i \in 0..(h.lastfree - 1) : h.node[i].key = Nil}

\* the node that leads to node mp: chains never meet behind a node
Previous(h, mp) == CHOOSE i \in DOMAIN h.node : h.node[i].next = mp

\* numusearray, numusehash, countint: the keys in use and the extra one
Counted(h, k) == {x \in Keys : Get(h, x) # Nil} \cup {k}

\* computesizes: the largest n such that more than half of 1..n is in use
ArraySize(used) ==
  Max({0} \cup {n \in {1, 2, 4, 8, 16} : Cardinality(used \cap 1..n) > n \div 2})

\* newkey; grown is the table with the new element when it had to be enlarged
NewKey(h, k, v, grown) ==
  LET mp == MainPosition(h, k)
      n  == Max(FreePositions(h))
      taken == [h EXCEPT !.lastfree = n]
  IN  IF SizeNode(h) = 0 THEN grown
      ELSE IF h.node[mp].val = Nil THEN Fill(h, mp, k, v)
      ELSE IF FreePositions(h) = {} THEN grown
      ELSE IF MainPosition(h, h.node[mp].key) # mp
           THEN Fill([taken EXCEPT !.node[Previous(h, mp)].next = n,
                                   !.node[n] = h.node[mp],
                                   !.node[mp].next = NoNode], mp, k, v)
           ELSE Fill([taken EXCEPT !.node[n].next = h.node[mp].next,
                                   !.node[mp].next = n], n, k, v)

\* luaH_set and the assignment to the slot it returns
SetOr(h, k, v, grown) ==
  IF InArray(h, k) THEN [h EXCEPT !.array[k] = v]
  ELSE LET i == NodeOf(h, k)
       IN  IF i = NoNode THEN NewKey(h, k, v, grown) ELSE [h EXCEPT !.node[i].val = v]

\* a new size leaves no element without a place: there is no table to grow into
Reinsert(h, k, v) == SetOr(h, k, v, Nil)

Resize(h, nasize, nhsize) ==
  LET kept == [i \in 1..nasize |-> IF i <= Len(h.array) THEN h.array[i] ELSE Nil]
      tail == [i \in 1..(IF nasize < Len(h.array) THEN Len(h.array) - nasize ELSE 0) |->
                 Items(h)[nasize + i]]
      hash == Reverse(SubSeq(Items(h), Len(h.array) + 1, Len(Items(h))))
  IN  FoldLeft(LAMBDA acc, e : Reinsert(acc, e[1], e[2]),
               Empty(kept, NodeVectorSize(nhsize)),
               SelectSeq(tail \o hash, LAMBDA e : e[2] # Nil))

Rehash(h, k) ==
  LET used == Counted(h, k)
      na   == ArraySize(used \cap Ints)
  IN  Resize(h, na, Cardinality(used) - Cardinality(used \cap 1..na))

Assign(h, k, v) == SetOr(h, k, v, Reinsert(Rehash(h, k), k, v))

---------------------------------------------------------------------------
\* luaH_getn

Present(h, i) == i \in Ints /\ Get(h, i) # Nil

\* a boundary between i, which is one or present, and j, which is absent
Between(h, i, j) ==
  LET search[b \in Nat \X Nat] ==
        LET mid == (b[1] + b[2]) \div 2
        IN  IF b[2] - b[1] <= 1 THEN b[1]
            ELSE IF Present(h, mid) THEN search[<<mid, b[2]>>] ELSE search[<<b[1], mid>>]
  IN  search[<<i, j>>]

Linear(h) == Min({i \in 1..(MAX_INT + 1) : ~ Present(h, i)}) - 1

Unbound(h, i, j) ==
  LET double[b \in Nat \X Nat] ==
        IF ~ Present(h, b[2]) THEN Between(h, b[1], b[2])
        ELSE IF 2 * b[2] > MAX_INT THEN Linear(h) ELSE double[<<b[2], 2 * b[2]>>]
  IN  double[<<i, j>>]

\* Mutant: the array part is taken for full.
GetNBeyond(h) == LET j == Len(h.array) IN IF SizeNode(h) = 0 THEN j ELSE Unbound(h, j, j + 1)

GetN(h) ==
  LET j == Len(h.array)
  IN  IF j > 0 /\ h.array[j] = Nil THEN Between(h, 0, j)
      ELSE IF SizeNode(h) = 0 THEN j ELSE Unbound(h, j, j + 1)

---------------------------------------------------------------------------
\* luaH_new
Init ==
  /\ \E na \in 0..MaxSizes.array, nh \in 0..MaxSizes.hash :
       t = Empty([i \in 1..na |-> Nil], NodeVectorSize(nh))
  /\ cursor = Off

\* Assigning to an absent field leaves a traversal undefined: it is given up.
Set(k, v) ==
  /\ t' = Assign(t, k, v)
  /\ cursor' = IF Get(t, k) = Nil THEN Off ELSE cursor

\* OP_SETLIST: luaH_resizearray, before the program sees the table
ResizeArray(n) ==
  /\ cursor = Off /\ n > Len(t.array)
  /\ t' = Resize(t, n, SizeNode(t))
  /\ UNCHANGED cursor

\* cleartable and removeentry of the collector, in a weak table
Clear(k) ==
  /\ Get(t, k) # Nil
  /\ t' = IF InArray(t, k) THEN [t EXCEPT !.array[k] = Nil]
          ELSE [t EXCEPT !.node[NodeOf(t, k)].val = Nil,
                         !.node[NodeOf(t, k)].dead = k \in Others]
  /\ UNCHANGED cursor

Begin == cursor = Off /\ cursor' = Nil /\ UNCHANGED t

\* luaH_next: the first element that is not nil behind the cursor
LuaNext ==
  /\ cursor # Off
  /\ LET items == Items(t)
         from  == FindIndex(t, cursor) + 2
         rest  == {i \in from..Len(items) : items[i][2] # Nil}
     IN  cursor' = IF rest = {} THEN Off ELSE items[Min(rest)][1]
  /\ UNCHANGED t

Next ==
  \/ Begin \/ LuaNext
  \/ \E f \in Fields : Set(f[1], f[2])
  \/ \E k \in Keys : Set(k, Nil) \/ Clear(k)
  \/ \E n \in 1..MaxSizes.array : ResizeArray(n)

Spec == Init /\ [][Next]_vars

---------------------------------------------------------------------------
TypeOK ==
  /\ t.array \in Seq(Vals \cup {Nil})
  /\ t.lastfree \in 0..SizeNode(t)
  /\ \A i \in DOMAIN t.node :
       /\ t.node[i].key \in Keys \cup {Nil} /\ t.node[i].val \in Vals \cup {Nil}
       /\ t.node[i].next \in DOMAIN t.node \cup {NoNode}
  /\ cursor \in Keys \cup {Nil, Off}

\* The table is a map, whatever moves, dies, is reused or resized in it, and a
\* traversal visits every key that stays once (luaH_set, newkey, luaH_next).
Ahead ==
  IF cursor = Off THEN {}
  ELSE {k \in Keys : Get(t, k) # Nil /\ FindIndex(t, k) > FindIndex(t, cursor)}
AsMap == [k \in Keys |-> Get(t, k)]
Map == INSTANCE LuaMap WITH map <- AsMap, todo <- Ahead
ImplementsMap == Map!Spec

\* The length is a boundary: t[n] is not nil, or n is 0, and t[n + 1] is nil
\* (luaH_getn and its three searches).
LengthIsABoundary ==
  LET n == GetN(t)
  IN  /\ n = 0 \/ (n \in Ints /\ Get(t, n) # Nil)
      /\ n + 1 \in Ints => Get(t, n + 1) = Nil

\* Every element hangs on the chain of its main position, behind no other node
\* with its key and outside of the array part, and chains never meet: what the
\* loops of luaH_get, findindex and newkey rely on to end at the right node.
EveryElementIsChained ==
  /\ \A i \in DOMAIN t.node : t.node[i].val # Nil =>
       /\ NodeOf(t, t.node[i].key) = i
       /\ ~ InArray(t, t.node[i].key)
  /\ \A i, j \in DOMAIN t.node :
       i # j /\ t.node[i].next = t.node[j].next => t.node[i].next = NoNode
=============================================================================
