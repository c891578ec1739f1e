----------------------------- MODULE LuaFrames -----------------------------
(***************************************************************************)
(* What the functions of a Lua thread see of its stack: each has a list of *)
(* values of its own, and calls, returns and errors move values from one   *)
(* list to the next.  LuaStack implements it in an array.                  *)
(***************************************************************************)
EXTENDS Integers, Sequences, SequencesExt

CONSTANTS Nil, Junk, Message, Object, Known, CFunctions, Protos, Handler

VARIABLES
  frames,    \* [fn, vals, extra, wants, after]: the values, or registers, of a
             \* function; arguments beyond its parameters; how many results its
             \* caller wants, -1 for all; what it does when a call returns
  protected, \* [level, kept, handler]: the protected calls, of the function at
             \* level, which keeps so many values; the handler is one of them
  up, field  \* the upvalue of the C functions, the field of Object

None  == -1
Throw == -2

N     == Len(frames)
This  == frames[N]
IsLua(fn) == fn \in DOMAIN Protos
Nils(n) == [i \in 1..n |-> Nil]
Fit(vs, n) == IF n = -1 THEN vs ELSE SubSeq(vs \o Nils(n), 1, n)
Padded(vs, n, v) == vs \o [i \in 1..(n - Len(vs)) |-> v]

Frame(fn, args, wants) ==
  [fn |-> fn, wants |-> wants, after |-> None,
   vals  |-> IF IsLua(fn) THEN Padded(Fit(args, Protos[fn].params), Protos[fn].size, Nil) ELSE args,
   extra |-> IF ~ IsLua(fn) THEN <<>>
             ELSE IF Protos[fn].vararg THEN SubSeq(args, Protos[fn].params + 1, Len(args)) ELSE <<>>]
Callee(v, args, wants) ==
  IF v \in DOMAIN Handler THEN Frame(Handler[v], <<v>> \o args, wants) ELSE Frame(v, args, wants)
Callable(v) == v \in CFunctions \cup DOMAIN Protos \cup DOMAIN Handler

Becomes(vals) == frames' = [frames EXCEPT ![N].vals = vals]

---------------------------------------------------------------------------
\* One function changes its own list.
ListOp ==
  LET old == This.vals
      new == frames'[N].vals
      n   == Len(old)
      Last1 == old[n]
  IN  /\ N = Len(frames') /\ Becomes(new) /\ UNCHANGED protected
      /\ \/ /\ UNCHANGED <<up, field>> /\ Len(new) = n
            /\ \/ new = old
               \/ n > 0 /\ \E i \in 1..n : new = InsertAt(Front(old), i, Last1)
               \/ n > 0 /\ new = [old EXCEPT ![n] = IF @ = Message THEN field ELSE Nil]
         \/ /\ UNCHANGED <<up, field>> /\ Len(new) > n
            /\ \/ new = Padded(old, Len(new), Nil)
               \/ \E v \in Known \cup Range(old) \cup {up, field} : new = Append(old, v)
               \/ Last1 = Nil /\ field # Nil /\ new = Front(old) \o <<Message, field>>
         \/ /\ UNCHANGED <<up, field>> /\ Len(new) < n
            /\ \/ new = SubSeq(old, 1, Len(new))
               \/ \E i \in 1..n : new = RemoveAt(old, i)
               \/ \E i \in 1..(n - 1) : new = [Front(old) EXCEPT ![i] = Last1]
         \/ n > 0 /\ new = Front(old) /\ up' = Last1 /\ UNCHANGED field
         \/ n > 0 /\ new \in {Front(old), SubSeq(old, 1, n - 2)} /\ field' = Last1 /\ UNCHANGED up
RegisterOp ==
  LET new == frames'[N].vals
  IN  /\ IsLua(This.fn) /\ N = Len(frames') /\ Len(new) = Len(This.vals) /\ Becomes(new)
      /\ UNCHANGED <<protected, up, field>>
      /\ \/ \E a \in DOMAIN new, v \in Known : new = [This.vals EXCEPT ![a] = v]
         \/ \E a \in DOMAIN new : new = SubSeq(This.vals, 1, a - 1) \o Fit(This.extra, 2)
                                          \o SubSeq(This.vals, a + 2, Len(new))

\* The value at p is called with n arguments.
Prefix(p) == [This EXCEPT !.vals = SubSeq(@, 1, p - 1)]
Args(p, n) == SubSeq(This.vals, p + 1, p + n)
Fits(p, n) == IF IsLua(This.fn) THEN p + n <= Len(This.vals) ELSE p + n = Len(This.vals)
Protects(p) ==
  \/ UNCHANGED protected
  \/ /\ ~ IsLua(This.fn) /\ Len(protected') = Len(protected) + 1
     /\ protected' = Append(protected, [level |-> N, kept |-> p - 1, handler |-> Last(protected').handler])
     /\ Last(protected').handler \in 0..(p - 1)
Call(p, n) ==
  /\ Callable(This.vals[p]) /\ Len(frames') = N + 1 /\ Protects(p)
  /\ frames' = Append(Front(frames), Prefix(p)) \o <<Callee(This.vals[p], Args(p, n), frames'[N + 1].wants)>>
\* ... in place of this function if both are Lua functions
TailCall(p, n) ==
  LET f == Callee(This.vals[p], Args(p, n), This.wants)
  IN  /\ IsLua(This.fn) /\ Callable(This.vals[p]) /\ UNCHANGED protected
      /\ IF IsLua(f.fn) THEN frames' = Append(Front(frames), f)
         ELSE frames' = Append(Front(frames), [Prefix(p) EXCEPT !.after = p]) \o <<[f EXCEPT !.wants = -1]>>

\* Results go to the caller, a Lua function's to its registers.
Resumed(caller, results, wants) ==
  LET vals == caller.vals \o Fit(results, wants)
  IN  [caller EXCEPT !.vals = IF IsLua(caller.fn) /\ caller.after = None
                              THEN Padded(vals, Protos[caller.fn].size, Junk) ELSE vals]
Return(results) ==
  LET caller == frames[N - 1]
  IN  /\ N > 1 /\ frames' = Append(Front(Front(frames)), Resumed(caller, results, This.wants))
      /\ IF protected # <<>> /\ Last(protected).level = N - 1 /\ caller.after # Throw
         THEN protected' = Front(protected) ELSE UNCHANGED protected
ReturnOp ==
  LET n == Len(This.vals)
  IN  IF IsLua(This.fn) THEN \E a \in 1..n, k \in 0..2 : a + k - 1 <= n /\ Return(SubSeq(This.vals, a, a + k - 1))
      ELSE \E a \in 1..(n + 1) : Return(SubSeq(This.vals, a, n))

\* An error with such a value, when f is what the function has left, goes to the
\* handler of the innermost protected call first, and ends that call.
Unwind(error, ps) ==
  LET j == Last(ps)
  IN  /\ frames' = Append(SubSeq(frames, 1, j.level - 1),
                          [frames[j.level] EXCEPT !.vals = Append(SubSeq(@, 1, j.kept), error), !.after = None])
      /\ protected' = Front(ps)
Error(f, error, ps) ==
  LET j == Last(ps)
      h == IF j.handler = 0 THEN Nil ELSE frames[j.level].vals[j.handler]
  IN  /\ ps # <<>>
      /\ IF j.handler # 0 /\ h \in CFunctions \cup DOMAIN Protos
         THEN /\ frames' = Append(Front(frames), [f EXCEPT !.after = Throw]) \o <<Frame(h, <<error>>, 1)>>
              /\ protected' = ps
         ELSE Unwind(IF j.handler = 0 THEN error ELSE Message, ps)
Raise == ~ IsLua(This.fn) /\ This.vals # <<>> /\ Error(Prefix(Len(This.vals)), Last(This.vals), protected)
CallNothing(p, n) ==
  /\ ~ Callable(This.vals[p])
  /\ \/ Error(Prefix(p + n + 1), Message, protected)
     \/ \E handler \in 0..(p - 1) :
          ~ IsLua(This.fn) /\ Error(Prefix(p + n + 1), Message,
                                    Append(protected, [level |-> N, kept |-> p - 1, handler |-> handler]))

Next ==
  \/ ListOp /\ ~ IsLua(This.fn) /\ This.after = None
  \/ RegisterOp /\ This.after = None
  \/ /\ This.after = None /\ UNCHANGED <<up, field>>
     /\ \/ \E p \in DOMAIN This.vals, n \in 0..1 :
             Fits(p, n) /\ (Call(p, n) \/ TailCall(p, n) \/ CallNothing(p, n))
        \/ ReturnOp
        \/ Raise
  \/ /\ UNCHANGED <<up, field>>
     /\ \/ This.after = Throw /\ Unwind(Last(This.vals), protected)
        \/ This.after > 0 /\ Return(SubSeq(This.vals, This.after, Len(This.vals)))

Init ==
  /\ frames = <<[fn |-> Nil, vals |-> <<>>, extra |-> <<>>, wants |-> 0, after |-> None]>>
  /\ protected = <<>> /\ up = Nil /\ field = Nil
Spec == Init /\ [][Next]_<<frames, protected, up, field>>
=============================================================================
