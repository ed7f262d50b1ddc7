----------------------------- MODULE PartValues -----------------------------
(***************************************************************************)
(* What a caller may believe of the addresses that variables, and objects  *)
(* such as a RouteAddress, a Route or a NextHop, hold: each holds a value  *)
(* of its own, and an operation on one leaves the others alone.  There is  *)
(* one exception: an Address given to Route::dst stays one with the        *)
(* destination of the route, until either is replaced.                     *)
(***************************************************************************)
CONSTANTS Things, Dst, Values, None

VARIABLES
  val,   \* val[x]: the value x holds, None if it holds none
  one    \* the things that are one with the destination, itself included
vars == <<val, one>>

Init == val = [x \in Things |-> None] /\ one = {}

\* x, and what is one with it, takes a new value.
Write(x, new) ==
  /\ val[x] # None
  /\ val' = [y \in Things |-> IF y = x \/ {x, y} \subseteq one THEN new ELSE val[y]]
  /\ UNCHANGED one

\* x is replaced by a value of its own, and is no longer one with anything.
Leaving(x) == IF x = Dst THEN {} ELSE one \ {x}
Set(x, new) ==
  /\ val' = [val EXCEPT ![x] = new]
  /\ one' = Leaving(x)

\* The value of w moves to v, and leaves w with none.
Move(v, w) ==
  /\ val' = [val EXCEPT ![v] = val[w], ![w] = None]
  /\ one' = (one \ {v, w}) \cup (IF w \in one THEN {v} ELSE {})

\* v is given to Route::dst.
Give(v) ==
  /\ val[v] # None
  /\ val' = [val EXCEPT ![Dst] = val[v]]
  /\ one' = IF v \in one THEN one ELSE {v, Dst}

\* Some things cease to be.
Drop(X) ==
  /\ val' = [x \in Things |-> IF x \in X THEN None ELSE val[x]]
  /\ one' = IF Dst \in X THEN {} ELSE one \ X

Next ==
  \/ \E x \in Things, new \in Values : Write(x, new) \/ Set(x, new)
  \/ \E v, w \in Things : Move(v, w)
  \/ \E v \in Things : Give(v)
  \/ \E X \in SUBSET Things : Drop(X)

Spec == Init /\ [][Next]_vars
=============================================================================
