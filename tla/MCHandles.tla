------------------------------ MODULE MCHandles ------------------------------
(* Handles with three variables of one class and three allocations, and CacheIterator   *)
(* with up to four objects, two of which match.  The two share no state and no property  *)
(* speaks of both, so each has its steps only while the other is at one of its initial   *)
(* states.  The symmetry is that of Handles; it is the identity on an iterator.          *)
EXTENDS Handles, CacheIterator, TLC

CONSTANTS x, y, z, c1, c2, c3, null, unborn, o1, o2, o3, o4

ThreeVars  == {x, y, z}
ThreeCells == {c1, c2, c3}
Symmetry   == Permutations(ThreeVars) \cup Permutations(ThreeCells)

FourObjects == {o1, o2, o3, o4}
TwoMatching == {o1, o2}
Careless    == {"empty", "remove_current"}

HandlesRest   == HandlesInit /\ class = AddressClass
IteratorRests == looping = "before" /\ list = <<>> /\ ~filtered

MCInit == HandlesInit /\ Init
MCNext ==
  \/ HandlesRest /\ Next /\ UNCHANGED handleVars
  \/ IteratorRests /\ HandlesNext /\ UNCHANGED vars
MCSpec == MCInit /\ [][MCNext]_<<handleVars, vars>>
=============================================================================
