----------------------------- MODULE MCRouteParts -----------------------------
(* RouteParts with two variables and two next hops, and GenericFlags with words of     *)
(* four bits.  The two share no state and no property speaks of both, so each has its  *)
(* steps only while the other is as it was in the beginning.  There the symmetry is the  *)
(* identity, so it does not disturb ListingEnds, which is about GenericFlags alone.      *)
EXTENDS RouteParts, GenericFlags, TLC

CONSTANTS v, w, g, h, local, broadcast, dst, c1, c2, c3, null,
          inet, inet6

TwoVars == {v, w}
TwoHops == {g, h}
TwoFamilies == {inet, inet6}
ThreeCells == {c1, c2, c3}
Symmetry == UNION {Permutations(S) : S \in {TwoVars, TwoHops, TwoFamilies, ThreeCells}}

MCInit == Init /\ FlagsInit
MCNext ==
  \/ Next /\ FlagsInit /\ UNCHANGED flagVars
  \/ Init /\ FlagsNext /\ UNCHANGED vars
MCSpec == MCInit /\ [][MCNext]_<<vars, flagVars>> /\ FlagsFairness
=============================================================================
