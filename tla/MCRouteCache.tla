---------------------------- MODULE MCRouteCache ----------------------------
(* RouteCache with two addresses that come, change and go.                  *)
EXTENDS RouteCache

CONSTANTS k1, k2, v1, v2, none

TwoKeys == {k1, k2}
TwoValues == {v1, v2}

Rough     == {"destroy_first", "throw", "rewatch", "overrun", "retry"}
Early     == {"destroy_first"}
=============================================================================
