---------------------------- MODULE MCRouteSocket ----------------------------
(* RouteSocket with two addresses, a link and a route.                       *)
EXTENDS RouteSocket

CONSTANTS a1, a2, l1, r1

TwoAddresses == {a1, a2}
OneLink == {l1}
OneRoute == {r1}

Members == {"membership", "others"}
Alone   == {}
=============================================================================
