--------------------------- MODULE MCGenericClient ---------------------------
(* GenericClient with two families that compete for two ids, and one         *)
(* wireless interface.                                                       *)
EXTENDS GenericClient

CONSTANTS wifi, other, conf

TwoFamilies == {wifi, other}
OneConfig == {conf}
Rough == {"membership", "sendfail"}
=============================================================================
