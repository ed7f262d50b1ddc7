--------------------------- MODULE MCCacheIterator ---------------------------
(* CacheIterator with up to four objects, two of which match.                *)
EXTENDS CacheIterator

CONSTANTS o1, o2, o3, o4

FourObjects == {o1, o2, o3, o4}
TwoMatching == {o1, o2}

Empty == {"empty"}
=============================================================================
