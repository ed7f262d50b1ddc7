---------------------------- MODULE GenericFlags ----------------------------
(***************************************************************************)
(* GenericFlags of an object such as a RouteAddress: setFlags, unsetFlags  *)
(* and the conversions to a vector, of values or of names, whose loop      *)
(* shifts a bit through a word of Width bits.  A word is the set of its    *)
(* bits.                                                                   *)
(***************************************************************************)
EXTENDS Integers, SequencesExt

CONSTANT Width
ASSUME WidthIsPositive == Width \in Nat \ {0}

VARIABLES
  flags,    \* the flags of the object, and the value the loop goes through
  bit,      \* the bit of the loop's variable f, Width when f has become 0
  listed,   \* the vector
  listing   \* "no", in the "loop", or "done"

flagVars == <<flags, bit, listed, listing>>

-----------------------------------------------------------------------------
Bits == 0..(Width - 1)
Words == SUBSET Bits

\* rtnl_addr_set_flags and rtnl_link_set_flags add flags to those that are set.
SetFlags(w) ==
  /\ listing # "loop"
  /\ flags' = flags \cup w /\ listing' = "no"
  /\ UNCHANGED <<bit, listed>>

UnsetFlags(w) ==
  /\ listing # "loop"
  /\ flags' = flags \ w /\ listing' = "no"
  /\ UNCHANGED <<bit, listed>>

\* f = 1.
ListFlags ==
  /\ listing # "loop"
  /\ listing' = "loop" /\ bit' = 0 /\ listed' = <<>>
  /\ UNCHANGED flags

\* f <= value.  A word with no bit is 0, and smaller than any other.  Mutant: f < value.
ReachesBelow(w) == bit = Width \/ \E b \in w : b > bit
Reaches(w) == bit = Width \/ \E b \in w : b >= bit

\* f <<= 1: the highest bit is shifted out.  Mutant: f << 1.
ShiftedNot == bit
Shifted == IF bit < Width THEN bit + 1 ELSE Width

ListStep ==
  /\ listing = "loop" /\ Reaches(flags)
  /\ listed' = IF bit \in flags THEN Append(listed, bit) ELSE listed
  /\ bit' = Shifted
  /\ UNCHANGED <<flags, listing>>

ListEnd ==
  /\ listing = "loop" /\ ~Reaches(flags)
  /\ listing' = "done"
  /\ UNCHANGED <<flags, bit, listed>>

-----------------------------------------------------------------------------
FlagsInit == flags = {} /\ bit = 0 /\ listed = <<>> /\ listing = "no"

FlagsNext ==
  \/ \E w \in Words : SetFlags(w) \/ UnsetFlags(w)
  \/ ListFlags \/ ListStep \/ ListEnd

\* The loop does not stop by itself.
FlagsFairness == WF_flagVars(ListStep \/ ListEnd)

FlagsSpec == FlagsInit /\ [][FlagsNext]_flagVars /\ FlagsFairness

-----------------------------------------------------------------------------
(* Properties *)

FlagsTypeOK ==
  /\ flags \in Words /\ bit \in 0..Width /\ listed \in Seq(Bits)
  /\ listing \in {"no", "loop", "done"}

\* The conversion of flags to a vector lists exactly the flags that are set, each once and
\* in ascending order.
ListsTheFlags ==
  listing = "done" => /\ ToSet(listed) = flags
                      /\ \A i, j \in DOMAIN listed : i < j => listed[i] < listed[j]

\* It comes to an end, unless the highest bit is set: that is shifted out of f, and 0 is
\* never greater than the value.
ListingEnds == listing = "loop" /\ Width - 1 \notin flags ~> listing = "done"
=============================================================================
