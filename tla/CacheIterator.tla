---------------------------- MODULE CacheIterator ----------------------------
(***************************************************************************)
(* TypedCache<T>::Iterator and TypedCache<T>::Filtered: a loop over the    *)
(* objects of a cache, or over those that match a filter, whose body may   *)
(* let the cache manager take in events.  The cache is libnl's list of     *)
(* objects; an Iterator holds a reference to one of them and asks libnl    *)
(* for its successor.                                                      *)
(*                                                                         *)
(* Usage:  "empty"           a filtered loop may begin on an empty cache   *)
(*         "remove_current"  an event may remove the object the iterator   *)
(*                           stands on                                     *)
(***************************************************************************)
EXTENDS Integers, SequencesExt

CONSTANTS
  Objects,     \* the netlink objects, each an allocation of its own
  Matching,    \* those that nl_object_match_filter accepts
  MaxChanges,  \* bound on the events taken in during the loop
  Usage

ASSUME ObjectsAreFinite == IsFiniteSet(Objects)
ASSUME MatchingAreObjects == Matching \subseteq Objects
ASSUME BoundsAreNat == MaxChanges \in Nat
ASSUME UsageIsKnown == Usage \subseteq {"empty", "remove_current"}

VARIABLES
  list,       \* the objects of the cache in libnl's order
  filtered,   \* the iterator has a filter
  cur,        \* what the iterator stands on
  link,       \* the link to its successor that an object keeps when it is removed
  looping,    \* "before", "in" or "after" the loop
  undefined,  \* libnl has been called with a null or an unlinked object
  changes,    \* number of events so far
  seen,       \* the objects the loop has been at
  stayed      \* the objects that have been in the cache all along

vars == <<list, filtered, cur, link, looping, undefined, changes, seen, stayed>>

-----------------------------------------------------------------------------
End == "end"  \* Iterator(nullptr)
ASSUME EndIsNoObject == End \notin Objects

InCache(o) == \E i \in DOMAIN list : list[i] = o
PositionOf(o) == CHOOSE i \in DOMAIN list : list[i] = o

Accepts(o) == filtered => o \in Matching

Ahead(i) == {j \in DOMAIN list : j > i /\ Accepts(list[j])}
FirstOf(S) == IF S = {} THEN End ELSE list[CHOOSE j \in S : \A k \in S : j <= k]

\* Mutants: an object is skipped; the end of the circular list is missed, which leads to
\* its head or round to its beginning.
StepFromFar(i) == FirstOf(Ahead(i + 1))
StepFromToHead(i) == IF Ahead(i) = {} THEN "head" ELSE FirstOf(Ahead(i))
StepFromCircular(i) == IF Ahead(i) = {} THEN FirstOf(Ahead(0)) ELSE FirstOf(Ahead(i))

\* nl_cache_get_next until the end or, with a filter, an object that matches it.
StepFrom(i) == FirstOf(Ahead(i))

Arrive(o) ==
  /\ cur' = o
  /\ looping' = IF o = End THEN "after" ELSE "in"
  /\ seen' = IF o = End THEN seen ELSE Append(seen, o)

\* begin of the cache itself: the first object, if there is one.
Begin ==
  /\ looping = "before" /\ ~filtered
  /\ Arrive(IF list = <<>> THEN End ELSE list[1])
  /\ UNCHANGED <<list, filtered, link, undefined, changes, stayed>>

\* begin of Filtered: the constructor tries the filter on the first object and steps
\* on when it does not match; an empty cache has no first object to try it on.
FilteredBegin ==
  /\ looping = "before" /\ filtered /\ ~undefined
  /\ \/ /\ list = <<>>
        /\ undefined' = TRUE
        /\ UNCHANGED <<cur, looping, seen>>
     \/ /\ list # <<>>
        /\ Arrive(IF Accepts(list[1]) THEN list[1] ELSE StepFrom(1))
        /\ undefined' = undefined
  /\ UNCHANGED <<list, filtered, link, changes, stayed>>

\* ++i and i++ take the same step from the object the iterator stands on.  An object
\* that has left the cache still links to its successor of then; it leads nowhere when
\* that has left too or there was none.
Increment ==
  /\ looping = "in" /\ ~undefined
  /\ \/ /\ InCache(cur)
        /\ Arrive(StepFrom(PositionOf(cur)))
        /\ undefined' = undefined
     \/ /\ ~InCache(cur) /\ link # End
        /\ Arrive(StepFrom(PositionOf(link) - 1))
        /\ undefined' = undefined
     \/ /\ ~InCache(cur) /\ link = End
        /\ undefined' = TRUE
        /\ UNCHANGED <<cur, looping, seen>>
  /\ UNCHANGED <<list, filtered, link, changes, stayed>>

(* The cache manager takes in events while the loop body runs. *)

MayLeave(o) == InCache(o) /\ (o = cur => "remove_current" \in Usage)
Without(o) == RemoveAt(list, PositionOf(o))
LinkWithout(o) ==
  IF o = cur /\ PositionOf(o) < Len(list) THEN list[PositionOf(o) + 1]
  ELSE IF o \in {cur, link} THEN End ELSE link
Event == looping = "in" /\ ~undefined /\ changes < MaxChanges

ObjectAdded(o) ==
  /\ Event /\ ~InCache(o) /\ o # cur
  /\ list' = Append(list, o)
  /\ changes' = changes + 1
  /\ UNCHANGED <<filtered, cur, link, looping, undefined, seen, stayed>>

ObjectRemoved(o) ==
  /\ Event /\ MayLeave(o)
  /\ list' = Without(o)
  /\ link' = LinkWithout(o)
  /\ stayed' = stayed \ {o}
  /\ changes' = changes + 1
  /\ UNCHANGED <<filtered, cur, looping, undefined, seen>>

\* A changed object is a new object at the end of the list.
ObjectChanged(o, new) ==
  /\ Event /\ MayLeave(o) /\ ~InCache(new) /\ new # cur
  /\ list' = Append(Without(o), new)
  /\ link' = LinkWithout(o)
  /\ stayed' = stayed \ {o}
  /\ changes' = changes + 1
  /\ UNCHANGED <<filtered, cur, looping, undefined, seen>>

-----------------------------------------------------------------------------
Init ==
  /\ list \in UNION {SetToSeqs(S) : S \in SUBSET Objects}
  /\ filtered \in BOOLEAN
  /\ list = <<>> /\ filtered => "empty" \in Usage
  /\ cur = End /\ link = End /\ looping = "before" /\ undefined = FALSE
  /\ changes = 0 /\ seen = <<>>
  /\ stayed = ToSet(list)

Loop == Begin \/ FilteredBegin \/ Increment
Events == \/ \E o \in Objects : ObjectAdded(o) \/ ObjectRemoved(o)
          \/ \E o, new \in Objects : ObjectChanged(o, new)
Next == Loop \/ Events

Spec == Init /\ [][Next]_vars

-----------------------------------------------------------------------------
(* Properties *)

\* Each variable keeps its type, and no object is in the cache twice.
TypeOK ==
  /\ list \in Seq(Objects) /\ IsInjective(list)
  /\ filtered \in BOOLEAN
  /\ {cur, link} \subseteq Objects \cup {End}
  /\ looping \in {"before", "in", "after"}
  /\ undefined \in BOOLEAN /\ changes \in Nat
  /\ seen \in Seq(Objects) /\ stayed \subseteq Objects

\* When the loop ends it has been at every matching object that was in the cache from
\* its beginning to its end, whatever came, went and changed around it.
AllVisited == looping = "after" => \A o \in stayed : Accepts(o) => o \in ToSet(seen)

\* The loop is at no object that does not match, and at those that have been in the
\* cache all along in their order, so at none of them twice.
InOrder ==
  /\ \A i \in DOMAIN seen : Accepts(seen[i])
  /\ \A i, j \in DOMAIN seen :
       (i < j /\ {seen[i], seen[j]} \subseteq stayed) => PositionOf(seen[i]) < PositionOf(seen[j])

\* libnl is never asked about a null object, nor follows a link that leads nowhere.
NoUndefined == ~undefined
=============================================================================
