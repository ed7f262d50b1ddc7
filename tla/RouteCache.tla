----------------------------- MODULE RouteCache -----------------------------
(***************************************************************************)
(* RouteCacheManager with one RouteAddressCache and its watchers: the dump *)
(* that fills the cache, the multicast events that keep it current, the    *)
(* loop that runs the watchers on each event, and the lifetimes of manager *)
(* and cache.  The kernel's addresses and the libnl cache manager are      *)
(* modelled as the code uses them.                                         *)
(*                                                                         *)
(* Usage names what happens beyond the plain use:                          *)
(*   "destroy_first"  the cache handle dies before its manager             *)
(*   "throw"          a watcher throws                                     *)
(*   "rewatch"        a watcher calls watch                                *)
(*   "overrun"        an event that finds the receive queue full is lost   *)
(*   "retry"          addressCache fails and may be called again           *)
(***************************************************************************)
EXTENDS Integers, SequencesExt

CONSTANTS
  Keys,        \* what identifies an address (interface, local address, prefix)
  Values,      \* its other attributes
  Absent,      \* the value of an address that does not exist
  MaxChanges,  \* bound on the changes of the kernel's addresses
  MaxQueue,    \* events the manager's socket holds
  MaxWatchers, \* bound on the callbacks given to watch
  Usage

ASSUME BoundsAreNat == MaxChanges \in Nat /\ MaxQueue \in Nat /\ MaxWatchers \in Nat
ASSUME AbsentIsNoValue == Absent \notin Values
ASSUME UsageIsKnown == Usage \subseteq {"destroy_first", "throw", "rewatch", "overrun",
                                        "retry"}

VARIABLES
  kernel,      \* the kernel's addresses
  changes,     \* number of changes so far
  events,      \* the receive queue of the manager's socket
  overrun,     \* an event was lost and dataReady has not reported it yet
  manager,     \* the RouteCacheManager: "open", "joined" its group, "cached", "freed"
  handle,      \* the RouteAddressCache: "none", "alive", "destroyed"
  cache,       \* the contents of the nl_cache
  watchers,    \* the size of the vector *callbacks
  view,        \* view[w]: what watcher w has been told, on top of what it saw first
  missed,      \* the watchers that an exception has kept from an event
  delivering,  \* the event on which dataReady is running the watchers
  ready,       \* dataReady is running
  dangling,    \* freed memory has been used
  lossy,       \* an event was lost, or an addressCache that failed left some in the socket
  misused      \* a watcher called watch, or the cache died before its manager

kernelVars == <<kernel, changes>>
socketVars == <<events, overrun>>
history == <<lossy, misused>>
vars == <<kernelVars, socketVars, manager, handle, cache, watchers, view, missed,
          delivering, ready, dangling, history>>

-----------------------------------------------------------------------------
Contents == [Keys -> Values \cup {Absent}]
Nothing  == [k \in Keys |-> Absent]
Event    == [key : Keys, val : Values \cup {Absent}]

\* upto is the end of the range-for over callbacks, next its current position.
Delivery   == [event : Event, next : Nat \ {0}, upto : Nat]
NoDelivery == [next |-> 0]
Busy == delivering # NoDelivery

\* The thread is between two calls of the library.
ClientRuns == ~ready /\ ~dangling

(* The kernel *)

KernelChange(k, v) ==
  /\ changes < MaxChanges /\ kernel[k] # v
  /\ changes' = changes + 1
  /\ kernel' = [kernel EXCEPT ![k] = v]
  /\ \/ /\ manager \in {"joined", "cached"} /\ Len(events) < MaxQueue
        /\ events' = Append(events, [key |-> k, val |-> v])
        /\ UNCHANGED <<overrun, lossy>>
     \/ /\ manager \in {"joined", "cached"} /\ Len(events) = MaxQueue /\ "overrun" \in Usage
        /\ overrun' = TRUE /\ lossy' = TRUE
        /\ events' = events
     \/ /\ manager \in {"open", "freed"}
        /\ UNCHANGED <<socketVars, lossy>>
  /\ UNCHANGED <<manager, handle, cache, watchers, view, missed, delivering, ready,
                 dangling, misused>>

(* The client's calls *)

\* addressCache, first half: nl_cache_mngr_add joins the multicast group ...
AddressCacheJoins ==
  /\ ClientRuns /\ manager = "open"
  /\ manager' = "joined"
  /\ UNCHANGED <<kernelVars, socketVars, handle, cache, watchers, view, missed,
                 delivering, ready, dangling, history>>

\* Mutant of the next: a failed dump goes unnoticed, the cache is handed out unfilled.
AddressCacheIgnoresFailure ==
  /\ ClientRuns /\ manager = "joined"
  /\ manager' = "cached"
  /\ handle' = "alive"
  /\ UNCHANGED <<kernelVars, socketVars, cache, watchers, view, missed, delivering,
                 ready, dangling, history>>

\* ... and then fills the cache from a dump on its second socket.
AddressCacheFills ==
  /\ ClientRuns /\ manager = "joined"
  /\ manager' = "cached"
  /\ handle' = "alive"
  /\ cache' = kernel
  /\ UNCHANGED <<kernelVars, socketVars, watchers, view, missed, delivering, ready,
                 dangling, history>>

\* The dump fails: libnl leaves the group, addressCache throws, and the events that
\* have been queued meanwhile, if any, stay in the socket.
AddressCacheThrows ==
  /\ ClientRuns /\ manager = "joined" /\ "retry" \in Usage
  /\ manager' = "open"
  /\ lossy' = (lossy \/ events # <<>>)
  /\ UNCHANGED <<kernelVars, socketVars, handle, cache, watchers, view, missed,
                 delivering, ready, dangling, misused>>

\* push_back on the callbacks; the client looks at the cache when it starts watching.
Watch ==
  /\ ClientRuns /\ handle = "alive" /\ watchers < MaxWatchers
  /\ watchers' = watchers + 1
  /\ view' = [view EXCEPT ![watchers + 1] = cache]
  /\ UNCHANGED <<kernelVars, socketVars, manager, handle, cache, missed, delivering,
                 ready, dangling, history>>

DestroyCache ==
  /\ ClientRuns /\ handle = "alive"
  /\ "destroy_first" \in Usage \/ manager = "freed"
  /\ handle' = "destroyed"
  /\ misused' = (misused \/ manager # "freed")
  /\ UNCHANGED <<kernelVars, socketVars, manager, cache, watchers, view, missed,
                 delivering, ready, dangling, lossy>>

DestroyManager ==
  /\ ClientRuns /\ manager \in {"open", "cached"}
  /\ manager' = "freed"
  /\ UNCHANGED <<kernelVars, socketVars, handle, cache, watchers, view, missed,
                 delivering, ready, dangling, history>>

DataReady ==
  /\ ClientRuns /\ manager = "cached"
  /\ ready' = TRUE
  /\ UNCHANGED <<kernelVars, socketVars, manager, handle, cache, watchers, view,
                 missed, delivering, dangling, history>>

(* dataReady *)

\* The cache after an event.
Included(e) == [cache EXCEPT ![e.key] = e.val]

\* libnl calls back when the event changes something.
Notifies(e) == cache[e.key] # e.val

\* The vector behind vcallbacks belongs to the RouteAddressCache.  Mutant: to a local
\* variable of addressCache.
VectorFreedOnReturn == TRUE
VectorFreed == handle = "destroyed"

\* The first watcher of the loop.  Mutants: one off.
LoopStartOneEarly == 0
LoopStartOneLate == 2
LoopStart == 1

\* libnl takes the next event into the cache and runs the callback of addressCache,
\* which starts its loop over the watchers.
IncludeEvent ==
  /\ ready /\ ~Busy /\ ~dangling /\ ~overrun /\ events # <<>>
  /\ events' = Tail(events)
  /\ LET e == Head(events)
     IN /\ cache' = Included(e)
        /\ IF Notifies(e)
           THEN /\ dangling' = VectorFreed
                /\ delivering' = [event |-> e, next |-> LoopStart, upto |-> watchers]
           ELSE UNCHANGED <<dangling, delivering>>
  /\ UNCHANGED <<kernelVars, overrun, manager, handle, watchers, view, missed, ready, history>>

Delivering == Busy /\ ~dangling
Current == delivering.next
Told == [view EXCEPT ![Current][delivering.event.key] = delivering.event.val]

\* One watcher is run on the event.
RunWatcher ==
  /\ Delivering /\ Current <= delivering.upto
  /\ view' = Told
  /\ delivering' = [delivering EXCEPT !.next = @ + 1]
  /\ UNCHANGED <<kernelVars, socketVars, manager, handle, cache, watchers, missed,
                 ready, dangling, history>>

\* The watcher calls watch: push_back may reallocate the vector under the loop, and
\* the loop does not reach the new element otherwise.
WatcherWatches ==
  /\ Delivering /\ Current <= delivering.upto /\ "rewatch" \in Usage
  /\ watchers < MaxWatchers
  /\ watchers' = watchers + 1
  /\ view' = [Told EXCEPT ![watchers + 1] = cache]
  /\ delivering' = [delivering EXCEPT !.next = @ + 1]
  /\ dangling' \in BOOLEAN
  /\ misused' = TRUE
  /\ UNCHANGED <<kernelVars, socketVars, manager, handle, cache, missed, ready, lossy>>

\* The exception leaves the loop, libnl and dataReady: the watchers after this one are
\* not run on the event.
WatcherThrows ==
  /\ Delivering /\ Current <= delivering.upto /\ "throw" \in Usage
  /\ view' = Told
  /\ missed' = missed \cup (Current + 1)..delivering.upto
  /\ delivering' = NoDelivery
  /\ ready' = FALSE
  /\ UNCHANGED <<kernelVars, socketVars, manager, handle, cache, watchers, dangling, history>>

WatchersDone ==
  /\ Delivering /\ Current > delivering.upto
  /\ delivering' = NoDelivery
  /\ UNCHANGED <<kernelVars, socketVars, manager, handle, cache, watchers, view,
                 missed, ready, dangling, history>>

\* The socket is empty, or reports the lost event and dataReady throws.
DataReadyReturns ==
  /\ ready /\ ~Busy /\ ~dangling /\ (events = <<>> \/ overrun)
  /\ ready' = FALSE
  /\ overrun' = FALSE
  /\ UNCHANGED <<kernelVars, events, manager, handle, cache, watchers, view, missed,
                 delivering, dangling, history>>

-----------------------------------------------------------------------------
Init ==
  /\ kernel \in Contents /\ changes = 0
  /\ events = <<>> /\ overrun = FALSE
  /\ manager = "open" /\ handle = "none" /\ cache = Nothing
  /\ watchers = 0 /\ view = [w \in 1..MaxWatchers |-> Nothing] /\ missed = {}
  /\ delivering = NoDelivery /\ ready = FALSE /\ dangling = FALSE
  /\ lossy = FALSE /\ misused = FALSE

Kernel == \E k \in Keys, v \in Values \cup {Absent} : KernelChange(k, v)

Client == \/ AddressCacheJoins \/ AddressCacheFills \/ AddressCacheThrows \/ Watch
          \/ DestroyCache \/ DestroyManager
          \/ WatcherWatches \/ WatcherThrows

Library == IncludeEvent \/ RunWatcher \/ WatchersDone \/ DataReadyReturns

Next == Kernel \/ Client \/ DataReady \/ Library

Spec == Init /\ [][Next]_vars

\* A call runs to its end, and the client's event loop calls dataReady again and again.
FairSpec == Spec /\ WF_vars(Library) /\ WF_vars(DataReady)

-----------------------------------------------------------------------------
(* Properties *)

\* Each variable keeps its type.
TypeOK ==
  /\ kernel \in Contents /\ changes \in Nat
  /\ events \in Seq(Event) /\ overrun \in BOOLEAN
  /\ manager \in {"open", "joined", "cached", "freed"}
  /\ handle \in {"none", "alive", "destroyed"}
  /\ cache \in Contents
  /\ watchers \in 0..MaxWatchers /\ view \in [1..MaxWatchers -> Contents]
  /\ missed \subseteq Nat
  /\ delivering \in Delivery \cup {NoDelivery}
  /\ {ready, dangling, lossy, misused} \subseteq BOOLEAN

\* Where no event about an address is queued, the cache agrees with the kernel; where
\* some are, the last of them says what the kernel has.  Events older than the dump,
\* replayed over newer contents, change nothing about that, but those an addressCache
\* that failed has left behind do, and so does a lost event.
About(k) == {i \in DOMAIN events : events[i].key = k}
AgreesOn(k) ==
  \/ About(k) = {} /\ cache[k] = kernel[k]
  \/ \E i \in About(k) : events[i].val = kernel[k] /\ \A j \in About(k) : j <= i
CacheFollowsKernel == manager = "cached" /\ ~lossy => \A k \in Keys : AgreesOn(k)

\* A watcher that applies the events it is told to what it saw when it began knows
\* the cache, except that the watchers the loop has not reached lack the current event.
\* Only those that came after a watcher that threw may have lost track for good.
NotYetTold(w) == Busy /\ w \in Current..delivering.upto
WatchersKnowCache ==
  \A w \in (1..watchers) \ missed : \A k \in Keys :
    view[w][k] # cache[k] => NotYetTold(w) /\ k = delivering.event.key

\* The callback of addressCache uses a vector of watchers that is gone only after a
\* watcher has called watch, or the cache has died before its manager: the order of
\* addressCache's dump, the events, a failed call and a watcher's exception is harmless.
DanglesOnlyMisused == dangling => misused

\* The callback of addressCache never uses a vector of watchers that is gone.
NoUseAfterFree == ~dangling

\* Once the kernel's addresses stop changing, as they do in an instance, the cache of
\* a live manager becomes equal to them and stays so, also when watchers throw.
CacheCatchesUp ==
  <>[](manager = "cached" /\ ~lossy /\ ~misused => cache = kernel)
=============================================================================
