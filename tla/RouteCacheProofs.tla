-------------------------- MODULE RouteCacheProofs --------------------------
(***************************************************************************)
(* Theorems of RouteCache, for any set of addresses and any bounds.        *)
(***************************************************************************)
EXTENDS RouteCache, SequenceTheorems, TLAPS

-----------------------------------------------------------------------------
(* Types *)

\* Each variable of RouteCache keeps its type (TypeOK), whatever the usage.
THEOREM TypeCorrect == Spec => []TypeOK
<1>1. Init => TypeOK
  <2> SUFFICES ASSUME Init PROVE TypeOK
    OBVIOUS
  <2>1. Nothing \in Contents /\ events \in Seq(Event)
    BY DEF Init, Nothing, Contents
  <2>2. view \in [1..MaxWatchers -> Contents]
    BY <2>1 DEF Init
  <2>3. changes \in Nat /\ watchers \in 0..MaxWatchers
    BY BoundsAreNat DEF Init
  <2> QED BY <2>1, <2>2, <2>3, Zenon DEF Init, TypeOK
<1>2. TypeOK /\ [Next]_vars => TypeOK'
  <2> SUFFICES ASSUME TypeOK, [Next]_vars PROVE TypeOK'
    OBVIOUS
  <2> USE BoundsAreNat DEF TypeOK, history
  <2>1. CASE UNCHANGED vars
    BY <2>1 DEF vars, kernelVars, socketVars
  <2>2. ASSUME NEW k \in Keys, NEW v \in Values \cup {Absent}, KernelChange(k, v)
        PROVE  TypeOK'
    <3>1. [kernel EXCEPT ![k] = v] \in Contents
      BY <2>2 DEF Contents
    <3>2. Append(events, [key |-> k, val |-> v]) \in Seq(Event)
      <4>1. [key |-> k, val |-> v] \in Event
        BY DEF Event
      <4> QED BY <4>1, AppendProperties
    <3>3. changes + 1 \in Nat
      OBVIOUS
    <3> QED BY <2>2, <3>1, <3>2, <3>3 DEF KernelChange, socketVars
  <2>3. CASE AddressCacheJoins
    BY <2>3 DEF AddressCacheJoins, kernelVars, socketVars
  <2>4. CASE AddressCacheFills
    BY <2>4 DEF AddressCacheFills, kernelVars, socketVars
  <2>5. CASE AddressCacheThrows
    BY <2>5 DEF AddressCacheThrows, kernelVars, socketVars
  <2>6. CASE Watch
    BY <2>6 DEF Watch, kernelVars, socketVars
  <2>7. CASE DestroyCache
    BY <2>7 DEF DestroyCache, kernelVars, socketVars
  <2>8. CASE DestroyManager
    BY <2>8 DEF DestroyManager, kernelVars, socketVars
  <2>9. CASE DataReady
    BY <2>9 DEF DataReady, kernelVars, socketVars
  <2>10. CASE IncludeEvent
    <3>1. Head(events) \in Event /\ Tail(events) \in Seq(Event)
      BY <2>10, HeadTailProperties DEF IncludeEvent
    <3>2. Included(Head(events)) \in Contents
      BY <3>1 DEF Included, Contents, Event
    <3>3. [event |-> Head(events), next |-> LoopStart, upto |-> watchers] \in Delivery
      BY <3>1 DEF Delivery, LoopStart
    <3> QED BY <2>10, <3>1, <3>2, <3>3 DEF IncludeEvent, VectorFreed, kernelVars
  <2>11. ASSUME delivering \in Delivery
         PROVE  Told \in [1..MaxWatchers -> Contents]
    <3>1. delivering.event \in Event
      BY <2>11 DEF Delivery
    <3>2. \A c \in Contents :
            [c EXCEPT ![delivering.event.key] = delivering.event.val] \in Contents
      BY <3>1 DEF Contents, Event
    <3> QED BY <3>2 DEF Told
  <2>12. ASSUME Delivering
         PROVE  /\ delivering \in Delivery
                /\ [delivering EXCEPT !.next = @ + 1] \in Delivery
    <3>1. delivering \in Delivery
      BY <2>12 DEF Delivering, Busy
    <3>2. delivering.next \in Nat /\ delivering.next + 1 \in Nat
      BY <3>1 DEF Delivery
    <3> QED BY <3>1, <3>2 DEF Delivery
  <2>13. CASE RunWatcher
    BY <2>11, <2>12, <2>13 DEF RunWatcher, kernelVars, socketVars
  <2>14. CASE WatcherWatches
    BY <2>11, <2>12, <2>14 DEF WatcherWatches, kernelVars, socketVars
  <2>15. CASE WatcherThrows
    <3>1. missed \cup (Current + 1)..delivering.upto \subseteq Nat
      BY <2>12, <2>15 DEF WatcherThrows, Delivering, Delivery, Current
    <3> QED BY <2>11, <2>12, <2>15, <3>1 DEF WatcherThrows, kernelVars, socketVars
  <2>16. CASE WatchersDone
    BY <2>16 DEF WatchersDone, kernelVars, socketVars
  <2>17. CASE DataReadyReturns
    BY <2>17 DEF DataReadyReturns, kernelVars
  <2> QED BY <2>1, <2>2, <2>3, <2>4, <2>5, <2>6, <2>7, <2>8, <2>9, <2>10, <2>13, <2>14,
             <2>15, <2>16, <2>17 DEF Next, Kernel, Client, Library
<1> QED BY <1>1, <1>2, PTL DEF Spec

-----------------------------------------------------------------------------
(* The cache and the kernel *)

\* The last queued event about an address says what the kernel has.
LastIsCurrent(k) ==
  \E i \in About(k) : events[i].val = kernel[k] /\ \A j \in About(k) : j <= i

\* Joining before dumping: from the join on every change is in the queue, so where
\* the queue says nothing the dump, or the event taken last, is still right.
QueueEndsAtKernel ==
  manager \in {"joined", "cached"} /\ ~lossy =>
    \A k \in Keys : About(k) # {} => LastIsCurrent(k)
NoOldEvents == manager = "open" /\ ~lossy => events = <<>>

\* A change is appended to the queue.
LEMMA ChangeIsQueued ==
  ASSUME TypeOK, NEW k \in Keys, NEW v \in Values \cup {Absent}, NEW q \in Keys,
         kernel' = [kernel EXCEPT ![k] = v],
         events' = Append(events, [key |-> k, val |-> v])
  PROVE  /\ q = k => LastIsCurrent(q)'
         /\ q # k => /\ About(q)' = About(q) /\ kernel'[q] = kernel[q]
                     /\ \A i \in About(q) : events'[i] = events[i]
<1> DEFINE n == Len(events)
<1>1. n \in Nat /\ DOMAIN events = 1..n
  BY LenProperties DEF TypeOK
<1>2. /\ DOMAIN events' = 1..(n + 1)
      /\ \A i \in 1..n : events'[i] = events[i]
      /\ events'[n + 1] = [key |-> k, val |-> v]
  <2>1. events \in Seq(Event) /\ [key |-> k, val |-> v] \in Event
    BY DEF TypeOK, Event
  <2> QED BY <2>1, AppendProperties, LenProperties
<1>3. kernel \in [Keys -> Values \cup {Absent}]
  BY DEF TypeOK, Contents
<1> HIDE DEF n
<1>4. ASSUME q = k PROVE LastIsCurrent(q)'
  <2>1. n + 1 \in About(q)' /\ events'[n + 1].val = kernel'[q]
    BY <1>1, <1>2, <1>3, <1>4 DEF About
  <2>2. \A j \in About(q)' : j <= n + 1
    BY <1>1, <1>2 DEF About
  <2> QED BY <2>1, <2>2 DEF LastIsCurrent
<1>5. ASSUME q # k
      PROVE  /\ About(q)' = About(q) /\ kernel'[q] = kernel[q]
             /\ \A i \in About(q) : events'[i] = events[i]
  <2>1. \A i : i \in About(q)' <=> i \in About(q)
    <3>1. ~(n + 1 \in About(q)')
      BY <1>2, <1>5 DEF About
    <3>2. \A i : i \in 1..(n + 1) <=> (i \in 1..n \/ i = n + 1)
      BY <1>1
    <3> QED BY <1>1, <1>2, <3>1, <3>2 DEF About
  <2> QED BY <1>1, <1>2, <1>3, <1>5, <2>1 DEF About
<1> QED BY <1>4, <1>5

\* The first event leaves the queue: the positions of the others move down by one.
LEMMA EventIsTaken ==
  ASSUME TypeOK, events # <<>>, events' = Tail(events)
  PROVE  \A q \in Keys :
           /\ \A i : i \in About(q)' <=> i >= 1 /\ i + 1 \in About(q) /\ i \in Nat
           /\ \A i \in About(q)' : events'[i] = events[i + 1]
           /\ 1 \in About(q) <=> Head(events).key = q
<1> DEFINE n == Len(events)
<1>1. n \in Nat /\ n >= 1 /\ DOMAIN events = 1..n
  BY LenProperties, EmptySeq DEF TypeOK
<1>2. /\ DOMAIN events' = 1..(n - 1)
      /\ \A i \in 1..(n - 1) : events'[i] = events[i + 1]
      /\ Head(events) = events[1]
  <2>1. /\ Tail(events) \in Seq(Event) /\ Len(Tail(events)) = Len(events) - 1
        /\ \A i \in 1..Len(Tail(events)) : Tail(events)[i] = events[i + 1]
    BY HeadTailProperties DEF TypeOK
  <2> QED BY <2>1, LenProperties
<1> HIDE DEF n
<1> QED BY <1>1, <1>2 DEF About

\* Until an event is lost to a full queue, or an addressCache that fails half way leaves
\* some in the socket, the cache agrees with the kernel up to what is queued
\* (CacheFollowsKernel), for any addresses and however changes, dump and events interleave.
THEOREM CacheIsCurrent == Spec => []CacheFollowsKernel
<1>1. Init => CacheFollowsKernel /\ QueueEndsAtKernel /\ NoOldEvents
  BY DEF Init, CacheFollowsKernel, QueueEndsAtKernel, NoOldEvents
<1>2. TypeOK /\ CacheFollowsKernel /\ QueueEndsAtKernel /\ NoOldEvents /\ [Next]_vars
      => (CacheFollowsKernel /\ QueueEndsAtKernel /\ NoOldEvents)'
  <2> SUFFICES ASSUME TypeOK, CacheFollowsKernel, QueueEndsAtKernel, NoOldEvents, [Next]_vars,
                      ~lossy'
               PROVE  (CacheFollowsKernel /\ QueueEndsAtKernel /\ NoOldEvents)'
    BY DEF CacheFollowsKernel, QueueEndsAtKernel, NoOldEvents
  <2> DEFINE Goal == (CacheFollowsKernel /\ QueueEndsAtKernel /\ NoOldEvents)'
  <2>0. ~lossy
    BY DEF Next, Kernel, KernelChange, Client, Library, AddressCacheJoins, AddressCacheFills,
           AddressCacheThrows, Watch, DestroyCache, DestroyManager, DataReady, IncludeEvent,
           RunWatcher, WatcherWatches, WatcherThrows, WatchersDone, DataReadyReturns, vars, history
  <2>1. ASSUME UNCHANGED <<kernel, events, manager, cache>> PROVE Goal
    BY <2>0, <2>1 DEF CacheFollowsKernel, QueueEndsAtKernel, NoOldEvents, AgreesOn, LastIsCurrent, About
  <2>2. ASSUME NEW k \in Keys, NEW v \in Values \cup {Absent}, KernelChange(k, v)
        PROVE  Goal
    <3>1. CASE manager \in {"joined", "cached"}
      <4>1. /\ events' = Append(events, [key |-> k, val |-> v])
            /\ kernel' = [kernel EXCEPT ![k] = v]
            /\ manager' = manager /\ cache' = cache
        BY <2>2, <3>1 DEF KernelChange
      <4>2. ASSUME NEW q \in Keys
            PROVE  /\ About(q)' # {} => LastIsCurrent(q)'
                   /\ manager = "cached" => AgreesOn(q)'
        <5>1. CASE q = k
          BY <4>1, <5>1, ChangeIsQueued DEF AgreesOn, LastIsCurrent
        <5>2. CASE q # k
          <6>1. /\ About(q)' = About(q) /\ kernel'[q] = kernel[q]
                /\ \A i \in About(q) : events'[i] = events[i]
            BY <4>1, <5>2, ChangeIsQueued
          <6>2. About(q) # {} => LastIsCurrent(q)
            BY <2>0, <3>1 DEF QueueEndsAtKernel
          <6>3. manager = "cached" => AgreesOn(q)
            BY <2>0 DEF CacheFollowsKernel
          <6> QED BY <4>1, <6>1, <6>2, <6>3 DEF AgreesOn, LastIsCurrent
        <5> QED BY <5>1, <5>2
      <4> QED BY <3>1, <4>1, <4>2 DEF CacheFollowsKernel, QueueEndsAtKernel, NoOldEvents
    <3>2. CASE manager \in {"open", "freed"}
      BY <2>0, <2>2, <3>2 DEF KernelChange, socketVars, CacheFollowsKernel, QueueEndsAtKernel,
                        NoOldEvents
    <3> QED BY <3>1, <3>2 DEF TypeOK
  <2>3. CASE AddressCacheJoins
    <3>1. events' = <<>> /\ manager' = "joined"
      BY <2>0, <2>3 DEF AddressCacheJoins, socketVars, NoOldEvents
    <3>2. \A q \in Keys : About(q)' = {}
      BY <3>1 DEF About
    <3> QED BY <3>1, <3>2 DEF CacheFollowsKernel, QueueEndsAtKernel, NoOldEvents
  <2>4. CASE AddressCacheFills
    <3>1. /\ UNCHANGED <<kernel, events>> /\ cache' = kernel
          /\ manager = "joined" /\ manager' = "cached"
      BY <2>4 DEF AddressCacheFills, kernelVars, socketVars
    <3> QED BY <2>0, <3>1 DEF CacheFollowsKernel, QueueEndsAtKernel, NoOldEvents, AgreesOn,
                        LastIsCurrent, About
  <2>5. CASE IncludeEvent
    <3>1. /\ events # <<>> /\ events' = Tail(events) /\ kernel' = kernel /\ manager' = manager
          /\ cache' = [cache EXCEPT ![Head(events).key] = Head(events).val]
      BY <2>5 DEF IncludeEvent, Included, kernelVars
    <3>2. cache \in [Keys -> Values \cup {Absent}]
      BY DEF TypeOK, Contents
    <3>3. ASSUME NEW q \in Keys, manager \in {"joined", "cached"}
          PROVE  /\ About(q)' # {} => LastIsCurrent(q)'
                 /\ manager = "cached" => AgreesOn(q)'
      <4>1. /\ \A i : i \in About(q)' <=> i >= 1 /\ i + 1 \in About(q) /\ i \in Nat
            /\ \A i \in About(q)' : events'[i] = events[i + 1]
            /\ 1 \in About(q) <=> Head(events).key = q
        BY <3>1, EventIsTaken
      <4>2. About(q) # {} => LastIsCurrent(q)
        BY <2>0, <3>3 DEF QueueEndsAtKernel
      <4>3. \A i \in About(q) : i \in Nat /\ i >= 1
        BY LenProperties DEF About, TypeOK
      <4>4. ASSUME About(q)' # {} PROVE LastIsCurrent(q)'
        <5>1. About(q) # {}
          BY <4>1, <4>4
        <5>2. PICK i \in About(q) : events[i].val = kernel[q] /\ \A j \in About(q) : j <= i
          BY <4>2, <5>1 DEF LastIsCurrent
        <5>3. PICK j : j \in About(q)'
          BY <4>4
        <5>4. j \in Nat /\ j >= 1 /\ j + 1 <= i /\ i \in Nat
          BY <4>1, <4>3, <5>2, <5>3
        <5>5. i - 1 \in About(q)' /\ (i - 1) + 1 = i
          BY <4>1, <5>2, <5>4
        <5>6. events'[i - 1].val = kernel'[q]
          BY <3>1, <4>1, <5>2, <5>5
        <5>7. \A l \in About(q)' : l <= i - 1
          BY <4>1, <5>2, <5>4
        <5> QED BY <5>5, <5>6, <5>7 DEF LastIsCurrent
      <4>5. ASSUME About(q)' = {}, manager = "cached" PROVE cache'[q] = kernel'[q]
        <5>1. CASE Head(events).key = q
          <6>1. PICK i \in About(q) : events[i].val = kernel[q] /\ \A j \in About(q) : j <= i
            BY <4>1, <4>2, <5>1 DEF LastIsCurrent
          <6>2. i = 1
            <7>1. i \in Nat /\ i >= 1
              BY <4>3
            <7>2. i > 1 => i - 1 \in About(q)'
              BY <4>1, <7>1
            <7> QED BY <4>5, <7>1, <7>2
          <6>3. Head(events) = events[1]
            BY <3>1, HeadTailProperties DEF TypeOK
          <6> QED BY <3>1, <3>2, <5>1, <6>1, <6>2, <6>3
        <5>2. CASE Head(events).key # q
          <6>1. About(q) = {}
            <7>1. ASSUME NEW i \in About(q) PROVE FALSE
              <8>1. i \in Nat /\ i >= 1 /\ i # 1
                BY <4>1, <4>3, <5>2
              <8>2. i - 1 \in About(q)'
                BY <4>1, <8>1
              <8> QED BY <4>5, <8>2
            <7> QED BY <7>1
          <6>2. cache[q] = kernel[q]
            BY <2>0, <4>5, <6>1 DEF CacheFollowsKernel, AgreesOn
          <6> QED BY <3>1, <3>2, <5>2, <6>2
        <5> QED BY <5>1, <5>2
      <4> QED BY <4>4, <4>5 DEF AgreesOn, LastIsCurrent
    <3>4. manager # "open"
      BY <2>0, <3>1 DEF NoOldEvents
    <3> QED BY <3>1, <3>3, <3>4 DEF CacheFollowsKernel, QueueEndsAtKernel, NoOldEvents
  <2>6. CASE DestroyManager
    BY <2>0, <2>6 DEF DestroyManager, CacheFollowsKernel, QueueEndsAtKernel, NoOldEvents
  <2>7. CASE Watch \/ DestroyCache \/ DataReady
    BY <2>1, <2>7 DEF Watch, DestroyCache, DataReady, kernelVars, socketVars
  <2>8. CASE RunWatcher \/ WatcherWatches \/ WatcherThrows \/ WatchersDone
    BY <2>1, <2>8 DEF RunWatcher, WatcherWatches, WatcherThrows, WatchersDone, kernelVars,
                      socketVars
  <2>9. CASE DataReadyReturns
    BY <2>1, <2>9 DEF DataReadyReturns, kernelVars
  <2>10. CASE UNCHANGED vars
    BY <2>1, <2>10 DEF vars, kernelVars, socketVars
  <2>11. CASE AddressCacheThrows
    BY <2>11 DEF AddressCacheThrows, CacheFollowsKernel, QueueEndsAtKernel, NoOldEvents, socketVars
  <2> QED BY <2>2, <2>3, <2>4, <2>5, <2>6, <2>7, <2>8, <2>9, <2>10, <2>11
          DEF Next, Kernel, Client, Library
<1> QED BY <1>1, <1>2, TypeCorrect, PTL DEF Spec

-----------------------------------------------------------------------------
(* The watchers *)

\* While the watchers are run, the cache already has the event.
DeliveryIsInCache ==
  Busy => /\ ready /\ delivering \in Delivery
          /\ cache[delivering.event.key] = delivering.event.val

\* The cache is filled before anybody can watch it.
NobodyWatchesYet ==
  /\ manager \in {"open", "joined"} => watchers = 0 /\ handle = "none"
  /\ ready => manager = "cached"

WatchInv == WatchersKnowCache /\ DeliveryIsInCache /\ NobodyWatchesYet

\* The watchers know the cache (WatchersKnowCache), however many there are, and also when
\* watchers throw or add watchers, events are lost, addressCache fails or the cache dies
\* before its manager.
THEOREM WatchersAreTold == Spec => []WatchersKnowCache
<1>1. Init => WatchInv
  BY DEF Init, WatchInv, WatchersKnowCache, DeliveryIsInCache, NobodyWatchesYet, Busy
<1>2. TypeOK /\ WatchInv /\ [Next]_vars => WatchInv'
  <2> SUFFICES ASSUME TypeOK, WatchInv, [Next]_vars
               PROVE  WatchInv'
    OBVIOUS
  <2> USE DEF WatchInv
  <2>0. /\ view \in [1..MaxWatchers -> Contents] /\ cache \in Contents
        /\ watchers \in 0..MaxWatchers /\ MaxWatchers \in Nat
        /\ \A w \in 1..watchers : w \in 1..MaxWatchers
    BY BoundsAreNat DEF TypeOK
  <2>1. ASSUME UNCHANGED <<cache, watchers, view, missed, delivering>>, ~Busy \/ ready', NobodyWatchesYet'
        PROVE  WatchInv'
    BY <2>1 DEF WatchersKnowCache, DeliveryIsInCache, NotYetTold, Busy, Current
  <2>2. CASE AddressCacheFills
    <3>1. watchers' = 0 /\ delivering' = delivering /\ ~Busy
      BY <2>2 DEF AddressCacheFills, ClientRuns, NobodyWatchesYet, DeliveryIsInCache
    <3> QED BY <2>2, <3>1 DEF AddressCacheFills, WatchersKnowCache, DeliveryIsInCache,
                              NobodyWatchesYet, Busy, ClientRuns
  <2>3. CASE Watch
    <3>1. /\ ~Busy /\ delivering' = delivering /\ cache' = cache /\ watchers' = watchers + 1
          /\ missed' = missed
          /\ view' = [view EXCEPT ![watchers + 1] = cache]
          /\ ready' = ready /\ manager' = manager /\ handle' = handle /\ handle = "alive"
      BY <2>3 DEF Watch, ClientRuns, DeliveryIsInCache
    <3>2. \A w \in (1..watchers') \ missed : \A k \in Keys : view'[w][k] = cache'[k]
      <4>1. \A w \in (1..watchers) \ missed : \A k \in Keys : view[w][k] = cache[k]
        BY <3>1 DEF WatchersKnowCache, NotYetTold
      <4>2. \A w \in 1..watchers' : w \in 1..watchers \/ w = watchers + 1
        BY <2>0, <3>1
      <4>3. watchers + 1 \in 1..MaxWatchers
        BY <2>0, <2>3 DEF Watch
      <4>4. /\ view'[watchers + 1] = cache
            /\ \A w \in 1..watchers : view'[w] = view[w]
        BY <2>0, <3>1, <4>3
      <4> QED BY <3>1, <4>1, <4>2, <4>4
    <3> QED BY <3>1, <3>2 DEF WatchersKnowCache, DeliveryIsInCache, NobodyWatchesYet, Busy
  <2>4. CASE IncludeEvent
    <3> DEFINE e == Head(events)
    <3>1. /\ ~Busy /\ ready /\ cache' = [cache EXCEPT ![e.key] = e.val] /\ e \in Event
          /\ UNCHANGED <<watchers, view, missed, ready, manager, handle>>
      BY <2>4, HeadTailProperties DEF IncludeEvent, Included, TypeOK
    <3>2. /\ e.key \in Keys /\ cache'[e.key] = e.val
          /\ \A k \in Keys : k # e.key => cache'[k] = cache[k]
      BY <2>0, <3>1 DEF Event, Contents
    <3>3. \A w \in (1..watchers) \ missed : \A k \in Keys : view[w][k] = cache[k]
      BY <3>1 DEF WatchersKnowCache, NotYetTold
    <3>4. CASE Notifies(e)
      <4>1. delivering' = [event |-> e, next |-> 1, upto |-> watchers]
        BY <2>4, <3>4 DEF IncludeEvent, LoopStart
      <4>2. delivering' \in Delivery
        BY <2>0, <3>1, <4>1 DEF Delivery
      <4>3. delivering'.event = e /\ Current' = 1 /\ delivering'.upto = watchers
        BY <4>1 DEF Current
      <4>4. Busy'
        BY <4>1 DEF Busy, NoDelivery
      <4>5. \A w \in 1..watchers' : NotYetTold(w)'
        BY <2>0, <3>1, <4>3, <4>4 DEF NotYetTold
      <4> HIDE DEF e
      <4>6. WatchersKnowCache'
        BY <3>1, <3>2, <3>3, <4>3, <4>5 DEF WatchersKnowCache
      <4> QED BY <3>1, <3>2, <4>2, <4>3, <4>6 DEF DeliveryIsInCache, NobodyWatchesYet
    <3>5. CASE ~Notifies(e)
      <4>1. delivering' = delivering /\ cache[e.key] = e.val
        BY <2>4, <3>5 DEF IncludeEvent, Notifies
      <4> HIDE DEF e
      <4>2. \A k \in Keys : cache'[k] = cache[k]
        BY <3>2, <4>1
      <4> QED BY <3>1, <3>3, <4>1, <4>2 DEF WatchersKnowCache, DeliveryIsInCache,
                                           NobodyWatchesYet, Busy
    <3> QED BY <3>4, <3>5
  <2>5. ASSUME Delivering
        PROVE  /\ delivering \in Delivery /\ Current \in Nat /\ delivering.upto \in Nat
               /\ delivering.event \in Event
               /\ cache[delivering.event.key] = delivering.event.val
    BY <2>5 DEF Delivering, DeliveryIsInCache, Delivery, Current
  \* The current watcher is told, and is then as far as the cache.
  <2>6. ASSUME Delivering, Current <= delivering.upto
        PROVE  \A w \in (1..watchers) \ missed : \A k \in Keys :
                 Told[w][k] # cache[k]
                   => w \in (Current + 1)..delivering.upto /\ k = delivering.event.key
    <3> TAKE w \in (1..watchers) \ missed
    <3> TAKE k \in Keys
    <3>1. w \in 1..MaxWatchers /\ view[w] \in [Keys -> Values \cup {Absent}]
      BY <2>0 DEF Contents
    <3>2. CASE w = Current
      <4>1. Told[w] = [view[w] EXCEPT ![delivering.event.key] = delivering.event.val]
        BY <2>0, <3>1, <3>2 DEF Told
      <4>2. view[w][k] # cache[k] => k = delivering.event.key
        BY DEF WatchersKnowCache
      <4> QED BY <2>5, <2>6, <3>1, <4>1, <4>2
    <3>3. CASE w # Current
      <4>1. Told[w] = view[w]
        BY <2>0, <3>1, <3>3 DEF Told
      <4>2. view[w][k] # cache[k] => w \in Current..delivering.upto /\ k = delivering.event.key
        BY DEF WatchersKnowCache, NotYetTold
      <4>3. w \in Current..delivering.upto => w \in (Current + 1)..delivering.upto
        BY <2>5, <2>6, <3>3
      <4> QED BY <4>1, <4>2, <4>3
    <3> QED BY <3>2, <3>3
  <2>7. ASSUME Delivering, delivering' = [delivering EXCEPT !.next = @ + 1]
        PROVE  /\ Busy' /\ delivering' \in Delivery /\ Current' = Current + 1
               /\ delivering'.upto = delivering.upto /\ delivering'.event = delivering.event
    <3>1. /\ delivering' \in Delivery /\ Current' = Current + 1
          /\ delivering'.upto = delivering.upto /\ delivering'.event = delivering.event
      BY <2>5, <2>7 DEF Delivery, Current
    <3>2. delivering' # NoDelivery
      <4>1. delivering'.next # 0
        BY <2>5, <2>7, <3>1 DEF Current
      <4>2. NoDelivery.next = 0
        BY DEF NoDelivery
      <4> QED BY <4>1, <4>2
    <3> QED BY <3>1, <3>2 DEF Busy
  <2>8. CASE RunWatcher
    <3>1. /\ Delivering /\ Current <= delivering.upto /\ view' = Told
          /\ delivering' = [delivering EXCEPT !.next = @ + 1]
          /\ UNCHANGED <<cache, watchers, missed, ready, manager, handle>>
      BY <2>8 DEF RunWatcher
    <3>2. WatchersKnowCache'
      BY <2>6, <2>7, <3>1 DEF WatchersKnowCache, NotYetTold
    <3> QED BY <2>5, <2>7, <3>1, <3>2 DEF DeliveryIsInCache, NobodyWatchesYet, Delivering
  <2>9. CASE WatcherWatches
    <3>1. /\ Delivering /\ Current <= delivering.upto
          /\ view' = [Told EXCEPT ![watchers + 1] = cache] /\ watchers' = watchers + 1
          /\ delivering' = [delivering EXCEPT !.next = @ + 1] /\ watchers < MaxWatchers
          /\ UNCHANGED <<cache, missed, ready, manager, handle>>
      BY <2>9 DEF WatcherWatches
    <3>2. DOMAIN Told = 1..MaxWatchers
      BY <2>0 DEF Told
    <3>3. /\ \A w \in 1..watchers : view'[w] = Told[w]
          /\ view'[watchers + 1] = cache
      BY <2>0, <3>1, <3>2
    <3>4. \A w \in 1..watchers' : w \in 1..watchers \/ w = watchers + 1
      BY <2>0, <3>1
    <3>5. WatchersKnowCache'
      BY <2>6, <2>7, <3>1, <3>3, <3>4 DEF WatchersKnowCache, NotYetTold
    <3>6. NobodyWatchesYet'
      BY <3>1 DEF NobodyWatchesYet, DeliveryIsInCache, Delivering
    <3> QED BY <2>5, <2>7, <3>1, <3>5, <3>6 DEF DeliveryIsInCache, Delivering
  <2>10. CASE WatchersDone
    <3>1. /\ Delivering /\ Current > delivering.upto /\ delivering' = NoDelivery
          /\ UNCHANGED <<cache, watchers, view, missed, ready, manager, handle>>
      BY <2>10 DEF WatchersDone
    <3>2. \A w \in 1..watchers : ~NotYetTold(w)
      BY <2>5, <3>1 DEF NotYetTold
    <3> QED BY <3>1, <3>2 DEF WatchersKnowCache, DeliveryIsInCache, NobodyWatchesYet, Busy
  <2>11. CASE DataReadyReturns
    BY <2>1, <2>11 DEF DataReadyReturns, NobodyWatchesYet
  <2>12. CASE DataReady
    BY <2>1, <2>12 DEF DataReady, NobodyWatchesYet
  <2>13. CASE AddressCacheJoins \/ AddressCacheThrows \/ DestroyCache \/ DestroyManager
    BY <2>1, <2>13 DEF AddressCacheJoins, AddressCacheThrows, DestroyCache, DestroyManager,
                       NobodyWatchesYet, ClientRuns, DeliveryIsInCache
  <2>14. CASE Kernel
    BY <2>1, <2>14 DEF Kernel, KernelChange, NobodyWatchesYet, DeliveryIsInCache
  <2>15. CASE UNCHANGED vars
    BY <2>1, <2>15 DEF vars, kernelVars, socketVars, NobodyWatchesYet, DeliveryIsInCache
  \* Those that are not among the missed have been told, like the one that threw.
  <2>16. CASE WatcherThrows
    <3>1. /\ Delivering /\ Current <= delivering.upto /\ view' = Told
          /\ missed' = missed \cup (Current + 1)..delivering.upto
          /\ delivering' = NoDelivery /\ ready' = FALSE
          /\ UNCHANGED <<cache, watchers, manager, handle>>
      BY <2>16 DEF WatcherThrows
    <3>2. WatchersKnowCache'
      BY <2>6, <3>1 DEF WatchersKnowCache
    <3> QED BY <3>1, <3>2 DEF DeliveryIsInCache, NobodyWatchesYet, Busy
  <2> QED BY <2>2, <2>3, <2>4, <2>8, <2>9, <2>10, <2>11, <2>12, <2>13, <2>14, <2>15, <2>16
          DEF Next, Client, Library
<1> QED BY <1>1, <1>2, TypeCorrect, PTL DEF Spec, WatchInv

-----------------------------------------------------------------------------
(* Lifetimes *)

\* The vector outlives every use of it, unless its owner is destroyed early.
VectorOutlivesManager ==
  /\ handle = "destroyed" => manager = "freed" \/ misused
  /\ ready => manager = "cached"

\* The callback of addressCache uses freed memory only after a watcher has called watch or
\* the cache object has died before its manager (DanglesOnlyMisused).
THEOREM NoDanglingVector == Spec => []DanglesOnlyMisused
<1>1. Init => DanglesOnlyMisused /\ VectorOutlivesManager
  BY DEF Init, DanglesOnlyMisused, VectorOutlivesManager
<1>2. TypeOK /\ DanglesOnlyMisused /\ VectorOutlivesManager /\ [Next]_vars
      => (DanglesOnlyMisused /\ VectorOutlivesManager)'
  <2> USE DEF DanglesOnlyMisused, VectorOutlivesManager, history
  <2> SUFFICES ASSUME TypeOK, DanglesOnlyMisused, VectorOutlivesManager, [Next]_vars
               PROVE  (DanglesOnlyMisused /\ VectorOutlivesManager)'
    OBVIOUS
  <2>1. CASE Kernel
    BY <2>1 DEF Kernel, KernelChange
  <2>2. CASE AddressCacheJoins \/ AddressCacheFills \/ AddressCacheThrows
    BY <2>2 DEF AddressCacheJoins, AddressCacheFills, AddressCacheThrows, ClientRuns
  <2>3. CASE Watch \/ DestroyManager \/ DataReady
    BY <2>3 DEF Watch, DestroyManager, DataReady, ClientRuns
  <2>4. CASE IncludeEvent
    BY <2>4 DEF IncludeEvent, VectorFreed, TypeOK
  <2>5. CASE RunWatcher \/ WatcherThrows \/ WatchersDone \/ DataReadyReturns
    BY <2>5 DEF RunWatcher, WatcherThrows, WatchersDone, DataReadyReturns
  <2>6. CASE UNCHANGED vars
    BY <2>6 DEF vars
  <2>7. CASE WatcherWatches
    BY <2>7 DEF WatcherWatches
  <2>8. CASE DestroyCache
    <3>1. manager' = "freed" \/ misused'
      BY <2>8 DEF DestroyCache, TypeOK
    <3> QED BY <2>8, <3>1 DEF DestroyCache, ClientRuns
  <2> QED BY <2>1, <2>2, <2>3, <2>4, <2>5, <2>6, <2>7, <2>8
          DEF Next, Client, Library
<1> QED BY <1>1, <1>2, TypeCorrect, PTL DEF Spec
=============================================================================
