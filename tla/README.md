# A verification project for nlcpp

nlcpp is a C++ wrapper around libnl: sockets that send netlink requests and wait for the
answers, RAII handles for libnl's objects, caches of the kernel's addresses, links and
routes that are kept current by multicast events, and a test tool that drives all of it.
The modules here are TLA+ models of that code, TLC configurations that check them on small
instances, and proofs, checked by TLAPS, that hold for every value of the constants.
Definitions carry the names of the source where TLA+ allows it; `PROJECT.json` maps each of
them to the lines it translates.

Contents: [the system](#1-the-system), [the plan](#2-the-plan),
[the modules](#3-the-modules), [the runs](#4-the-runs), [fairness](#5-fairness),
[the proofs](#6-the-proofs), [what was found](#7-what-was-found),
[what is not modelled](#8-what-is-not-modelled).

To check it: `tlc -config X.cfg M` for each pair in section 4, `tlapm M.tla` for each module
in section 6.

## 1. The system

libnl (a C library) and the kernel are outside the repository. They are modelled from the
calls the code makes and marked external in the map: `nl_recvmsgs` with its sequence check,
the wait for an ACK, the cache manager, the list of a cache, reference counts; the kernel's
answers and multicast events, in order, through a receive queue of limited length.

| Component | Source | State | Operations |
|---|---|---|---|
| Socket | `src/netlink.cpp`, `include/nlcpp/netlink.h` | `sock`, `callbacks`, `callStatus`, `validCallback` | `sendMessageSync` (two), `receiveMessages`, `addMembership`, `dropMembership`, four static wrappers |
| GenericSocket | `src/generic.cpp` | none of its own | `onValidMessage`, `sendMessageSync`, `resolve`, `resolveGroup` |
| RouteSocket | `src/route.cpp` 651-716 | none of its own | `add`, `del`, `change` |
| CacheManager, RouteCacheManager | `src/netlink.cpp` 292-324, `src/route.cpp` 718-752 | `mngr`; a vector of watchers per address cache | `addressCache`, `linkCache`, `routeCache`, `poll`, `dataReady` |
| RouteAddressCache and watchers | `src/route.cpp` 726-732, 855-858 | the vector of callbacks | `watch`, the loop over the watchers |
| TypedCache, Iterator, Filtered | `src/route.cpp` 755-850 | the current object, the filter | `begin`, `end`, `filter`, `++` |
| Address, Cache | `src/netlink.cpp` 124-290 | a pointer | construction, copy, move, destruction; family and prefix length |
| RouteAddress, RouteLink, NextHop, Route | `src/route.cpp` 18-648 | a pointer | the same; `take`, `add`, `nexthops`; the addresses and flags they hold |
| Message, GenericNetlinkMessage | `src/message.cpp` | `nl_msg` | construction, moves, `put` functions |
| Ctrl, Nl80211 | `src/ctrl.cpp`, `src/nl80211.cpp` | a GenericSocket; the id of nl80211 | `getFamily`, `getFamilies`, `getInterface`, `getInterfaces` |
| GenericFlags | `src/utils.inl`, `include/nlcpp/utils.h` | a word | the operators of `unsigned int`; to and from text, to vectors |
| Exception | `src/exception.cpp` | a code | `throwCode` |
| Test tool | `src/test-tool.cpp` | the watches, the input, the poll set | its commands and main loop |

How they interact:

* **Calls and callbacks on one stack.** `sendMessageSync` calls `nl_recvmsgs`, which calls a
  static wrapper, which calls `validCallback`, which belongs to the client and may call the
  socket again. `callStatus`, `validCallback` and libnl's two sequence numbers are shared by
  all activations on the stack.
* **Messages.** Answers to requests and multicast events arrive in one receive queue. The
  socket has two callback sets: `Socket::callbacks`, used by `sendMessageSync` and
  `receiveMessages`, and libnl's own, used by the `rtnl_*` calls of RouteSocket.
* **Shared state with libnl.** libnl holds a raw pointer to the vector of watchers that
  a `RouteAddressCache` owns; the list an iterator walks is changed by `dataReady`;
  allocations are shared by reference count, and next hops by the convention that there is
  one owner. Most setters give libnl a copy of the caller's address; `Route::dst` gives it
  the caller's own.
* **Processes.** The library creates no thread. Concurrency is with the kernel, with other
  processes that change the same objects, and with the tester at the other end of a pipe.

What is hard, and what makes each component correct:

| Component | Hard behaviour | Correct when |
|---|---|---|
| Socket | nested calls and callbacks, events between replies, throwing callbacks, errors and lost messages, a wait without a timeout | a call gets its own replies, all and in order, its own verdict, returns, and leaves neither messages nor a callback behind |
| RouteSocket | other processes between request and ACK, notifications on the same socket | `true`, `false` and an exception mean what the kernel did for this request |
| Cache manager | dump and events on two sockets, lost events, failure between join and dump | the cache and the queued events determine the kernel's state; a quiet kernel is caught up with |
| Watchers | exceptions and `watch` inside the loop, lifetime of the vector | a watcher that applies what it is told knows the cache; the vector outlives its use |
| Iterator | the list changes around and under it; empty caches | every matching object that stayed is visited once, in order |
| Handles | self-assignment, moves, failing clones, pointers with no count | reference counts equal the owners, next hops have one owner, no dangling pointer is used |
| Ctrl, Nl80211 | tables that change during a dump, a verdict nobody reads, an id that grows old, notifications taken for answers | a result says what the kernel had during the call; every call that was sent returns |
| Parts of addresses and routes | temporary copies and clones, a setter that shares, next hops that are given away | each holds a value of its own, none leaks, and what an object says of itself is true of its parts |
| GenericFlags | a bit shifted out of the word | the flags listed are those set, and the listing ends |
| Test tool | one thread for watches and input, a buffer between `poll` and `getline` | answers precede the events of the changes they report; every line and event gets its output |

`PROJECT.json` lists each of these hazards at the line where it bites, with the properties
that would catch it.

## 2. The plan

The most important behaviour is a synchronous call on a socket that everything else shares,
so that came first.

1. `NlSocket`, with `SyncCall` as its abstract specification; every safety property of its
   runs and the step part of the refinement proved. *Done.*
2. `RouteCache` (manager, address cache and watchers composed); four theorems. *Done.*
3. `RouteSocket`; results proved truthful. *Done.*
4. `CacheIterator` and `Handles`, checked and proved. *Done.*
5. `TestTool`, checked and proved. *Done;* it uses managers as RouteCache shows them from
   outside.
6. `GenericClient`: `ctrl.cpp`, `nl80211.cpp` and `resolve` on a socket that may have joined
   a group, against a kernel whose tables change; proved. *Done.*
7. `RouteParts`, with `PartValues` as its abstract specification: the addresses in variables,
   a RouteAddress, a Route and its next hops; proved, the refinement included. *Done.*
8. `GenericFlags`: the loop over the bits of a word; proved. *Done.*

Abstract specifications: `SyncCall` (a synchronous call) and `PartValues` (things with values
of their own). A third one worth stating is an address cache as a delayed copy of the kernel
that `RouteCache` implements.

Every invariant that a passing run checks is now stated by a theorem. Still worth proving:
that specification of a delayed copy and its refinement by `RouteCache`; and what of
`sendMessageSync` survives calls inside callbacks, of which so far only `NothingIsHeardTwice`,
`HandlerIsRestored` and `RunningCallbackStays` speak.

Modules that carry theorems use no recursive operators; each declares its parameters as
CONSTANTS with named assumptions and has one action per operation. Misbehaviour of the
client and the environment is switched by the constant `Usage`, a set of names, so that
one module serves the runs of a careful client, the runs of a careless one, and theorems
that assume exactly what they need (`"overrun" \notin Usage`).

## 3. The modules

### NlSocket, SyncCall, MCNlSocket

| Model | Code |
|---|---|
| `callStatus`, `validCallback` | the members of `Socket`; `callStatus` starts with any value, as the constructor leaves it uninitialised |
| `acceptAny` | `addMembership` has replaced the sequence check (`netlink.cpp` 64-71); nothing undoes that |
| `header`, `seqNext`, `seqExpect` | the sequence number libnl writes into a Message and the two in `nl_sock` |
| `stack` | the C++ activations of `sendMessageSync` and `receiveMessages`, with the datagram `nl_recvmsgs` is parsing, whether it is inside a multipart answer, and the swapped-out callback (the parameter `callback` after the first swap) |
| `serving`, `queue`, `overrun`, `events`, `member` | the kernel: requests being answered, the receive queue of datagrams, ENOBUFS, multicast |
| `outcome`, `answer`, `listens`, `heard`, `configured`, `disturbed` | history, for the properties only |

Actions: `SendMessageSync`, `SyncReturns`, `ReceiveMessages`, `OnValidMessage`,
`AddMembership`, `DropMembership`, `CallbackReturns`, `CallbackThrows`; the reader's
`ReadDatagram`, `ReadFails`, `SequenceMismatch`, `EndOfDatagram`; one action per wrapper
(`ValidCallbackWrapper`, `FinishCallbackWrapper`, `AckCallbackWrapper`,
`ErrorCallbackWrapper`); and the kernel. `AckCallbackWrapper` and `ErrorCallbackWrapper`
return `NL_STOP`, which ends `nl_recvmsgs`; `FinishCallbackWrapper` returns `NL_SKIP`.
Error codes are reduced to one negative code and one positive one, because the sign is what
the loop of `sendMessageSync` looks at. `SyncCall` is what a caller may believe: a call
begins with a promise of replies and a verdict, its callback is told replies 1, 2, 3, ... with
events (a 0) at most in between, and it returns only after the last one, with the verdict
promised. `NlSocket!Contract` is the refinement mapping: the promise is what the kernel has
answered or will, and what a callback is told is read off what it has heard.

`Usage` turns on: `membership`, `nest` (a callback calls the socket), `throw`,
`reconfigure` (a callback calls `onValidMessage`), `resend` (a Message is sent again),
`sendfail`, `overrun`. That exceptions pass through libnl's C frames is assumed, as on
builds with unwind tables.

### RouteCache

`kernel` and `changes` are the kernel's addresses, `events` and `overrun` the socket of the
manager; `manager` says how far `addressCache` has come: it *joins* the multicast group
first and *fills* the cache from a dump on a second socket afterwards, and the kernel may
change in between (`AddressCacheJoins`, `AddressCacheFills`, `AddressCacheThrows`).
`watchers`, `view`, `missed` describe the vector of callbacks and what each callback has
been told; `delivering` is the range-for over the vector, whose end is fixed when it begins.
`DataReady`, `IncludeEvent`, `RunWatcher`, `WatchersDone`, `DataReadyReturns` are
`nl_cache_mngr_data_ready` with the callback of `addressCache`; `WatcherThrows` and
`WatcherWatches` are what a client's callback may do to that loop. `dangling` is set when
the loop begins over, or continues in, a freed vector. Two variables are history: `lossy`
(an event was lost, or an `addressCache` that failed left some behind) and `misused` (a
watcher called `watch`, or the handle died first); they let the properties say from when on
the code can no longer know, for every usage at once. `poll` is `dataReady` after a wait and
has no action of its own.

### RouteSocket

One operation is `Request` (the kernel carries it out and queues its notification and
answer) and `WaitForAck` (libnl reads one datagram, and `Reported` turns the code into
`true`, `false` or an exception). `RequestIncomplete` is a request that libnl refuses to
build. `effect` is history: what the kernel did for this call. `WaitForAck` uses the
socket's own callback set, on which `addMembership` has not replaced the sequence check and
on which a notification ends the wait; `ReceiveMessages` uses `Socket::callbacks`.

### CacheIterator

`list` is libnl's list of the cache; `cur` is what the iterator stands on and holds a
reference to; `link` is the pointer an object keeps to its successor after it has left the
list. `Begin`, `FilteredBegin` and `Increment` are the range-for; `ObjectAdded`,
`ObjectRemoved` and `ObjectChanged` are `dataReady` in the loop body. A changed object is
a new allocation at the end of the list. The module shares no state with `Handles`;
`MCHandles` runs the two side by side, each while the other rests at an initial state.

### Handles

Seven classes share one shape: a pointer, constructors with a tag that says whether to
clone, take or share it, copy, move, destroy. A record per class says which of these it
has; the actions are the member functions. `refs` is libnl's reference count, `held` the
references of libnl and the caller. Next hops have no count: `refs` is then 1 while
allocated, and freeing is final. `empty` holds the variables the program knows to hold no
object; `GetByName` makes one of them when nothing has the name, because `operator bool`
tells, and `Access` is an accessor of a variable the program has no reason to distrust.

### GenericClient

`table` is the kernel's families and wireless interfaces; `Register`, `Unregister`,
`InterfaceAdded` and `InterfaceRemoved` change it and notify the members of a group. An
operation begins in `GetFamily`, `GetFamilies`, `GetInterface`, `GetInterfaces` or `Resolve`;
`Send` is `nl_send_auto` as `sendMessageSync` uses it: `Sent`, the request gets the next number
and the kernel takes it up, which for `nl80211` goes to the id in `family` and may reach nobody,
or a family that took the id over; or `NotSent`, it gets its number and goes nowhere, and the
call waits all the same. `resolve` does look at that result and throws. `DumpPart` gives a dump
entry by entry, by position, while the table changes; it may end with an error, which
`DumpEnds` puts into a message of its own or into the `DONE`. `ReceiveInLoop` is the loop of
`sendMessageSync` with the callback of the operation (`Collected`, `Parsed`), `Probe` and
`WaitForAck` are `genl_ctrl_resolve`, which uses libnl's callback set and not that of
`Socket`. `PutFails` is a put function that throws while the request is built. `changed`,
`during`, `throughout`, `refused`, `stale` and `unsent` (a request of this socket has been
numbered and not sent) are history. The receive queue has no limit here; lost messages are in
`NlSocket`. `IdRead` is the attribute of 16
bits read as one of 32. The names of multicast groups are part of a family's entry.
`family` has the type of an id or of an interface's data: on a socket that has joined a group,
with enough calls, libnl may take a message about an interface for the answer to `resolve`,
and that is the id the code goes on with. The run's two calls are too few for that; the type
invariant was corrected when its proof failed.

### RouteParts, PartValues, GenericFlags

`holds` says which `nl_addr` a variable, a part of the RouteAddress, the destination of the
Route or the gateway of a next hop points to; `refs` and `value` are those objects. The
actions are the member functions: `SetPart` with its temporary copy (which libnl references
and the code drops), `ClearPart`, `GetPart`, `SetPrefixlen` (libnl writes into the local
address too), `SetFamily`, `SetDst` (shares), `SetGateway` (clones, and drops the clone),
`AddCopy`, `AddMoved`, `Nexthops`. `Broadcast` stands for broadcast, multicast and anycast;
`peer`, which libnl lets change the prefix length, is left out. `PartValues` is what a caller may
believe: every operation writes, sets, moves or drops the values of the things it names, and
`Route::dst` makes its argument one with the destination.

`GenericFlags` is an object's flags and the loop that both conversions to a vector run:
`bit` is the variable `f`, and is `Width` once the bit has been shifted out and `f` is 0.
`MCRouteParts` runs the two modules side by side, each while the other is in its initial
state.

### TestTool

`Poll`, `DataReady`, `NextManager`, `ManagersDone` and `GetLine` are the main loop
(`src/test-tool.cpp` 280-330) with its index into `managers` beside `pollFds`; `buffer` is what
`getline` has read ahead, where `poll` does not see it. `ChangeObject`, `List`,
`WatchJoins`, `WatchFills` and `PrintDone` are the commands; `OneCommand` starts the tool with
a command as its arguments, which it runs before it exits (`single`). The tester (`Write`, `Close`)
either waits for each answer (`patient`) or pipelines its lines. A watch is a manager with
its queue of events and its cache, as `RouteCache` shows it from outside.

## 4. The runs

Eight runs pass; four show a property that the repository states and the code breaks
(section 7). State counts are approximate.

| Run | Module, configuration | States | Question |
|---|---|---|---|
| `socket_members` | MCNlSocket, SocketMembers | 200 000 | Is `sendMessageSync` the synchronous call of `SyncCall`, with events arriving in between? |
| `socket_abused` | MCNlSocket, SocketAbused | 270 000 | What survives nested calls, exceptions, reconfiguration, resends, failing sends and lost messages? |
| `route_cache` | MCRouteCache, RouteCacheEvents | 750 000 | Does the cache follow the kernel and catch up, and do watchers know it, when watchers throw or call `watch`, events are lost, `addressCache` fails, or the handle dies first? |
| `route_socket_calls` | MCRouteSocket, RouteSocketCalls | 260 000 | Are results truthful while other processes change the same objects? |
| `handles_and_loops` | MCHandles, HandlesAndLoops | 45 000 (symmetric) | Are counts, owners and pointers right through any sequence of operations? What does a loop visit while the cache changes? |
| `generic_client` | MCGenericClient, GenericClient | 1 040 000 | Do the results of Ctrl and Nl80211 say what the kernel had, and does every call return whose request was sent? |
| `route_parts` | MCRouteParts, RouteParts | 58 000 (symmetric) | Do variables, addresses, routes and next hops hold values of their own? Are flags listed? |
| `test_tool` | MCTestTool, TestToolLoop | 150 000 | Are answers and events complete and in order? |
| `socket_send_fails` | MCNlSocket, SocketSendFails | 700 | Does a call return whose send failed? (no) |
| `route_cache_destroyed` | MCRouteCache, RouteCacheDestroyed | 7 000 | May the cache die before its manager? (no) |
| `route_del_one` | MCRouteSocket, RouteSocketDelOne | 400 | Does `del` remove all addresses that match? (no) |
| `iterator_empty` | MCCacheIterator, IteratorEmpty | 150 | May a filtered loop run on an empty cache? (no) |

**socket_members.** *OwnRepliesOnly*, *CompleteOnReturn*, *StatusIsTheAnswer*,
*NothingLeftBehind* and the refinement *CallContract*, which includes that every call returns.
Two calls, two
replies each, one event, a queue of two datagrams. Two calls are what it takes for one to be
confused with its neighbour; two replies give an order, a dump whose parts share or do not
share a datagram, and an event before, between and after them; two datagrams make the
kernel wait for the reader. No handler is installed here: the handler takes no part in these
properties and `socket_abused` has one.

**socket_abused.** *TypeOK*, *HeardOnce*, *HandlerRestored*, *RunningCallbackInPlace*. Two
calls, activations three deep (a handler's event loop, a call in it, a call in the callback
of that call), two Messages and resends, every usage but `membership`. The last two properties
are conditional on `~disturbed`: an exception that skips the second swap, and a callback that
replaces the handler itself, break them for good (section 7).

**route_cache.** *TypeOK*, *CacheFollowsKernel*, *WatchersKnowCache*, *DanglesOnlyMisused*,
*CacheCatchesUp*. Two addresses that come, change between two values and go, four changes,
two watchers, every usage. Four changes allow two before and two after the dump, so that
older events are replayed over a newer dump on the same and on different addresses; a queue
of three is short enough to overflow within them.

**route_socket_calls.** *TypeOK*, *ResultIsTheEffect*, *NoAnswerLeft*. Two addresses (so that
a pattern may match two), a link and a route (each kind has its own code for "not there"),
three calls, two changes by others. The properties are stated up to the first
`addMembership`; the run includes what comes after, where they do not hold. Of `del`,
*ResultIsTheEffect* says that `true` means one matching object less.

**route_del_one.** *DeletesAllMatched*, what `route.h:364` says of `del`: one call, no other
process, and two addresses that match. After `true` one of them is still there.

**handles_and_loops.** *HandlesTypeOK*, *CountIsOwners*, *OneOwner*, *NeverCrashes* with three
variables and three allocations for each of the seven classes, up to two outside references to
each. Operations involve at most two variables and two allocations; the third is a bystander
that shares with either. *TypeOK*, *AllVisited*, *InOrder* on every list over four objects of
which two match, with three events. With four objects, two can be ahead of the iterator and one
behind it. Loops that would follow a dead link stop there, as `undefined`. No property speaks of
both modules, so their steps need not be interleaved. The symmetry is in the variables and
allocations; it is sound, as the run checks only invariants and the actions mention neither by
name.

**generic_client.** *TypeOK*, *GetIsTruthful*, *ListIsTruthful*, *ResolveIsTruthful*,
*EveryCallReturns*. Two families that compete for two ids, so that one can take the id the
client has resolved for the other, one interface, two calls (the constructor of `Nl80211`
and a call on it, or two that may confuse their answers), three changes (unregister,
register elsewhere, and the rival in its place), every initial table, on a little-endian
machine. The three truths are stated up to the first `addMembership`; the run goes on after
it, and there every call must still return. Sending may fail: *EveryCallReturns* is stated
for sockets whose requests have all been sent. A call whose request has not been waits for
ever, as `socket_send_fails` shows; and so does the next call on a socket whose `resolve` threw
for that reason, because libnl now expects a number that was never used.

**route_parts.** *TypeOK*, *CountIsHolders*, *AddressAgrees*, the refinement
*PartsHoldValues*; *ListsTheFlags*, *ListingEnds*. Two variables, two next
hops, two families, two prefix lengths, three `nl_addr` objects; three suffice for the old and
the new object of a setter and a bystander. No memory is left in some of the states, where an
operation that needs some is not taken, as it would throw. Symmetry in variables, next hops,
families and objects is sound: the component never mentions one by name, and where
*ListingEnds* is decided its states are all in the initial state, which the symmetry does
not move. Words of four bits have a lowest, a highest and two inner bits.

**test_tool.** *TypeOK*, *DoneBeforeEvents*, *NothingLostAtExit*, *EveryLineAnswered*,
*EveryEventPrinted*. One address, three lines, one foreign change: enough for two watches
and a command that both report, with the foreign change anywhere; or one command as the
arguments of the tool. `EveryLineAnswered` is
stated for a tester that waits for answers or closes the pipe; a line read ahead by
`getline` and followed by neither more input nor the end of it stays in the buffer, which
`poll` does not see.

`CHECK_DEADLOCK FALSE` is set everywhere: the bounds on calls, changes and lines end each
behaviour, a `receiveMessages` may wait for an event that never comes, and the tool exits.
That nothing waits which should go on is what the liveness properties say.

Every property of a passing run has a mutant in `PROJECT.json`: a change to a mapped
definition that a plausible bug would make and that breaks the property in that run.

## 5. Fairness

* `NlSocket!FairSpec`: `WF(Library)`, the thread that runs `sendMessageSync` keeps running
  and a client's callback returns; `WF(KernelAnswers)`, the kernel answers requests it has
  received. Nothing is assumed of the client's next call, of multicast events, or of a
  request that was not sent.
* `RouteCache!FairSpec`: `WF(Library)`, a call of `dataReady` that has begun goes on, and
  `WF(DataReady)`, the client's event loop calls it again, which `getFd` and `poll` are for.
  Nothing is assumed of `addressCache`, `watch`, destruction or the kernel.
* `GenericClient!FairSpec`: `WF(Library)`, a call that has begun reads on, and `WF(DumpPart)`,
  the kernel goes on with a dump it is giving. Nothing is assumed of the client's next call
  or of changes to the tables.
* `GenericFlags!FlagsFairness`: the loop over the bits does not stop by itself.
* `TestTool!FairSpec`: `WF(Tool)`, its one thread keeps running. Nothing is assumed of the
  tester and of other processes.

Weak fairness is enough throughout: while one of these has something to do, some action of it
stays enabled until it is taken.

## 6. The proofs

| Module | Theorem | Assumption |
|---|---|---|
| NlSocketProofs | `TypeCorrect`: `TypeOK` | none |
| NlSocketProofs | `HandlerIsRestored`: `HandlerRestored` | none |
| NlSocketProofs | `RunningCallbackStays`: `RunningCallbackInPlace` | none |
| NlSocketProofs | `NothingIsHeardTwice`: `HeardOnce` | none |
| NlSocketProofs | `AnswersAreOwn`: `OwnRepliesOnly` | one call at a time |
| NlSocketProofs | `VerdictsAreOwn`: `StatusIsTheAnswer` | one call at a time |
| NlSocketProofs | `CallsLeaveNothing`: `NothingLeftBehind` | one call at a time, not both `resend` and `membership` |
| NlSocketProofs | `AnswersAreComplete`: `CompleteOnReturn` | one call at a time, no `overrun`, no `reconfigure` |
| NlSocketProofs | `CallIsSyncCall`: `Contract!Spec`, the step part of `CallContract` | the same |
| RouteCacheProofs | `TypeCorrect`: `TypeOK` | none |
| RouteCacheProofs | `CacheIsCurrent`: `CacheFollowsKernel` | none |
| RouteCacheProofs | `WatchersAreTold`: `WatchersKnowCache` | none |
| RouteCacheProofs | `NoDanglingVector`: `DanglesOnlyMisused` | none |
| RouteSocketProofs | `TypeCorrect`: `TypeOK` | none |
| RouteSocketProofs | `ResultsAreTrue`: `ResultIsTheEffect` | none |
| RouteSocketProofs | `NoAnswerIsLeft`: `NoAnswerLeft` | none |
| CacheIteratorProofs | `TypeCorrect`: `TypeOK` | none |
| CacheIteratorProofs | `LoopsAreComplete`: `AllVisited` | none |
| CacheIteratorProofs | `LoopsAreInOrder`: `InOrder` | none |
| HandlesProofs | `TypeCorrect`: `HandlesTypeOK`, of `HandlesSpec` | none |
| HandlesProofs | `CountsAreRight`: `CountIsOwners`, of `HandlesSpec` | none |
| HandlesProofs | `HopsHaveOneOwner`: `OneOwner`, of `HandlesSpec` | none |
| HandlesProofs | `NothingDangles`: `NeverCrashes`, of `HandlesSpec` | none |
| GenericClientProofs | `TypeCorrect`: `TypeOK` | none |
| GenericClientProofs | `GetsAreTruthful`: `GetIsTruthful` | `BigEndian = FALSE` |
| GenericClientProofs | `ListsAreTruthful`: `ListIsTruthful` | `BigEndian = FALSE` |
| GenericClientProofs | `ResolvesAreTruthful`: `ResolveIsTruthful` | none |
| RoutePartsProofs | `TypesAreKept`: `TypeOK` | none |
| RoutePartsProofs | `CountsAreHolders`: `CountIsHolders` | none |
| RoutePartsProofs | `EachHoldsItsValue`: the refinement `PartsHoldValues` | none |
| RoutePartsProofs | `AddressesAgreeAlways`: `AddressAgrees` | none |
| RoutePartsProofs | `TheFlagsAreListed`: `FlagsTypeOK` and `ListsTheFlags`, of `FlagsSpec` | none |
| TestToolProofs | `TypeCorrect`: `TypeOK` | none |
| TestToolProofs | `AnswersComeFirst`: `DoneBeforeEvents` | none |
| TestToolProofs | `InputIsAnswered`: `NothingLostAtExit` | none |

Each is `Spec => []P` for the property P after the colon, except the two refinements.

All of them hold for any bounds, any sets of messages, handlers, addresses, values and
objects, and any width of a word; beyond the named ASSUMEs of the modules (bounds are natural
numbers, the special value is not an ordinary one, kinds are disjoint, a program has finitely
many variables and next hops, a cache and the kernel's tables are finite) nothing is taken for
granted. Where a usage breaks a property for good, the
property itself says from when on (`lossy`, `misused`, `disturbed`, `listening`,
`unsent`, `unnoticed`); without that condition TLC refutes it (section 7).

What is assumed in the third column is what the code cannot do without. *One call at a time*
(`OneCallAtATime`: neither `nest` nor `throw`) is the client that does not call the socket from
a callback and lets no exception out of one: `callStatus` and libnl's sequence numbers are one
per socket, so an inner call takes the outer one's ACK, and an exception leaves an answer in
the queue to the next call. A resent Message carries an old number, which only
`addMembership` makes acceptable; a lost datagram is never asked for again; and a callback
that calls `onValidMessage` takes the rest of its own answer away. TLC refutes each of these
properties when one part of its assumption is dropped (section 7). Failing sends are allowed
in all of the theorems, and memberships but for that one combination. `BigEndian = FALSE` is
the machine on which `IdRead` is right.

**TypeCorrect (NlSocket).** The type of `stack` and `callStatus` is not inductive without
knowing that what the kernel is answering was really sent (`ServedWasSent`): otherwise the
answer of a call that was lost would have to be a message type.

**HandlerIsRestored, RunningCallbackStays.** `stack = <<>> => validCallback = configured` says
nothing while a call runs, so the invariant describes every level of the stack: the lowest
activation saved
the configured handler (`BottomFoundConfigured`), each one above saved what its predecessor
had installed (`SwapsNest`), the top one's is installed now (`TopIsInstalled`), and a running
callback is the one its activation installed (`RunsInstalled`). All of it is required while
`disturbed` is false. `PushKeeps`, `SetTopKeeps`, `PopKeeps` do the three operations on the
stack once; the proof over `Next` only matches actions with them.

**AnswersAreOwn, VerdictsAreOwn.** Both are about a moment at the end of a call, and what they
rest on is where its answer is in the meantime. `Pending` is every message on its way, in a
queued datagram or in what is left of the one being parsed; `OneCallInv` says of these places
that all but events are for the call that waits (`PendingIsCallers`), that what ends the
answer has nothing of it behind it (`EndComesLast`), and that once `callStatus` is set the
whole answer has gone by and the verdict is its own (`AnsweredIsOver`). `ActiveIsCaller` and
`OwnCallbackOnly` tie the call to the activation and to the callback installed. The invariant
needs nothing about sequence numbers: `addMembership` switches their check off, and the
answers are still its own because there is no other call. A step only ever loses places or
gains one at the end (`Loses`, `Gains`), so the proof for an action says which.

**CallsLeaveNothing.** What is left to say is that the number expected is that of the waiting
call, or of the next request (`SeqFits`), after a send that fails too, since its caller never
comes back. Nor does a caller whose Message was sent before, if the socket has joined no group:
its answer has an old number (`Refused`), and numbers in messages are old as soon as they have
been used.

**AnswersAreComplete.** `CompleteInv` says of each reply sent that it is heard or pending,
once, and in order (`WholeAnswer`). A call may be started whose number libnl does not expect
(a resent Message); then nothing of its answer is accepted and it never returns
(`AnswerIsWhole`), so that completeness needs no assumption on `resend`.

**CallIsSyncCall.** With these invariants a step of `NlSocket` is one of `SyncCall` or leaves
what it shows alone: the wrapper that runs a call's own callback is `Tell` or `TellEvent` -
`Due` is empty below the number heard, by `NoneMissing` and `Rising` - and the return is
`Return`, which demands the whole answer and its verdict.

**NothingIsHeardTwice.** For every usage, so the stack may have any depth and several
datagrams are half parsed. `Copies` is every place a message can be in: heard by some
callback, queued, or in the buffer of any activation. `OneCopy` says that no reply and no event
is in two; new ones have numbers that were not used (`OnlySent`, `ServedOnce`). `Moves` and
`MovesBut` do the arithmetic of places once for the steps that carry messages from one box to
another.

**CacheIsCurrent.** `CacheFollowsKernel` begins only when the cache is filled, and then
the queue may hold events older than the dump. `QueueEndsAtKernel` (the last queued event
about an address says what the kernel has, from the join on) and `NoOldEvents` (before the
join the queue is empty) carry it over that moment. The proof shows why the order - join
first, then dump - matters: with it, an old event is always followed by a newer one or is
itself current.

**WatchersAreTold.** A watcher lags behind the cache only in the event being delivered.
`DeliveryIsInCache` (that event is already in the cache) and `NobodyWatchesYet` (the cache is
not refilled under a watcher) make that inductive.

**NoDanglingVector.** `VectorOutlivesManager`: unless it is misused, the handle is destroyed
only after the manager, and events are delivered only by a live one.

**ResultsAreTrue, NoAnswerIsLeft.** `OnlyOwnAnswer`: during a call the queue is exactly one
answer, with the number expected, and the code in it is one that `Reported` turns into what the effect calls
for (lemma `VerdictIsReported`, by cases on the operation and the kind of object).
The effect of `del` is one matching object removed; that there may be others is in
`route_del_one`.

**LoopsAreComplete, LoopsAreInOrder.** `AllVisited` says nothing before the loop has ended,
and `InOrder` only compares what has been seen. What carries both through a loop is a position
in the list (`Frontier`): up to it everything that matches and stayed has been seen, behind it
nothing has, and it is where the iterator stands or, after that object has left, just before
the one it links to. `ArriveKeeps` moves the position on with the iterator, `RemovalKeeps`
back by one when something before it, or the current object, leaves; `AppendKeeps` leaves it.
The last two are stated of any list, so that a change of an object (a removal and an
addition in one step) is one after the other. That there is a next matching object to find
(`StepIsNext`) rests on the well-foundedness of the natural numbers.

**CountsAreRight, HopsHaveOneOwner, NothingDangles.** `CountIsOwners` compares a count with the
cardinality of a set of variables, which a move changes in two places. `OneChange` says what a change of one variable
does to the number of owners, `Balance` and `BalanceMove` turn that into the new count for one
and for two variables, and each group of actions keeps the invariant by one of them
(`ConstructorKeeps`, `CopyKeeps`, `MoveKeeps`, `CopyAssignKeeps`, `ReleaseKeeps`,
`OthersKeep`). `OneOwner` is not inductive: `OneReference` (a next hop's count is at most 1)
is, and gives it through the cardinality. `NeverCrashes` needs `NullsAreKnown`: a null
pointer is in a variable the program knows to be empty, or an assignment has failed
unnoticed.

**TypeCorrect, GetsAreTruthful, ListsAreTruthful, ResolvesAreTruthful (GenericClient).** Until
the socket listens, nothing but the answer of the call is in the queue (`OnlyAnswers`,
`OnlyOneEntry`). For `getFamily` and `getInterface` it is enough that a reply was about what was
asked for when it was sent, and that there was none if the kernel had nothing
(`OneIsAnswered`). All that lasts as long as every request has been sent (`TruthInv`); from then
on nothing on the socket has the number libnl expects, and no call returns a result any more
(`LostInv`), so that the theorems hold without an assumption on `sendfail`. A dump is given by position, and a position is a number of entries in a
table that changes: `AllAreGiven` says that what exists before the position has been given,
and that if nothing came it was given once. `PrecedingGrows` and `RankOrders` say how a
removal or an addition moves the entries behind it, and `NoGaps`, by the least counterexample,
that while the dump goes on there is an entry at its position, so that without an error it cannot
end early. The
byte order is used where an id is read (`Legible`); `resolve` leaves that to libnl and needs no
such assumption. `stale`, in the properties, is the id of nl80211 having gone to another
family.

**CountsAreHolders, EachHoldsItsValue.** What the twenty operations do to the `nl_addr`
objects is one of six things (`MemoryStep`: nothing, `Own`, `Release`, `Moves`, `Writes`,
`Shares`), and each of the last five is a step of `PartValues` (`OwnIsSet`, `ReleaseIsDrop`,
`MovesIsMove`, `WritesIsWrite`, `SharesIsGive`). The counts alone do not carry the refinement:
`HeldHaveValues` says that what is held has not been freed, which follows from a count that is
the number of holders, and `OnlyDstShares` that two things share an object only if one is the
destination of the route - without it a write through one variable could show in another.
`PointsKeepsCounts` does the arithmetic of the reference counts once, for any set of things
that are pointed elsewhere.

**AddressesAgreeAlways.** The same lemmas give the values of the parts after each operation
(`OwnValues`, `ReleaseValues`), so `Agrees`, which is `AddressAgrees` in terms of these
values, is carried through the actions without looking at the objects again. A part is
accepted while the family is unset only if there is no other part: otherwise that part's
family would be none (`RouteAddressAgrees`, with the types of `ObjectsType`).

**TheFlagsAreListed.** `ListsBelow`: while the loop runs, the vector lists the flags below
the current bit, in ascending order.

**AnswersComeFirst, InputIsAnswered (TestTool).** That an answer is printed before the event
of what it answers needs the program counter: a command that has changed something has been
answered, or is about to be, with no event read in between (`ChangesAreAnswered`).
`NothingLostAtExit` follows from where an unanswered line can be: in the pipe, in the buffer of
`getline`, in hand (`NoneLost`), with nothing to read at the exit (`Drained`). `AsMany` keeps
the three sequences of the watches of one length.

**Only model-checked:** what holds under fairness (`EveryCallReturns`, `CacheCatchesUp`,
`EveryLineAnswered`, `EveryEventPrinted`, `ListingEnds`, and that a call of `CallContract` does
return), which is out of the reach of the proof system. `NoUndefined`, `NoUseAfterFree`,
`DeletesAllMatched` and the `EveryCallReturns` of `NlSocket`, of the four runs that end in a
counterexample, are false and stay so.

## 7. What was found

Four statements of the repository that the code does not keep, each a run that ends in
a counterexample:

1. `netlink.cpp:49` ignores the result of `nl_send_auto`: after a send that fails,
   `sendMessageSync` waits for ever (`socket_send_fails`).
2. `route.cpp:734` gives libnl a raw pointer to a vector that the returned
   `RouteAddressCache` owns: if that dies before the manager, the next event uses freed
   memory (`route_cache_destroyed`).
3. `route.cpp:766`: a filtered loop over an empty cache matches the null object against the
   filter (`iterator_empty`).
4. `route.cpp:666`: `del` sends one request, by which the kernel removes one address, where
   `route.h:364` promises all that match, and `src/README.md:28` introduces such a call with
   "Remove all IPv4 addresses from interface with index 2" (`route_del_one`).

Limits of the code that no document contradicts, and that therefore are conditions of
properties and not findings. Each can be reproduced by adding the property to a configuration, with the change named:

| Change | Refuted | Why |
|---|---|---|
| SocketAbused with `throw` or `reconfigure`, without `~disturbed` | `HandlerRestored` | the second swap is skipped, or overwrites what the callback installed |
| SocketMembers with `nest`, `MaxDepth` 2 and a handler | all four invariants | `callStatus` belongs to the socket: an inner call takes the outer one's ACK for its own |
| SocketMembers with `throw` | all four invariants | what an exception leaves of an answer is there for the next call |
| SocketMembers with `resend` | `NothingLeftBehind` | after `addMembership` an old sequence number is accepted, and libnl counts on |
| SocketMembers with `reconfigure` and a handler | `CompleteOnReturn` | the call's own callback is gone before its answer is |
| SocketSendFails with `resend` and two calls | `EveryCallReturns` | libnl keeps the old sequence number in the Message and the answer fails the check |
| SocketSendFails with `overrun`, two replies and a queue of one | `CompleteOnReturn` | the result of `nl_recvmsgs` is ignored |
| RouteSocketCalls without `~listening` | `ResultIsTheEffect` | a notification is taken for the ACK |
| RouteCacheEvents without `~lossy` | `CacheFollowsKernel` | events are gone and nothing refills the cache |
| RouteCacheEvents with `NoUseAfterFree` | `NoUseAfterFree` | `push_back` reallocates under the range-for, or the handle dies first |
| GenericClient without `~listening` | `GetIsTruthful`, `ResolveIsTruthful` | a notification is taken for the answer, or ends libnl's wait |
| GenericClient without `~stale` | `ListIsTruthful` | the id of nl80211 now belongs to another family |
| GenericClient without `refused` | `GetIsTruthful` | an error and an unknown family look alike |
| GenericClient with `BigEndian = TRUE` | `GetIsTruthful` | 16 bits are read as 32 |
| GenericClient without `~unsent` | `EveryCallReturns` | the result of `nl_send_auto` is ignored |
| GenericClient without `unsent` | `ResolveIsTruthful` | `resolve` throws because sending failed, or an earlier request was not sent |
| RouteParts without the condition on the highest bit | `ListingEnds` | `f` becomes 0, which never exceeds the value |
| HandlesAndLoops with `NoUndefined` | `NoUndefined` | the iterator follows the link of an object that has left |

Two more are stated inside properties: an `Address` whose copy assignment runs out of memory
is null without a word (`NeverCrashes`), and lines pipelined to the test tool may stay in
the buffer of `getline` (`EveryLineAnswered`).

## 8. What is not modelled

* **Other accessors**: label, interface, scope, lifetimes, weight, protocol and priority are
  one libnl call on a field of its own. `RouteAddress::peer` shares the prefix length with the
  local address inside libnl in a way that depends on its version.
* **The text of addresses and flags**, the layout of attributes in a message, and the
  parsing of one beyond what the properties tell apart.
* **`resolveGroup`**: the exchange of `resolve`, with the group's id read from the answer.
* **`linkCache` and `routeCache`**: `addressCache` without watchers; several caches in one
  manager share a socket but not their contents.
* **The constructors' failures**: they throw before there is any state.
* **The test tool's parsing and printing**; exception classes and their
  texts; build files and the system test.
* **A leaked `nl_cb` per socket** (`netlink.cpp:20`).
