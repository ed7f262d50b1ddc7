----------------------------- MODULE RouteSocket -----------------------------
(***************************************************************************)
(* RouteSocket: add, del and change send one request through libnl, wait   *)
(* for its ACK on the socket's own callback set and turn libnl's code into *)
(* true, false or an exception.  Other processes change the kernel's       *)
(* objects meanwhile, and a socket that has joined a group also receives   *)
(* their notifications.                                                    *)
(*                                                                         *)
(* Usage:  "membership"  the client calls Socket::addMembership            *)
(*         "others"      other processes add and remove objects            *)
(***************************************************************************)
EXTENDS Integers, SequencesExt

CONSTANTS
  Addresses, Links, Routes,  \* the objects a client may name
  MaxCalls,                  \* bound on the calls of the client
  MaxChanges,                \* bound on the changes by other processes
  Usage

ASSUME BoundsAreNat == MaxCalls \in Nat /\ MaxChanges \in Nat
ASSUME KindsAreApart ==
  Addresses \cap Links = {} /\ Addresses \cap Routes = {} /\ Links \cap Routes = {}
ASSUME UsageIsKnown == Usage \subseteq {"membership", "others"}

VARIABLES
  objects,    \* the objects that exist in the kernel
  member,     \* the socket has joined a multicast group
  listening,  \* addMembership has been called
  queue,      \* the receive queue of the socket
  seqNext,    \* nl_sock::s_seq_next
  seqExpect,  \* nl_sock::s_seq_expect
  call,       \* the call being made: its operation, objects and sequence number
  result,     \* what the last call came to: "true", "false" or "throw"
  effect,     \* what the kernel did for the last call
  calls,      \* number of calls so far
  changes     \* number of changes by other processes

vars == <<objects, member, listening, queue, seqNext, seqExpect, call, result, effect, calls,
          changes>>

-----------------------------------------------------------------------------
Kinds   == {Addresses, Links, Routes}
Objects == UNION Kinds

NoCall == [op |-> "none"]
Call   == [op : {"add", "del", "change"}, about : SUBSET Objects, seq : Nat]

\* libnl's codes, as far as the code tells them apart.
Codes   == {"SUCCESS", "NLE_EXIST", "NLE_NOADDR", "NLE_NODEV", "NLE_OBJ_NOTFOUND", "NLE_PERM"}
Message == [type : {"answer", "event"}, code : Codes, seq : Nat]
Event(seq)        == [type |-> "event", code |-> "SUCCESS", seq |-> seq]
Answer(code, seq) == [type |-> "answer", code |-> code, seq |-> seq]

\* The code by which the kernel says that an object of this kind is not there.
NotThere(about) == IF about \subseteq Addresses THEN "NLE_NOADDR"
                   ELSE IF about \subseteq Links THEN "NLE_NODEV" ELSE "NLE_OBJ_NOTFOUND"

\* What the kernel makes of a request: the code, the effect and the objects after it.
\* RTM_DELADDR, RTM_DELLINK and RTM_DELROUTE remove one object that matches.
Refusals == {[code |-> "NLE_PERM", effect |-> "refused", objects |-> objects]}
Adds(about) ==
  IF about \cap objects # {}
  THEN {[code |-> "NLE_EXIST", effect |-> "existed", objects |-> objects]}
  ELSE {[code |-> "SUCCESS", effect |-> "created", objects |-> objects \cup about]}
Removes(about) ==
  IF about \cap objects = {}
  THEN {[code |-> NotThere(about), effect |-> "absent", objects |-> objects]}
  ELSE {[code |-> "SUCCESS", effect |-> "removed", objects |-> objects \ {o}] :
          o \in about \cap objects}
Changes(about) ==
  IF about \cap objects = {}
  THEN {[code |-> "NLE_NODEV", effect |-> "refused", objects |-> objects]}
  ELSE {[code |-> "SUCCESS", effect |-> "changed", objects |-> objects]}
Verdicts(op, about) ==
  Refusals \cup CASE op = "add" -> Adds(about)
                  [] op = "del" -> Removes(about)
                  [] op = "change" -> Changes(about)

-----------------------------------------------------------------------------
\* The code del takes for "it was not there".  Mutant: one code for all kinds.
DelFalseForAll(about) == "NLE_OBJ_NOTFOUND"
DelFalse(about) == IF about \subseteq Addresses THEN "NLE_NOADDR"
                   ELSE IF about \subseteq Links THEN "NLE_NODEV" ELSE "NLE_OBJ_NOTFOUND"

\* Mutant: the code is handed back instead of an exception.
ReportedAsCode(op, about, code) ==
  IF code = "SUCCESS" THEN "true"
  ELSE IF op = "add" /\ code = "NLE_EXIST" THEN "false" ELSE code

\* How each operation reports libnl's code: throwCode returns on NLE_SUCCESS only.
Reported(op, about, code) ==
  IF code = "SUCCESS" THEN "true"
  ELSE IF \/ op = "add" /\ code = "NLE_EXIST"
          \/ op = "del" /\ code = DelFalse(about)
       THEN "false" ELSE "throw"

\* rtnl_addr_add and the like send the request and wait.  Mutant: only send it.
AwaitedNever(op, about) == NoCall
Awaited(op, about) == [op |-> op, about |-> about, seq |-> seqNext]

\* The operation sends its request, and the kernel carries it out at once: its
\* notification, which has the sequence number of the request, precedes the answer.
Request(op, about) ==
  /\ call = NoCall /\ calls < MaxCalls
  /\ \E v \in Verdicts(op, about) :
       /\ objects' = v.objects
       /\ effect' = v.effect
       /\ queue' = IF member /\ v.code = "SUCCESS"
                   THEN queue \o <<Event(seqNext), Answer(v.code, seqNext)>>
                   ELSE Append(queue, Answer(v.code, seqNext))
  /\ call' = Awaited(op, about)
  /\ seqNext' = seqNext + 1
  /\ result' = "none"
  /\ calls' = calls + 1
  /\ UNCHANGED <<member, listening, seqExpect, changes>>

\* libnl cannot build the request (NLE_MISSING_ATTR and the like): nothing is sent.
RequestIncomplete ==
  /\ call = NoCall /\ calls < MaxCalls
  /\ effect' = "refused" /\ result' = "throw"
  /\ calls' = calls + 1
  /\ UNCHANGED <<objects, member, listening, queue, seqNext, seqExpect, call, changes>>

Expected == Head(queue).seq = seqExpect

\* nl_wait_for_ack reads one datagram.  On the socket's own callbacks (NL_CB_VERBOSE)
\* the sequence check is never replaced: a message with another number is reported on
\* stderr and ends the wait, like a notification, as if it had been the ACK.
WaitForAck ==
  /\ call # NoCall /\ queue # <<>>
  /\ queue' = Tail(queue)
  /\ LET m == Head(queue)
     IN /\ seqExpect' = IF Expected /\ m.type = "answer" THEN seqExpect + 1 ELSE seqExpect
        /\ result' = Reported(call.op, call.about, IF Expected THEN m.code ELSE "SUCCESS")
  /\ call' = NoCall
  /\ UNCHANGED <<objects, member, listening, seqNext, effect, calls, changes>>

\* receiveMessages uses Socket::callbacks, which take any sequence number once
\* addMembership has been called; only then is anything queued between two calls.
ReceiveMessages ==
  /\ call = NoCall /\ queue # <<>>
  /\ queue' = Tail(queue)
  /\ seqExpect' = IF Head(queue).type = "answer" THEN seqExpect + 1 ELSE seqExpect
  /\ UNCHANGED <<objects, member, listening, seqNext, call, result, effect, calls, changes>>

AddMembership ==
  /\ call = NoCall /\ ~member /\ "membership" \in Usage
  /\ member' = TRUE /\ listening' = TRUE
  /\ UNCHANGED <<objects, queue, seqNext, seqExpect, call, result, effect, calls, changes>>

DropMembership ==
  /\ call = NoCall /\ member
  /\ member' = FALSE
  /\ UNCHANGED <<objects, listening, queue, seqNext, seqExpect, call, result, effect, calls,
                 changes>>

\* Another process adds or removes an object.
OthersChange(o) ==
  /\ "others" \in Usage /\ changes < MaxChanges
  /\ objects' = IF o \in objects THEN objects \ {o} ELSE objects \cup {o}
  /\ changes' = changes + 1
  /\ queue' = IF member THEN Append(queue, Event(0)) ELSE queue
  /\ UNCHANGED <<member, listening, seqNext, seqExpect, call, result, effect, calls>>

-----------------------------------------------------------------------------
Init ==
  /\ objects \in SUBSET Objects
  /\ member = FALSE /\ listening = FALSE /\ queue = <<>>
  /\ seqNext = 1 /\ seqExpect = 1
  /\ call = NoCall /\ result = "none" /\ effect = "none"
  /\ calls = 0 /\ changes = 0

Client ==
  \/ \E o \in Objects : Request("add", {o})
  \/ \E kind \in Kinds : \E about \in SUBSET kind : about # {} /\ Request("del", about)
  \/ \E l \in Links : Request("change", {l})
  \/ RequestIncomplete \/ ReceiveMessages \/ AddMembership \/ DropMembership

Next == Client \/ WaitForAck \/ \E o \in Objects : OthersChange(o)

Spec == Init /\ [][Next]_vars

-----------------------------------------------------------------------------
(* Properties *)

\* Each variable keeps its type.
TypeOK ==
  /\ objects \subseteq Objects /\ member \in BOOLEAN /\ listening \in BOOLEAN
  /\ queue \in Seq(Message) /\ seqNext \in Nat /\ seqExpect \in Nat
  /\ call \in Call \cup {NoCall}
  /\ result \in {"none", "true", "false", "throw"}
  /\ effect \in {"none", "created", "existed", "removed", "absent", "changed", "refused"}
  /\ calls \in Nat /\ changes \in Nat

\* On a socket for which addMembership has never been called, add and change return true
\* when the kernel did what was asked for this very call, and del when it removed one
\* object that the request matches; they return false when the object was there already,
\* or none was there, and throw otherwise.  (Once addMembership has been called, a
\* notification may be taken for the ACK.)
ResultIsTheEffect ==
  ~listening /\ result # "none" =>
    /\ result = "true"  <=> effect \in {"created", "removed", "changed"}
    /\ result = "false" <=> effect \in {"existed", "absent"}

\* When del of a RouteAddress returns true, and nobody else has changed anything, no address
\* that it matches is left: include/nlcpp/route.h:364, "Deletes all addresses matched by
\* given RouteAddress object."  The code makes one request, which removes one of them.
DeletesAllMatched ==
  [][ call # NoCall /\ call.op = "del" /\ call.about \subseteq Addresses
      /\ call' = NoCall /\ result' = "true" /\ ~listening /\ changes' = 0
      => call.about \cap objects' = {} ]_vars

\* Between two calls no answer is left in the queue of such a socket, and the next one
\* expected is the answer to the next request.
NoAnswerLeft == ~listening /\ call = NoCall => queue = <<>> /\ seqExpect = seqNext
=============================================================================
