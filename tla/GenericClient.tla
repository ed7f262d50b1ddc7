---------------------------- MODULE GenericClient ----------------------------
(***************************************************************************)
(* Ctrl and Nl80211, the clients of a GenericSocket: getFamily and         *)
(* getInterface ask for one entry of a kernel table, getFamilies and       *)
(* getInterfaces dump one, resolve looks a family up through libnl.  The   *)
(* callback of each call makes its result of the replies; the verdict of   *)
(* the call is dropped.  Meanwhile families come, go and change their ids, *)
(* interfaces come and go, and a socket that has joined a group receives   *)
(* notifications of that.                                                  *)
(*                                                                         *)
(* The receive queue has no limit here: what a lost answer does to a call  *)
(* is in NlSocket (its usage "overrun").                                   *)
(*                                                                         *)
(* Usage:  "membership"  the client calls Socket::addMembership            *)
(*         "sendfail"    sending a request may fail                        *)
(***************************************************************************)
EXTENDS Integers, SequencesExt, FiniteSetsExt

CONSTANTS
  Families,    \* the names of the generic families but nlctrl
  Nl80211,     \* one of them, "nl80211"
  Ids,         \* the ids the kernel gives to families
  Interfaces,  \* the indices of wireless interfaces
  Configs,     \* what there is to know of an interface
  BigEndian,   \* the byte order of the machine
  MaxCalls,    \* bound on the client's calls
  MaxChanges,  \* bound on the changes of the kernel's tables
  Usage

ASSUME BoundsAreNat == MaxCalls \in Nat /\ MaxChanges \in Nat
ASSUME IdsArePositive == Ids \subseteq Nat \ {0} /\ Interfaces \subseteq Nat \ {0}
ASSUME Nl80211IsAFamily == Nl80211 \in Families
ASSUME BigEndianIsBoolean == BigEndian \in BOOLEAN
ASSUME UsageIsKnown == Usage \subseteq {"membership", "sendfail"}

VARIABLES
  table,       \* the kernel's entries: families with their ids, interfaces with theirs
  dump,        \* the dump the kernel is giving
  member,      \* the socket has joined the groups that notify of changes
  listening,   \* addMembership has been called
  queue,       \* the receive queue of the socket, one message to a datagram
  seqNext,     \* nl_sock::s_seq_next
  seqExpect,   \* nl_sock::s_seq_expect
  family,      \* Nl80211::family, 0 = no Nl80211 object
  call,        \* the current or last call: its operation, its argument, how far it is
  result,      \* what its callback has collected, an optional as a short sequence
  changed,     \* what has been done to the table during the call: "added", "removed"
  during,      \* the entries that have existed at some time of the call
  throughout,  \* the entries that have existed at all times of it
  refused,     \* the kernel answered it with an error for a reason of its own
  stale,       \* its request went to an id that is not that of nl80211
  unsent,      \* a request of the socket, which had its number, has not been sent
  calls, changes

kernelVars  == <<table, changes>>
socketVars  == <<member, listening, queue, seqNext, seqExpect>>
historyVars == <<changed, during, throughout, refused, stale, unsent>>
vars == <<kernelVars, dump, socketVars, family, call, result, historyVars, calls>>

-----------------------------------------------------------------------------
Entry(of, key, val) == [of |-> of, key |-> key, val |-> val]
Entries == [of : {"nlctrl"}, key : Families, val : Ids]
           \cup [of : {"nl80211"}, key : Interfaces, val : Configs]
ASSUME TablesAreFinite == IsFiniteSet(Entries)

\* A message of another family, or what parsing it as one's own leaves.
Foreign == Entry("foreign", 0, 0)

Message == [type : {"valid", "ack", "error", "done"}, seq : Nat,
            entry : Entries \cup {Foreign}]
Valid(seq, e)   == [type |-> "valid", seq |-> seq, entry |-> e]
End(type, seq)  == [type |-> type, seq |-> seq, entry |-> Foreign]

NoDump == [of |-> "none", seq |-> 0, pos |-> 0]

Of(t)      == {e \in table : e.of = t}
Find(t, k) == {e \in Of(t) : e.key = k}
Owner(id)  == {e \in Of("nlctrl") : e.val = id}

\* nlctrl lists families by id, nl80211 interfaces by age; both go on by position.
Rank(e) == IF e.of = "nlctrl" THEN e.val ELSE e.key
At(t, pos) == {e \in Of(t) : Cardinality({d \in Of(t) : Rank(d) < Rank(e)}) = pos}

(* The calls *)

Gets  == {"getFamily", "getInterface"}
Lists == {"getFamilies", "getInterfaces"}
Table(op) == IF op \in {"getFamily", "getFamilies", "resolve"} THEN "nlctrl" ELSE "nl80211"
Call == [op : Gets \cup Lists \cup {"resolve", "none"},
         key : Families \cup Interfaces \cup {0}, phase : {"loop", "probe", "wait", "done", "threw"}]

Idle == call.phase \in {"done", "threw"}
Returns(phase) == call' = [call EXCEPT !.phase = phase]

Begin(op, key, phase) ==
  /\ Idle /\ calls < MaxCalls
  /\ calls' = calls + 1
  /\ call' = [op |-> op, key |-> key, phase |-> phase]
  /\ result' = <<>>
  /\ changed' = {} /\ during' = table /\ throughout' = table

\* A put function of Message throws while the request is being built.
PutFails(op, key) ==
  /\ Begin(op, key, "threw")
  /\ refused' = TRUE /\ stale' = FALSE
  /\ UNCHANGED <<kernelVars, dump, socketVars, family, unsent>>

\* What the kernel answers at once to a request that reaches the family it is for, and
\* to one that reaches another family, which knows the command as one of its own.
Answers(op, key, seq) ==
  IF Find(Table(op), key) = {} THEN {<<End("error", seq)>>}
  ELSE {<<Valid(seq, e), End("ack", seq)>> : e \in Find(Table(op), key)}
ForeignAnswers(op, seq) ==
  LET end == End(IF op \in Lists THEN "done" ELSE "ack", seq)
  IN {<<end>>, <<Valid(seq, Foreign), end>>}

\* nlctrl has a fixed id; Nl80211 sends to the id its constructor resolved.
Reaches(op) ==
  IF Table(op) = "nlctrl" THEN "its family"
  ELSE IF Owner(family) = {} THEN "nobody"
  ELSE IF Owner(family) = Find("nlctrl", Nl80211) THEN "its family" ELSE "another"

\* nl_send_auto gives the request the next number and sends it: the kernel takes it up.
Sent(op, key) ==
  /\ seqNext' = seqNext + 1
  /\ stale' = (Reaches(op) # "its family")
  /\ \/ /\ queue' = Append(queue, End("error", seqNext))
        /\ dump' = dump /\ refused' = TRUE
     \/ /\ Reaches(op) = "nobody"
        /\ queue' = Append(queue, End("error", seqNext))
        /\ dump' = dump /\ refused' = FALSE
     \/ /\ Reaches(op) = "another"
        /\ \E a \in ForeignAnswers(op, seqNext) : queue' = queue \o a
        /\ dump' = dump /\ refused' = FALSE
     \/ /\ Reaches(op) = "its family" /\ op \notin Lists
        /\ \E a \in Answers(op, key, seqNext) : queue' = queue \o a
        /\ dump' = dump /\ refused' = FALSE
     \/ /\ Reaches(op) = "its family" /\ op \in Lists /\ dump = NoDump
        /\ dump' = [of |-> Table(op), seq |-> seqNext, pos |-> 0]
        /\ queue' = queue /\ refused' = FALSE
  /\ UNCHANGED <<kernelVars, member, listening, seqExpect, family, unsent>>

\* Sending fails after the request has been given its number.
NotSent ==
  /\ "sendfail" \in Usage
  /\ seqNext' = seqNext + 1
  /\ unsent' = TRUE /\ refused' = FALSE /\ stale' = FALSE
  /\ UNCHANGED <<kernelVars, dump, member, listening, queue, seqExpect, family>>

\* sendMessageSync goes on to wait, whatever nl_send_auto says.
Send(op, key) == Sent(op, key) \/ NotSent

GetFamily(f)      == Begin("getFamily", f, "loop") /\ Send("getFamily", f)
GetFamilies       == Begin("getFamilies", 0, "loop") /\ Send("getFamilies", 0)
GetInterface(i)   == family # 0 /\ Begin("getInterface", i, "loop") /\ Send("getInterface", i)
GetInterfaces     == family # 0 /\ Begin("getInterfaces", 0, "loop") /\ Send("getInterfaces", 0)

\* The constructor of Nl80211; resolveGroup makes the same exchange.  libnl does look at
\* what becomes of its request, and resolve throws.
Resolve ==
  \/ Begin("resolve", Nl80211, "probe") /\ Sent("resolve", Nl80211)
  \/ Begin("resolve", Nl80211, "threw") /\ NotSent

AddMembership ==
  /\ Idle /\ "membership" \in Usage
  /\ member' = TRUE /\ listening' = TRUE
  /\ UNCHANGED <<kernelVars, dump, queue, seqNext, seqExpect, family, call, result,
                 historyVars, calls>>

\* The id of a family is an attribute of 16 bits, read as one of 32: the two bytes
\* after it are padding.  Mutant: the bytes are taken in the wrong order.
IdReadSwapped(id) == IF BigEndian THEN id ELSE id * 2^16
IdRead(id) == IF BigEndian THEN id * 2^16 ELSE id

\* parseGenericFamily and parseInterfaceConfiguration of a message.
Parsed(t, e) ==
  IF e.of # t THEN Foreign
  ELSE IF t = "nlctrl" THEN [e EXCEPT !.val = IdRead(@)] ELSE e

\* What the callbacks make of a reply: a list grows, an optional is overwritten.  Mutant:
\* the list is overwritten too.
CollectedLast(item) == <<item>>
Collected(item) == IF call.op \in Lists THEN Append(result, item) ELSE <<item>>

(* sendMessageSync: the loop over nl_recvmsgs *)

Msg == Head(queue)
Expected == Msg.seq = seqExpect
Counted == IF Expected /\ Msg.type # "valid" THEN seqExpect + 1 ELSE seqExpect

\* Mutant: the positive code of an error is taken for "still waiting".
EndsUnlessError(m) == m.type \in {"ack", "done"}
Ends(m) == m.type # "valid"

\* addMembership replaces the sequence check: then any message is taken for an answer.
ReceiveInLoop ==
  /\ call.phase = "loop" /\ queue # <<>>
  /\ queue' = Tail(queue)
  /\ IF Expected \/ listening
     THEN /\ seqExpect' = IF Msg.type # "valid" THEN seqExpect + 1 ELSE seqExpect
          /\ result' = IF Msg.type = "valid" THEN Collected(Parsed(Table(call.op), Msg.entry))
                       ELSE result
          /\ call' = IF Ends(Msg) THEN [call EXCEPT !.phase = "done"] ELSE call
     ELSE UNCHANGED <<seqExpect, call, result>>
  /\ UNCHANGED <<kernelVars, dump, member, listening, seqNext, family, historyVars, calls>>

(* genl_ctrl_resolve, on libnl's own callback set *)

\* resolve throws when libnl has found no family.  Mutant: libnl's code is kept as the id.
NotFoundKept == Returns("done") /\ family' = -1
NotFound == Returns("threw") /\ family' = family

\* libnl reads one datagram for the family and one for the ACK; a message with another
\* number counts as neither and ends the reading.
Probe ==
  /\ call.phase = "probe" /\ queue # <<>>
  /\ queue' = Tail(queue)
  /\ seqExpect' = Counted
  /\ result' = IF Expected /\ Msg.type = "valid" THEN <<Msg.entry>> ELSE result
  /\ IF Expected /\ Msg.type = "error" THEN NotFound ELSE Returns("wait") /\ family' = family
  /\ UNCHANGED <<kernelVars, dump, member, listening, seqNext, historyVars, calls>>

WaitForAck ==
  /\ call.phase = "wait" /\ queue # <<>>
  /\ queue' = Tail(queue)
  /\ seqExpect' = Counted
  /\ IF result = <<>> THEN NotFound ELSE Returns("done") /\ family' = result[1].val
  /\ UNCHANGED <<kernelVars, dump, member, listening, seqNext, result, historyVars, calls>>

(* The kernel *)

\* The next part of a dump is made when the one before it has been read.  A dump may also
\* end before its time: with an error, which the kernel may put into its DONE.
DumpEnds(type) == queue' = Append(queue, End(type, dump.seq)) /\ dump' = NoDump
DumpPart ==
  /\ dump # NoDump /\ \A i \in DOMAIN queue : queue[i].seq # dump.seq
  /\ \/ At(dump.of, dump.pos) = {} /\ DumpEnds("done") /\ refused' = refused
     \/ \E type \in {"error", "done"} : DumpEnds(type) /\ refused' = TRUE
     \/ \E e \in At(dump.of, dump.pos) :
          /\ queue' = Append(queue, Valid(dump.seq, e))
          /\ dump' = [dump EXCEPT !.pos = @ + 1]
          /\ refused' = refused
  /\ UNCHANGED <<kernelVars, member, listening, seqNext, seqExpect, family, call, result,
                 changed, during, throughout, stale, unsent, calls>>

\* An entry comes or goes, with what goes with it, and members are notified.
Change(how, e, new) ==
  /\ changes < MaxChanges
  /\ changes' = changes + 1
  /\ table' = new
  /\ queue' = IF member THEN Append(queue, Valid(0, e)) ELSE queue
  /\ IF Idle THEN UNCHANGED <<changed, during, throughout>>
             ELSE /\ changed' = changed \cup {how}
                  /\ during' = during \cup new
                  /\ throughout' = throughout \cap new
  /\ UNCHANGED <<dump, member, listening, seqNext, seqExpect, family, call, result,
                 refused, stale, unsent, calls>>

Register(f, id) ==
  /\ Find("nlctrl", f) = {} /\ Owner(id) = {}
  /\ Change("added", Entry("nlctrl", f, id), table \cup {Entry("nlctrl", f, id)})

\* A family that is giving a dump cannot go; nl80211 takes its interfaces along.
Unregister(e) ==
  /\ e \in Of("nlctrl") /\ ~(e.key = Nl80211 /\ dump.of = "nl80211")
  /\ Change("removed", e, (table \ {e}) \ (IF e.key = Nl80211 THEN Of("nl80211") ELSE {}))

InterfaceAdded(e) ==
  /\ Find("nlctrl", Nl80211) # {} /\ e.of = "nl80211" /\ Find("nl80211", e.key) = {}
  /\ Change("added", e, table \cup {e})

InterfaceRemoved(e) == e \in Of("nl80211") /\ Change("removed", e, table \ {e})

-----------------------------------------------------------------------------
Consistent(t) ==
  /\ \A d, e \in t : d.of = e.of /\ (d.key = e.key \/ Rank(d) = Rank(e)) => d = e
  /\ (\E e \in t : e.of = "nl80211") => \E e \in t : e.of = "nlctrl" /\ e.key = Nl80211

Init ==
  /\ table \in {t \in SUBSET Entries : Consistent(t)} /\ dump = NoDump
  /\ member = FALSE /\ listening = FALSE /\ queue = <<>>
  /\ seqNext = 1 /\ seqExpect = 1
  /\ family = 0 /\ call = [op |-> "none", key |-> 0, phase |-> "done"] /\ result = <<>>
  /\ changed = {} /\ during = {} /\ throughout = {}
  /\ refused = FALSE /\ stale = FALSE /\ unsent = FALSE
  /\ calls = 0 /\ changes = 0

Client ==
  \/ \E f \in Families : GetFamily(f) \/ PutFails("getFamily", f)
  \/ \E i \in Interfaces : GetInterface(i) \/ (family # 0 /\ PutFails("getInterface", i))
  \/ GetFamilies \/ GetInterfaces \/ Resolve \/ AddMembership

Library == ReceiveInLoop \/ Probe \/ WaitForAck

Kernel ==
  \/ \E f \in Families, id \in Ids : Register(f, id)
  \/ \E e \in Entries : Unregister(e) \/ InterfaceAdded(e) \/ InterfaceRemoved(e)

Next == Client \/ Library \/ DumpPart \/ Kernel

Spec == Init /\ [][Next]_vars

\* A call runs on, and the kernel goes on with a dump it is giving.
FairSpec == Spec /\ WF_vars(Library) /\ WF_vars(DumpPart)

-----------------------------------------------------------------------------
(* Properties *)

\* Each variable keeps its type, and the kernel's tables are consistent.  An id is one of
\* the kernel's, unless libnl has taken a message about an interface for its answer.
TypeOK ==
  /\ table \subseteq Entries /\ Consistent(table)
  /\ dump \in [of : {"none", "nlctrl", "nl80211"}, seq : Nat, pos : Nat]
  /\ {member, listening, refused, stale, unsent} \subseteq BOOLEAN
  /\ queue \in Seq(Message) /\ seqNext \in Nat /\ seqExpect \in Nat
  /\ family \in Ids \cup Configs \cup {0} /\ call \in Call
  /\ ToSet(result) \subseteq Entries \cup {Foreign} \cup {Parsed(e.of, e) : e \in Entries}
  /\ changed \subseteq {"added", "removed"} /\ during \subseteq Entries /\ throughout \subseteq Entries
  /\ calls \in Nat /\ changes \in Nat

\* The call has returned, on a socket that receives nothing but answers and from the
\* family it was meant for.
Undisturbed(ops) == call.phase = "done" /\ call.op \in ops /\ ~listening /\ ~stale
InTable(S) == {e \in S : e.of = Table(call.op)}

\* getFamily and getInterface say what the kernel had at some moment of the call; they
\* say that there is nothing only if there was nothing at some moment, or if the kernel
\* gave an error for another reason, which they cannot tell apart.
GetIsTruthful ==
  Undisturbed(Gets) =>
    /\ \A i \in DOMAIN result : result[i] \in during /\ result[i].key = call.key /\ i = 1
    /\ result = <<>> => refused \/ \A e \in InTable(throughout) : e.key # call.key

\* getFamilies and getInterfaces list nothing that did not exist during the call; they
\* miss what existed all the time only if something was removed meanwhile, or the kernel
\* gave an error, at once or in the middle of the dump; and they list something twice only
\* if something was added.
ListIsTruthful ==
  Undisturbed(Lists) =>
    /\ ToSet(result) \subseteq during
    /\ "removed" \notin changed /\ ~refused => InTable(throughout) \subseteq ToSet(result)
    /\ "added" \notin changed => IsInjective(result)

\* resolve returns an id the family had at some moment of the call, and throws only if
\* it did not exist at some moment, or the kernel gave an error, or a request of the
\* socket, this one or an earlier, has not been sent: then libnl expects an older number.
ResolveIsTruthful ==
  call.op = "resolve" /\ ~listening =>
    /\ call.phase = "done" => Entry("nlctrl", Nl80211, family) \in during
    /\ call.phase = "threw" =>
         refused \/ unsent \/ \A e \in InTable(throughout) : e.key # Nl80211

\* As long as every request of the socket has been sent (and no answer is lost, which this
\* module leaves out), every call returns, also when notifications are taken for answers and
\* answers are left behind.  sendMessageSync does not look at what nl_send_auto says: a call
\* whose request has not been sent waits for ever, and after a resolve that threw for that
\* reason so does the next one, whose answer has not the number that libnl expects.
EveryCallReturns == ~Idle /\ ~unsent ~> Idle
=============================================================================
