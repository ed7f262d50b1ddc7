------------------------- MODULE GenericClientProofs -------------------------
(***************************************************************************)
(* Theorems of GenericClient, for any families, ids, interfaces, calls and *)
(* changes of the kernel's tables: the type invariant, for every usage;    *)
(* and, until the socket has joined a group, the truth of what getFamily,  *)
(* getInterface, getFamilies, getInterfaces and resolve say, whether or    *)
(* not requests are sent.                                                  *)
(***************************************************************************)
EXTENDS GenericClient, FiniteSetTheorems, SequenceTheorems, WellFoundedInduction, TLAPS

-----------------------------------------------------------------------------
(* Sequences *)

\* Appending to a sequence.
LEMMA Appended ==
  ASSUME NEW S, NEW s \in Seq(S), NEW e \in S
  PROVE  /\ Append(s, e) \in Seq(S) /\ Len(Append(s, e)) = Len(s) + 1
         /\ DOMAIN Append(s, e) = DOMAIN s \cup {Len(s) + 1} /\ Len(s) + 1 \notin DOMAIN s
         /\ Append(s, e)[Len(s) + 1] = e /\ \A i \in DOMAIN s : Append(s, e)[i] = s[i]
         /\ ToSet(Append(s, e)) = ToSet(s) \cup {e}
<1>1. /\ Append(s, e) \in Seq(S) /\ Len(Append(s, e)) = Len(s) + 1
      /\ Append(s, e)[Len(s) + 1] = e /\ \A i \in 1..Len(s) : Append(s, e)[i] = s[i]
  BY AppendProperties
<1>2. DOMAIN s = 1..Len(s) /\ Len(s) \in Nat /\ DOMAIN Append(s, e) = 1..(Len(s) + 1)
  BY <1>1, LenProperties
<1>3. 1..(Len(s) + 1) = 1..Len(s) \cup {Len(s) + 1} /\ Len(s) + 1 \notin 1..Len(s)
  BY <1>2
<1> QED BY <1>1, <1>2, <1>3 DEF ToSet

\* Taking the first element.
LEMMA HeadTaken ==
  ASSUME NEW S, NEW s \in Seq(S), s # <<>>
  PROVE  /\ Head(s) \in S /\ Head(s) = s[1] /\ 1 \in DOMAIN s
         /\ Tail(s) \in Seq(S) /\ Len(Tail(s)) = Len(s) - 1 /\ Len(s) \in Nat \ {0}
         /\ DOMAIN Tail(s) = 1..(Len(s) - 1) /\ DOMAIN s = 1..Len(s)
         /\ \A i \in DOMAIN Tail(s) : Tail(s)[i] = s[i + 1] /\ i + 1 \in DOMAIN s
<1>1. /\ Head(s) = s[1] /\ Tail(s) \in Seq(S) /\ Len(Tail(s)) = Len(s) - 1
      /\ \A i \in 1..Len(Tail(s)) : Tail(s)[i] = s[i + 1]
      /\ Head(s) \in S
  BY HeadTailProperties
<1>2. DOMAIN s = 1..Len(s) /\ Len(s) \in Nat \ {0} /\ DOMAIN Tail(s) = 1..(Len(s) - 1)
  BY <1>1, LenProperties, EmptySeq
<1> QED BY <1>1, <1>2

\* The elements of a sequence.
LEMMA ElementsOf ==
  ASSUME NEW S, NEW s \in Seq(S)
  PROVE  ToSet(s) \subseteq S /\ \A i \in DOMAIN s : s[i] \in S
<1>1. DOMAIN s = 1..Len(s) /\ \A i \in 1..Len(s) : s[i] \in S
  BY LenProperties, ElementOfSeq
<1> QED BY <1>1 DEF ToSet
-----------------------------------------------------------------------------
(* The invariant *)

Items == Entries \cup {Foreign} \cup {Parsed(e.of, e) : e \in Entries}
Raw   == Entries \cup {Foreign}

\* Each phase belongs to its operations; libnl keeps the reply as it came.
TypeInv ==
  /\ TypeOK
  /\ result \in Seq(Items)
  /\ call.phase = "loop" => call.op \in Gets \cup Lists
  /\ call.phase \in {"probe", "wait"} => call.op = "resolve"
  /\ call.op = "resolve" => result \in Seq(Raw) /\ call.key = Nl80211 /\ stale = FALSE

\* An answer that has been given in full: its end comes last.
Complete == /\ queue # <<>> /\ Ends(queue[Len(queue)])
            /\ \A i \in DOMAIN queue : Ends(queue[i]) => i = Len(queue)

\* Until the socket listens, between calls nothing is under way, and during one nothing
\* but its answer: a dump that goes on, or the rest of an answer with its end.
OnlyAnswers ==
  /\ member = FALSE
  /\ Idle => queue = <<>> /\ dump = NoDump /\ seqNext = seqExpect
  /\ ~Idle => seqNext = seqExpect + 1 /\ \A i \in DOMAIN queue : queue[i].seq = seqExpect
  /\ ~Idle /\ dump = NoDump => Complete
  /\ dump # NoDump =>
       /\ call.phase = "loop" /\ call.op \in Lists /\ stale = FALSE
       /\ dump.of = Table(call.op) /\ dump.seq = seqExpect
       /\ \A i \in DOMAIN queue : queue[i].type = "valid"

\* libnl waits for an entry with its ACK, or an error, and then for the ACK.
OnlyOneEntry ==
  /\ call.phase = "probe" =>
       /\ result = <<>>
       /\ \/ Len(queue) = 1 /\ queue[1].type = "error"
          \/ Len(queue) = 2 /\ queue[1].type = "valid"
  /\ call.phase = "wait" => result # <<>> /\ Len(queue) = 1

\* What is said to have existed during a call, and all through it.
HistoryIsRight == ~Idle => throughout \subseteq table /\ table \subseteq during

\* A reply to a call is about what was asked for, and none comes if there is nothing.
Asked(e) == e \in during /\ e.of = Table(call.op) /\ e.key = call.key
OneIsAnswered ==
  /\ \A i \in DOMAIN result : Asked(result[i]) /\ i = 1
  /\ \A i \in DOMAIN queue : queue[i].type = "valid" => Asked(queue[i].entry)
  /\ result = <<>> /\ (\A i \in DOMAIN queue : queue[i].type # "valid") =>
       refused \/ \A e \in InTable(throughout) : e.key # call.key

\* Where the dump comes to e, and what it has given.
Preceding(t, e) == {d \in t : d.of = e.of /\ Rank(d) < Rank(e)}
Before(e) == Cardinality(Preceding(table, e))
Underway(e) == \E i \in DOMAIN queue : queue[i].type = "valid" /\ queue[i].entry = e
Given(e) == e \in ToSet(result) \/ Underway(e)

\* A dump has given what exists before its position and, if nothing left, what stayed;
\* if nothing came, it has given that once.
AllAreGiven ==
  /\ \A e : Given(e) => e \in during /\ e.of = Table(call.op)
  /\ Len(queue) <= 1
  /\ "removed" \notin changed /\ ~refused =>
       \A e \in InTable(throughout) : Given(e) \/ (dump # NoDump /\ Before(e) >= dump.pos)
  /\ "added" \notin changed =>
       /\ IsInjective(result)
       /\ \A e \in ToSet(result) : ~Underway(e)
       /\ dump # NoDump => \A e \in table : Given(e) => Before(e) < dump.pos

\* resolve leaves the reading of ids to libnl, and interfaces have none.
Legible == BigEndian = FALSE \/ call.op \notin {"getFamily", "getFamilies"}

\* As long as every request has been sent.
TruthInv ==
  listening = FALSE /\ unsent = FALSE =>
    /\ OnlyAnswers /\ OnlyOneEntry
    /\ stale = FALSE /\ call.op \in Gets \cup {"resolve"} /\ Legible => OneIsAnswered
    /\ stale = FALSE /\ call.op \in Lists /\ Legible => AllAreGiven
    /\ ResolveIsTruthful

\* A request that has not been sent keeps its number: libnl expects it from then on, and
\* every message it gets has a later one.  No call returns a result any more.
LostInv ==
  listening = FALSE /\ unsent = TRUE =>
    /\ member = FALSE /\ seqNext > seqExpect
    /\ \A i \in DOMAIN queue : queue[i].seq > seqExpect
    /\ dump # NoDump => dump.seq > seqExpect
    /\ call.phase # "done"
    /\ call.phase \in {"probe", "wait"} => result = <<>>

-----------------------------------------------------------------------------
(* Type correctness *)

LEMMA TypesOfParts ==
  ASSUME TypeInv
  PROVE  /\ table \subseteq Entries /\ Consistent(table)
         /\ queue \in Seq(Message) /\ result \in Seq(Items)
         /\ seqNext \in Nat /\ seqExpect \in Nat /\ calls \in Nat /\ changes \in Nat
         /\ dump.of \in {"none", "nlctrl", "nl80211"} /\ dump.seq \in Nat /\ dump.pos \in Nat
         /\ family \in Ids \cup Configs \cup {0} /\ call \in Call
         /\ during \subseteq Entries /\ throughout \subseteq Entries
         /\ \A i \in DOMAIN queue : queue[i] \in Message
<1>1. queue \in Seq(Message)
  BY DEF TypeInv, TypeOK
<1>2. \A i \in DOMAIN queue : queue[i] \in Message
  BY <1>1, ElementOfSeq, LenProperties
<1> QED BY <1>1, <1>2 DEF TypeInv, TypeOK

\* Messages and entries.
LEMMA MessageTypes ==
  ASSUME NEW seq \in Nat
  PROVE  /\ \A e \in Entries \cup {Foreign} : Valid(seq, e) \in Message
         /\ \A t \in {"ack", "error", "done"} : End(t, seq) \in Message
<1>1. Foreign \in Entries \cup {Foreign}
  OBVIOUS
<1> QED BY <1>1 DEF Valid, End, Message

LEMMA EntryType ==
  /\ \A f \in Families, id \in Ids : Entry("nlctrl", f, id) \in Entries
  /\ \A e \in Entries : /\ e.of \in {"nlctrl", "nl80211"} /\ e = Entry(e.of, e.key, e.val)
                        /\ e.of = "nlctrl" => e.key \in Families /\ e.val \in Ids
                        /\ e.of = "nl80211" => e.key \in Interfaces /\ e.val \in Configs
  /\ Foreign.of = "foreign" /\ Foreign.val = 0 /\ Foreign \notin Entries
  BY DEF Entries, Entry, Foreign

\* The first answers to a request are messages with its number.
LEMMA FirstAnswers ==
  ASSUME TypeInv, NEW op, NEW key, NEW seq \in Nat
  PROVE  /\ \A a \in Answers(op, key, seq) \cup ForeignAnswers(op, seq) : a \in Seq(Message)
         /\ <<End("error", seq)>> \in Seq(Message)
<1>1. /\ \A e \in Entries \cup {Foreign} : Valid(seq, e) \in Message
      /\ \A t \in {"ack", "error", "done"} : End(t, seq) \in Message
  BY MessageTypes
<1>2. \A m \in Message, n \in Message : <<m>> \in Seq(Message) /\ <<m, n>> \in Seq(Message)
  OBVIOUS
<1>3. Find(Table(op), key) \subseteq Entries
  BY TypesOfParts DEF Find, Of
<1>4. \A a \in Answers(op, key, seq) : a \in Seq(Message)
  BY <1>1, <1>2, <1>3 DEF Answers
<1>5. \A a \in ForeignAnswers(op, seq) : a \in Seq(Message)
  BY <1>1, <1>2 DEF ForeignAnswers
<1> QED BY <1>1, <1>2, <1>4, <1>5

\* What can be asked.
Keys == Families \cup Interfaces \cup {0}

\* A call begins, and its request is sent.
LEMMA SentType ==
  ASSUME TypeInv, NEW op \in Gets \cup Lists \cup {"resolve"}, NEW key \in Keys,
         NEW phase \in {"loop", "probe"}, Begin(op, key, phase), Sent(op, key),
         op = "resolve" <=> phase = "probe", op = "resolve" => key = Nl80211
  PROVE  TypeInv'
<1>1. /\ call' = [op |-> op, key |-> key, phase |-> phase] /\ result' = <<>>
      /\ calls' = calls + 1 /\ changed' = {} /\ during' = table /\ throughout' = table
  BY DEF Begin
<1>2. /\ UNCHANGED <<table, changes, member, listening, seqExpect, family, unsent>>
      /\ seqNext' = seqNext + 1
      /\ stale' = (Reaches(op) # "its family") /\ (refused' = TRUE \/ refused' = FALSE)
  BY DEF Sent, kernelVars
<1>3. queue' \in Seq(Message)
  <2>1. /\ seqNext \in Nat /\ queue \in Seq(Message)
    BY TypesOfParts
  <2>2. CASE queue' = Append(queue, End("error", seqNext))
    BY <2>1, <2>2, MessageTypes, Appended
  <2>3. CASE \E a \in Answers(op, key, seqNext) \cup ForeignAnswers(op, seqNext) : queue' = queue \o a
    BY <2>1, <2>3, FirstAnswers, ConcatProperties
  <2>4. CASE queue' = queue
    BY <2>1, <2>4
  <2> QED BY <2>2, <2>3, <2>4 DEF Sent
<1>4. dump' \in [of : {"none", "nlctrl", "nl80211"}, seq : Nat, pos : Nat]
  <2>1. dump' = dump \/ dump' = [of |-> Table(op), seq |-> seqNext, pos |-> 0]
    BY DEF Sent
  <2>2. Table(op) \in {"nlctrl", "nl80211"} /\ seqNext \in Nat
    BY TypesOfParts DEF Table
  <2> QED BY <2>1, <2>2 DEF TypeInv, TypeOK
<1>5. call' \in Call
  BY <1>1 DEF Call, Keys
<1>6. {member', listening', refused', stale', unsent'} \subseteq BOOLEAN
  <2>1. member' \in BOOLEAN /\ listening' \in BOOLEAN
    BY <1>2, Zenon DEF TypeInv, TypeOK
  <2>2. stale' \in BOOLEAN /\ refused' \in BOOLEAN /\ unsent' \in BOOLEAN
    BY <1>2, Zenon DEF TypeInv, TypeOK
  <2> QED BY <2>1, <2>2, Zenon
<1>7. result' \in Seq(Items) /\ result' \in Seq(Raw) /\ ToSet(result') = {}
  <2>1. result' \in Seq(Items) /\ result' \in Seq(Raw) /\ DOMAIN result' = {}
    BY <1>1, EmptySeq
  <2> QED BY <2>1 DEF ToSet
<1>8. TypeOK'
  <2>1. /\ table' \subseteq Entries /\ Consistent(table) /\ during' \subseteq Entries
        /\ throughout' \subseteq Entries /\ changed' = {}
    BY <1>1, <1>2, TypesOfParts
  <2>2. /\ seqNext' \in Nat /\ seqExpect' \in Nat /\ calls' \in Nat /\ changes' \in Nat
    <3>1. seqNext \in Nat /\ seqExpect \in Nat /\ calls \in Nat /\ changes \in Nat
      BY TypesOfParts
    <3>2. /\ seqNext' = seqNext + 1 /\ calls' = calls + 1
          /\ seqExpect' = seqExpect /\ changes' = changes
      BY <1>1, <1>2
    <3> QED BY ONLY <3>1, <3>2
  <2>3. Consistent(table)' /\ family' \in Ids \cup Configs \cup {0}
    BY <1>2, <2>1, TypesOfParts DEF Consistent
  <2> QED BY <1>3, <1>4, <1>5, <1>6, <1>7, <2>1, <2>2, <2>3 DEF TypeOK, Items
<1>9. op = "resolve" => stale' = FALSE
  BY <1>2 DEF Reaches, Table
<1> QED BY <1>1, <1>7, <1>8, <1>9 DEF TypeInv, Gets, Lists

\* A call begins, and its request is not sent.
LEMMA NotSentType ==
  ASSUME TypeInv, NEW op \in Gets \cup Lists \cup {"resolve"}, NEW key \in Keys,
         NEW phase \in {"loop", "threw"}, Begin(op, key, phase), NotSent,
         op = "resolve" <=> phase = "threw", op = "resolve" => key = Nl80211
  PROVE  TypeInv'
<1>1. /\ call' = [op |-> op, key |-> key, phase |-> phase] /\ result' = <<>>
      /\ calls' = calls + 1 /\ changed' = {} /\ during' = table /\ throughout' = table
      /\ seqNext' = seqNext + 1 /\ unsent' = TRUE /\ refused' = FALSE /\ stale' = FALSE
      /\ UNCHANGED <<kernelVars, dump, member, listening, queue, seqExpect, family>>
  BY DEF Begin, NotSent
<1>2. call' \in Call
  BY <1>1 DEF Call, Keys
<1>3. result' \in Seq(Items) /\ result' \in Seq(Raw) /\ ToSet(result') = {}
  <2>1. result' \in Seq(Items) /\ result' \in Seq(Raw) /\ DOMAIN result' = {}
    BY <1>1, EmptySeq
  <2> QED BY <2>1 DEF ToSet
<1>4. {member', listening', refused', stale', unsent'} \subseteq BOOLEAN
  BY <1>1, Zenon DEF TypeInv, TypeOK
<1>5. seqNext' \in Nat /\ calls' \in Nat
  <2>1. seqNext \in Nat /\ calls \in Nat
    BY TypesOfParts
  <2> QED BY ONLY <1>1, <2>1
<1>6. TypeOK'
  BY <1>1, <1>2, <1>3, <1>4, <1>5, TypesOfParts DEF TypeInv, TypeOK, kernelVars
<1> QED BY <1>1, <1>3, <1>6 DEF TypeInv, Gets, Lists

\* A call fails before it is sent, or the client joins a group.
LEMMA UnsentType ==
  ASSUME TypeInv,
         \/ \E op \in Gets, key \in Keys : PutFails(op, key)
         \/ AddMembership \/ UNCHANGED vars
  PROVE  TypeInv'
<1>1. CASE \E op \in Gets, key \in Keys : PutFails(op, key)
  <2>1. PICK op \in Gets, key \in Keys : PutFails(op, key)
    BY <1>1
  <2>2. /\ call' = [op |-> op, key |-> key, phase |-> "threw"] /\ result' = <<>>
        /\ calls' = calls + 1 /\ changed' = {} /\ during' = table /\ throughout' = table
        /\ refused' = TRUE /\ stale' = FALSE
        /\ UNCHANGED <<kernelVars, dump, socketVars, family, unsent>>
    BY <2>1 DEF PutFails, Begin
  <2>3. call' \in Call
    BY <2>2 DEF Call, Keys
  <2>4. result' \in Seq(Items) /\ ToSet(result') = {}
    <3>1. result' \in Seq(Items) /\ DOMAIN result' = {}
      BY <2>2, EmptySeq
    <3> QED BY <3>1 DEF ToSet
  <2>5. {member', listening', refused', stale', unsent'} \subseteq BOOLEAN
    BY <2>2, Zenon DEF socketVars, TypeInv, TypeOK
  <2>6. TypeOK'
    BY <2>2, <2>3, <2>4, <2>5, TypesOfParts DEF TypeInv, TypeOK, kernelVars, socketVars
  <2> QED BY <2>2, <2>4, <2>6 DEF TypeInv, Gets
<1>2. CASE AddMembership
  <2>1. /\ member' = TRUE /\ listening' = TRUE
        /\ UNCHANGED <<kernelVars, dump, queue, seqNext, seqExpect, family, call, result,
                       historyVars, calls>>
    BY <1>2 DEF AddMembership
  <2>2. {member', listening', refused', stale', unsent'} \subseteq BOOLEAN
    BY <2>1, Zenon DEF historyVars, TypeInv, TypeOK
  <2>3. TypeOK'
    BY <2>1, <2>2 DEF TypeInv, TypeOK, kernelVars, historyVars
  <2> QED BY <2>1, <2>3 DEF TypeInv, historyVars
<1>3. CASE UNCHANGED vars
  BY <1>3 DEF TypeInv, TypeOK, vars, kernelVars, socketVars, historyVars
<1> QED BY <1>1, <1>2, <1>3

\* What a callback makes of an entry can be in a result.
LEMMA ParsedType ==
  ASSUME NEW t \in {"nlctrl", "nl80211"}, NEW e \in Raw
  PROVE  Parsed(t, e) \in Items
<1>1. CASE e.of # t
  BY <1>1 DEF Parsed, Items
<1>2. CASE e.of = t
  <2>1. e \in Entries
    BY <1>2, EntryType DEF Raw
  <2> QED BY <1>2, <2>1 DEF Items
<1> QED BY <1>1, <1>2

\* A message is read.
LEMMA ReadType ==
  ASSUME TypeInv, ReceiveInLoop \/ Probe \/ WaitForAck
  PROVE  TypeInv'
<1>1. /\ queue # <<>> /\ queue' = Tail(queue)
      /\ UNCHANGED <<kernelVars, dump, member, listening, seqNext, historyVars, calls>>
      /\ seqExpect' \in {seqExpect, seqExpect + 1}
  BY DEF ReceiveInLoop, Probe, WaitForAck, Counted
<1>2. Msg \in Message /\ queue' \in Seq(Message)
  BY <1>1, TypesOfParts, HeadTaken DEF Msg
<1>3. Msg.entry \in Raw
  BY <1>2 DEF Message, Raw
<1>4. /\ result' \in Seq(Items)
      /\ call.op = "resolve" => result' \in Seq(Raw)
  <2>1. CASE ReceiveInLoop
    <3>1. PICK item : item = Parsed(Table(call.op), Msg.entry)
      OBVIOUS
    <3>2. item \in Items
      BY <1>3, <3>1, ParsedType DEF Table
    <3>3. result' = result \/ result' = Append(result, item) \/ result' = <<item>>
      BY <2>1, <3>1 DEF ReceiveInLoop, Collected
    <3>4. <<item>> \in Seq(Items) /\ Append(result, item) \in Seq(Items)
      BY <3>2, TypesOfParts, Appended
    <3>5. call.op # "resolve"
      BY <2>1 DEF ReceiveInLoop, TypeInv, Gets, Lists
    <3> QED BY <3>3, <3>4, <3>5, TypesOfParts
  <2>2. CASE Probe \/ WaitForAck
    <3>1. result' = result \/ result' = <<Msg.entry>>
      BY <2>2 DEF Probe, WaitForAck
    <3>2. <<Msg.entry>> \in Seq(Raw)
      BY <1>3
    <3>3. Raw \subseteq Items
      BY DEF Raw, Items
    <3>4. <<Msg.entry>> \in Seq(Items)
      BY <1>3, <3>3
    <3> QED BY <3>1, <3>2, <3>4 DEF TypeInv
  <2> QED BY <2>1, <2>2
<1>5. /\ call' \in Call /\ call'.op = call.op /\ call'.key = call.key
      /\ call'.phase \in {"done", "threw", "wait", call.phase}
      /\ call'.phase = "wait" => call.op = "resolve"
  <2>1. call \in Call
    BY TypesOfParts
  <2>2. \/ call' = call \/ call' = [call EXCEPT !.phase = "done"]
        \/ call' = [call EXCEPT !.phase = "threw"]
        \/ call' = [call EXCEPT !.phase = "wait"] /\ call.phase = "probe"
    BY DEF ReceiveInLoop, Probe, WaitForAck, NotFound, Returns
  <2> QED BY <2>1, <2>2 DEF Call, TypeInv
<1>6. family' \in Ids \cup Configs \cup {0}
  <2>1. CASE WaitForAck /\ result # <<>>
    <3>1. result \in Seq(Raw)
      BY <2>1 DEF WaitForAck, TypeInv
    <3>2. 1 \in 1..Len(result)
      BY <2>1, <3>1, EmptySeq, LenProperties
    <3>3. result[1] \in Raw
      BY <3>1, <3>2, ElementOfSeq
    <3>4. result[1].val \in Ids \cup Configs \cup {0}
      BY <3>3, EntryType DEF Raw
    <3> QED BY <2>1, <3>4, TypesOfParts DEF WaitForAck, NotFound
  <2>2. CASE ~(WaitForAck /\ result # <<>>)
    BY <2>2, TypesOfParts DEF ReceiveInLoop, Probe, WaitForAck, NotFound
  <2> QED BY <2>1, <2>2
<1>7. seqExpect' \in Nat
  BY <1>1, TypesOfParts
<1>8. ToSet(result') \subseteq Items
  BY <1>4, ElementsOf
<1>9. TypeOK'
  BY <1>1, <1>2, <1>5, <1>6, <1>7, <1>8 DEF TypeInv, TypeOK, Items, kernelVars, historyVars
<1>10. call'.phase = "loop" => call.phase = "loop"
  BY <1>5
<1>11. call'.phase \in {"probe", "wait"} => call.op = "resolve"
  BY <1>5 DEF TypeInv
<1>12. call.phase = "loop" => call.op \in Gets \cup Lists
  BY DEF TypeInv
<1>13. call.op = "resolve" => call'.key = Nl80211 /\ stale' = FALSE
  BY <1>1, <1>5 DEF TypeInv, historyVars
<1> QED BY <1>4, <1>5, <1>9, <1>10, <1>11, <1>12, <1>13 DEF TypeInv

\* A part of a dump is made.
LEMMA DumpPartType ==
  ASSUME TypeInv, DumpPart
  PROVE  TypeInv'
<1>1. /\ UNCHANGED <<kernelVars, member, listening, seqNext, seqExpect, family, call, result,
                     changed, during, throughout, stale, unsent, calls>>
      /\ refused' = refused \/ refused' = TRUE
  BY DEF DumpPart
<1>2. queue' \in Seq(Message)
  <2>1. CASE \E type \in {"error", "done"} : queue' = Append(queue, End(type, dump.seq))
    BY <2>1, TypesOfParts, MessageTypes, Appended
  <2>2. CASE \E e \in At(dump.of, dump.pos) : queue' = Append(queue, Valid(dump.seq, e))
    <3>1. PICK e \in At(dump.of, dump.pos) : queue' = Append(queue, Valid(dump.seq, e))
      BY <2>2
    <3>2. e \in Entries
      BY TypesOfParts DEF At, Of
    <3> QED BY <3>1, <3>2, TypesOfParts, MessageTypes, Appended
  <2> QED BY <2>1, <2>2 DEF DumpPart, DumpEnds
<1>3. dump' \in [of : {"none", "nlctrl", "nl80211"}, seq : Nat, pos : Nat]
  <2>1. dump' = NoDump \/ dump' = [dump EXCEPT !.pos = dump.pos + 1]
    BY DEF DumpPart, DumpEnds
  <2> QED BY <2>1, TypesOfParts DEF NoDump, TypeInv, TypeOK
<1>4. {member', listening', refused', stale', unsent'} \subseteq BOOLEAN
  BY <1>1, Zenon DEF TypeInv, TypeOK
<1>5. TypeOK'
  BY <1>1, <1>2, <1>3, <1>4 DEF TypeInv, TypeOK, kernelVars
<1> QED BY <1>1, <1>5 DEF TypeInv

\* What a change of the kernel's tables leaves: what was there and more, or less.
Changes(how, new) ==
  /\ new \subseteq Entries /\ Consistent(new)
  /\ \/ how = "added" /\ table \subseteq new
     \/ how = "removed" /\ new \subseteq table

LEMMA RankType ==
  \A e \in Entries : Rank(e) \in Nat
  BY EntryType, IdsArePositive DEF Rank

LEMMA KernelChanges ==
  ASSUME TypeInv, Kernel
  PROVE  \E how, new : \E e \in Entries : Change(how, e, new) /\ Changes(how, new)
<1>0. table \subseteq Entries /\ Consistent(table)
  BY DEF TypeInv, TypeOK
<1>1. ASSUME NEW f \in Families, NEW id \in Ids, Register(f, id)
      PROVE  Changes("added", table \cup {Entry("nlctrl", f, id)})
  <2>1. PICK e : e = Entry("nlctrl", f, id)
    OBVIOUS
  <2>2. e \in Entries /\ e.of = "nlctrl" /\ e.key = f /\ e.val = id /\ Rank(e) = id
    BY <2>1, EntryType DEF Entry, Rank
  <2>3. \A d \in table : d.of = "nlctrl" => d.key # f /\ Rank(d) # id
    BY <1>1 DEF Register, Find, Of, Owner, Rank
  <2>4. Consistent(table \cup {e})
    BY <1>0, <2>2, <2>3 DEF Consistent
  <2> QED BY <1>0, <2>1, <2>2, <2>4 DEF Changes
<1>2. ASSUME NEW e \in Entries, Unregister(e)
      PROVE  Changes("removed", (table \ {e}) \ (IF e.key = Nl80211 THEN Of("nl80211") ELSE {}))
  <2>1. CASE e.key = Nl80211
    BY <1>0, <2>1 DEF Changes, Consistent, Of
  <2>2. CASE e.key # Nl80211
    BY <1>0, <2>2 DEF Changes, Consistent
  <2> QED BY <2>1, <2>2
<1>3. ASSUME NEW e \in Entries, InterfaceAdded(e)
      PROVE  Changes("added", table \cup {e})
  <2>1. e.of = "nl80211" /\ Rank(e) = e.key
    BY <1>3 DEF InterfaceAdded, Rank
  <2>2. \A d \in table : d.of = "nl80211" => d.key # e.key /\ Rank(d) = d.key
    BY <1>3 DEF InterfaceAdded, Find, Of, Rank
  <2>3. \E d \in table : d.of = "nlctrl" /\ d.key = Nl80211
    BY <1>3 DEF InterfaceAdded, Find, Of
  <2>4. Consistent(table \cup {e})
    BY <1>0, <2>1, <2>2, <2>3 DEF Consistent
  <2> QED BY <1>0, <2>4 DEF Changes
<1>4. ASSUME NEW e \in Entries, InterfaceRemoved(e)
      PROVE  Changes("removed", table \ {e})
  <2>1. e.of = "nl80211"
    BY <1>4 DEF InterfaceRemoved, Of
  <2> QED BY <1>0, <2>1 DEF Changes, Consistent
<1>5. CASE \E f \in Families, id \in Ids : Register(f, id)
  <2>1. PICK f \in Families, id \in Ids : Register(f, id)
    BY <1>5
  <2>2. PICK e, new : e = Entry("nlctrl", f, id) /\ new = table \cup {e}
    OBVIOUS
  <2>3. Change("added", e, new) /\ Changes("added", new) /\ e \in Entries
    BY <1>1, <2>1, <2>2, EntryType DEF Register
  <2> QED BY <2>3, Zenon
<1>6. CASE \E e \in Entries : Unregister(e)
  <2>1. PICK e \in Entries : Unregister(e)
    BY <1>6
  <2>2. PICK new : new = (table \ {e}) \ (IF e.key = Nl80211 THEN Of("nl80211") ELSE {})
    OBVIOUS
  <2>3. Change("removed", e, new) /\ Changes("removed", new)
    BY <1>2, <2>1, <2>2 DEF Unregister
  <2> QED BY <2>3, Zenon
<1>7. CASE \E e \in Entries : InterfaceAdded(e)
  <2>1. PICK e \in Entries : InterfaceAdded(e)
    BY <1>7
  <2>2. PICK new : new = table \cup {e}
    OBVIOUS
  <2>3. Change("added", e, new) /\ Changes("added", new)
    BY <1>3, <2>1, <2>2 DEF InterfaceAdded
  <2> QED BY <2>3, Zenon
<1>8. CASE \E e \in Entries : InterfaceRemoved(e)
  <2>1. PICK e \in Entries : InterfaceRemoved(e)
    BY <1>8
  <2>2. PICK new : new = table \ {e}
    OBVIOUS
  <2>3. Change("removed", e, new) /\ Changes("removed", new)
    BY <1>4, <2>1, <2>2 DEF InterfaceRemoved
  <2> QED BY <2>3, Zenon
<1> QED BY <1>5, <1>6, <1>7, <1>8 DEF Kernel

\* The kernel's tables change.
LEMMA ChangeType ==
  ASSUME TypeInv, NEW how, NEW e \in Entries, NEW new, Change(how, e, new), Changes(how, new)
  PROVE  TypeInv'
<1>1. /\ changes' = changes + 1 /\ table' = new
      /\ queue' = queue \/ queue' = Append(queue, Valid(0, e))
      /\ \/ UNCHANGED <<changed, during, throughout>>
         \/ /\ changed' = changed \cup {how} /\ during' = during \cup new
            /\ throughout' = throughout \cap new
      /\ UNCHANGED <<dump, member, listening, seqNext, seqExpect, family, call, result,
                     refused, stale, unsent, calls>>
  BY DEF Change
<1>2. queue' \in Seq(Message)
  <2>1. Valid(0, e) \in Message /\ queue \in Seq(Message)
    BY MessageTypes, TypesOfParts
  <2>2. Append(queue, Valid(0, e)) \in Seq(Message)
    BY <2>1, Appended
  <2> QED BY <1>1, <2>1, <2>2
<1>3. changed' \subseteq {"added", "removed"} /\ during' \subseteq Entries /\ throughout' \subseteq Entries
  BY <1>1 DEF Changes, TypeInv, TypeOK
<1>4. table' \subseteq Entries /\ Consistent(table')
  BY <1>1 DEF Changes
<1>5. Consistent(table)'
  BY <1>4 DEF Consistent, Rank
<1>6. changes' \in Nat
  BY <1>1, TypesOfParts
<1>7. TypeOK'
  BY <1>1, <1>2, <1>3, <1>4, <1>5, <1>6 DEF TypeInv, TypeOK
<1> QED BY <1>1, <1>7 DEF TypeInv

LEMMA InitType == Init => TypeInv
<1> SUFFICES ASSUME Init PROVE TypeInv
  OBVIOUS
<1>1. /\ table \subseteq Entries /\ Consistent(table) /\ dump = NoDump
      /\ member = FALSE /\ listening = FALSE /\ queue = <<>>
      /\ seqNext = 1 /\ seqExpect = 1
      /\ family = 0 /\ call = [op |-> "none", key |-> 0, phase |-> "done"] /\ result = <<>>
      /\ changed = {} /\ during = {} /\ throughout = {} /\ refused = FALSE /\ stale = FALSE
      /\ unsent = FALSE /\ calls = 0 /\ changes = 0
  BY DEF Init
<1>2. {member, listening, refused, stale, unsent} \subseteq BOOLEAN
  BY <1>1, Zenon
<1>3. result \in Seq(Items) /\ ToSet(result) = {} /\ queue \in Seq(Message)
  <2>1. result \in Seq(Items) /\ DOMAIN result = {} /\ queue \in Seq(Message)
    BY <1>1, EmptySeq
  <2> QED BY <2>1 DEF ToSet
<1>4. call \in Call /\ dump \in [of : {"none", "nlctrl", "nl80211"}, seq : Nat, pos : Nat]
  BY <1>1 DEF Call, NoDump
<1>5. TypeOK
  BY <1>1, <1>2, <1>3, <1>4 DEF TypeOK
<1> QED BY <1>1, <1>3, <1>5 DEF TypeInv, Gets, Lists

\* The ways to begin a call.
LEMMA ClientSteps ==
  ASSUME TypeInv, Client
  PROVE  \/ \E op \in Gets \cup Lists \cup {"resolve"}, key \in Keys, phase \in {"loop", "probe"} :
              /\ Begin(op, key, phase) /\ Sent(op, key)
              /\ op = "resolve" <=> phase = "probe"
              /\ op = "resolve" => key = Nl80211
         \/ \E op \in Gets \cup Lists \cup {"resolve"}, key \in Keys, phase \in {"loop", "threw"} :
              /\ Begin(op, key, phase) /\ NotSent
              /\ op = "resolve" <=> phase = "threw"
              /\ op = "resolve" => key = Nl80211
         \/ \E op \in Gets, key \in Keys : PutFails(op, key)
         \/ AddMembership
<1>1. CASE \E f \in Families : GetFamily(f) \/ PutFails("getFamily", f)
  BY <1>1 DEF GetFamily, Send, Gets, Keys
<1>2. CASE \E i \in Interfaces : GetInterface(i) \/ (family # 0 /\ PutFails("getInterface", i))
  BY <1>2 DEF GetInterface, Send, Gets, Keys
<1>3. CASE GetFamilies
  BY <1>3 DEF GetFamilies, Send, Lists, Keys
<1>4. CASE GetInterfaces
  BY <1>4 DEF GetInterfaces, Send, Lists, Keys
<1>5. CASE Resolve
  BY <1>5, Nl80211IsAFamily DEF Resolve, Keys
<1> QED BY <1>1, <1>2, <1>3, <1>4, <1>5 DEF Client

LEMMA NextType == TypeInv /\ [Next]_vars => TypeInv'
<1> SUFFICES ASSUME TypeInv, [Next]_vars PROVE TypeInv'
  OBVIOUS
<1>1. CASE Client
  BY <1>1, ClientSteps, SentType, NotSentType, UnsentType
<1>2. CASE Library
  BY <1>2, ReadType DEF Library
<1>3. CASE DumpPart
  BY <1>3, DumpPartType
<1>4. CASE Kernel
  BY <1>4, KernelChanges, ChangeType
<1>5. CASE UNCHANGED vars
  BY <1>5, UnsentType
<1> QED BY <1>1, <1>2, <1>3, <1>4, <1>5 DEF Next

LEMMA TypeHolds == Spec => []TypeInv
<1> QED BY InitType, NextType, PTL DEF Spec

\* Each variable keeps its type and the kernel's tables stay consistent, for every usage.
THEOREM TypeCorrect == Spec => []TypeOK
<1>1. TypeInv => TypeOK
  BY DEF TypeInv
<1> QED BY <1>1, TypeHolds, PTL

-----------------------------------------------------------------------------
(* The order of a dump *)

\* Every set of natural numbers that is not empty has a smallest element.
LEMMA SmallestOf ==
  ASSUME NEW S \in SUBSET Nat, S # {}
  PROVE  \E x \in S : \A y \in S : x <= y
<1> DEFINE R == {ss \in Nat \X Nat : ss[1] < ss[2]}
<1>1. IsWellFoundedOn(R, Nat)
  BY NatLessThanWellFounded DEF OpToRel
<1>2. ASSUME NEW x \in Nat, NEW y \in Nat, y < x
      PROVE  <<y, x>> \in R
  BY <1>2
<1> HIDE DEF R
<1>3. PICK x \in S : \A y \in S : <<y, x>> \notin R
  BY <1>1, WFMin
<1>4. ASSUME NEW y \in S
      PROVE  x <= y
  <2>1. x \in Nat /\ y \in Nat /\ <<y, x>> \notin R
    BY <1>3
  <2>2. ~(y < x)
    BY <1>2, <2>1
  <2> QED BY <2>1, <2>2
<1> QED BY <1>4

\* What comes before an entry in a smaller table is no more.
LEMMA PrecedingGrows ==
  ASSUME NEW t \in SUBSET Entries, NEW u \in SUBSET t, NEW e
  PROVE  /\ Cardinality(Preceding(u, e)) \in Nat /\ Cardinality(Preceding(t, e)) \in Nat
         /\ Cardinality(Preceding(u, e)) <= Cardinality(Preceding(t, e))
<1>1. IsFiniteSet(Preceding(t, e))
  <2>1. Preceding(t, e) \in SUBSET Entries
    BY DEF Preceding
  <2> QED BY <2>1, TablesAreFinite, FS_Subset
<1>2. Preceding(u, e) \in SUBSET Preceding(t, e)
  BY DEF Preceding
<1>3. IsFiniteSet(Preceding(u, e)) /\ Cardinality(Preceding(u, e)) <= Cardinality(Preceding(t, e))
  BY <1>1, <1>2, FS_Subset
<1> QED BY <1>1, <1>3, FS_CardinalityType

\* The part of a dump at a position.
LEMMA AtPosition ==
  ASSUME NEW of, NEW pos
  PROVE  At(of, pos) = {e \in table : e.of = of /\ Before(e) = pos}
<1>1. ASSUME NEW e \in table, e.of = of
      PROVE  {d \in Of(of) : Rank(d) < Rank(e)} = Preceding(table, e)
  BY <1>1 DEF Of, Preceding
<1> QED BY <1>1 DEF At, Of, Before

\* An entry of lower rank has fewer before it.
LEMMA RankOrders ==
  ASSUME TypeInv, NEW d \in table, NEW e \in table, d.of = e.of, Rank(d) < Rank(e)
  PROVE  Before(d) < Before(e)
<1>1. table \in SUBSET Entries
  BY TypesOfParts
<1>2. Rank(d) \in Nat /\ Rank(e) \in Nat /\ \A x \in table : Rank(x) \in Nat
  BY <1>1, RankType
<1>3. Preceding(table, d) \in SUBSET Preceding(table, e)
  BY <1>2 DEF Preceding
<1>4. d \in Preceding(table, e) /\ d \notin Preceding(table, d)
  BY <1>2 DEF Preceding
<1>5. IsFiniteSet(Preceding(table, e))
  <2>1. Preceding(table, e) \in SUBSET Entries
    BY <1>1 DEF Preceding
  <2> QED BY <2>1, TablesAreFinite, FS_Subset
<1>6. /\ Cardinality(Preceding(table, d)) <= Cardinality(Preceding(table, e))
      /\ Cardinality(Preceding(table, d)) # Cardinality(Preceding(table, e))
  BY <1>3, <1>4, <1>5, FS_Subset
<1>7. Before(d) \in Nat /\ Before(e) \in Nat
  BY <1>1, PrecedingGrows DEF Before
<1> QED BY <1>6, <1>7 DEF Before

\* At most one entry is at a position.
LEMMA OneAtPosition ==
  ASSUME TypeInv, NEW d \in table, NEW e \in table, d.of = e.of, Before(d) = Before(e)
  PROVE  d = e
<1>1. Rank(d) \in Nat /\ Rank(e) \in Nat
  BY TypesOfParts, RankType
<1>2. Before(d) \in Nat
  BY TypesOfParts, PrecedingGrows DEF Before
<1>3. ~(Rank(d) < Rank(e)) /\ ~(Rank(e) < Rank(d))
  BY <1>2, RankOrders
<1>4. Rank(d) = Rank(e)
  BY <1>1, <1>3
<1> QED BY <1>4, TypesOfParts DEF Consistent

\* If an entry is at a position or behind it, one is at it: positions have no gaps.
LEMMA NoGaps ==
  ASSUME TypeInv, NEW pos \in Nat, NEW e \in table, Before(e) >= pos
  PROVE  \E f \in table : f.of = e.of /\ Before(f) = pos
<1> DEFINE Behind == {f \in table : f.of = e.of /\ Before(f) >= pos}
           Counts == {Before(f) : f \in Behind}
<1>1. table \in SUBSET Entries /\ \A x \in table : Before(x) \in Nat /\ Rank(x) \in Nat
  BY TypesOfParts, PrecedingGrows, RankType DEF Before
<1>2. Counts \in SUBSET Nat /\ Counts # {}
  BY <1>1
<1>3. PICK n \in Counts : \A m \in Counts : n <= m
  <2> HIDE DEF Counts
  <2> QED BY <1>2, SmallestOf
<1>4. PICK x \in Behind : Before(x) = n
  BY <1>3
<1>5. CASE n = pos
  BY <1>4, <1>5
<1>6. CASE n # pos
  <2> DEFINE Gaps == {Rank(x) - Rank(d) : d \in Preceding(table, x)}
  <2>1. IsFiniteSet(Preceding(table, x)) /\ Preceding(table, x) # {}
    <3>1. Preceding(table, x) \in SUBSET Entries
      BY <1>1 DEF Preceding
    <3>2. IsFiniteSet(Preceding(table, x))
      BY <3>1, TablesAreFinite, FS_Subset
    <3>3. Cardinality(Preceding(table, x)) # 0
      BY <1>1, <1>4, <1>6 DEF Before
    <3> QED BY <3>2, <3>3, FS_EmptySet
  <2>2. Gaps \in SUBSET Nat /\ Gaps # {}
    <3>1. \A d \in Preceding(table, x) : Rank(x) - Rank(d) \in Nat
      BY <1>1 DEF Preceding
    <3> QED BY <2>1, <3>1
  <2>3. PICK g \in Gaps : \A h \in Gaps : g <= h
    <3> HIDE DEF Gaps
    <3> QED BY <2>2, SmallestOf
  <2>4. PICK d \in Preceding(table, x) : Rank(x) - Rank(d) = g
    BY <2>3
  <2>5. d \in table /\ d.of = x.of /\ Rank(d) < Rank(x)
    BY <2>4 DEF Preceding
  <2>6. ASSUME NEW y \in Preceding(table, x), y # d PROVE y \in Preceding(table, d)
    <3>1. y \in table /\ y.of = x.of
      BY DEF Preceding
    <3>2. Rank(x) - Rank(d) <= Rank(x) - Rank(y)
      BY <2>3, <2>4
    <3>3. Rank(y) # Rank(d)
      BY <2>5, <2>6, <3>1, TypesOfParts DEF Consistent
    <3>4. Rank(y) < Rank(d)
      BY <1>1, <2>5, <3>1, <3>2, <3>3
    <3> QED BY <2>5, <3>1, <3>4 DEF Preceding
  <2>7. Preceding(table, x) = Preceding(table, d) \cup {d} /\ d \notin Preceding(table, d)
    BY <1>1, <2>4, <2>5, <2>6 DEF Preceding
  <2>8. IsFiniteSet(Preceding(table, d))
    BY <2>1, <2>7, FS_Subset
  <2>9. Before(x) = Before(d) + 1
    BY <2>7, <2>8, FS_AddElement DEF Before
  <2>10. Before(d) >= pos /\ Before(d) < n
    BY <1>1, <1>4, <1>6, <2>5, <2>9
  <2>11. Before(d) \in Counts
    BY <1>4, <2>5, <2>10
  <2>12. n <= Before(d) /\ n \in Nat /\ Before(d) \in Nat
    <3> HIDE DEF Counts
    <3> QED BY <1>1, <1>2, <1>3, <2>5, <2>11
  <2> QED BY <2>10, <2>12
<1> QED BY <1>5, <1>6

\* A call begins: the first answers, or the beginning of a dump.
LEMMA FirstSent ==
  ASSUME TypeInv, OnlyAnswers, NEW op \in Gets \cup Lists \cup {"resolve"}, NEW key,
         NEW phase, Begin(op, key, phase), Sent(op, key)
  PROVE  /\ seqNext = seqExpect /\ seqNext' = seqExpect + 1 /\ seqExpect' = seqExpect
         /\ queue' \in Seq(Message)
         /\ \/ /\ dump' = NoDump /\ queue' = <<End("error", seqExpect)>>
               /\ refused' = TRUE \/ stale' = TRUE \/ (op \notin Lists /\ Find(Table(op), key) = {})
            \/ /\ dump' = NoDump /\ stale' = TRUE /\ op # "resolve"
               /\ \E t \in {"ack", "done"} :
                    queue' \in {<<End(t, seqExpect)>>, <<Valid(seqExpect, Foreign), End(t, seqExpect)>>}
            \/ /\ dump' = NoDump /\ op \notin Lists
               /\ \E e \in Find(Table(op), key) :
                    queue' = <<Valid(seqExpect, e), End("ack", seqExpect)>>
            \/ /\ op \in Lists /\ stale' = FALSE /\ refused' = FALSE /\ queue' = <<>>
               /\ dump' = [of |-> Table(op), seq |-> seqExpect, pos |-> 0]
<1>1. queue = <<>> /\ dump = NoDump /\ seqNext = seqExpect
  BY DEF OnlyAnswers, Begin
<1>2. seqNext' = seqExpect + 1 /\ seqExpect' = seqExpect /\ stale' = (Reaches(op) # "its family")
  BY <1>1 DEF Sent
<1>3. op = "resolve" => Reaches(op) = "its family"
  BY DEF Reaches, Table
<1>4. \A m \in Message : Append(queue, m) = <<m>>
  BY <1>1
<1>5. \A a \in Seq(Message) : queue \o a = a
  BY <1>1, ConcatEmptySeq
<1>6. /\ End("error", seqExpect) \in Message /\ <<End("error", seqExpect)>> \in Seq(Message)
      /\ \A a \in Answers(op, key, seqExpect) \cup ForeignAnswers(op, seqExpect) : a \in Seq(Message)
      /\ <<>> \in Seq(Message)
  BY TypesOfParts, MessageTypes, FirstAnswers, EmptySeq
<1>7. CASE queue' = Append(queue, End("error", seqNext)) /\ dump' = dump
           /\ (refused' = TRUE \/ Reaches(op) = "nobody")
  <2>1. queue' = <<End("error", seqExpect)>>
    BY <1>1, <1>4, <1>6, <1>7
  <2>2. refused' = TRUE \/ stale' = TRUE
    BY <1>2, <1>7
  <2> QED BY <1>1, <1>2, <1>6, <1>7, <2>1, <2>2
<1>8. CASE Reaches(op) = "another" /\ dump' = dump
           /\ \E a \in ForeignAnswers(op, seqNext) : queue' = queue \o a
  <2>1. queue' \in ForeignAnswers(op, seqExpect)
    BY <1>1, <1>5, <1>6, <1>8
  <2>2. op # "resolve" /\ stale' = TRUE
    BY <1>2, <1>3, <1>8
  <2>3. \E t \in {"ack", "done"} :
          queue' \in {<<End(t, seqExpect)>>, <<Valid(seqExpect, Foreign), End(t, seqExpect)>>}
    BY <2>1 DEF ForeignAnswers
  <2> QED BY <1>1, <1>2, <1>6, <1>8, <2>1, <2>2, <2>3
<1>9. CASE op \notin Lists /\ dump' = dump
           /\ \E a \in Answers(op, key, seqNext) : queue' = queue \o a
  <2>1. queue' \in Answers(op, key, seqExpect)
    BY <1>1, <1>5, <1>6, <1>9
  <2>2. CASE Find(Table(op), key) = {}
    BY <1>1, <1>2, <1>6, <1>9, <2>1, <2>2 DEF Answers
  <2>3. CASE Find(Table(op), key) # {}
    BY <1>1, <1>2, <1>6, <1>9, <2>1, <2>3 DEF Answers
  <2> QED BY <2>2, <2>3
<1>10. CASE Reaches(op) = "its family" /\ op \in Lists /\ queue' = queue /\ refused' = FALSE
            /\ dump' = [of |-> Table(op), seq |-> seqNext, pos |-> 0]
  BY <1>1, <1>2, <1>6, <1>10
<1> QED BY <1>7, <1>8, <1>9, <1>10 DEF Sent

-----------------------------------------------------------------------------
(* The truth of the answers *)

\* Answers of one message and of two.
LEMMA ShortAnswer ==
  ASSUME NEW m, NEW n
  PROVE  /\ Len(<<m>>) = 1 /\ DOMAIN <<m>> = {1} /\ <<m>>[1] = m /\ <<m>> # <<>>
         /\ Len(<<m, n>>) = 2 /\ DOMAIN <<m, n>> = {1, 2} /\ <<m, n>> # <<>>
         /\ <<m, n>>[1] = m /\ <<m, n>>[2] = n
  OBVIOUS

LEMMA NothingInEmpty ==
  /\ DOMAIN <<>> = {} /\ ToSet(<<>>) = {} /\ Len(<<>>) = 0 /\ IsInjective(<<>>)
<1>1. DOMAIN <<>> = {} /\ Len(<<>>) = 0
  BY EmptySeq
<1> QED BY <1>1 DEF ToSet, IsInjective

\* A call is sent.
LEMMA SentTruth ==
  ASSUME TypeInv, TruthInv, listening = FALSE, unsent = FALSE,
         NEW op \in Gets \cup Lists \cup {"resolve"}, NEW key \in Keys,
         NEW phase \in {"loop", "probe"}, Begin(op, key, phase), Sent(op, key),
         op = "resolve" <=> phase = "probe", op = "resolve" => key = Nl80211
  PROVE  TruthInv'
<1>1. /\ OnlyAnswers /\ member' = FALSE /\ table' = table
      /\ call'.op = op /\ call'.key = key /\ call'.phase = phase /\ ~Idle'
      /\ result' = <<>> /\ changed' = {} /\ during' = table /\ throughout' = table
  BY DEF TruthInv, OnlyAnswers, Begin, Sent, kernelVars, Idle
<1>2. DOMAIN result' = {} /\ ToSet(result') = {} /\ IsInjective(result')
  BY <1>1, NothingInEmpty
<1>3. seqNext' = seqExpect' + 1 /\ seqExpect' = seqExpect /\ seqExpect \in Nat
  BY <1>1, FirstSent, TypesOfParts
<1>4. op \notin Gets \cap Lists /\ op # "resolve" => phase = "loop" /\ Table(op) \in {"nlctrl", "nl80211"}
  BY DEF Gets, Lists, Table
<1>5. ResolveIsTruthful'
  BY <1>1 DEF ResolveIsTruthful
<1>6. CASE /\ dump' = NoDump /\ queue' = <<End("error", seqExpect)>>
           /\ refused' = TRUE \/ stale' = TRUE \/ (op \notin Lists /\ Find(Table(op), key) = {})
  <2>1. /\ Len(queue') = 1 /\ DOMAIN queue' = {1} /\ queue' # <<>>
        /\ queue'[1].type = "error" /\ queue'[1].seq = seqExpect
    BY <1>6, ShortAnswer DEF End
  <2>2. OnlyAnswers'
    BY <1>1, <1>3, <1>6, <2>1 DEF OnlyAnswers, Complete, Ends
  <2>3. OnlyOneEntry'
    BY <1>1, <2>1 DEF OnlyOneEntry
  <2>4. stale' = FALSE /\ op \notin Lists => OneIsAnswered'
    <3>1. Find(Table(op), key) = {} => \A e \in InTable(throughout)' : e.key # key
      BY <1>1 DEF Find, Of, InTable
    <3> QED BY <1>1, <1>2, <1>6, <2>1, <3>1 DEF OneIsAnswered
  <2>5. stale' = FALSE /\ op \in Lists => AllAreGiven'
    <3>1. \A e : ~Given(e)'
      BY <1>2, <2>1 DEF Given, Underway
    <3> QED BY <1>2, <1>6, <2>1, <3>1 DEF AllAreGiven
  <2> QED BY <1>1, <1>5, <2>2, <2>3, <2>4, <2>5 DEF TruthInv, Gets, Lists
<1>7. CASE /\ dump' = NoDump /\ stale' = TRUE /\ op # "resolve"
           /\ \E t \in {"ack", "done"} :
                queue' \in {<<End(t, seqExpect)>>, <<Valid(seqExpect, Foreign), End(t, seqExpect)>>}
  <2>1. PICK t \in {"ack", "done"} :
          queue' \in {<<End(t, seqExpect)>>, <<Valid(seqExpect, Foreign), End(t, seqExpect)>>}
    BY <1>7
  <2>2. \/ /\ Len(queue') = 1 /\ DOMAIN queue' = {1} /\ queue' # <<>>
           /\ queue'[1].type = t /\ queue'[1].seq = seqExpect
        \/ /\ Len(queue') = 2 /\ DOMAIN queue' = {1, 2} /\ queue' # <<>>
           /\ queue'[1].type = "valid" /\ queue'[1].seq = seqExpect
           /\ queue'[2].type = t /\ queue'[2].seq = seqExpect
    BY <2>1, ShortAnswer DEF End, Valid
  <2>3. OnlyAnswers'
    BY <1>1, <1>3, <1>7, <2>2 DEF OnlyAnswers, Complete, Ends
  <2>4. OnlyOneEntry'
    BY <1>1, <1>7 DEF OnlyOneEntry
  <2> QED BY <1>5, <1>7, <2>3, <2>4 DEF TruthInv
<1>8. CASE /\ dump' = NoDump /\ op \notin Lists
           /\ \E e \in Find(Table(op), key) :
                queue' = <<Valid(seqExpect, e), End("ack", seqExpect)>>
  <2>1. PICK e \in Find(Table(op), key) : queue' = <<Valid(seqExpect, e), End("ack", seqExpect)>>
    BY <1>8
  <2>2. /\ Len(queue') = 2 /\ DOMAIN queue' = {1, 2} /\ queue' # <<>>
        /\ queue'[1].type = "valid" /\ queue'[1].seq = seqExpect /\ queue'[1].entry = e
        /\ queue'[2].type = "ack" /\ queue'[2].seq = seqExpect
    BY <2>1, ShortAnswer DEF End, Valid
  <2>3. OnlyAnswers'
    BY <1>1, <1>3, <1>8, <2>2 DEF OnlyAnswers, Complete, Ends
  <2>4. OnlyOneEntry'
    BY <1>1, <2>2 DEF OnlyOneEntry
  <2>5. OneIsAnswered'
    <3>1. Asked(e)'
      BY <1>1, <2>1 DEF Asked, Find, Of
    <3> QED BY <1>1, <1>2, <2>2, <3>1 DEF OneIsAnswered, Asked
  <2> QED BY <1>1, <1>5, <1>8, <2>3, <2>4, <2>5 DEF TruthInv
<1>9. CASE /\ op \in Lists /\ stale' = FALSE /\ refused' = FALSE /\ queue' = <<>>
           /\ dump' = [of |-> Table(op), seq |-> seqExpect, pos |-> 0]
  <2>1. /\ dump'.of = Table(op) /\ dump'.seq = seqExpect /\ dump'.pos = 0 /\ dump' # NoDump
        /\ DOMAIN queue' = {} /\ Len(queue') = 0 /\ phase = "loop"
    BY <1>4, <1>9, NothingInEmpty DEF NoDump, Table, Lists
  <2>2. OnlyAnswers'
    BY <1>1, <1>3, <1>9, <2>1 DEF OnlyAnswers
  <2>3. OnlyOneEntry'
    BY <1>1, <2>1 DEF OnlyOneEntry
  <2>4. AllAreGiven'
    <3>1. \A e : ~Given(e)'
      BY <1>2, <2>1 DEF Given, Underway
    <3>2. \A e : Before(e)' \in Nat
      BY <1>1, TypesOfParts, PrecedingGrows DEF Before
    <3>3. \A e : ~Underway(e)'
      BY <2>1 DEF Underway
    <3> QED BY <1>2, <2>1, <3>1, <3>2, <3>3 DEF AllAreGiven
  <2> QED BY <1>1, <1>5, <1>9, <2>2, <2>3, <2>4 DEF TruthInv, Gets, Lists
<1> QED BY <1>1, <1>6, <1>7, <1>8, <1>9, FirstSent

\* A put function throws: nothing is sent.
LEMMA PutFailsTruth ==
  ASSUME TypeInv, TruthInv, listening = FALSE, unsent = FALSE,
         NEW op \in Gets, NEW key, PutFails(op, key)
  PROVE  TruthInv'
<1>1. /\ OnlyAnswers /\ Idle /\ call'.op = op /\ call'.phase = "threw"
      /\ result' = <<>> /\ refused' = TRUE
      /\ UNCHANGED <<dump, member, queue, seqNext, seqExpect>>
  BY DEF TruthInv, PutFails, Begin, socketVars
<1>2. queue' = <<>> /\ DOMAIN queue' = {} /\ DOMAIN result' = {} /\ Idle' /\ dump' = NoDump
  BY <1>1, NothingInEmpty DEF OnlyAnswers, Idle
<1>3. OnlyAnswers' /\ OnlyOneEntry'
  BY <1>1, <1>2 DEF OnlyAnswers, OnlyOneEntry
<1>4. OneIsAnswered'
  BY <1>1, <1>2 DEF OneIsAnswered
<1>5. ResolveIsTruthful' /\ op \notin Lists
  BY <1>1 DEF ResolveIsTruthful, Gets, Lists
<1> QED BY <1>1, <1>3, <1>4, <1>5 DEF TruthInv

\* The queue is read from its head.
LEMMA TailRead ==
  ASSUME TypeInv, OnlyAnswers, ~Idle, queue # <<>>, queue' = Tail(queue)
  PROVE  /\ Msg = queue[1] /\ 1 \in DOMAIN queue /\ Expected /\ Len(queue) \in Nat \ {0}
         /\ Len(queue') = Len(queue) - 1 /\ DOMAIN queue' = 1..(Len(queue) - 1)
         /\ DOMAIN queue = 1..Len(queue)
         /\ \A i \in DOMAIN queue' : queue'[i] = queue[i + 1] /\ i + 1 \in DOMAIN queue
         /\ Ends(Msg) => dump = NoDump /\ queue' = <<>>
         /\ ~Ends(Msg) /\ dump = NoDump => Complete'
         /\ \A e : Underway(e) => Underway(e)' \/ (Msg.type = "valid" /\ e = Msg.entry)
         /\ \A e : Underway(e)' => Underway(e)
<1>1. /\ Msg = queue[1] /\ 1 \in DOMAIN queue /\ Len(queue) \in Nat \ {0}
      /\ Len(queue') = Len(queue) - 1 /\ DOMAIN queue' = 1..(Len(queue) - 1)
      /\ DOMAIN queue = 1..Len(queue) /\ queue' \in Seq(Message)
      /\ \A i \in DOMAIN queue' : queue'[i] = queue[i + 1] /\ i + 1 \in DOMAIN queue
  BY TypesOfParts, HeadTaken DEF Msg
<1>2. Expected
  BY <1>1 DEF Expected, OnlyAnswers
<1>3. ASSUME Ends(Msg) PROVE dump = NoDump /\ queue' = <<>>
  <2>1. dump = NoDump
    BY <1>1, <1>3 DEF OnlyAnswers, Ends
  <2>2. Complete
    BY <2>1 DEF OnlyAnswers
  <2>3. Len(queue') = 0
    BY <1>1, <1>3, <2>2 DEF Complete
  <2> QED BY <1>1, <2>1, <2>3, EmptySeq
<1>4. ASSUME ~Ends(Msg), dump = NoDump PROVE Complete'
  <2>1. Complete
    BY <1>4 DEF OnlyAnswers
  <2>2. Len(queue) # 1
    BY <1>1, <1>4, <2>1 DEF Complete
  <2>3. Len(queue') \in DOMAIN queue' /\ queue' # <<>>
    <3>1. Len(queue') # 0 /\ Len(queue') \in DOMAIN queue'
      BY <1>1, <2>2
    <3> QED BY <3>1, NothingInEmpty
  <2>4. queue'[Len(queue')] = queue[Len(queue)]
    BY <1>1, <2>3
  <2>5. ASSUME NEW i \in DOMAIN queue', Ends(queue'[i]) PROVE i = Len(queue')
    <3>1. i + 1 = Len(queue)
      BY <1>1, <2>1, <2>5 DEF Complete
    <3> QED BY <1>1, <3>1
  <2> QED BY <2>1, <2>3, <2>4, <2>5 DEF Complete
<1>5. ASSUME NEW e, Underway(e) PROVE Underway(e)' \/ (Msg.type = "valid" /\ e = Msg.entry)
  <2>1. PICK i \in DOMAIN queue : queue[i].type = "valid" /\ queue[i].entry = e
    BY <1>5 DEF Underway
  <2>2. CASE i = 1
    BY <1>1, <2>1, <2>2
  <2>3. CASE i # 1
    <3>1. i - 1 \in DOMAIN queue' /\ queue'[i - 1] = queue[i]
      BY <1>1, <2>3
    <3> QED BY <2>1, <3>1 DEF Underway
  <2> QED BY <2>2, <2>3
<1>6. ASSUME NEW e, Underway(e)' PROVE Underway(e)
  BY <1>1, <1>6 DEF Underway
<1> QED BY <1>1, <1>2, <1>3, <1>4, <1>5, <1>6

\* A callback makes the entry itself of a reply of the family asked.
LEMMA ParsedIsEntry ==
  ASSUME Legible, call.op # "resolve", NEW e \in Entries, e.of = Table(call.op)
  PROVE  Parsed(Table(call.op), e) = e
<1>1. CASE Table(call.op) = "nlctrl"
  <2>1. BigEndian = FALSE
    BY <1>1 DEF Legible, Table
  <2>2. IdRead(e.val) = e.val
    BY <2>1, Zenon DEF IdRead
  <2>3. [e EXCEPT !.val = e.val] = e
    BY DEF Entries
  <2> QED BY <1>1, <2>2, <2>3 DEF Parsed
<1>2. CASE Table(call.op) # "nlctrl"
  BY <1>2 DEF Parsed
<1> QED BY <1>1, <1>2

\* sendMessageSync reads a message.
LEMMA ReceiveTruth ==
  ASSUME TypeInv, TruthInv, listening = FALSE, unsent = FALSE, ReceiveInLoop
  PROVE  TruthInv'
<1>1. /\ OnlyAnswers /\ call.phase = "loop" /\ ~Idle /\ call.op # "resolve"
      /\ queue # <<>> /\ queue' = Tail(queue) /\ call.op \in Gets \cup Lists
      /\ UNCHANGED <<table, dump, member, listening, seqNext, historyVars>>
  BY DEF TruthInv, ReceiveInLoop, Idle, TypeInv, Gets, Lists, kernelVars
<1>2. /\ Msg = queue[1] /\ 1 \in DOMAIN queue /\ Expected /\ Len(queue) \in Nat \ {0}
      /\ Len(queue') = Len(queue) - 1 /\ DOMAIN queue' = 1..(Len(queue) - 1)
      /\ DOMAIN queue = 1..Len(queue)
      /\ \A i \in DOMAIN queue' : queue'[i] = queue[i + 1] /\ i + 1 \in DOMAIN queue
  BY <1>1, TailRead
<1>3. /\ Ends(Msg) => dump = NoDump /\ queue' = <<>>
      /\ ~Ends(Msg) /\ dump = NoDump => Complete'
      /\ \A e : Underway(e) => Underway(e)' \/ (Msg.type = "valid" /\ e = Msg.entry)
      /\ \A e : Underway(e)' => Underway(e)
  BY <1>1, TailRead
<1>4. /\ seqExpect' = IF Msg.type # "valid" THEN seqExpect + 1 ELSE seqExpect
      /\ result' = IF Msg.type = "valid" THEN Collected(Parsed(Table(call.op), Msg.entry))
                   ELSE result
      /\ call' = IF Ends(Msg) THEN [call EXCEPT !.phase = "done"] ELSE call
  BY <1>2 DEF ReceiveInLoop
<1>5. /\ call'.op = call.op /\ call'.key = call.key
      /\ call'.phase = IF Ends(Msg) THEN "done" ELSE "loop"
      /\ call'.phase \notin {"probe", "wait"}
  BY <1>1, <1>4, TypesOfParts DEF Call
<1>6. OnlyAnswers'
  <2>1. CASE Ends(Msg)
    <3>1. /\ queue' = <<>> /\ dump' = NoDump /\ Idle' /\ seqExpect' = seqExpect + 1
          /\ seqNext' = seqExpect + 1 /\ member' = FALSE
      BY <1>1, <1>3, <1>4, <1>5, <2>1 DEF OnlyAnswers, Idle, Ends
    <3> QED BY <3>1 DEF OnlyAnswers
  <2>2. CASE ~Ends(Msg)
    <3>1. /\ call' = call /\ ~Idle' /\ seqExpect' = seqExpect /\ seqNext' = seqExpect + 1
          /\ member' = FALSE
      BY <1>1, <1>4, <1>5, <2>2 DEF OnlyAnswers, Idle, Ends
    <3>2. \A i \in DOMAIN queue' : queue'[i].seq = seqExpect'
      BY <1>1, <1>2, <3>1 DEF OnlyAnswers
    <3>3. dump' # NoDump => \A i \in DOMAIN queue' : queue'[i].type = "valid"
      BY <1>1, <1>2 DEF OnlyAnswers
    <3>4. dump' # NoDump =>
            /\ call'.phase = "loop" /\ call'.op \in Lists /\ stale' = FALSE
            /\ dump'.of = Table(call'.op) /\ dump'.seq = seqExpect'
      BY <1>1, <3>1 DEF OnlyAnswers, historyVars
    <3>5. dump' = NoDump => Complete'
      BY <1>1, <1>3, <2>2
    <3> QED BY <3>1, <3>2, <3>3, <3>4, <3>5 DEF OnlyAnswers
  <2> QED BY <2>1, <2>2
<1>7. OnlyOneEntry' /\ ResolveIsTruthful'
  BY <1>1, <1>5 DEF OnlyOneEntry, ResolveIsTruthful
<1>8. ASSUME stale' = FALSE, call'.op \in Gets \cup {"resolve"}, Legible' PROVE OneIsAnswered'
  <2>1. Legible /\ call.op \in Gets /\ OneIsAnswered /\ Table(call'.op) = Table(call.op)
    BY <1>1, <1>5, <1>8 DEF TruthInv, Legible, historyVars
  <2>2. \A e : Asked(e)' <=> Asked(e)
    BY <1>1, <1>5 DEF Asked, historyVars
  <2>3. \A i \in DOMAIN queue' : queue'[i].type = "valid" => Asked(queue'[i].entry)
    BY <1>2, <2>1 DEF OneIsAnswered
  <2>4. CASE Msg.type = "valid"
    <3>1. Asked(Msg.entry)
      BY <1>2, <2>1, <2>4 DEF OneIsAnswered
    <3>2. result' = <<Msg.entry>>
      <4>1. Parsed(Table(call.op), Msg.entry) = Msg.entry
        BY <1>1, <2>1, <3>1, ParsedIsEntry, TypesOfParts DEF Asked
      <4>2. call.op \notin Lists
        BY <2>1 DEF Gets, Lists
      <4> QED BY <1>4, <2>4, <4>1, <4>2 DEF Collected
    <3>3. DOMAIN result' = {1} /\ result'[1] = Msg.entry /\ result' # <<>>
      BY <3>2, ShortAnswer
    <3> QED BY <2>2, <2>3, <3>1, <3>3 DEF OneIsAnswered
  <2>5. CASE Msg.type # "valid"
    <3>1. result' = result
      BY <1>4, <2>5
    <3>2. queue' = <<>> /\ DOMAIN queue' = {}
      BY <1>3, <2>5, NothingInEmpty DEF Ends
    <3>3. result = <<>> => \A i \in DOMAIN queue : queue[i].type # "valid"
      <4>1. \A i \in DOMAIN queue : i = 1
        BY <1>2, <3>2
      <4> QED BY <1>2, <2>5, <4>1
    <3>4. refused' = refused /\ \A e : e \in InTable(throughout)' <=> e \in InTable(throughout)
      BY <1>1, <1>5 DEF InTable, historyVars
    <3> QED BY <1>5, <2>1, <2>2, <3>1, <3>2, <3>3, <3>4 DEF OneIsAnswered
  <2> QED BY <2>4, <2>5
<1>9. ASSUME stale' = FALSE, call'.op \in Lists, Legible' PROVE AllAreGiven'
  <2>1. Legible /\ call.op \in Lists /\ AllAreGiven /\ Table(call'.op) = Table(call.op)
    BY <1>1, <1>5, <1>9 DEF TruthInv, Legible, historyVars
  <2>2. Len(queue) = 1 /\ Len(queue') = 0 /\ DOMAIN queue' = {} /\ \A i \in DOMAIN queue : i = 1
    BY <1>2, <2>1 DEF AllAreGiven
  <2>3. \A e : ~Underway(e)' /\ (Underway(e) <=> Msg.type = "valid" /\ e = Msg.entry)
    BY <1>2, <2>2 DEF Underway
  <2>4. /\ ToSet(result') = ToSet(result) \cup {e \in {Msg.entry} : Msg.type = "valid"}
        /\ IsInjective(result) /\ (Msg.type = "valid" => Msg.entry \notin ToSet(result)) =>
             IsInjective(result')
    <3>1. CASE Msg.type = "valid"
      <4>1. Given(Msg.entry) /\ Msg.entry \in Items
        <5>1. Underway(Msg.entry)
          BY <2>3, <3>1
        <5>2. Msg \in Message
          BY <1>2, TypesOfParts
        <5> QED BY <5>1, <5>2 DEF Given, Message, Items
      <4>2. Parsed(Table(call.op), Msg.entry) = Msg.entry
        BY <1>1, <2>1, <4>1, ParsedIsEntry, TypesOfParts DEF AllAreGiven
      <4>3. result' = Append(result, Msg.entry)
        BY <1>4, <2>1, <3>1, <4>2 DEF Collected
      <4>4. /\ ToSet(result') = ToSet(result) \cup {Msg.entry}
            /\ DOMAIN result' = DOMAIN result \cup {Len(result) + 1}
            /\ result'[Len(result) + 1] = Msg.entry
            /\ \A i \in DOMAIN result : result'[i] = result[i]
        BY <4>1, <4>3, TypesOfParts, Appended
      <4>5. IsInjective(result) /\ Msg.entry \notin ToSet(result) => IsInjective(result')
        BY <4>4 DEF IsInjective, ToSet
      <4> QED BY <3>1, <4>4, <4>5
    <3>2. CASE Msg.type # "valid"
      BY <1>4, <3>2
    <3> QED BY <3>1, <3>2
  <2>5. \A e : Given(e)' <=> Given(e)
    BY <2>3, <2>4 DEF Given
  <2>6. /\ \A e : Before(e)' = Before(e)
        /\ dump' = dump /\ changed' = changed /\ refused' = refused /\ table' = table
        /\ during' = during
        /\ \A e : e \in InTable(throughout)' <=> e \in InTable(throughout)
    BY <1>1, <1>5 DEF Before, InTable, historyVars
  <2>7. "added" \notin changed => IsInjective(result')
    BY <2>1, <2>3, <2>4 DEF AllAreGiven
  <2>8. \A e : Given(e)' => e \in during' /\ e.of = Table(call'.op)
    BY <2>1, <2>5, <2>6 DEF AllAreGiven
  <2>9. "removed" \notin changed' /\ ~refused' =>
          \A e \in InTable(throughout)' : Given(e)' \/ (dump' # NoDump /\ Before(e)' >= dump'.pos)
    BY <2>1, <2>5, <2>6 DEF AllAreGiven
  <2>10. "added" \notin changed' =>
           (dump' # NoDump => \A e \in table' : Given(e)' => Before(e)' < dump'.pos)
    BY <2>1, <2>5, <2>6 DEF AllAreGiven
  <2> QED BY <2>2, <2>3, <2>6, <2>7, <2>8, <2>9, <2>10 DEF AllAreGiven
<1> QED BY <1>6, <1>7, <1>8, <1>9 DEF TruthInv

\* libnl reads the answer to its look-up.
LEMMA ProbeTruth ==
  ASSUME TypeInv, TruthInv, listening = FALSE, unsent = FALSE, Probe
  PROVE  TruthInv'
<1>1. /\ OnlyAnswers /\ OnlyOneEntry /\ call.phase = "probe" /\ ~Idle /\ call.op = "resolve"
      /\ queue # <<>> /\ queue' = Tail(queue) /\ result = <<>> /\ dump = NoDump
      /\ UNCHANGED <<table, dump, member, listening, seqNext, historyVars>>
      /\ stale = FALSE /\ call.key = Nl80211
  BY DEF TruthInv, Probe, Idle, TypeInv, OnlyAnswers, OnlyOneEntry, kernelVars
<1>2. /\ Msg = queue[1] /\ 1 \in DOMAIN queue /\ Expected /\ Len(queue) \in Nat \ {0}
      /\ Len(queue') = Len(queue) - 1 /\ DOMAIN queue' = 1..(Len(queue) - 1)
      /\ DOMAIN queue = 1..Len(queue)
      /\ \A i \in DOMAIN queue' : queue'[i] = queue[i + 1] /\ i + 1 \in DOMAIN queue
      /\ Ends(Msg) => queue' = <<>>
      /\ ~Ends(Msg) => Complete'
  BY <1>1, TailRead
<1>3. OneIsAnswered /\ Legible
  BY <1>1 DEF TruthInv, Legible
<1>4. /\ seqExpect' = IF Msg.type # "valid" THEN seqExpect + 1 ELSE seqExpect
      /\ result' = IF Msg.type = "valid" THEN <<Msg.entry>> ELSE result
      /\ IF Msg.type = "error" THEN NotFound ELSE Returns("wait")
      /\ Msg.type \in {"error", "valid"}
  BY <1>1, <1>2 DEF Probe, Counted, OnlyOneEntry
<1>5. /\ call'.op = "resolve" /\ call'.key = Nl80211
      /\ call'.phase = IF Msg.type = "error" THEN "threw" ELSE "wait"
  BY <1>1, <1>4, TypesOfParts DEF NotFound, Returns, Call
<1>6. \A e : Asked(e)' <=> Asked(e)
  BY <1>1, <1>5 DEF Asked, historyVars
<1>7. \A i \in DOMAIN queue' : queue'[i].type = "valid" => Asked(queue'[i].entry)
  BY <1>2, <1>3 DEF OneIsAnswered
<1>8. refused' = refused /\ \A e : e \in InTable(throughout)' <=> e \in InTable(throughout)
  BY <1>1, <1>5 DEF InTable, historyVars
<1>9. CASE Msg.type = "error"
  <2>1. /\ queue' = <<>> /\ DOMAIN queue' = {} /\ Idle' /\ call'.phase = "threw" /\ result' = <<>>
        /\ seqExpect' = seqExpect + 1 /\ seqNext' = seqExpect + 1 /\ dump' = NoDump
        /\ member' = FALSE
    BY <1>1, <1>2, <1>4, <1>5, <1>9, NothingInEmpty DEF Ends, Idle, OnlyAnswers
  <2>2. OnlyAnswers' /\ OnlyOneEntry'
    BY <2>1 DEF OnlyAnswers, OnlyOneEntry
  <2>3. refused \/ \A e \in InTable(throughout) : e.key # Nl80211
    <3>1. \A i \in DOMAIN queue : i = 1
      BY <1>2, <2>1
    <3>2. \A i \in DOMAIN queue : queue[i].type # "valid"
      BY <1>2, <1>9, <3>1
    <3> QED BY <1>1, <1>3, <3>2 DEF OneIsAnswered
  <2>4. OneIsAnswered'
    BY <1>5, <1>8, <2>1, <2>3, NothingInEmpty DEF OneIsAnswered
  <2>5. ResolveIsTruthful'
    BY <1>8, <2>1, <2>3 DEF ResolveIsTruthful
  <2> QED BY <1>5, <2>2, <2>4, <2>5 DEF TruthInv, Lists
<1>10. CASE Msg.type = "valid"
  <2>1. /\ call'.phase = "wait" /\ ~Idle' /\ result' = <<Msg.entry>> /\ Complete'
        /\ seqExpect' = seqExpect /\ seqNext' = seqExpect + 1 /\ dump' = NoDump
        /\ member' = FALSE /\ Len(queue') = 1
    BY <1>1, <1>2, <1>4, <1>5, <1>10 DEF Ends, Idle, OnlyAnswers, OnlyOneEntry
  <2>2. DOMAIN result' = {1} /\ result'[1] = Msg.entry /\ result' # <<>>
    BY <2>1, ShortAnswer
  <2>3. OnlyAnswers'
    BY <1>1, <1>2, <2>1 DEF OnlyAnswers
  <2>4. OnlyOneEntry'
    BY <2>1, <2>2 DEF OnlyOneEntry
  <2>5. Asked(Msg.entry)
    BY <1>2, <1>3, <1>10 DEF OneIsAnswered
  <2>6. OneIsAnswered'
    BY <1>6, <1>7, <2>2, <2>5 DEF OneIsAnswered
  <2>7. ResolveIsTruthful'
    BY <2>1 DEF ResolveIsTruthful
  <2> QED BY <1>5, <2>3, <2>4, <2>6, <2>7 DEF TruthInv, Lists
<1> QED BY <1>4, <1>9, <1>10

\* libnl reads the ACK, and resolve returns.
LEMMA WaitTruth ==
  ASSUME TypeInv, TruthInv, listening = FALSE, unsent = FALSE, WaitForAck
  PROVE  TruthInv'
<1>1. /\ OnlyAnswers /\ OnlyOneEntry /\ call.phase = "wait" /\ ~Idle /\ call.op = "resolve"
      /\ queue # <<>> /\ queue' = Tail(queue) /\ result # <<>> /\ dump = NoDump /\ Complete
      /\ UNCHANGED <<table, dump, member, listening, seqNext, historyVars, result>>
      /\ stale = FALSE /\ call.key = Nl80211 /\ Len(queue) = 1
  BY DEF TruthInv, WaitForAck, Idle, TypeInv, OnlyAnswers, OnlyOneEntry, kernelVars
<1>2. /\ Msg = queue[1] /\ Ends(Msg) /\ Expected /\ queue' = <<>> /\ DOMAIN queue' = {}
  <2>1. Msg = queue[1] /\ Expected /\ (Ends(Msg) => queue' = <<>>)
    BY <1>1, TailRead
  <2>2. Ends(Msg)
    BY <1>1, <2>1 DEF Complete
  <2> QED BY <2>1, <2>2, NothingInEmpty
<1>3. OneIsAnswered /\ Legible
  BY <1>1 DEF TruthInv, Legible
<1>4. seqExpect' = seqExpect + 1 /\ Returns("done") /\ family' = result[1].val
  BY <1>1, <1>2 DEF WaitForAck, Counted, Ends
<1>5. call'.op = "resolve" /\ call'.key = Nl80211 /\ call'.phase = "done" /\ Idle'
  BY <1>1, <1>4, TypesOfParts DEF Returns, Call, Idle
<1>6. \A e : Asked(e)' <=> Asked(e)
  BY <1>1, <1>5 DEF Asked, historyVars
<1>7. OnlyAnswers' /\ OnlyOneEntry'
  <2>1. seqNext' = seqExpect + 1 /\ dump' = NoDump /\ member' = FALSE
    BY <1>1 DEF OnlyAnswers
  <2> QED BY <1>2, <1>4, <1>5, <2>1 DEF OnlyAnswers, OnlyOneEntry
<1>8. OneIsAnswered'
  BY <1>1, <1>2, <1>3, <1>6 DEF OneIsAnswered
<1>9. ResolveIsTruthful'
  <2>1. 1 \in DOMAIN result
    <3>1. result \in Seq(Items) /\ Len(result) # 0
      BY <1>1, TypesOfParts, EmptySeq
    <3> QED BY <3>1, LenProperties
  <2>2. PICK e : e = result[1]
    OBVIOUS
  <2>3. e \in during /\ e.of = "nlctrl" /\ e.key = Nl80211 /\ e \in Entries
    BY <1>1, <1>3, <2>1, <2>2, TypesOfParts DEF OneIsAnswered, Asked, Table
  <2>4. e = Entry("nlctrl", Nl80211, e.val)
    BY <2>3, EntryType
  <2>5. Entry("nlctrl", Nl80211, family') \in during'
    BY <1>1, <1>4, <2>2, <2>3, <2>4 DEF historyVars
  <2> QED BY <1>5, <2>5 DEF ResolveIsTruthful
<1> QED BY <1>5, <1>7, <1>8, <1>9 DEF TruthInv, Lists

\* The kernel gives a part of a dump.
LEMMA DumpTruth ==
  ASSUME TypeInv, HistoryIsRight, TruthInv, listening = FALSE, unsent = FALSE, DumpPart
  PROVE  TruthInv'
<1>1. /\ OnlyAnswers /\ dump # NoDump /\ call.phase = "loop" /\ ~Idle /\ call.op \in Lists
      /\ dump.of = Table(call.op) /\ dump.seq = seqExpect /\ stale = FALSE
      /\ UNCHANGED <<table, member, seqNext, seqExpect, call, result, changed, during,
                     throughout, stale>>
      /\ throughout \subseteq table /\ table \subseteq during
  BY DEF TruthInv, OnlyAnswers, DumpPart, HistoryIsRight, Idle, kernelVars
<1>2. queue = <<>>
  <2>1. DOMAIN queue = {}
    BY <1>1 DEF OnlyAnswers, DumpPart
  <2>2. Len(queue) = 0
    BY <2>1, TypesOfParts, LenProperties
  <2> QED BY <2>2, TypesOfParts, EmptySeq
<1>3. \A m \in Message : Append(queue, m) = <<m>>
  BY <1>2
<1>4. \A e : ~Underway(e)
  BY <1>2, NothingInEmpty DEF Underway
<1>5. call.op \notin Gets \cup {"resolve"} /\ ~Idle' /\ call'.op = call.op /\ call'.phase = "loop"
  BY <1>1 DEF Gets, Lists, Idle
<1>6. OnlyOneEntry' /\ ResolveIsTruthful'
  BY <1>5 DEF OnlyOneEntry, ResolveIsTruthful, Gets, Lists
<1>7. member' = FALSE /\ seqNext' = seqExpect' + 1 /\ stale' = FALSE
  BY <1>1 DEF OnlyAnswers
<1>8. /\ \A e : Before(e)' = Before(e)
      /\ \A e : e \in InTable(throughout)' <=> e \in InTable(throughout)
      /\ changed' = changed /\ during' = during
  BY <1>1 DEF Before, InTable
<1>9. At(dump.of, dump.pos) = {e \in table : e.of = dump.of /\ Before(e) = dump.pos}
  BY AtPosition
<1>10. \A e \in table : Before(e) \in Nat
  BY TypesOfParts, PrecedingGrows DEF Before
<1>11. CASE /\ \E type \in {"error", "done"} : DumpEnds(type)
            /\ refused' = TRUE \/ (At(dump.of, dump.pos) = {} /\ refused' = refused)
  <2>1. PICK type \in {"error", "done"} : DumpEnds(type)
    BY <1>11
  <2>2. /\ Len(queue') = 1 /\ DOMAIN queue' = {1} /\ queue' # <<>> /\ dump' = NoDump
        /\ queue'[1].type = type /\ queue'[1].seq = seqExpect
    <3>1. queue' = <<End(type, seqExpect)>> /\ dump' = NoDump
      BY <1>1, <1>3, <2>1, TypesOfParts, MessageTypes DEF DumpEnds
    <3> QED BY <3>1, ShortAnswer DEF End
  <2>3. OnlyAnswers'
    BY <1>1, <1>5, <1>7, <2>2 DEF OnlyAnswers, Complete, Ends
  <2>4. Legible' => AllAreGiven'
    <3> SUFFICES ASSUME Legible' PROVE AllAreGiven'
      OBVIOUS
    <3>1. AllAreGiven
      BY <1>1, <1>5 DEF TruthInv, Legible
    <3>2. \A e : ~Underway(e)'
      BY <2>2 DEF Underway
    <3>3. \A e : Given(e)' <=> Given(e)
      BY <1>1, <1>4, <3>2 DEF Given
    <3>4. ASSUME At(dump.of, dump.pos) = {}, NEW e \in InTable(throughout), Before(e) >= dump.pos
          PROVE  FALSE
      <4>1. e \in table /\ e.of = dump.of
        BY <1>1 DEF InTable
      <4>2. \E f \in table : f.of = e.of /\ Before(f) = dump.pos
        BY <3>4, <4>1, NoGaps, TypesOfParts
      <4> QED BY <1>9, <3>4, <4>1, <4>2
    <3>5. "removed" \notin changed' /\ ~refused' => \A e \in InTable(throughout)' : Given(e)'
      BY <1>8, <1>11, <3>1, <3>3, <3>4 DEF AllAreGiven
    <3>6. "added" \notin changed' => IsInjective(result')
      BY <1>1, <1>8, <3>1 DEF AllAreGiven
    <3>7. \A e : Given(e)' => e \in during' /\ e.of = Table(call'.op)
      BY <1>5, <1>8, <3>1, <3>3 DEF AllAreGiven
    <3> QED BY <2>2, <3>2, <3>5, <3>6, <3>7 DEF AllAreGiven
  <2> QED BY <1>5, <1>6, <2>3, <2>4 DEF TruthInv
<1>12. CASE \E e \in At(dump.of, dump.pos) :
              /\ queue' = Append(queue, Valid(dump.seq, e))
              /\ dump' = [dump EXCEPT !.pos = dump.pos + 1]
              /\ refused' = refused
  <2>1. PICK e \in At(dump.of, dump.pos) :
              /\ queue' = Append(queue, Valid(dump.seq, e))
              /\ dump' = [dump EXCEPT !.pos = dump.pos + 1]
    BY <1>12 DEF DumpPart
  <2>2. e \in table /\ e.of = dump.of /\ Before(e) = dump.pos /\ e \in Entries
    BY <1>9, <2>1, TypesOfParts
  <2>3. queue' = <<Valid(seqExpect, e)>>
    BY <1>1, <1>3, <2>1, <2>2, TypesOfParts, MessageTypes
  <2>4. /\ Len(queue') = 1 /\ DOMAIN queue' = {1} /\ queue' # <<>>
        /\ queue'[1].type = "valid" /\ queue'[1].seq = seqExpect /\ queue'[1].entry = e
    BY <2>3, ShortAnswer DEF Valid
  <2>5. /\ dump'.of = dump.of /\ dump'.seq = dump.seq /\ dump'.pos = dump.pos + 1
        /\ dump.of # "none" /\ dump' # NoDump
    <3>1. dump \in [of : {"none", "nlctrl", "nl80211"}, seq : Nat, pos : Nat]
      BY DEF TypeInv, TypeOK
    <3>2. dump.of # "none"
      BY <1>1 DEF Table
    <3>3. dump'.of = dump.of /\ dump'.seq = dump.seq /\ dump'.pos = dump.pos + 1
      BY <2>1, <3>1
    <3> QED BY <3>2, <3>3 DEF NoDump
  <2>6. OnlyAnswers'
    BY <1>1, <1>5, <1>7, <2>4, <2>5 DEF OnlyAnswers
  <2>7. Legible' => AllAreGiven'
    <3> SUFFICES ASSUME Legible' PROVE AllAreGiven'
      OBVIOUS
    <3>1. AllAreGiven
      BY <1>1, <1>5 DEF TruthInv, Legible
    <3>2. \A f : Underway(f)' <=> f = e
      BY <2>4 DEF Underway
    <3>3. \A f : Given(f)' <=> Given(f) \/ f = e
      BY <1>1, <1>4, <3>2 DEF Given
    <3>4. ASSUME NEW f \in InTable(throughout), Before(f) >= dump.pos, f # e
          PROVE  Before(f) >= dump'.pos
      <4>1. f \in table /\ f.of = dump.of
        BY <1>1 DEF InTable
      <4>2. Before(f) # dump.pos
        BY <2>2, <3>4, <4>1, OneAtPosition
      <4> QED BY <1>10, <2>5, <3>4, <4>1, <4>2, TypesOfParts
    <3>5. "removed" \notin changed' /\ ~refused' =>
            \A f \in InTable(throughout)' :
              Given(f)' \/ (dump' # NoDump /\ Before(f)' >= dump'.pos)
      BY <1>8, <1>12, <2>5, <3>1, <3>3, <3>4 DEF AllAreGiven
    <3>6. ASSUME "added" \notin changed' PROVE e \notin ToSet(result)
      <4>1. Given(e) => Before(e) < dump.pos
        BY <1>1, <1>8, <2>2, <3>1, <3>6 DEF AllAreGiven
      <4> QED BY <2>2, <4>1, TypesOfParts DEF Given
    <3>7. ASSUME "added" \notin changed', NEW f \in table, Given(f)' PROVE Before(f) < dump'.pos
      <4>1. CASE f = e
        BY <2>2, <2>5, <4>1, TypesOfParts
      <4>2. CASE Given(f)
        <5>1. Before(f) < dump.pos
          BY <1>1, <1>8, <3>1, <3>7, <4>2 DEF AllAreGiven
        <5> QED BY <1>10, <2>5, <5>1, TypesOfParts
      <4> QED BY <3>3, <3>7, <4>1, <4>2
    <3>8. "added" \notin changed' =>
            /\ IsInjective(result')
            /\ \A f \in ToSet(result') : ~Underway(f)'
            /\ \A f \in table' : Given(f)' => Before(f)' < dump'.pos
      BY <1>1, <1>8, <3>1, <3>2, <3>6, <3>7 DEF AllAreGiven
    <3>9. \A f : Given(f)' => f \in during' /\ f.of = Table(call'.op)
      BY <1>1, <1>5, <1>8, <2>2, <3>1, <3>3 DEF AllAreGiven
    <3> QED BY <2>4, <3>5, <3>8, <3>9 DEF AllAreGiven
  <2> QED BY <1>5, <1>6, <2>6, <2>7 DEF TruthInv
<1> QED BY <1>11, <1>12 DEF DumpPart

\* The kernel's tables change, and nobody is told.
LEMMA ChangeTruth ==
  ASSUME TypeInv, TruthInv, listening = FALSE, unsent = FALSE, NEW how, NEW e, NEW new,
         Change(how, e, new), Changes(how, new)
  PROVE  TruthInv'
<1>1. /\ OnlyAnswers /\ OnlyOneEntry /\ table' = new
      /\ UNCHANGED <<dump, member, listening, queue, seqNext, seqExpect, family, call, result,
                     refused, stale, unsent>>
  BY DEF TruthInv, OnlyAnswers, Change
<1>2. \/ UNCHANGED <<changed, during, throughout>> /\ Idle
      \/ /\ changed' = changed \cup {how} /\ during' = during \cup new
         /\ throughout' = throughout \cap new /\ ~Idle
  BY DEF Change
<1>3. OnlyAnswers' /\ OnlyOneEntry' /\ (Idle' <=> Idle)
  BY <1>1 DEF OnlyAnswers, OnlyOneEntry, Complete, Idle
<1>4. /\ during \subseteq during' /\ throughout' \subseteq throughout
      /\ InTable(throughout)' \subseteq InTable(throughout)
  BY <1>1, <1>2 DEF InTable
<1>5. \A f : (Underway(f)' <=> Underway(f)) /\ (Given(f)' <=> Given(f))
  BY <1>1 DEF Given, Underway
<1>6. OneIsAnswered => OneIsAnswered'
  <2>1. \A f : Asked(f) => Asked(f)'
    BY <1>1, <1>4 DEF Asked
  <2> QED BY <1>1, <1>4, <2>1 DEF OneIsAnswered
<1>7. AllAreGiven => AllAreGiven'
  <2> SUFFICES ASSUME AllAreGiven PROVE AllAreGiven'
    OBVIOUS
  <2>1. \A f : Given(f)' => f \in during' /\ f.of = Table(call'.op)
    BY <1>1, <1>4, <1>5 DEF AllAreGiven
  <2>2. Len(queue') <= 1
    BY <1>1 DEF AllAreGiven
  <2>3. CASE Idle
    <3>1. dump' = NoDump /\ dump = NoDump /\ changed' = changed
      BY <1>1, <1>2, <2>3 DEF OnlyAnswers
    <3> QED BY <1>1, <1>4, <1>5, <2>1, <2>2, <3>1 DEF AllAreGiven
  <2>4. CASE ~Idle /\ how = "added" /\ table \subseteq new
    <3>1. "added" \in changed' /\ changed \subseteq changed'
      BY <1>2, <2>4
    <3>2. \A f : Before(f) \in Nat /\ Before(f)' \in Nat /\ Before(f) <= Before(f)'
      BY <1>1, <2>4, PrecedingGrows DEF Before, Changes
    <3>3. \A f : Before(f) >= dump.pos => Before(f)' >= dump.pos
      BY <3>2, TypesOfParts
    <3>4. "removed" \notin changed' /\ ~refused' =>
            \A f \in InTable(throughout)' :
              Given(f)' \/ (dump' # NoDump /\ Before(f)' >= dump'.pos)
      BY <1>1, <1>4, <1>5, <3>1, <3>3 DEF AllAreGiven
    <3> QED BY <2>1, <2>2, <3>1, <3>4 DEF AllAreGiven
  <2>5. CASE ~Idle /\ how = "removed" /\ new \subseteq table
    <3>1. "removed" \in changed' /\ changed \subseteq changed'
      BY <1>2, <2>5
    <3>2. \A f : Before(f) \in Nat /\ Before(f)' \in Nat /\ Before(f)' <= Before(f)
      BY <1>1, <2>5, PrecedingGrows, TypesOfParts DEF Before
    <3>3. \A f : Before(f) < dump.pos => Before(f)' < dump.pos
      BY <3>2, TypesOfParts
    <3>4. "added" \notin changed' =>
            /\ IsInjective(result')
            /\ \A f \in ToSet(result') : ~Underway(f)'
            /\ dump' # NoDump => \A f \in table' : Given(f)' => Before(f)' < dump'.pos
      BY <1>1, <1>5, <2>5, <3>1, <3>3 DEF AllAreGiven
    <3> QED BY <2>1, <2>2, <3>1, <3>4 DEF AllAreGiven
  <2> QED BY <2>3, <2>4, <2>5 DEF Changes
<1>8. ResolveIsTruthful'
  <2>1. ResolveIsTruthful
    BY DEF TruthInv
  <2> QED BY <1>1, <1>4, <2>1 DEF ResolveIsTruthful
<1>9. Legible' <=> Legible
  BY <1>1 DEF Legible
<1> QED BY <1>1, <1>3, <1>6, <1>7, <1>8, <1>9 DEF TruthInv

\* What a request that is not sent leaves.
LEMMA NotSentLost ==
  ASSUME TypeInv, TruthInv, LostInv, listening = FALSE,
         NEW op \in Gets \cup Lists \cup {"resolve"}, NEW key,
         NEW phase \in {"loop", "threw"}, Begin(op, key, phase), NotSent
  PROVE  LostInv'
<1>1. /\ Idle /\ call'.phase = phase /\ seqNext' = seqNext + 1
      /\ UNCHANGED <<dump, member, queue, seqExpect>>
  BY DEF Begin, NotSent
<1>2. seqNext \in Nat /\ seqExpect \in Nat
  BY TypesOfParts
<1>3. CASE unsent = TRUE
  <2>1. /\ member = FALSE /\ seqNext > seqExpect
        /\ \A i \in DOMAIN queue : queue[i].seq > seqExpect
        /\ dump # NoDump => dump.seq > seqExpect
    BY <1>3 DEF LostInv
  <2>2. seqNext' > seqExpect'
    BY ONLY <1>1, <1>2, <2>1
  <2> QED BY <1>1, <2>1, <2>2 DEF LostInv
<1>4. CASE unsent = FALSE
  <2>1. queue = <<>> /\ dump = NoDump /\ seqNext = seqExpect /\ member = FALSE
    BY <1>1, <1>4 DEF TruthInv, OnlyAnswers
  <2>2. seqNext' > seqExpect'
    BY ONLY <1>1, <1>2, <2>1
  <2>3. DOMAIN queue = {}
    BY <2>1, NothingInEmpty
  <2> QED BY <1>1, <2>1, <2>2, <2>3 DEF LostInv
<1>5. unsent \in BOOLEAN
  BY Zenon DEF TypeInv, TypeOK
<1> QED BY <1>3, <1>4, <1>5

\* A request that is sent after one that was not has a later number, and so have its answers.
LEMMA SentLost ==
  ASSUME TypeInv, LostInv, listening = FALSE, unsent = TRUE,
         NEW op \in Gets \cup Lists \cup {"resolve"}, NEW key,
         NEW phase \in {"loop", "probe"}, Begin(op, key, phase), Sent(op, key)
  PROVE  LostInv'
<1>1. /\ call'.phase = phase /\ result' = <<>>
      /\ seqNext' = seqNext + 1 /\ seqExpect' = seqExpect /\ member' = member
  BY DEF Begin, Sent
<1>2. /\ member = FALSE /\ seqNext > seqExpect
      /\ \A i \in DOMAIN queue : queue[i].seq > seqExpect
      /\ dump # NoDump => dump.seq > seqExpect
  BY DEF LostInv
<1>3. seqNext \in Nat /\ seqExpect \in Nat /\ queue \in Seq(Message)
  BY TypesOfParts
<1>4. seqNext' > seqExpect'
  BY ONLY <1>1, <1>2, <1>3
<1>5. dump' # NoDump => dump'.seq > seqExpect'
  <2>1. dump' = dump \/ dump' = [of |-> Table(op), seq |-> seqNext, pos |-> 0]
    BY DEF Sent
  <2>2. dump' = dump \/ dump'.seq = seqNext
    BY <2>1
  <2> QED BY <1>1, <1>2, <2>2
<1>6. \A i \in DOMAIN queue' : queue'[i].seq > seqExpect'
  <2>1. CASE queue' = Append(queue, End("error", seqNext))
    <3>1. PICK m \in Message : m = End("error", seqNext) /\ m.seq = seqNext
      BY <1>3, MessageTypes DEF End
    <3>2. /\ DOMAIN queue' = DOMAIN queue \cup {Len(queue) + 1}
          /\ queue'[Len(queue) + 1] = m /\ \A i \in DOMAIN queue : queue'[i] = queue[i]
      BY <1>3, <2>1, <3>1, Appended
    <3> QED BY <1>1, <1>2, <3>1, <3>2
  <2>2. CASE \E a \in Answers(op, key, seqNext) \cup ForeignAnswers(op, seqNext) : queue' = queue \o a
    <3>1. PICK a \in Answers(op, key, seqNext) \cup ForeignAnswers(op, seqNext) : queue' = queue \o a
      BY <2>2
    <3>2. a \in Seq(Message)
      BY <1>3, FirstAnswers
    <3>3. \A i \in DOMAIN a : a[i].seq = seqNext
      <4>1. \/ \E t : a = <<End(t, seqNext)>>
            \/ \E t, e : a = <<Valid(seqNext, e), End(t, seqNext)>>
        BY DEF Answers, ForeignAnswers
      <4> QED BY <4>1, ShortAnswer DEF End, Valid
    <3>4. ASSUME NEW i \in DOMAIN queue' PROVE queue'[i].seq > seqExpect
      <4>1. /\ DOMAIN queue' = 1..(Len(queue) + Len(a)) /\ Len(queue) \in Nat /\ Len(a) \in Nat
            /\ DOMAIN queue = 1..Len(queue) /\ DOMAIN a = 1..Len(a)
            /\ queue'[i] = IF i <= Len(queue) THEN queue[i] ELSE a[i - Len(queue)]
        BY <1>3, <3>1, <3>2, <3>4, ConcatProperties, LenProperties
      <4>2. CASE i <= Len(queue)
        <5>1. i \in DOMAIN queue
          BY <4>1, <4>2
        <5> QED BY <1>2, <4>1, <4>2, <5>1
      <4>3. CASE ~(i <= Len(queue))
        <5>1. i - Len(queue) \in DOMAIN a
          BY <4>1, <4>3
        <5> QED BY <1>2, <3>3, <4>1, <4>3, <5>1
      <4> QED BY <4>2, <4>3
    <3> QED BY <1>1, <3>4
  <2>3. CASE queue' = queue
    BY <1>1, <1>2, <2>3
  <2> QED BY <2>1, <2>2, <2>3 DEF Sent
<1> QED BY <1>1, <1>2, <1>4, <1>5, <1>6 DEF LostInv

\* Nothing that libnl reads then has the number it expects.
LEMMA ReadLost ==
  ASSUME TypeInv, LostInv, listening = FALSE, unsent = TRUE, Library
  PROVE  LostInv'
<1>1. /\ queue # <<>> /\ queue' = Tail(queue)
      /\ UNCHANGED <<dump, member, listening, seqNext, unsent>>
      /\ call.phase \in {"loop", "probe", "wait"}
  BY DEF Library, ReceiveInLoop, Probe, WaitForAck, historyVars
<1>2. /\ member = FALSE /\ seqNext > seqExpect
      /\ \A i \in DOMAIN queue : queue[i].seq > seqExpect
      /\ dump # NoDump => dump.seq > seqExpect
      /\ call.phase \in {"probe", "wait"} => result = <<>>
  BY DEF LostInv
<1>3. /\ Msg = queue[1] /\ 1 \in DOMAIN queue
      /\ \A i \in DOMAIN queue' : queue'[i] = queue[i + 1] /\ i + 1 \in DOMAIN queue
  BY <1>1, TypesOfParts, HeadTaken DEF Msg
<1>4. ~Expected
  <2>1. Msg.seq > seqExpect /\ seqExpect \in Nat
    BY <1>2, <1>3, TypesOfParts
  <2> QED BY <2>1 DEF Expected
<1>5. /\ seqExpect' = seqExpect /\ result' = result
      /\ call' = call \/ Returns("threw") \/ (Returns("wait") /\ call.phase = "probe")
  BY <1>1, <1>2, <1>4 DEF Library, ReceiveInLoop, Probe, WaitForAck, Counted, NotFound
<1>6. \A i \in DOMAIN queue' : queue'[i].seq > seqExpect'
  BY <1>2, <1>3, <1>5
<1>7. call'.phase \in {"threw", "wait", call.phase} /\ (call'.phase = "wait" => result = <<>>)
  BY <1>2, <1>5, TypesOfParts DEF Returns, Call
<1> QED BY <1>1, <1>2, <1>5, <1>6, <1>7 DEF LostInv

\* The kernel goes on with a dump of a later number, and its changes are told to nobody.
LEMMA KernelLost ==
  ASSUME TypeInv, LostInv, listening = FALSE, unsent = TRUE, DumpPart \/ Kernel
  PROVE  LostInv'
<1>1. /\ member = FALSE /\ \A i \in DOMAIN queue : queue[i].seq > seqExpect
      /\ dump # NoDump => dump.seq > seqExpect
  BY DEF LostInv
<1>2. CASE DumpPart
  <2>1. /\ UNCHANGED <<member, seqNext, seqExpect, call, result>> /\ dump # NoDump
    BY <1>2 DEF DumpPart
  <2>2. PICK m \in Message : queue' = Append(queue, m) /\ m.seq = dump.seq
    <3>1. CASE \E type \in {"error", "done"} : DumpEnds(type)
      BY <3>1, TypesOfParts, MessageTypes DEF DumpEnds, End
    <3>2. CASE \E e \in At(dump.of, dump.pos) : queue' = Append(queue, Valid(dump.seq, e))
      <4>1. PICK e \in At(dump.of, dump.pos) : queue' = Append(queue, Valid(dump.seq, e))
        BY <3>2
      <4>2. e \in Entries
        BY TypesOfParts DEF At, Of
      <4> QED BY <4>1, <4>2, TypesOfParts, MessageTypes DEF Valid
    <3> QED BY <1>2, <3>1, <3>2 DEF DumpPart
  <2>3. /\ DOMAIN queue' = DOMAIN queue \cup {Len(queue) + 1}
        /\ queue'[Len(queue) + 1] = m /\ \A i \in DOMAIN queue : queue'[i] = queue[i]
    BY <2>2, TypesOfParts, Appended
  <2>4. dump' # NoDump => dump'.seq = dump.seq
    <3>1. dump \in [of : {"none", "nlctrl", "nl80211"}, seq : Nat, pos : Nat]
      BY DEF TypeInv, TypeOK
    <3> QED BY <1>2, <3>1 DEF DumpPart, DumpEnds
  <2> QED BY <1>1, <2>1, <2>2, <2>3, <2>4 DEF LostInv
<1>3. CASE Kernel
  BY <1>1, <1>3, KernelChanges DEF Change, LostInv
<1> QED BY <1>2, <1>3

\* The history of a call is kept.
LEMMA NextHistory == TypeInv /\ HistoryIsRight /\ [Next]_vars => HistoryIsRight'
<1> SUFFICES ASSUME TypeInv, HistoryIsRight, [Next]_vars PROVE HistoryIsRight'
  OBVIOUS
<1>1. CASE Client
  <2>1. ASSUME NEW op, NEW key, NEW phase, Begin(op, key, phase), table' = table
        PROVE  HistoryIsRight'
    BY <2>1 DEF Begin, HistoryIsRight
  <2>2. AddMembership => HistoryIsRight'
    BY DEF AddMembership, HistoryIsRight, Idle, kernelVars, historyVars
  <2> QED BY <1>1, <2>1, <2>2, ClientSteps DEF Sent, NotSent, PutFails, kernelVars
<1>2. CASE Library
  <2>1. UNCHANGED <<table, during, throughout>>
    BY <1>2 DEF Library, ReceiveInLoop, Probe, WaitForAck, kernelVars, historyVars
  <2>2. Idle => Idle'
    BY <1>2 DEF Library, ReceiveInLoop, Probe, WaitForAck, Idle
  <2> QED BY <2>1, <2>2 DEF HistoryIsRight
<1>3. CASE DumpPart \/ UNCHANGED vars
  BY <1>3 DEF DumpPart, HistoryIsRight, Idle, kernelVars, historyVars, vars
<1>4. CASE Kernel
  <2>1. PICK how, new : \E e \in Entries : Change(how, e, new)
    BY <1>4, KernelChanges
  <2> QED BY <2>1 DEF Change, HistoryIsRight, Idle
<1> QED BY <1>1, <1>2, <1>3, <1>4 DEF Next

IInv == TypeInv /\ HistoryIsRight /\ TruthInv /\ LostInv

LEMMA InitIInv == Init => IInv
<1> SUFFICES ASSUME Init PROVE IInv
  OBVIOUS
<1>1. /\ dump = NoDump /\ member = FALSE /\ queue = <<>> /\ seqNext = seqExpect
      /\ call.op = "none" /\ call.phase = "done" /\ Idle /\ unsent = FALSE
  BY DEF Init, Idle
<1>2. OnlyAnswers /\ OnlyOneEntry /\ HistoryIsRight /\ ResolveIsTruthful
  BY <1>1 DEF OnlyAnswers, OnlyOneEntry, HistoryIsRight, ResolveIsTruthful
<1> QED BY <1>1, <1>2, InitType DEF IInv, TruthInv, LostInv, Gets, Lists

LEMMA NextIInv == IInv /\ [Next]_vars => IInv'
<1> SUFFICES ASSUME IInv, [Next]_vars PROVE IInv'
  OBVIOUS
<1>1. TypeInv /\ HistoryIsRight /\ TruthInv /\ LostInv /\ TypeInv' /\ HistoryIsRight'
  BY NextType, NextHistory DEF IInv
<1>2. unsent \in BOOLEAN /\ unsent' \in BOOLEAN
  BY <1>1, Zenon DEF TypeInv, TypeOK
<1>3. ASSUME listening' = FALSE
      PROVE  listening = FALSE /\ ~AddMembership
  <2>1. ~AddMembership
    BY <1>3 DEF AddMembership
  <2>2. CASE Client
    BY <1>1, <1>3, <2>1, <2>2, ClientSteps DEF Sent, NotSent, PutFails, socketVars
  <2>3. CASE Kernel
    BY <1>1, <1>3, <2>1, <2>3, KernelChanges DEF Change
  <2>4. CASE Library \/ DumpPart \/ UNCHANGED vars
    BY <1>3, <2>1, <2>4 DEF Library, ReceiveInLoop, Probe, WaitForAck, DumpPart, vars, socketVars
  <2> QED BY <2>2, <2>3, <2>4 DEF Next
<1>4. NotSent => unsent' = TRUE
  BY DEF NotSent
<1>5. ASSUME listening' = FALSE, unsent' = FALSE PROVE TruthInv'
  <2>1. listening = FALSE /\ unsent = FALSE /\ ~NotSent /\ ~AddMembership
    <3>1. listening = FALSE /\ ~NotSent /\ ~AddMembership
      BY <1>3, <1>4, <1>5
    <3>2. unsent' = unsent
      <4>1. CASE Client
        BY <1>1, <3>1, <4>1, ClientSteps DEF Sent, PutFails
      <4>2. CASE Kernel
        BY <1>1, <4>2, KernelChanges DEF Change
      <4>3. CASE Library \/ DumpPart \/ UNCHANGED vars
        BY <4>3 DEF Library, ReceiveInLoop, Probe, WaitForAck, DumpPart, vars, historyVars
      <4> QED BY <4>1, <4>2, <4>3 DEF Next
    <3> QED BY <1>5, <3>1, <3>2
  <2>2. CASE Client
    BY <1>1, <2>1, <2>2, ClientSteps, SentTruth, PutFailsTruth
  <2>3. CASE Library
    BY <1>1, <2>1, <2>3, ReceiveTruth, ProbeTruth, WaitTruth DEF Library
  <2>4. CASE DumpPart
    BY <1>1, <2>1, <2>4, DumpTruth
  <2>5. CASE Kernel
    BY <1>1, <2>1, <2>5, KernelChanges, ChangeTruth
  <2>6. CASE UNCHANGED vars
    BY <1>1, <2>6 DEF TruthInv, OnlyAnswers, OnlyOneEntry, OneIsAnswered, AllAreGiven, Complete,
          Legible, Asked, Before, Given, Underway, InTable, Idle, ResolveIsTruthful,
          vars, kernelVars, socketVars, historyVars
  <2> QED BY <2>2, <2>3, <2>4, <2>5, <2>6 DEF Next
<1>6. ASSUME listening' = FALSE, unsent' = TRUE PROVE LostInv'
  <2>1. listening = FALSE /\ ~AddMembership
    BY <1>3, <1>6
  <2>2. ASSUME NEW op \in Gets \cup Lists \cup {"resolve"}, NEW key \in Keys,
               NEW phase \in {"loop", "probe"}, Begin(op, key, phase), Sent(op, key)
        PROVE  LostInv'
    <3>1. unsent = TRUE
      BY <1>6, <2>2 DEF Sent
    <3> QED BY <1>1, <2>1, <2>2, <3>1, SentLost
  <2>3. ASSUME NEW op \in Gets, NEW key \in Keys, PutFails(op, key)
        PROVE  LostInv'
    BY <1>1, <1>6, <2>1, <2>3 DEF PutFails, Begin, socketVars, LostInv
  <2>4. CASE Client
    BY <1>1, <2>1, <2>2, <2>3, <2>4, ClientSteps, NotSentLost
  <2>5. CASE Library
    <3>1. unsent = TRUE
      BY <1>6, <2>5 DEF Library, ReceiveInLoop, Probe, WaitForAck, historyVars
    <3> QED BY <1>1, <2>1, <2>5, <3>1, ReadLost
  <2>6. CASE DumpPart \/ Kernel
    <3>1. unsent = TRUE
      BY <1>1, <1>6, <2>6, KernelChanges DEF DumpPart, Change
    <3> QED BY <1>1, <2>1, <2>6, <3>1, KernelLost
  <2>7. CASE UNCHANGED vars
    BY <1>1, <1>6, <2>7 DEF LostInv, vars, kernelVars, socketVars, historyVars
  <2> QED BY <2>4, <2>5, <2>6, <2>7 DEF Next
<1>7. TruthInv' /\ LostInv'
  BY <1>5, <1>6 DEF TruthInv, LostInv
<1> QED BY <1>1, <1>7 DEF IInv

LEMMA IInvHolds == Spec => []IInv
<1> QED BY InitIInv, NextIInv, PTL DEF Spec

\* A call that has returned has been sent, and so has every one before it.
LEMMA AnsweredInFull ==
  ASSUME IInv, NEW ops, Undisturbed(ops)
  PROVE  listening = FALSE /\ unsent = FALSE /\ stale = FALSE /\ Idle
<1>1. listening \in BOOLEAN /\ stale \in BOOLEAN /\ unsent \in BOOLEAN
  BY Zenon DEF IInv, TypeInv, TypeOK
<1>2. listening = FALSE /\ stale = FALSE /\ call.phase = "done" /\ Idle
  BY <1>1, Zenon DEF Undisturbed, Idle
<1>3. unsent = FALSE
  BY <1>1, <1>2 DEF IInv, LostInv
<1> QED BY <1>2, <1>3

\* Until the socket has joined a group, and as long as nl80211 has the id that was
\* resolved, getFamily and getInterface say what the kernel had at some moment of the
\* call, and nothing only if there was nothing or the kernel gave an error (ctrl.cpp,
\* nl80211.cpp).
THEOREM GetsAreTruthful ==
  ASSUME BigEndian = FALSE PROVE Spec => []GetIsTruthful
<1>1. IInv => GetIsTruthful
  <2> SUFFICES ASSUME IInv, Undisturbed(Gets) PROVE
               /\ \A i \in DOMAIN result : result[i] \in during /\ result[i].key = call.key /\ i = 1
               /\ result = <<>> => refused \/ \A e \in InTable(throughout) : e.key # call.key
    BY DEF GetIsTruthful
  <2>1. listening = FALSE /\ unsent = FALSE /\ stale = FALSE /\ call.op \in Gets /\ Idle
    BY AnsweredInFull DEF Undisturbed
  <2>2. OneIsAnswered /\ queue = <<>>
    BY <2>1 DEF IInv, TruthInv, Legible, OnlyAnswers
  <2>3. DOMAIN queue = {}
    BY <2>2, NothingInEmpty
  <2> QED BY <2>2, <2>3 DEF OneIsAnswered, Asked
<1> QED BY <1>1, IInvHolds, PTL

\* Under the same conditions getFamilies and getInterfaces list only what existed during
\* the call; all that stayed, unless something was removed meanwhile or the kernel gave an
\* error, at once or in mid-dump; and nothing twice, unless something was added.  The kernel
\* gives its dump by position, while its tables change.
THEOREM ListsAreTruthful ==
  ASSUME BigEndian = FALSE PROVE Spec => []ListIsTruthful
<1>1. IInv => ListIsTruthful
  <2> SUFFICES ASSUME IInv, Undisturbed(Lists) PROVE
               /\ ToSet(result) \subseteq during
               /\ "removed" \notin changed /\ ~refused => InTable(throughout) \subseteq ToSet(result)
               /\ "added" \notin changed => IsInjective(result)
    BY DEF ListIsTruthful
  <2>1. listening = FALSE /\ unsent = FALSE /\ stale = FALSE /\ call.op \in Lists /\ Idle
    BY AnsweredInFull DEF Undisturbed
  <2>2. AllAreGiven /\ queue = <<>> /\ dump = NoDump
    BY <2>1 DEF IInv, TruthInv, Legible, OnlyAnswers
  <2>3. \A e : ~Underway(e)
    BY <2>2, NothingInEmpty DEF Underway
  <2> QED BY <2>2, <2>3 DEF AllAreGiven, Given
<1> QED BY <1>1, IInvHolds, PTL

\* Until the socket has joined a group, resolve returns an id that the family had at some
\* moment of the call, and throws only if it did not exist at some moment, or the kernel
\* gave an error, or a request of the socket has not been sent (GenericSocket::resolve), on
\* machines of both byte orders.
THEOREM ResolvesAreTruthful == Spec => []ResolveIsTruthful
<1>1. IInv => ResolveIsTruthful
  <2> SUFFICES ASSUME IInv, ~listening PROVE ResolveIsTruthful
    BY DEF ResolveIsTruthful
  <2>1. listening = FALSE /\ unsent \in BOOLEAN
    <3>1. listening \in BOOLEAN /\ unsent \in BOOLEAN
      BY Zenon DEF IInv, TypeInv, TypeOK
    <3> QED BY <3>1
  <2>2. CASE unsent = FALSE
    BY <2>1, <2>2 DEF IInv, TruthInv
  <2>3. CASE unsent = TRUE
    BY <2>1, <2>3 DEF IInv, LostInv, ResolveIsTruthful
  <2> QED BY <2>1, <2>2, <2>3
<1> QED BY <1>1, IInvHolds, PTL
=============================================================================
