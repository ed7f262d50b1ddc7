-------------------------- MODULE RouteSocketProofs --------------------------
(***************************************************************************)
(* Theorems of RouteSocket, for any objects and any number of calls.       *)
(***************************************************************************)
EXTENDS RouteSocket, SequenceTheorems, TLAPS

-----------------------------------------------------------------------------
\* A socket that never joins a group has in its queue the answer to the running call,
\* which carries the number expected next, and nothing else.
AnswerFits ==
  Reported(call.op, call.about, Head(queue).code) =
    IF effect \in {"created", "removed", "changed"} THEN "true"
    ELSE IF effect \in {"existed", "absent"} THEN "false" ELSE "throw"

OnlyOwnAnswer ==
  ~listening =>
    /\ ~member
    /\ seqNext \in Nat
    /\ call = NoCall => queue = <<>> /\ seqExpect = seqNext
    /\ call # NoCall => /\ \E code \in Codes : queue = <<Answer(code, seqExpect)>>
                        /\ seqNext = seqExpect + 1 /\ seqExpect \in Nat
                        /\ result = "none" /\ AnswerFits

\* What an operation reports of the kernel's verdict.
LEMMA VerdictIsReported ==
  ASSUME NEW op \in {"add", "del", "change"}, NEW about, NEW v \in Verdicts(op, about)
  PROVE  /\ v.code \in Codes
         /\ Reported(op, about, v.code) =
              IF v.effect \in {"created", "removed", "changed"} THEN "true"
              ELSE IF v.effect \in {"existed", "absent"} THEN "false" ELSE "throw"
<1>1. ASSUME v \in Refusals
      PROVE  v.code = "NLE_PERM" /\ v.effect = "refused"
  BY <1>1 DEF Refusals
<1>2. CASE v \in Refusals
  BY <1>1, <1>2 DEF Reported, DelFalse, Codes
<1>3. CASE op = "add" /\ v \in Adds(about)
  <2>1. \/ v.code = "NLE_EXIST" /\ v.effect = "existed"
        \/ v.code = "SUCCESS" /\ v.effect = "created"
    BY <1>3 DEF Adds
  <2> QED BY <1>3, <2>1 DEF Reported, Codes
<1>4. CASE op = "del" /\ v \in Removes(about)
  <2>1. \/ v.code = NotThere(about) /\ v.effect = "absent"
        \/ v.code = "SUCCESS" /\ v.effect = "removed"
    BY <1>4 DEF Removes
  <2>2. NotThere(about) = DelFalse(about) /\ NotThere(about) \in Codes \ {"SUCCESS"}
    BY DEF NotThere, DelFalse, Codes
  <2> QED BY <1>4, <2>1, <2>2 DEF Reported, Codes
<1>5. CASE op = "change" /\ v \in Changes(about)
  <2>1. \/ v.code = "NLE_NODEV" /\ v.effect = "refused"
        \/ v.code = "SUCCESS" /\ v.effect = "changed"
    BY <1>5 DEF Changes
  <2> QED BY <1>5, <2>1 DEF Reported, Codes
<1> QED BY <1>2, <1>3, <1>4, <1>5 DEF Verdicts

\* Until addMembership is called, the only answer on its way is that of the call waiting.
LEMMA OwnAnswerAlways == Spec => [](OnlyOwnAnswer /\ ResultIsTheEffect)
<1> DEFINE Inv == OnlyOwnAnswer /\ ResultIsTheEffect
<1>1. Init => Inv
  BY DEF Init, OnlyOwnAnswer, ResultIsTheEffect
<1>2. Inv /\ [Next]_vars => Inv'
  <2> SUFFICES ASSUME Inv, [Next]_vars, ~listening' PROVE Inv'
    BY DEF OnlyOwnAnswer, ResultIsTheEffect
  <2>0. ~listening
    BY DEF Next, Client, Request, RequestIncomplete, ReceiveMessages, AddMembership,
           DropMembership, WaitForAck, OthersChange, vars
  <2>1. ASSUME NEW op \in {"add", "del", "change"}, NEW about, Request(op, about)
        PROVE  Inv'
    <3>1. PICK v \in Verdicts(op, about) :
            /\ effect' = v.effect
            /\ queue' = IF member /\ v.code = "SUCCESS"
                        THEN queue \o <<Event(seqNext), Answer(v.code, seqNext)>>
                        ELSE Append(queue, Answer(v.code, seqNext))
      BY <2>1 DEF Request
    <3>2. /\ call = NoCall /\ queue = <<>> /\ seqExpect = seqNext /\ ~member /\ seqNext \in Nat
          /\ call' = [op |-> op, about |-> about, seq |-> seqNext]
          /\ seqNext' = seqNext + 1 /\ result' = "none"
          /\ seqExpect' = seqExpect /\ member' = member
      BY <2>0, <2>1 DEF Request, Awaited, OnlyOwnAnswer
    <3>3. queue' = <<Answer(v.code, seqNext)>>
      BY <3>1, <3>2
    <3>4. call'.op = op /\ call'.about = about /\ Head(queue').code = v.code
      BY <3>2, <3>3 DEF Answer
    <3>5. AnswerFits' /\ v.code \in Codes
      BY <3>1, <3>4, VerdictIsReported DEF AnswerFits, Reported, DelFalse
    <3>6. call' # NoCall
      BY <3>2, <3>4 DEF NoCall
    <3> QED BY <3>2, <3>3, <3>5, <3>6 DEF OnlyOwnAnswer, ResultIsTheEffect
  <2>2. CASE RequestIncomplete
    BY <2>0, <2>2 DEF RequestIncomplete, OnlyOwnAnswer, ResultIsTheEffect
  <2>3. CASE WaitForAck
    <3>1. PICK code \in Codes : queue = <<Answer(code, seqExpect)>>
      BY <2>0, <2>3 DEF WaitForAck, OnlyOwnAnswer
    <3>2. /\ Head(queue) = Answer(code, seqExpect) /\ Tail(queue) = <<>>
          /\ Head(queue).code = code /\ Head(queue).type = "answer" /\ Expected
      BY <3>1 DEF Answer, Expected
    <3>3. /\ queue' = <<>> /\ seqExpect' = seqExpect + 1 /\ call' = NoCall
          /\ result' = Reported(call.op, call.about, code)
          /\ UNCHANGED <<seqNext, member, effect>>
      BY <2>3, <3>2 DEF WaitForAck
    <3>4. /\ AnswerFits /\ seqNext = seqExpect + 1 /\ ~member /\ seqNext \in Nat
      BY <2>0, <2>3 DEF WaitForAck, OnlyOwnAnswer
    <3>5. ResultIsTheEffect'
      BY <3>2, <3>3, <3>4 DEF ResultIsTheEffect, AnswerFits
    <3> QED BY <3>3, <3>4, <3>5 DEF OnlyOwnAnswer
  <2>4. CASE ReceiveMessages \/ AddMembership \/ DropMembership
    BY <2>0, <2>4 DEF ReceiveMessages, AddMembership, DropMembership, OnlyOwnAnswer
  <2>5. ASSUME NEW o, OthersChange(o) PROVE Inv'
    BY <2>0, <2>5 DEF OthersChange, OnlyOwnAnswer, ResultIsTheEffect, AnswerFits
  <2>6. CASE UNCHANGED vars
    BY <2>0, <2>6 DEF vars, OnlyOwnAnswer, ResultIsTheEffect, AnswerFits
  <2> QED BY <2>1, <2>2, <2>3, <2>4, <2>5, <2>6 DEF Next, Client
<1> QED BY <1>1, <1>2, PTL DEF Spec

\* Until then every operation reports what the kernel did for it, whatever other processes
\* do to the same objects meanwhile.
THEOREM ResultsAreTrue == Spec => []ResultIsTheEffect
<1> QED BY OwnAnswerAlways, PTL

\* Until then no call leaves an answer behind, and the next request carries the number that
\* is expected.
THEOREM NoAnswerIsLeft == Spec => []NoAnswerLeft
<1>1. OnlyOwnAnswer => NoAnswerLeft
  BY DEF OnlyOwnAnswer, NoAnswerLeft
<1> QED BY <1>1, OwnAnswerAlways, PTL

\* What the kernel makes of a request about existing kinds of objects.
LEMMA VerdictIsTyped ==
  ASSUME NEW op \in {"add", "del", "change"}, NEW about \in SUBSET Objects,
         objects \subseteq Objects, NEW v \in Verdicts(op, about)
  PROVE  /\ v.code \in Codes /\ v.objects \subseteq Objects
         /\ v.effect \in {"created", "existed", "removed", "absent", "changed", "refused"}
<1>1. v.code \in Codes
  BY VerdictIsReported
<1>2. CASE v \in Refusals
  BY <1>1, <1>2 DEF Refusals
<1>3. CASE op = "add" /\ v \in Adds(about)
  BY <1>1, <1>3 DEF Adds
<1>4. CASE op = "del" /\ v \in Removes(about)
  BY <1>1, <1>4 DEF Removes
<1>5. CASE op = "change" /\ v \in Changes(about)
  BY <1>1, <1>5 DEF Changes
<1> QED BY <1>2, <1>3, <1>4, <1>5 DEF Verdicts

\* A request keeps the types.
LEMMA RequestIsTyped ==
  ASSUME TypeOK, NEW op \in {"add", "del", "change"}, NEW about \in SUBSET Objects,
         Request(op, about)
  PROVE  TypeOK'
<1>1. PICK v \in Verdicts(op, about) :
        /\ objects' = v.objects /\ effect' = v.effect
        /\ queue' = IF member /\ v.code = "SUCCESS"
                    THEN queue \o <<Event(seqNext), Answer(v.code, seqNext)>>
                    ELSE Append(queue, Answer(v.code, seqNext))
  BY DEF Request
<1>2. /\ v.code \in Codes /\ v.objects \subseteq Objects
      /\ v.effect \in {"created", "existed", "removed", "absent", "changed", "refused"}
  BY VerdictIsTyped DEF TypeOK
<1>3. Event(seqNext) \in Message /\ Answer(v.code, seqNext) \in Message
  BY <1>2 DEF TypeOK, Event, Answer, Message, Codes
<1>4. queue' \in Seq(Message)
  BY <1>1, <1>3 DEF TypeOK
<1>5. call' \in Call /\ UNCHANGED <<member, listening, seqExpect, changes>>
      /\ seqNext' = seqNext + 1 /\ result' = "none" /\ calls' = calls + 1
  BY DEF TypeOK, Request, Awaited, Call
<1> QED BY <1>1, <1>2, <1>4, <1>5 DEF TypeOK

\* Every variable keeps its type, whatever the client and other processes do.
THEOREM TypeCorrect == Spec => []TypeOK
<1>1. Init => TypeOK
  <2> SUFFICES ASSUME Init PROVE TypeOK
    OBVIOUS
  <2>1. /\ objects \subseteq Objects /\ queue = <<>>
        /\ member \in BOOLEAN /\ listening \in BOOLEAN
        /\ call = NoCall /\ result = "none" /\ effect = "none"
    BY DEF Init
  <2>2. seqNext = 1 /\ seqExpect = 1 /\ calls = 0 /\ changes = 0
    BY DEF Init
  <2> QED BY <2>1, <2>2 DEF TypeOK
<1>2. TypeOK /\ [Next]_vars => TypeOK'
  <2> SUFFICES ASSUME TypeOK, [Next]_vars
               PROVE  TypeOK'
    OBVIOUS
  <2>1. CASE \E o \in Objects : Request("add", {o})
    BY <2>1, RequestIsTyped
  <2>2. CASE \E kind \in Kinds : \E about \in SUBSET kind : about # {} /\ Request("del", about)
    <3>1. \A kind \in Kinds : kind \subseteq Objects
      BY DEF Objects
    <3> QED BY <2>2, <3>1, RequestIsTyped
  <2>3. CASE \E l \in Links : Request("change", {l})
    <3>1. Links \subseteq Objects
      BY DEF Objects, Kinds
    <3> QED BY <2>3, <3>1, RequestIsTyped
  <2>4. CASE RequestIncomplete
    BY <2>4 DEF RequestIncomplete, TypeOK
  <2>5. CASE ReceiveMessages
    BY <2>5, HeadTailProperties DEF ReceiveMessages, TypeOK
  <2>6. CASE AddMembership \/ DropMembership
    BY <2>6 DEF AddMembership, DropMembership, TypeOK
  <2>7. CASE WaitForAck
    <3>1. queue' \in Seq(Message) /\ seqExpect' \in Nat
      BY <2>7 DEF WaitForAck, TypeOK
    <3>2. result' \in {"true", "false", "throw"}
      BY <2>7 DEF WaitForAck, Reported
    <3> QED BY <2>7, <3>1, <3>2 DEF WaitForAck, TypeOK
  <2>8. CASE \E o \in Objects : OthersChange(o)
    <3>1. Event(0) \in Message
      BY DEF Event, Message, Codes
    <3> QED BY <2>8, <3>1 DEF OthersChange, TypeOK
  <2>9. CASE UNCHANGED vars
    BY <2>9 DEF vars, TypeOK
  <2> QED BY <2>1, <2>2, <2>3, <2>4, <2>5, <2>6, <2>7, <2>8, <2>9 DEF Next, Client
<1> QED BY <1>1, <1>2, PTL DEF Spec
=============================================================================
