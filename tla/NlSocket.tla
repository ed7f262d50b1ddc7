------------------------------ MODULE NlSocket ------------------------------
(***************************************************************************)
(* nl::Socket: synchronous requests, event reception and the callbacks     *)
(* they share, with the libnl reader and the kernel as the code uses them. *)
(*                                                                         *)
(* One thread owns the socket.  It calls sendMessageSync, receiveMessages, *)
(* onValidMessage, addMembership and dropMembership; libnl calls back into *)
(* the four static wrappers, and the valid wrapper runs the client's       *)
(* callback, which may call the socket again.  The C++ stack of these      *)
(* activations is the variable stack.  The kernel answers requests and     *)
(* multicasts events into one receive queue of datagrams.                  *)
(*                                                                         *)
(* Usage names what the client and the environment do beyond "one fresh    *)
(* message at a time":                                                     *)
(*   "membership"   the client joins a multicast group                     *)
(*   "nest"         a callback calls back into the socket                  *)
(*   "throw"        a callback throws                                      *)
(*   "reconfigure"  a callback calls onValidMessage                        *)
(*   "resend"       a Message object is sent again                         *)
(*   "sendfail"     nl_send_auto fails                                     *)
(*   "overrun"      a message that finds the receive queue full is lost    *)
(***************************************************************************)
EXTENDS Integers, SequencesExt

CONSTANTS
  MaxCalls,    \* bound on the number of synchronous calls
  MaxReplies,  \* bound on the valid replies to one request
  MaxEvents,   \* bound on the multicast events
  MaxQueue,    \* datagrams the receive queue holds
  MaxDepth,    \* bound on nested activations
  Messages,    \* the client's nl::Message objects
  Handlers,    \* the callbacks the client may pass to onValidMessage
  Usage

ASSUME BoundsAreNat == MaxCalls \in Nat /\ MaxReplies \in Nat /\ MaxEvents \in Nat
                       /\ MaxQueue \in Nat /\ MaxDepth \in Nat
ASSUME UsageIsKnown == Usage \subseteq {"membership", "nest", "throw", "reconfigure",
                                        "resend", "sendfail", "overrun"}

VARIABLES
  callStatus,     \* Socket::callStatus: 1 waiting, 0 finished, negative an error code
  validCallback,  \* Socket::validCallback
  acceptAny,      \* addMembership has replaced libnl's sequence check
  header,         \* header[m]: the sequence number in Message m, 0 = not yet chosen
  seqNext,        \* nl_sock::s_seq_next
  seqExpect,      \* nl_sock::s_seq_expect
  stack,          \* the activations of sendMessageSync and receiveMessages
  member,         \* the socket is in the multicast group
  serving,        \* requests the kernel is answering, oldest first
  queue,          \* the socket's receive queue: a sequence of datagrams
  overrun,        \* the kernel has flagged a lost message (ENOBUFS)
  events,         \* number of events multicast so far
  outcome,        \* outcome[c]: how call c stands
  answer,         \* answer[c]: what the kernel answers to call c
  listens,        \* listens[c]: call c brought its own callback
  heard,          \* heard[cb]: the messages callback cb was run on
  configured,     \* the callback last passed to onValidMessage
  disturbed       \* a callback has called onValidMessage or its exception skipped a swap

socketVars  == <<callStatus, validCallback, acceptAny>>
seqVars     == <<header, seqNext, seqExpect>>
kernelVars  == <<member, serving, queue, overrun, events>>
historyVars == <<outcome, answer, listens, heard, configured, disturbed>>
vars == <<socketVars, seqVars, stack, kernelVars, historyVars>>

-----------------------------------------------------------------------------
Calls == 1..MaxCalls

\* A negative errno (any of them), and the one the wrapper puts for a positive code.
ErrorCode  == -1
EPROTO     == 71
CallStatus == {1, 0, ErrorCode, -EPROTO}

NoCallback          == [of |-> "nobody", id |-> 0]
CallCallback(c)     == [of |-> "call", id |-> c]
HandlerCallback(h)  == [of |-> "handler", id |-> h]
Callbacks == {CallCallback(c) : c \in Calls} \cup {HandlerCallback(h) : h \in Handlers}

\* A netlink message.  call is 0 for a multicast event, n its position among the
\* replies (or events), multi the flag NLM_F_MULTI of the parts of a dump.  An
\* "error" carries a negative code; a "poserr" a positive one, which the kernel
\* never sends but errorCallbackWrapper provides for.
ErrorEnds == {"error", "poserr"}
EndTypes == {"ack", "error", "poserr", "done"}
Message == [type : {"valid"} \cup EndTypes, call : 0..MaxCalls,
            seq : Nat, n : Nat, multi : BOOLEAN]
Valid(call, seq, n, multi) ==
  [type |-> "valid", call |-> call, seq |-> seq, n |-> n, multi |-> multi]
Terminator(end, call, seq) ==
  [type |-> end, call |-> call, seq |-> seq, n |-> 0, multi |-> end = "done"]

\* A request is answered by valid replies and then an ACK or an error; a dump by
\* its parts and DONE, or by an error alone.
Answer  == [replies : 0..MaxReplies, end : EndTypes \cup {"lost"}]
Refusal == [replies |-> 0, end |-> "error"]
NotSent == [replies |-> 0, end |-> "lost"]
AnswersTo(dump) ==
  IF dump THEN [replies : 0..MaxReplies, end : {"done"}] \cup {Refusal}
          ELSE [replies : 0..MaxReplies, end : {"ack", "error", "poserr"}]

\* An activation of sendMessageSync ("sync") or receiveMessages ("recv") with the
\* nl_recvmsgs it runs.  saved is the callback that was installed when it began,
\* swapped says that the activation puts it back; buf is the rest of the datagram
\* being parsed, multi says that a multipart answer is not complete, running is
\* the callback being run.
Frame == [op : {"sync", "recv"}, call : 0..MaxCalls, swapped : BOOLEAN,
          saved : Callbacks \cup {NoCallback}, pc : {"loop", "read", "parse", "callback"},
          buf : Seq(Message), multi : BOOLEAN, running : Callbacks \cup {NoCallback}]
Activation(op, c, swapped, pc) ==
  [op |-> op, call |-> c, swapped |-> swapped, saved |-> validCallback, pc |-> pc,
   buf |-> <<>>, multi |-> FALSE, running |-> NoCallback]

Top == Last(stack)
SetTop(f) == [stack EXCEPT ![Len(stack)] = f]
Pop == Front(stack)

InCallback == stack # <<>> /\ Top.pc = "callback"
ClientRuns == \/ stack = <<>>
              \/ InCallback /\ "nest" \in Usage /\ Len(stack) < MaxDepth

-----------------------------------------------------------------------------
(* The client's calls *)

IsNextCall(c) == outcome[c] = "none" /\ \A d \in 1..(c - 1) : outcome[d] # "none"

\* nl_send_auto gives a message without sequence number the next one and keeps
\* it in the message; its result is ignored.  own: the overload with a callback.
SendMessageSync(c, m, dump, a, own) ==
  LET seq == IF header[m] = 0 THEN seqNext ELSE header[m]
      running == dump /\ \E i \in DOMAIN serving : serving[i].dump
  IN /\ ClientRuns
     /\ IsNextCall(c)
     /\ header[m] # 0 => "resend" \in Usage
     /\ a = NotSent => "sendfail" \in Usage
     /\ running => a \in {Refusal, NotSent}
     /\ header' = [header EXCEPT ![m] = seq]
     /\ seqNext' = IF header[m] = 0 THEN seqNext + 1 ELSE seqNext
     /\ serving' = IF a = NotSent THEN serving
                   ELSE Append(serving, [call |-> c, seq |-> seq, dump |-> dump, sent |-> 0])
     /\ callStatus' = 1
     /\ validCallback' = IF own THEN CallCallback(c) ELSE validCallback
     /\ stack' = Append(stack, Activation("sync", c, own, "loop"))
     /\ outcome' = [outcome EXCEPT ![c] = "active"]
     /\ answer' = [answer EXCEPT ![c] = a]
     /\ listens' = [listens EXCEPT ![c] = own]
     /\ UNCHANGED <<acceptAny, seqExpect, member, queue, overrun, events, heard, configured,
                    disturbed>>

\* Mutants: the second swap is forgotten; the loop is left after one nl_recvmsgs.
SyncReturnsWithoutSwap ==
  /\ stack # <<>> /\ Top.pc = "loop" /\ callStatus <= 0
  /\ stack' = Pop
  /\ outcome' = [outcome EXCEPT ![Top.call] = IF callStatus = 0 THEN "ok" ELSE "failed"]
  /\ UNCHANGED <<socketVars, seqVars, kernelVars, answer, listens, heard, configured,
                 disturbed>>
SyncReturnsAtOnce ==
  /\ stack # <<>> /\ Top.pc = "loop"
  /\ stack' = Pop
  /\ validCallback' = IF Top.swapped THEN Top.saved ELSE validCallback
  /\ outcome' = [outcome EXCEPT ![Top.call] = IF callStatus < 0 THEN "failed" ELSE "ok"]
  /\ UNCHANGED <<callStatus, acceptAny, seqVars, kernelVars, answer, listens, heard, configured,
                 disturbed>>

\* The loop of sendMessageSync ends, and the overload with a callback swaps the
\* previous callback back.  The status itself is reported to nobody.
SyncReturns ==
  /\ stack # <<>> /\ Top.pc = "loop" /\ callStatus <= 0
  /\ stack' = Pop
  /\ validCallback' = IF Top.swapped THEN Top.saved ELSE validCallback
  /\ outcome' = [outcome EXCEPT ![Top.call] = IF callStatus = 0 THEN "ok" ELSE "failed"]
  /\ UNCHANGED <<callStatus, acceptAny, seqVars, kernelVars, answer, listens, heard, configured,
                 disturbed>>

ReceiveMessages ==
  /\ ClientRuns
  /\ stack' = Append(stack, Activation("recv", 0, FALSE, "read"))
  /\ UNCHANGED <<socketVars, seqVars, kernelVars, historyVars>>

OnValidMessage(h) ==
  /\ stack = <<>> \/ (InCallback /\ "reconfigure" \in Usage)
  /\ validCallback' = HandlerCallback(h)
  /\ configured' = HandlerCallback(h)
  /\ disturbed' = (disturbed \/ InCallback)
  /\ UNCHANGED <<callStatus, acceptAny, seqVars, stack, kernelVars, outcome, answer,
                 listens, heard>>

\* The check is replaced before the membership is asked for, and stays replaced
\* when that fails.
AddMembership ==
  /\ ClientRuns /\ "membership" \in Usage
  /\ acceptAny' = TRUE
  /\ member' \in {member, TRUE}
  /\ UNCHANGED <<callStatus, validCallback, seqVars, stack, serving, queue, overrun,
                 events, historyVars>>

\* Events already queued stay queued, and the sequence check stays replaced.
DropMembership ==
  /\ ClientRuns /\ "membership" \in Usage
  /\ member' \in {member, FALSE}
  /\ UNCHANGED <<socketVars, seqVars, stack, serving, queue, overrun, events, historyVars>>

\* The client's callback returns to validCallbackWrapper.
CallbackReturns ==
  /\ InCallback
  /\ stack' = SetTop([Top EXCEPT !.pc = "parse", !.running = NoCallback])
  /\ UNCHANGED <<socketVars, seqVars, kernelVars, historyVars>>

\* The exception unwinds nl_recvmsgs and the activation around it: what was left
\* of the datagram is lost and the second swap of sendMessageSync is not reached.
CallbackThrows ==
  /\ InCallback /\ "throw" \in Usage
  /\ stack' = Pop
  /\ outcome' = IF Top.op = "sync" THEN [outcome EXCEPT ![Top.call] = "thrown"] ELSE outcome
  /\ disturbed' = (disturbed \/ Top.swapped)
  /\ UNCHANGED <<socketVars, seqVars, kernelVars, answer, listens, heard, configured>>

-----------------------------------------------------------------------------
(* nl_recvmsgs and the wrappers it calls *)

\* nl_recvmsgs returns.  sendMessageSync ignores the result and goes round its
\* loop; receiveMessages returns or throws.
RecvmsgsReturns ==
  IF Top.op = "sync"
  THEN SetTop([Top EXCEPT !.pc = "loop", !.buf = <<>>, !.multi = FALSE])
  ELSE Pop

Reading == stack # <<>> /\ (Top.pc = "read" \/ (Top.pc = "loop" /\ callStatus > 0))

ReadDatagram ==
  /\ Reading /\ ~overrun /\ queue # <<>>
  /\ queue' = Tail(queue)
  /\ stack' = SetTop([Top EXCEPT !.pc = "parse", !.buf = Head(queue)])
  /\ UNCHANGED <<socketVars, seqVars, member, serving, overrun, events, historyVars>>

ReadFails ==
  /\ Reading /\ overrun
  /\ overrun' = FALSE
  /\ stack' = RecvmsgsReturns
  /\ UNCHANGED <<socketVars, seqVars, member, serving, queue, events, historyVars>>

Parsing == stack # <<>> /\ Top.pc = "parse" /\ Top.buf # <<>>
Msg == Head(Top.buf)
Accepted == acceptAny \/ Msg.seq = seqExpect

\* Without the callback of addMembership a message with another sequence number
\* ends nl_recvmsgs with -NLE_SEQ_MISMATCH and the rest of the datagram is lost.
SequenceMismatch ==
  /\ Parsing /\ ~Accepted
  /\ stack' = RecvmsgsReturns
  /\ UNCHANGED <<socketVars, seqVars, kernelVars, historyVars>>

\* Mutants: the wrapper also calls the callback that the running call has put aside.
ValidCallbackWrapperToBoth ==
  /\ Parsing /\ Accepted /\ Msg.type = "valid" /\ validCallback # NoCallback
  /\ stack' = SetTop([Top EXCEPT !.buf = Tail(@), !.multi = @ \/ Msg.multi,
                                 !.pc = "callback", !.running = validCallback])
  /\ heard' = [cb \in Callbacks |-> IF cb \in {validCallback, Top.saved}
                                    THEN Append(heard[cb], Msg) ELSE heard[cb]]
  /\ UNCHANGED <<socketVars, seqVars, kernelVars, outcome, answer, listens, configured,
                 disturbed>>

\* validCallbackWrapper runs the installed callback, if there is one.
ValidCallbackWrapper ==
  /\ Parsing /\ Accepted /\ Msg.type = "valid"
  /\ LET next == [Top EXCEPT !.buf = Tail(@), !.multi = @ \/ Msg.multi]
     IN \/ /\ validCallback = NoCallback
           /\ stack' = SetTop(next)
           /\ heard' = heard
        \/ /\ validCallback # NoCallback
           /\ stack' = SetTop([next EXCEPT !.pc = "callback", !.running = validCallback])
           /\ heard' = [heard EXCEPT ![validCallback] = Append(@, Msg)]
  /\ UNCHANGED <<socketVars, seqVars, kernelVars, outcome, answer, listens, configured,
                 disturbed>>

\* DONE completes a multipart answer; NL_SKIP goes on with the datagram.
FinishCallbackWrapper ==
  /\ Parsing /\ Accepted /\ Msg.type = "done"
  /\ callStatus' = 0
  /\ seqExpect' = seqExpect + 1
  /\ stack' = SetTop([Top EXCEPT !.buf = Tail(@), !.multi = FALSE])
  /\ UNCHANGED <<validCallback, acceptAny, header, seqNext, kernelVars, historyVars>>

\* NL_STOP ends nl_recvmsgs at once, after an ACK and after an error.
AckCallbackWrapper ==
  /\ Parsing /\ Accepted /\ Msg.type = "ack"
  /\ callStatus' = 0
  /\ seqExpect' = seqExpect + 1
  /\ stack' = RecvmsgsReturns
  /\ UNCHANGED <<validCallback, acceptAny, header, seqNext, kernelVars, historyVars>>

\* Mutants: the code is stored as it came; an error is taken for an ACK.
ErrorCallbackWrapperRaw ==
  /\ Parsing /\ Accepted /\ Msg.type \in ErrorEnds
  /\ callStatus' = IF Msg.type = "poserr" THEN EPROTO ELSE ErrorCode
  /\ seqExpect' = seqExpect + 1
  /\ stack' = RecvmsgsReturns
  /\ UNCHANGED <<validCallback, acceptAny, header, seqNext, kernelVars, historyVars>>
ErrorCallbackWrapperAsAck ==
  /\ Parsing /\ Accepted /\ Msg.type \in ErrorEnds
  /\ callStatus' = 0
  /\ seqExpect' = seqExpect + 1
  /\ stack' = RecvmsgsReturns
  /\ UNCHANGED <<validCallback, acceptAny, header, seqNext, kernelVars, historyVars>>

\* A positive code must not be taken for "still waiting".
ErrorCallbackWrapper ==
  /\ Parsing /\ Accepted /\ Msg.type \in ErrorEnds
  /\ callStatus' = IF Msg.type = "poserr" THEN -EPROTO ELSE ErrorCode
  /\ seqExpect' = seqExpect + 1
  /\ stack' = RecvmsgsReturns
  /\ UNCHANGED <<validCallback, acceptAny, header, seqNext, kernelVars, historyVars>>

\* At the end of a datagram nl_recvmsgs reads on only inside a multipart answer.
EndOfDatagram ==
  /\ stack # <<>> /\ Top.pc = "parse" /\ Top.buf = <<>>
  /\ stack' = IF Top.multi THEN SetTop([Top EXCEPT !.pc = "read"]) ELSE RecvmsgsReturns
  /\ UNCHANGED <<socketVars, seqVars, kernelVars, historyVars>>

-----------------------------------------------------------------------------
(* The kernel *)

\* The parts of a dump may share a datagram and are paced by the reader; any
\* other message is lost, and the loss flagged, when the queue is full.
PartOfSameDump(m) ==
  /\ queue # <<>> /\ m.multi
  /\ LET last == Last(Last(queue)) IN last.multi /\ last.call = m.call
Enqueue(m) ==
  \/ /\ Len(queue) < MaxQueue
     /\ queue' = Append(queue, <<m>>)
     /\ overrun' = overrun
  \/ /\ PartOfSameDump(m)
     /\ queue' = [queue EXCEPT ![Len(queue)] = Append(@, m)]
     /\ overrun' = overrun
  \/ /\ "overrun" \in Usage /\ Len(queue) = MaxQueue /\ ~m.multi
     /\ queue' = queue
     /\ overrun' = TRUE

\* Requests are answered in order, but a dump goes on beside later requests.
Served(i) == i \in DOMAIN serving /\ \A j \in 1..(i - 1) : serving[j].dump

KernelReplies(i) ==
  /\ Served(i)
  /\ serving[i].sent < answer[serving[i].call].replies
  /\ serving' = [serving EXCEPT ![i].sent = @ + 1]
  /\ Enqueue(Valid(serving[i].call, serving[i].seq, serving[i].sent + 1, serving[i].dump))
  /\ UNCHANGED <<socketVars, seqVars, stack, member, events, historyVars>>

KernelFinishes(i) ==
  /\ Served(i)
  /\ serving[i].sent = answer[serving[i].call].replies
  /\ serving' = RemoveAt(serving, i)
  /\ Enqueue(Terminator(answer[serving[i].call].end, serving[i].call, serving[i].seq))
  /\ UNCHANGED <<socketVars, seqVars, stack, member, events, historyVars>>

KernelMulticasts ==
  /\ member /\ events < MaxEvents
  /\ events' = events + 1
  /\ Enqueue(Valid(0, 0, events + 1, FALSE))
  /\ UNCHANGED <<socketVars, seqVars, stack, member, serving, historyVars>>

-----------------------------------------------------------------------------
Init ==
  /\ callStatus \in CallStatus  \* the constructor leaves it uninitialised
  /\ validCallback = NoCallback /\ acceptAny = FALSE
  /\ header = [m \in Messages |-> 0] /\ seqNext = 1 /\ seqExpect = 1
  /\ stack = <<>>
  /\ member = FALSE /\ serving = <<>> /\ queue = <<>> /\ overrun = FALSE /\ events = 0
  /\ outcome = [c \in Calls |-> "none"]
  /\ answer = [c \in Calls |-> NotSent]
  /\ listens = [c \in Calls |-> FALSE]
  /\ heard = [cb \in Callbacks |-> <<>>]
  /\ configured = NoCallback /\ disturbed = FALSE

Client ==
  \/ \E c \in Calls, m \in Messages, dump, own \in BOOLEAN :
       \E a \in AnswersTo(dump) \cup {NotSent} : SendMessageSync(c, m, dump, a, own)
  \/ ReceiveMessages
  \/ \E h \in Handlers : OnValidMessage(h)
  \/ AddMembership
  \/ DropMembership
  \/ CallbackThrows

\* The steps that follow from a call without any further decision of the client.
Library ==
  \/ SyncReturns \/ CallbackReturns
  \/ ReadDatagram \/ ReadFails \/ SequenceMismatch
  \/ ValidCallbackWrapper \/ FinishCallbackWrapper \/ AckCallbackWrapper
  \/ ErrorCallbackWrapper \/ EndOfDatagram

KernelAnswers == \E i \in DOMAIN serving : KernelReplies(i) \/ KernelFinishes(i)

Next == Client \/ Library \/ KernelAnswers \/ KernelMulticasts

Spec == Init /\ [][Next]_vars

\* The thread keeps running, callbacks return, and the kernel answers requests.
FairSpec == Spec /\ WF_vars(Library) /\ WF_vars(KernelAnswers)

-----------------------------------------------------------------------------
(* Properties *)

\* Each variable of the socket, the reader and the kernel keeps its type.
TypeOK ==
  /\ callStatus \in CallStatus
  /\ validCallback \in Callbacks \cup {NoCallback}
  /\ acceptAny \in BOOLEAN
  /\ header \in [Messages -> Nat] /\ seqNext \in Nat /\ seqExpect \in Nat
  /\ stack \in Seq(Frame)
  /\ member \in BOOLEAN
  /\ serving \in Seq([call : Calls, seq : Nat, dump : BOOLEAN, sent : Nat])
  /\ queue \in Seq(Seq(Message))
  /\ overrun \in BOOLEAN /\ events \in Nat
  /\ outcome \in [Calls -> {"none", "active", "ok", "failed", "thrown"}]
  /\ answer \in [Calls -> Answer]
  /\ listens \in [Calls -> BOOLEAN]
  /\ heard \in [Callbacks -> Seq(Message)]
  /\ configured \in Callbacks \cup {NoCallback} /\ disturbed \in BOOLEAN

Returned(c) == outcome[c] \in {"ok", "failed"}

\* The callback of a synchronous call is run only on replies to that call, and, once
\* addMembership has been called, on multicast events that come in between.
OwnRepliesOnly ==
  \A c \in Calls : \A i \in DOMAIN heard[CallCallback(c)] :
    \/ heard[CallCallback(c)][i].call = c
    \/ acceptAny /\ heard[CallCallback(c)][i].call = 0

\* No reply and no event is handed out twice, to one callback or to two.
HeardOnce ==
  \A cb1, cb2 \in Callbacks : \A i \in DOMAIN heard[cb1], j \in DOMAIN heard[cb2] :
    (heard[cb1][i].call = heard[cb2][j].call /\ heard[cb1][i].n = heard[cb2][j].n)
      => (cb1 = cb2 /\ i = j)

\* When sendMessageSync with a callback returns, the callback has seen every
\* reply the kernel sent to the request, in the order they were sent.
OwnReplies(c) == {i \in DOMAIN heard[CallCallback(c)] : heard[CallCallback(c)][i].call = c}
CompleteOnReturn ==
  \A c \in Calls : Returned(c) /\ listens[c] =>
    LET h == heard[CallCallback(c)]
    IN /\ {h[i].n : i \in OwnReplies(c)} = 1..answer[c].replies
       /\ \A i, j \in OwnReplies(c) : i < j => h[i].n < h[j].n

\* A call ends with a negative callStatus exactly when the kernel answered it with
\* an error, not because of what another call got.
StatusIsTheAnswer ==
  \A c \in Calls : Returned(c) => (outcome[c] = "failed" <=> answer[c].end \in ErrorEnds)

\* Between calls nothing of an earlier answer is queued or still to come, and the
\* sequence number expected next is the one the next request will carry.
NothingLeftBehind ==
  stack = <<>> => /\ serving = <<>>
                  /\ \A i \in DOMAIN queue : \A j \in DOMAIN queue[i] : queue[i][j].call = 0
                  /\ seqExpect = seqNext

\* Between calls the callback for valid messages is the one onValidMessage set, unless
\* an exception has skipped the second swap of sendMessageSync or a callback has called
\* onValidMessage.
HandlerRestored == ~disturbed /\ stack = <<>> => validCallback = configured

\* While a callback executes, the function object it lives in is the installed one:
\* nobody has replaced, moved or destroyed it under its feet, with the same exceptions.
RunningCallbackInPlace == ~disturbed /\ InCallback => Top.running = validCallback

\* sendMessageSync as a call of SyncCall: the replies and the verdict are the kernel's, and
\* the callback is told what it is run on, an event by a 0.
Promised(c) == [replies |-> answer[c].replies, fails |-> answer[c].end \in ErrorEnds]
Told(c) ==
  [i \in DOMAIN heard[CallCallback(c)] |->
     IF heard[CallCallback(c)][i].call = c THEN heard[CallCallback(c)][i].n ELSE 0]
Contract == INSTANCE SyncCall WITH promise <- [c \in Calls |-> Promised(c)],
                                   told <- [c \in Calls |-> Told(c)]

\* A call of sendMessageSync is one call of SyncCall: its own callback is told each
\* reply once and in order, it returns after the last one with its own verdict, no
\* two calls overlap, and it does return.
CallContract == Contract!FairSpec

\* sendMessageSync returns.
EveryCallReturns == \A c \in Calls : outcome[c] = "active" ~> outcome[c] # "active"
=============================================================================
