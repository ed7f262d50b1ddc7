--------------------------- MODULE NlSocketProofs ---------------------------
(***************************************************************************)
(* Theorems about NlSocket for every value of its constants:               *)
(*   - the type invariant;                                                 *)
(*   - the discipline of validCallback: until an exception skips a swap or *)
(*     a callback calls onValidMessage, the swaps of sendMessageSync nest, *)
(*     whatever the client, the kernel and the queue do;                   *)
(*   - a client that makes one call at a time: its answers and verdicts    *)
(*     are those of the call, none is left behind, none is missed, and a   *)
(*     call is, step by step, a call of SyncCall;                          *)
(*   - no reply and no event is ever handed out twice.                     *)
(***************************************************************************)
EXTENDS NlSocket, SequenceTheorems, TLAPS

-----------------------------------------------------------------------------
(* Sequences *)

\* The last element and the front of a sequence that is not empty.
LEMMA FrontLast ==
  ASSUME NEW S, NEW s \in Seq(S), s # <<>>
  PROVE  /\ Len(s) \in Nat \ {0} /\ Len(s) \in DOMAIN s
         /\ Last(s) = s[Len(s)] /\ Last(s) \in S
         /\ Front(s) \in Seq(S) /\ Len(Front(s)) = Len(s) - 1
         /\ \A i \in 1..(Len(s) - 1) : Front(s)[i] = s[i]
<1> DEFINE n == Len(s) - 1
<1>1. Len(s) \in Nat \ {0} /\ Len(s) \in DOMAIN s
  BY EmptySeq, LenProperties
<1>2. n \in Int /\ 1 \in Int
  BY <1>1
<1>3. \A i \in 1..n : s[i] \in S
  BY <1>1, ElementOfSeq
<1>4. Front(s) = SubSeq(s, 1, n)
  BY DEF Front
<1>5. Last(s) = s[Len(s)] /\ Last(s) \in S
  BY <1>1, ElementOfSeq DEF Last
<1> HIDE DEF n
<1>6. /\ SubSeq(s, 1, n) \in Seq(S)
      /\ Len(SubSeq(s, 1, n)) = IF 1 <= n THEN n - 1 + 1 ELSE 0
      /\ \A i \in 1..(n - 1 + 1) : SubSeq(s, 1, n)[i] = s[1 + i - 1]
  BY ONLY <1>2, <1>3, SubSeqProperties
<1>7. n - 1 + 1 = n /\ \A i \in 1..n : 1 + i - 1 = i
  BY <1>2
<1>8. n >= 0
  BY <1>1 DEF n
<1>9. Len(SubSeq(s, 1, n)) = n
  BY <1>2, <1>6, <1>7, <1>8
<1> QED
  BY <1>1, <1>4, <1>5, <1>6, <1>7, <1>9 DEF n

\* Replacing the last element.
LEMMA ReplaceLast ==
  ASSUME NEW S, NEW s \in Seq(S), s # <<>>, NEW e \in S,
         NEW t, t = [s EXCEPT ![Len(s)] = e]
  PROVE  /\ t \in Seq(S) /\ Len(t) = Len(s) /\ t # <<>>
         /\ t[Len(s)] = e
         /\ \A i \in 1..(Len(s) - 1) : t[i] = s[i]
<1>1. Len(s) \in Nat \ {0}
  BY EmptySeq
<1>2. Len(s) \in 1..Len(s)
  BY <1>1
<1>3. /\ [s EXCEPT ![Len(s)] = e] \in Seq(S)
      /\ Len([s EXCEPT ![Len(s)] = e]) = Len(s)
      /\ \A j \in 1..Len(s) : [s EXCEPT ![Len(s)] = e][j] = IF j = Len(s) THEN e ELSE s[j]
  BY ONLY <1>2, s \in Seq(S), e \in S, ExceptSeq
<1> DEFINE u == [s EXCEPT ![Len(s)] = e]
<1>4. u \in Seq(S) /\ Len(u) = Len(s) /\ u # <<>>
  BY <1>1, <1>3, EmptySeq
<1>5. u[Len(s)] = e
  <2> HIDE DEF u
  <2> QED BY <1>2, <1>3 DEF u
<1>6. ASSUME NEW i \in 1..(Len(s) - 1) PROVE u[i] = s[i]
  <2>1. i \in 1..Len(s) /\ i # Len(s)
    BY <1>1
  <2> QED
    BY <1>3, <2>1
<1> QED
  BY <1>4, <1>5, <1>6

\* Removing one element moves those after it up by one.
LEMMA RemoveAtElements ==
  ASSUME NEW S, NEW s \in Seq(S), NEW i \in DOMAIN s
  PROVE  /\ RemoveAt(s, i) \in Seq(S) /\ Len(RemoveAt(s, i)) = Len(s) - 1
         /\ \A j \in 1..(Len(s) - 1) : RemoveAt(s, i)[j] = IF j < i THEN s[j] ELSE s[j + 1]
<1> DEFINE a == SubSeq(s, 1, i - 1)
           b == SubSeq(s, i + 1, Len(s))
           m == i - 1
           k == i + 1
           n == Len(s)
<1>1. i \in 1..n /\ n \in Nat /\ DOMAIN s = 1..n /\ m \in Int /\ k \in Int /\ 1 \in Int
  BY LenProperties
<1>2. /\ \A j \in 1..m : s[j] \in S
      /\ \A j \in k..n : s[j] \in S
  BY <1>1, ElementOfSeq
<1>3. a \in Seq(S) /\ Len(a) = (IF 1 <= m THEN m - 1 + 1 ELSE 0)
      /\ \A j \in 1..(m - 1 + 1) : a[j] = s[1 + j - 1]
  <2> HIDE DEF m, k, n
  <2> QED BY ONLY <1>1, <1>2, SubSeqProperties DEF m
<1>4. b \in Seq(S) /\ Len(b) = (IF k <= n THEN n - k + 1 ELSE 0)
      /\ \A j \in 1..(n - k + 1) : b[j] = s[k + j - 1]
  BY <1>1, <1>2, SubSeqProperties
<1>5. Len(a) = i - 1 /\ Len(b) = n - i
  BY <1>1, <1>3, <1>4
<1>6. /\ \A j \in 1..Len(a) : a[j] = s[j]
      /\ \A j \in 1..Len(b) : b[j] = s[i + j]
  <2>1. ASSUME NEW j \in 1..Len(a) PROVE a[j] = s[j]
    <3>1. j \in 1..(m - 1 + 1) /\ 1 + j - 1 = j
      BY <1>1, <1>5
    <3> QED
      BY <1>3, <3>1
  <2>2. ASSUME NEW j \in 1..Len(b) PROVE b[j] = s[i + j]
    <3>1. j \in 1..(n - k + 1) /\ k + j - 1 = i + j
      BY <1>1, <1>5
    <3> QED
      BY <1>4, <3>1
  <2> QED
    BY <2>1, <2>2
<1> HIDE DEF a, b
<1>7. a \o b \in Seq(S) /\ Len(a \o b) = Len(a) + Len(b)
      /\ \A j \in 1..(Len(a) + Len(b)) :
           (a \o b)[j] = IF j <= Len(a) THEN a[j] ELSE b[j - Len(a)]
  BY ONLY <1>3, <1>4, ConcatProperties
<1>8. RemoveAt(s, i) = a \o b
  BY DEF RemoveAt, a, b
<1>9. Len(a) + Len(b) = n - 1
  BY <1>1, <1>5
<1>10. ASSUME NEW j \in 1..(n - 1)
       PROVE  (a \o b)[j] = IF j < i THEN s[j] ELSE s[j + 1]
  <2>1. (a \o b)[j] = IF j <= Len(a) THEN a[j] ELSE b[j - Len(a)]
    BY <1>7, <1>9
  <2>2. CASE j < i
    <3>1. j \in 1..Len(a) /\ j <= Len(a)
      BY <1>1, <1>5, <2>2
    <3> QED BY <1>6, <2>1, <2>2, <3>1
  <2>3. CASE ~(j < i)
    <3>1. j - Len(a) \in 1..Len(b) /\ i + (j - Len(a)) = j + 1 /\ ~(j <= Len(a))
      BY <1>1, <1>5, <2>3
    <3> QED BY <1>6, <2>1, <2>3, <3>1
  <2> QED BY <2>2, <2>3
<1> QED
  BY <1>7, <1>8, <1>9, <1>10

\* It keeps the others.
LEMMA RemoveAtKeeps ==
  ASSUME NEW S, NEW s \in Seq(S), NEW i \in DOMAIN s
  PROVE  /\ RemoveAt(s, i) \in Seq(S)
         /\ \A j \in DOMAIN RemoveAt(s, i) : \E k \in DOMAIN s : RemoveAt(s, i)[j] = s[k]
<1>1. Len(s) \in Nat /\ i \in 1..Len(s) /\ DOMAIN s = 1..Len(s)
  BY LenProperties
<1>2. DOMAIN RemoveAt(s, i) = 1..(Len(s) - 1)
  BY RemoveAtElements, LenProperties
<1>3. ASSUME NEW j \in DOMAIN RemoveAt(s, i)
      PROVE  \E k \in DOMAIN s : RemoveAt(s, i)[j] = s[k]
  <2>1. j \in 1..(Len(s) - 1) /\ j \in DOMAIN s /\ j + 1 \in DOMAIN s
    BY <1>1, <1>2
  <2> QED BY <2>1, RemoveAtElements
<1> QED BY <1>3, RemoveAtElements

-----------------------------------------------------------------------------
(* Type correctness *)

\* What the kernel still answers was really sent by a call that has begun.
ServedWasSent ==
  \A i \in DOMAIN serving : /\ outcome[serving[i].call] # "none"
                            /\ answer[serving[i].call].end # "lost"

TypeInv == TypeOK /\ ServedWasSent

\* The stack of activations under the operations on it.
LEMMA StackOperations ==
  ASSUME stack \in Seq(Frame), stack # <<>>
  PROVE  /\ Top \in Frame /\ Pop \in Seq(Frame) /\ RecvmsgsReturns \in Seq(Frame)
         /\ \A f \in Frame : SetTop(f) \in Seq(Frame)
<1>1. Top \in Frame /\ Pop \in Seq(Frame)
  BY FrontLast DEF Top, Pop
<1>2. ASSUME NEW f \in Frame PROVE SetTop(f) \in Seq(Frame)
  BY ReplaceLast DEF SetTop
<1>3. [Top EXCEPT !.pc = "loop", !.buf = <<>>, !.multi = FALSE] \in Frame
  BY <1>1, EmptySeq DEF Frame
<1> QED
  BY <1>1, <1>2, <1>3 DEF RecvmsgsReturns

\* The message parsed next, and the rest of the datagram.
LEMMA Parsed ==
  ASSUME stack \in Seq(Frame), Parsing
  PROVE  /\ stack # <<>> /\ Top \in Frame
         /\ Msg \in Message /\ Tail(Top.buf) \in Seq(Message)
<1>1. stack # <<>> /\ Top \in Frame
  BY StackOperations DEF Parsing
<1>2. Top.buf \in Seq(Message) /\ Top.buf # <<>>
  BY <1>1 DEF Frame, Parsing
<1> QED
  BY <1>1, <1>2, HeadTailProperties DEF Msg

\* Enqueue keeps the queue a sequence of datagrams.
LEMMA EnqueueType ==
  ASSUME queue \in Seq(Seq(Message)), overrun \in BOOLEAN, NEW m \in Message, Enqueue(m)
  PROVE  queue' \in Seq(Seq(Message)) /\ overrun' \in BOOLEAN
<1>1. <<m>> \in Seq(Message)
  OBVIOUS
<1>2. CASE queue' = Append(queue, <<m>>) /\ overrun' = overrun
  BY <1>1, <1>2
<1>3. CASE queue # <<>> /\ queue' = [queue EXCEPT ![Len(queue)] = Append(@, m)]
             /\ overrun' = overrun
  <2>1. Last(queue) \in Seq(Message) /\ Last(queue) = queue[Len(queue)]
    BY <1>3, FrontLast
  <2>2. Append(queue[Len(queue)], m) \in Seq(Message)
    BY <2>1
  <2>3. [queue EXCEPT ![Len(queue)] = Append(queue[Len(queue)], m)] \in Seq(Seq(Message))
    BY <1>3, <2>2, ReplaceLast
  <2> QED
    BY <1>3, <2>3
<1>4. CASE queue' = queue /\ overrun' = TRUE
  BY <1>4
<1> QED
  BY <1>2, <1>3, <1>4 DEF Enqueue, PartOfSameDump

LEMMA InitType == Init => TypeInv
<1> SUFFICES ASSUME Init PROVE TypeInv
  OBVIOUS
<1>1. NotSent \in Answer
  BY BoundsAreNat DEF NotSent, Answer
<1>2. /\ header \in [Messages -> Nat] /\ outcome \in [Calls -> {"none"}]
      /\ answer \in [Calls -> Answer] /\ listens \in [Calls -> BOOLEAN]
      /\ heard \in [Callbacks -> Seq(Message)]
  BY <1>1 DEF Init
<1>3. stack \in Seq(Frame) /\ queue \in Seq(Seq(Message))
      /\ serving \in Seq([call : Calls, seq : Nat, dump : BOOLEAN, sent : Nat])
      /\ DOMAIN serving = {}
  BY DEF Init
<1> QED
  BY <1>2, <1>3 DEF Init, TypeInv, TypeOK, ServedWasSent

LEMMA NextType == TypeInv /\ [Next]_vars => TypeInv'
<1> SUFFICES ASSUME TypeInv, [Next]_vars PROVE TypeInv'
  OBVIOUS
<1> USE DEF socketVars, seqVars, kernelVars, historyVars
<1> DEFINE Request == [call : Calls, seq : Nat, dump : BOOLEAN, sent : Nat]
<1>0. \A i \in DOMAIN serving : serving[i] \in Request /\ serving[i].call \in Calls
  <2>1. serving \in Seq(Request)
    BY DEF TypeInv, TypeOK
  <2>2. serving \in [1..Len(serving) -> Request]
    BY ONLY <2>1, LenProperties
  <2> QED
    BY <2>2
<1>1. CASE UNCHANGED vars
  BY <1>1 DEF TypeInv, TypeOK, ServedWasSent, vars
<1>2. ASSUME NEW c \in Calls, NEW m \in Messages, NEW dump \in BOOLEAN, NEW own \in BOOLEAN,
             NEW a \in AnswersTo(dump) \cup {NotSent}, SendMessageSync(c, m, dump, a, own)
      PROVE TypeInv'
  <2> DEFINE seq == IF header[m] = 0 THEN seqNext ELSE header[m]
             req == [call |-> c, seq |-> seq, dump |-> dump, sent |-> 0]
  <2>1. a \in Answer /\ (a # NotSent => a.end # "lost")
    BY BoundsAreNat DEF AnswersTo, Answer, NotSent, Refusal, EndTypes, ErrorEnds
  <2>2. seq \in Nat /\ req \in Request
    BY DEF TypeInv, TypeOK
  <2>3. header' \in [Messages -> Nat] /\ seqNext' \in Nat
    BY <1>2, <2>2 DEF SendMessageSync, TypeInv, TypeOK
  <2>4. serving' \in Seq(Request)
        /\ \A i \in DOMAIN serving' : \/ i \in DOMAIN serving /\ serving'[i] = serving[i]
                                      \/ serving'[i] = req /\ a # NotSent
    <3>1. serving \in Seq(Request)
      BY DEF TypeInv, TypeOK
    <3>2. CASE a = NotSent
      BY <1>2, <3>1, <3>2 DEF SendMessageSync
    <3>3. CASE a # NotSent
      <4>1. serving' = Append(serving, req)
        BY <1>2, <3>3 DEF SendMessageSync
      <4> HIDE DEF req, Request
      <4> QED
        BY <2>2, <3>1, <3>3, <4>1, AppendProperties, LenProperties
    <3> QED
      BY <3>2, <3>3
  <2>5. Activation("sync", c, own, "loop") \in Frame
    BY BoundsAreNat, EmptySeq DEF Activation, Frame, Calls, TypeInv, TypeOK
  <2>6. stack' \in Seq(Frame)
    BY <1>2, <2>5 DEF SendMessageSync, TypeInv, TypeOK
  <2>7. callStatus' \in CallStatus /\ validCallback' \in Callbacks \cup {NoCallback}
    BY <1>2 DEF SendMessageSync, TypeInv, TypeOK, CallStatus, Callbacks
  <2>8. /\ outcome' \in [Calls -> {"none", "active", "ok", "failed", "thrown"}]
        /\ answer' \in [Calls -> Answer] /\ listens' \in [Calls -> BOOLEAN]
    BY <1>2, <2>1 DEF SendMessageSync, TypeInv, TypeOK
  <2>9. ServedWasSent'
    <3> SUFFICES ASSUME NEW i \in DOMAIN serving'
                 PROVE outcome'[serving'[i].call] # "none"
                       /\ answer'[serving'[i].call].end # "lost"
      BY DEF ServedWasSent
    <3>1. CASE i \in DOMAIN serving /\ serving'[i] = serving[i]
      <4>1. serving[i].call \in Calls /\ serving[i].call # c
        BY <1>0, <1>2, <3>1 DEF SendMessageSync, IsNextCall, TypeInv, TypeOK, ServedWasSent
      <4> QED
        BY <1>2, <3>1, <4>1 DEF SendMessageSync, TypeInv, TypeOK, ServedWasSent
    <3>2. CASE serving'[i] = req /\ a # NotSent
      BY <1>2, <2>1, <3>2 DEF SendMessageSync, TypeInv, TypeOK
    <3> QED
      BY <2>4, <3>1, <3>2
  <2> QED
    BY <1>2, <2>3, <2>4, <2>6, <2>7, <2>8, <2>9 DEF SendMessageSync, TypeInv, TypeOK
<1>3. CASE SyncReturns
  <2>1. Top \in Frame /\ Pop \in Seq(Frame)
    BY <1>3, StackOperations DEF SyncReturns, TypeInv, TypeOK
  <2>2. validCallback' \in Callbacks \cup {NoCallback}
    BY <1>3, <2>1 DEF SyncReturns, TypeInv, TypeOK, Frame
  <2>3. outcome' \in [Calls -> {"none", "active", "ok", "failed", "thrown"}]
        /\ \A c \in Calls : outcome[c] # "none" => outcome'[c] # "none"
    BY <1>3 DEF SyncReturns, TypeInv, TypeOK
  <2> QED
    BY <1>0, <1>3, <2>1, <2>2, <2>3 DEF SyncReturns, TypeInv, TypeOK, ServedWasSent
<1>4. CASE ReceiveMessages
  <2>1. Activation("recv", 0, FALSE, "read") \in Frame
    BY BoundsAreNat, EmptySeq DEF Activation, Frame, TypeInv, TypeOK
  <2>2. stack' \in Seq(Frame)
    BY <1>4, <2>1, AppendProperties DEF ReceiveMessages, TypeInv, TypeOK
  <2> QED
    BY <1>4, <2>2 DEF ReceiveMessages, TypeInv, TypeOK, ServedWasSent
<1>5. ASSUME NEW h \in Handlers, OnValidMessage(h) PROVE TypeInv'
  BY <1>5 DEF OnValidMessage, TypeInv, TypeOK, ServedWasSent, Callbacks
<1>6. CASE AddMembership
  BY <1>6 DEF AddMembership, TypeInv, TypeOK, ServedWasSent
<1>7. CASE DropMembership
  BY <1>7 DEF DropMembership, TypeInv, TypeOK, ServedWasSent
<1>8. CASE CallbackReturns
  <2>1. Top \in Frame
    BY <1>8, StackOperations DEF CallbackReturns, InCallback, TypeInv, TypeOK
  <2>2. [Top EXCEPT !.pc = "parse", !.running = NoCallback] \in Frame
    BY <2>1 DEF Frame
  <2>3. stack' \in Seq(Frame)
    BY <1>8, <2>2, StackOperations DEF CallbackReturns, InCallback, TypeInv, TypeOK
  <2> QED
    BY <1>8, <2>3 DEF CallbackReturns, TypeInv, TypeOK, ServedWasSent
<1>9. CASE CallbackThrows
  <2>1. stack' \in Seq(Frame)
    BY <1>9, StackOperations DEF CallbackThrows, InCallback, TypeInv, TypeOK
  <2>2. outcome' \in [Calls -> {"none", "active", "ok", "failed", "thrown"}]
        /\ \A c \in Calls : outcome[c] # "none" => outcome'[c] # "none"
    BY <1>9 DEF CallbackThrows, TypeInv, TypeOK
  <2> QED
    BY <1>0, <1>9, <2>1, <2>2 DEF CallbackThrows, TypeInv, TypeOK, ServedWasSent
<1>10. CASE ReadDatagram
  <2>1. Top \in Frame /\ Head(queue) \in Seq(Message) /\ queue' \in Seq(Seq(Message))
    BY <1>10, StackOperations, HeadTailProperties DEF ReadDatagram, Reading, TypeInv, TypeOK
  <2>2. [Top EXCEPT !.pc = "parse", !.buf = Head(queue)] \in Frame
    BY <2>1 DEF Frame
  <2>3. stack' \in Seq(Frame)
    BY <1>10, <2>2, StackOperations DEF ReadDatagram, Reading, TypeInv, TypeOK
  <2> QED
    BY <1>10, <2>1, <2>3 DEF ReadDatagram, TypeInv, TypeOK, ServedWasSent
<1>11. CASE ReadFails
  BY <1>11, StackOperations DEF ReadFails, Reading, TypeInv, TypeOK, ServedWasSent
<1>12. CASE SequenceMismatch
  BY <1>12, StackOperations DEF SequenceMismatch, Parsing, TypeInv, TypeOK, ServedWasSent
<1>13. CASE ValidCallbackWrapper
  <2>1. stack # <<>> /\ Top \in Frame /\ Msg \in Message /\ Tail(Top.buf) \in Seq(Message)
    BY <1>13, Parsed DEF ValidCallbackWrapper, TypeInv, TypeOK
  <2> DEFINE next == [Top EXCEPT !.buf = Tail(@), !.multi = @ \/ Msg.multi]
  <2>2. Top.multi \in BOOLEAN /\ Msg.multi \in BOOLEAN
    BY <2>1 DEF Frame, Message
  <2>3. next \in Frame
    BY <2>1, <2>2 DEF Frame
  <2>4. CASE validCallback = NoCallback /\ stack' = SetTop(next) /\ heard' = heard
    <3>1. stack' \in Seq(Frame)
      BY <2>1, <2>3, <2>4, StackOperations DEF TypeInv, TypeOK
    <3> QED
      BY <1>13, <2>4, <3>1 DEF ValidCallbackWrapper, TypeInv, TypeOK, ServedWasSent
  <2>5. CASE /\ validCallback # NoCallback
             /\ stack' = SetTop([next EXCEPT !.pc = "callback", !.running = validCallback])
             /\ heard' = [heard EXCEPT ![validCallback] = Append(@, Msg)]
    <3>1. validCallback \in Callbacks
      BY <2>5 DEF TypeInv, TypeOK
    <3>2. [next EXCEPT !.pc = "callback", !.running = validCallback] \in Frame
      <4> HIDE DEF next
      <4> QED BY <2>3, <3>1 DEF Frame
    <3>3. stack' \in Seq(Frame)
      BY <2>1, <2>5, <3>2, StackOperations DEF TypeInv, TypeOK
    <3>4. heard' \in [Callbacks -> Seq(Message)]
      BY <2>1, <2>5, <3>1 DEF TypeInv, TypeOK
    <3> QED
      BY <1>13, <3>3, <3>4 DEF ValidCallbackWrapper, TypeInv, TypeOK, ServedWasSent
  <2> QED
    BY <1>13, <2>4, <2>5 DEF ValidCallbackWrapper
<1>14. CASE FinishCallbackWrapper
  <2>1. stack # <<>> /\ Top \in Frame /\ Tail(Top.buf) \in Seq(Message)
    BY <1>14, Parsed DEF FinishCallbackWrapper, TypeInv, TypeOK
  <2>2. [Top EXCEPT !.buf = Tail(@), !.multi = FALSE] \in Frame
    BY <2>1 DEF Frame
  <2>3. stack' \in Seq(Frame)
    BY <1>14, <2>1, <2>2, StackOperations DEF FinishCallbackWrapper, TypeInv, TypeOK
  <2> QED
    BY <1>14, <2>3 DEF FinishCallbackWrapper, TypeInv, TypeOK, ServedWasSent, CallStatus
<1>15. CASE AckCallbackWrapper
  <2>1. stack' \in Seq(Frame)
    BY <1>15, StackOperations DEF AckCallbackWrapper, Parsing, TypeInv, TypeOK
  <2> QED
    BY <1>15, <2>1 DEF AckCallbackWrapper, TypeInv, TypeOK, ServedWasSent, CallStatus
<1>16. CASE ErrorCallbackWrapper
  <2>1. stack' \in Seq(Frame)
    BY <1>16, StackOperations DEF ErrorCallbackWrapper, Parsing, TypeInv, TypeOK
  <2> QED
    BY <1>16, <2>1 DEF ErrorCallbackWrapper, TypeInv, TypeOK, ServedWasSent, CallStatus
<1>17. CASE EndOfDatagram
  <2>1. stack # <<>> /\ Top \in Frame /\ RecvmsgsReturns \in Seq(Frame)
    BY <1>17, StackOperations DEF EndOfDatagram, TypeInv, TypeOK
  <2>2. [Top EXCEPT !.pc = "read"] \in Frame
    BY <2>1 DEF Frame
  <2>3. stack' \in Seq(Frame)
    BY <1>17, <2>1, <2>2, StackOperations DEF EndOfDatagram, TypeInv, TypeOK
  <2> QED
    BY <1>17, <2>3 DEF EndOfDatagram, TypeInv, TypeOK, ServedWasSent
<1>18. ASSUME NEW i \in DOMAIN serving, KernelReplies(i) PROVE TypeInv'
  <2> DEFINE m == Valid(serving[i].call, serving[i].seq, serving[i].sent + 1, serving[i].dump)
  <2>1. serving[i] \in Request
    BY <1>0
  <2>2. m \in Message
    BY <2>1, BoundsAreNat DEF Valid, Message, Calls
  <2>3. queue' \in Seq(Seq(Message)) /\ overrun' \in BOOLEAN
    <3> HIDE DEF m
    <3>1. Enqueue(m)
      BY <1>18 DEF KernelReplies, m
    <3> QED BY <2>2, <3>1, EnqueueType DEF TypeInv, TypeOK
  <2>4. [serving[i] EXCEPT !.sent = @ + 1] \in Request
    BY <2>1
  <2>5. serving' = [serving EXCEPT ![i] = [serving[i] EXCEPT !.sent = @ + 1]]
    BY <1>18 DEF KernelReplies
  <2>6. serving' \in Seq(Request) /\ DOMAIN serving' = DOMAIN serving
        /\ \A j \in DOMAIN serving : serving'[j].call = serving[j].call
    <3> DEFINE r == [serving[i] EXCEPT !.sent = @ + 1]
    <3>1. serving \in Seq(Request)
      BY DEF TypeInv, TypeOK
    <3>2. r.call = serving[i].call
      BY <2>1
    <3>3. i \in 1..Len(serving)
      BY <3>1, LenProperties
    <3> HIDE DEF r, Request
    <3>4. serving' = [serving EXCEPT ![i] = r]
      BY <2>5 DEF r
    <3>5. r \in Request
      BY <2>4 DEF r
    <3>6. serving' \in Seq(Request) /\ Len(serving') = Len(serving)
      BY <3>1, <3>3, <3>4, <3>5, ExceptSeq
    <3>7. DOMAIN serving' = DOMAIN serving
      BY <3>4
    <3>8. \A j \in DOMAIN serving : serving'[j] = IF j = i THEN r ELSE serving[j]
      BY <3>4
    <3> QED BY <3>2, <3>6, <3>7, <3>8
  <2> QED
    BY <1>18, <2>3, <2>6 DEF KernelReplies, TypeInv, TypeOK, ServedWasSent
<1>19. ASSUME NEW i \in DOMAIN serving, KernelFinishes(i) PROVE TypeInv'
  <2> DEFINE m == Terminator(answer[serving[i].call].end, serving[i].call, serving[i].seq)
  <2>1. serving[i] \in Request
    BY <1>0
  <2>2. answer[serving[i].call].end \in EndTypes
    BY <2>1 DEF TypeInv, TypeOK, ServedWasSent, Answer
  <2>3. m \in Message
    BY <2>1, <2>2, BoundsAreNat DEF Terminator, Message, Calls
  <2>4. queue' \in Seq(Seq(Message)) /\ overrun' \in BOOLEAN
    <3> HIDE DEF m
    <3>1. Enqueue(m)
      BY <1>19 DEF KernelFinishes, m
    <3> QED BY <2>3, <3>1, EnqueueType DEF TypeInv, TypeOK
  <2>5. serving' \in Seq(Request)
        /\ \A j \in DOMAIN serving' : \E k \in DOMAIN serving : serving'[j] = serving[k]
    BY <1>19, RemoveAtKeeps DEF KernelFinishes, TypeInv, TypeOK
  <2> QED
    BY <1>19, <2>4, <2>5 DEF KernelFinishes, TypeInv, TypeOK, ServedWasSent
<1>20. CASE KernelMulticasts
  <2> DEFINE m == Valid(0, 0, events + 1, FALSE)
  <2>1. m \in Message
    BY BoundsAreNat DEF Valid, Message, TypeInv, TypeOK
  <2>2. queue' \in Seq(Seq(Message)) /\ overrun' \in BOOLEAN
    <3> HIDE DEF m
    <3>1. Enqueue(m)
      BY <1>20 DEF KernelMulticasts, m
    <3> QED BY <2>1, <3>1, EnqueueType DEF TypeInv, TypeOK
  <2> QED
    BY <1>20, <2>2 DEF KernelMulticasts, TypeInv, TypeOK, ServedWasSent
<1> QED
  BY <1>1, <1>2, <1>3, <1>4, <1>5, <1>6, <1>7, <1>8, <1>9, <1>10, <1>11, <1>12, <1>13,
     <1>14, <1>15, <1>16, <1>17, <1>18, <1>19, <1>20
     DEF Next, Client, Library, KernelAnswers

\* Every variable keeps its type, whatever the usage and the bounds.
THEOREM TypeCorrect == Spec => []TypeOK
<1>1. TypeInv => TypeOK
  BY DEF TypeInv
<1> QED
  BY <1>1, InitType, NextType, PTL DEF Spec

-----------------------------------------------------------------------------
(* The discipline of validCallback *)

\* The callback that is installed while the activation f is on top of the stack.
Installed(f) == IF f.swapped THEN CallCallback(f.call) ELSE f.saved

\* Each activation found installed what the one below it had installed, the first
\* one what onValidMessage set; a callback runs only while it is installed.
BottomFoundConfigured == IF stack = <<>> THEN validCallback = configured
                         ELSE stack[1].saved = configured
TopIsInstalled == stack # <<>> => validCallback = Installed(Top)
SwapsNest == \A i \in 1..(Len(stack) - 1) : stack[i + 1].saved = Installed(stack[i])
RunsInstalled == \A i \in DOMAIN stack :
                   stack[i].pc = "callback" => stack[i].running = Installed(stack[i])
OnlySyncSwaps == \A i \in DOMAIN stack : stack[i].op = "recv" => ~stack[i].swapped

CallbackInv == BottomFoundConfigured /\ TopIsInstalled /\ SwapsNest /\ RunsInstalled
               /\ OnlySyncSwaps

\* The fields of an activation that decide what is installed.
SameSwap(f, g) == f.op = g.op /\ f.swapped = g.swapped /\ f.saved = g.saved /\ f.call = g.call

\* A new activation that saves what is installed keeps the discipline.
LEMMA PushKeeps ==
  ASSUME TypeInv, CallbackInv, NEW f \in Frame, stack' = Append(stack, f),
         f.saved = validCallback, validCallback' = Installed(f), configured' = configured,
         f.pc # "callback", f.op = "recv" => ~f.swapped
  PROVE  CallbackInv'
<1> DEFINE n == Len(stack)
<1>1. stack \in Seq(Frame) /\ n \in Nat /\ DOMAIN stack = 1..n
  BY LenProperties DEF TypeInv, TypeOK
<1>2. /\ stack' \in Seq(Frame) /\ stack' # <<>> /\ Len(stack') = n + 1
      /\ \A i \in 1..n : stack'[i] = stack[i]
      /\ stack'[n + 1] = f
      /\ DOMAIN stack' = 1..(n + 1)
  BY <1>1, AppendProperties, LenProperties
<1>3. Top' = f
  BY <1>2 DEF Top, Last
<1>4. stack # <<>> => n \in 1..n /\ Top = stack[n]
  BY <1>1, FrontLast DEF Top
<1>5. stack = <<>> => n = 0
  OBVIOUS
<1>6. TopIsInstalled'
  BY <1>3 DEF TopIsInstalled, Installed
<1>7. BottomFoundConfigured'
  <2>1. CASE stack = <<>>
    BY <1>2, <1>5, <2>1 DEF BottomFoundConfigured, CallbackInv
  <2>2. CASE stack # <<>>
    <3>1. stack'[1] = stack[1]
      BY <1>1, <1>2, <1>4, <2>2
    <3> QED
      BY <1>2, <2>2, <3>1 DEF BottomFoundConfigured, CallbackInv
  <2> QED
    BY <2>1, <2>2
<1>8. SwapsNest'
  <2> SUFFICES ASSUME NEW i \in 1..n PROVE stack'[i + 1].saved = Installed(stack'[i])
    BY <1>1, <1>2 DEF SwapsNest, Installed
  <2>1. CASE i = n
    BY <1>1, <1>2, <1>4, <1>5, <2>1 DEF CallbackInv, TopIsInstalled
  <2>2. CASE i # n
    <3>1. i \in 1..(n - 1) /\ i + 1 \in 1..n
      <4> HIDE DEF n
      <4> QED BY <1>1, <2>2
    <3> QED
      BY <1>2, <3>1 DEF CallbackInv, SwapsNest
  <2> QED
    BY <2>1, <2>2
<1>9. /\ RunsInstalled' /\ OnlySyncSwaps'
  <2> SUFFICES ASSUME NEW i \in 1..(n + 1)
               PROVE /\ stack'[i].pc = "callback" => stack'[i].running = Installed(stack'[i])
                     /\ stack'[i].op = "recv" => ~stack'[i].swapped
    BY <1>2 DEF RunsInstalled, OnlySyncSwaps, Installed
  <2>1. CASE i = n + 1
    BY <1>2, <2>1
  <2>2. CASE i # n + 1
    <3>1. i \in 1..n
      BY <1>1, <2>2
    <3> QED
      BY <1>1, <1>2, <3>1 DEF CallbackInv, RunsInstalled, OnlySyncSwaps
  <2> QED
    BY <2>1, <2>2
<1> QED
  BY <1>6, <1>7, <1>8, <1>9 DEF CallbackInv

\* Changing the top activation without changing what it swapped keeps the discipline.
LEMMA SetTopKeeps ==
  ASSUME TypeInv, CallbackInv, stack # <<>>, NEW f \in Frame, stack' = SetTop(f),
         SameSwap(f, Top), f.pc = "callback" => f.running = Installed(f),
         validCallback' = validCallback, configured' = configured
  PROVE  CallbackInv'
<1> DEFINE n == Len(stack)
<1>1. /\ stack \in Seq(Frame) /\ n \in Nat \ {0} /\ DOMAIN stack = 1..n
      /\ Top = stack[n]
  BY FrontLast, LenProperties DEF TypeInv, TypeOK, Top
<1>2. /\ stack' \in Seq(Frame) /\ stack' # <<>> /\ Len(stack') = n
      /\ \A i \in 1..(n - 1) : stack'[i] = stack[i]
      /\ stack'[n] = f
  <2>1. stack' = [stack EXCEPT ![Len(stack)] = f]
    BY DEF SetTop
  <2>2. stack' \in Seq(Frame) /\ stack' # <<>> /\ Len(stack') = Len(stack)
    BY <1>1, <2>1, ReplaceLast
  <2>3. stack'[Len(stack)] = f
    BY <1>1, <2>1, ReplaceLast
  <2>4. ASSUME NEW i \in 1..(n - 1) PROVE stack'[i] = stack[i]
    <3>1. i \in 1..n /\ i # n
      <4> HIDE DEF n
      <4> QED BY <1>1
    <3> QED
      BY <1>1, <2>1, <3>1
  <2> QED
    BY <2>2, <2>3, <2>4
<1>3. Top' = f /\ DOMAIN stack' = 1..n
  BY <1>2, LenProperties DEF Top, Last
<1>4. Installed(f) = Installed(stack[n]) /\ f.saved = stack[n].saved
      /\ f.op = stack[n].op /\ f.swapped = stack[n].swapped
  BY <1>1 DEF SameSwap, Installed
<1> HIDE DEF n
<1>5. \A i \in 1..n : i = n \/ i \in 1..(n - 1)
  BY <1>1
<1>6. \A i \in 1..n : /\ Installed(stack'[i]) = Installed(stack[i])
                      /\ stack'[i].saved = stack[i].saved
                      /\ stack'[i].op = stack[i].op
                      /\ stack'[i].swapped = stack[i].swapped
  BY <1>2, <1>4, <1>5
<1>7. TopIsInstalled' /\ BottomFoundConfigured'
  <2>1. 1 \in 1..n
    BY <1>1
  <2> QED
    BY <1>1, <1>2, <1>3, <1>4, <1>6, <2>1
       DEF CallbackInv, TopIsInstalled, BottomFoundConfigured, Installed
<1>8. SwapsNest'
  <2> SUFFICES ASSUME NEW i \in 1..(n - 1) PROVE stack'[i + 1].saved = Installed(stack'[i])
    BY <1>2 DEF SwapsNest, Installed
  <2>1. i \in 1..n /\ i + 1 \in 1..n
    BY <1>1
  <2>2. stack[i + 1].saved = Installed(stack[i])
    BY DEF CallbackInv, SwapsNest, n
  <2> QED
    BY <1>6, <2>1, <2>2
<1>9. RunsInstalled' /\ OnlySyncSwaps'
  <2> SUFFICES ASSUME NEW i \in 1..n
               PROVE /\ stack'[i].pc = "callback" => stack'[i].running = Installed(stack'[i])
                     /\ stack'[i].op = "recv" => ~stack'[i].swapped
    BY <1>3 DEF RunsInstalled, OnlySyncSwaps, Installed
  <2>1. CASE i = n
    BY <1>1, <1>2, <1>6, <2>1 DEF CallbackInv, OnlySyncSwaps
  <2>2. CASE i \in 1..(n - 1)
    BY <1>1, <1>2, <2>2 DEF CallbackInv, RunsInstalled, OnlySyncSwaps
  <2> QED
    BY <1>5, <2>1, <2>2
<1> QED
  BY <1>7, <1>8, <1>9 DEF CallbackInv

\* An activation that leaves installed what it had found keeps the discipline.
LEMMA PopKeeps ==
  ASSUME TypeInv, CallbackInv, stack # <<>>, stack' = Pop,
         validCallback' = Top.saved, configured' = configured
  PROVE  CallbackInv'
<1> DEFINE n == Len(stack)
<1>1. /\ stack \in Seq(Frame) /\ n \in Nat \ {0} /\ DOMAIN stack = 1..n
      /\ Top = stack[n]
  BY FrontLast, LenProperties DEF TypeInv, TypeOK, Top
<1>2. /\ stack' \in Seq(Frame) /\ Len(stack') = n - 1
      /\ \A i \in 1..(n - 1) : stack'[i] = stack[i]
  BY <1>1, FrontLast DEF Pop
<1>3. DOMAIN stack' = 1..(n - 1)
  BY <1>2, LenProperties
<1>4. stack' # <<>> => n - 1 \in Nat \ {0} /\ Top' = stack'[n - 1]
  BY <1>2, EmptySeq DEF Top, Last
<1>5. stack' = <<>> => n = 1
  <2>1. stack' = <<>> => Len(stack') = 0
    BY EmptySeq
  <2> HIDE DEF n
  <2> QED
    BY <1>1, <1>2, <2>1
<1>6. TopIsInstalled' /\ BottomFoundConfigured'
  <2>1. CASE stack' = <<>>
    BY <1>1, <1>5, <2>1 DEF CallbackInv, TopIsInstalled, BottomFoundConfigured
  <2>2. CASE stack' # <<>>
    <3> HIDE DEF n
    <3>1. 1 \in 1..(n - 1) /\ n - 1 \in 1..(n - 1) /\ (n - 1) + 1 = n
      BY <1>1, <1>4, <2>2
    <3>2. stack[(n - 1) + 1].saved = Installed(stack[n - 1])
      BY <3>1 DEF CallbackInv, SwapsNest, n
    <3>3. Top' = stack[n - 1] /\ stack'[1] = stack[1]
      BY <1>2, <1>4, <2>2, <3>1
    <3>4. validCallback' = Installed(stack[n - 1])
      BY <1>1, <3>1, <3>2
    <3> QED
      BY <2>2, <3>3, <3>4 DEF CallbackInv, TopIsInstalled, BottomFoundConfigured, Installed
  <2> QED
    BY <2>1, <2>2
<1>7. SwapsNest'
  <2> SUFFICES ASSUME NEW i \in 1..(n - 1 - 1)
               PROVE stack'[i + 1].saved = Installed(stack'[i])
    BY <1>2 DEF SwapsNest, Installed
  <2>1. i \in 1..(n - 1) /\ i + 1 \in 1..(n - 1)
    <3> HIDE DEF n
    <3> QED BY <1>1
  <2>2. stack[i + 1].saved = Installed(stack[i])
    BY <2>1 DEF CallbackInv, SwapsNest
  <2> QED
    BY <1>2, <2>1, <2>2
<1>8. RunsInstalled' /\ OnlySyncSwaps'
  <2>1. \A i \in 1..(n - 1) : i \in DOMAIN stack
    <3> HIDE DEF n
    <3> QED BY <1>1
  <2> QED
    BY <1>2, <1>3, <2>1 DEF CallbackInv, RunsInstalled, OnlySyncSwaps, Installed
<1> QED
  BY <1>6, <1>7, <1>8 DEF CallbackInv

LEMMA InitCallback == Init => CallbackInv
  BY DEF Init, CallbackInv, BottomFoundConfigured, TopIsInstalled, SwapsNest, RunsInstalled,
         OnlySyncSwaps

\* nl_recvmsgs returning to sendMessageSync or out of receiveMessages.
LEMMA RecvmsgsReturnsKeeps ==
  ASSUME TypeInv, CallbackInv, stack # <<>>, stack' = RecvmsgsReturns,
         validCallback' = validCallback, configured' = configured
  PROVE  CallbackInv'
<1>1. Top \in Frame
  BY StackOperations DEF TypeInv, TypeOK
<1>2. CASE Top.op = "sync"
  <2> DEFINE f == [Top EXCEPT !.pc = "loop", !.buf = <<>>, !.multi = FALSE]
  <2>1. f \in Frame /\ SameSwap(f, Top) /\ f.pc # "callback"
    BY <1>1, EmptySeq DEF Frame, SameSwap
  <2>2. stack' = SetTop(f)
    BY <1>2 DEF RecvmsgsReturns
  <2> HIDE DEF f
  <2> QED
    BY <2>1, <2>2, SetTopKeeps
<1>3. CASE Top.op # "sync"
  <2>1. Len(stack) \in DOMAIN stack /\ Top = stack[Len(stack)]
    BY FrontLast DEF TypeInv, TypeOK, Top
  <2>2. Top.op = "recv"
    BY <1>1, <1>3 DEF Frame
  <2>3. ~Top.swapped
    BY <2>1, <2>2 DEF CallbackInv, OnlySyncSwaps
  <2>4. validCallback = Top.saved
    BY <2>3 DEF CallbackInv, TopIsInstalled, Installed
  <2> QED
    BY <1>3, <2>4, PopKeeps DEF RecvmsgsReturns
<1> QED
  BY <1>2, <1>3

LEMMA NextCallback ==
  ASSUME TypeInv, CallbackInv, [Next]_vars, ~disturbed' PROVE CallbackInv'
<1> USE DEF socketVars, historyVars
<1>1. CASE UNCHANGED <<stack, validCallback, configured>>
  BY <1>1 DEF CallbackInv, BottomFoundConfigured, TopIsInstalled, SwapsNest, RunsInstalled,
              OnlySyncSwaps, Top, Installed
<1>2. ASSUME NEW c \in Calls, NEW m \in Messages, NEW dump \in BOOLEAN, NEW own \in BOOLEAN,
             NEW a \in AnswersTo(dump) \cup {NotSent}, SendMessageSync(c, m, dump, a, own)
      PROVE CallbackInv'
  <2> DEFINE f == Activation("sync", c, own, "loop")
  <2>1. f \in Frame
    BY BoundsAreNat, EmptySeq DEF Activation, Frame, Calls, TypeInv, TypeOK
  <2>2. f.saved = validCallback /\ f.pc # "callback" /\ f.op # "recv"
    BY DEF Activation
  <2>3. validCallback' = Installed(f) /\ configured' = configured
    BY <1>2 DEF SendMessageSync, Activation, Installed
  <2>4. stack' = Append(stack, f)
    BY <1>2 DEF SendMessageSync
  <2> HIDE DEF f
  <2> QED
    BY <2>1, <2>2, <2>3, <2>4, PushKeeps
<1>3. CASE SyncReturns
  <2>1. validCallback' = Top.saved
    BY <1>3 DEF SyncReturns, CallbackInv, TopIsInstalled, Installed
  <2> QED
    BY <1>3, <2>1, PopKeeps DEF SyncReturns
<1>4. CASE ReceiveMessages
  <2> DEFINE f == Activation("recv", 0, FALSE, "read")
  <2>1. f \in Frame
    BY BoundsAreNat, EmptySeq DEF Activation, Frame, TypeInv, TypeOK
  <2>2. f.saved = validCallback /\ f.pc # "callback" /\ ~f.swapped
    BY DEF Activation
  <2>3. validCallback' = Installed(f) /\ configured' = configured
    BY <1>4, <2>2 DEF ReceiveMessages, Installed
  <2>4. stack' = Append(stack, f)
    BY <1>4 DEF ReceiveMessages
  <2> HIDE DEF f
  <2> QED
    BY <2>1, <2>2, <2>3, <2>4, PushKeeps
<1>5. ASSUME NEW h \in Handlers, OnValidMessage(h) PROVE CallbackInv'
  \* In a callback it disturbs, between calls it sets what is found.
  BY <1>5 DEF OnValidMessage, CallbackInv, BottomFoundConfigured, TopIsInstalled, SwapsNest,
              RunsInstalled, OnlySyncSwaps, Installed
<1>6. CASE CallbackReturns
  <2> DEFINE f == [Top EXCEPT !.pc = "parse", !.running = NoCallback]
  <2>1. stack # <<>> /\ Top \in Frame
    BY <1>6, StackOperations DEF CallbackReturns, InCallback, TypeInv, TypeOK
  <2>2. f \in Frame /\ SameSwap(f, Top) /\ f.pc # "callback"
    BY <2>1 DEF Frame, SameSwap
  <2>3. stack' = SetTop(f) /\ UNCHANGED <<validCallback, configured>>
    BY <1>6 DEF CallbackReturns
  <2> HIDE DEF f
  <2> QED
    BY <2>1, <2>2, <2>3, SetTopKeeps
<1>7. CASE CallbackThrows
  \* Only an activation that has swapped nothing may be left like this.
  <2>1. stack # <<>> /\ ~Top.swapped /\ stack' = Pop
        /\ UNCHANGED <<validCallback, configured>>
    BY <1>7 DEF CallbackThrows, InCallback
  <2>2. validCallback = Top.saved
    BY <2>1 DEF CallbackInv, TopIsInstalled, Installed
  <2> QED
    BY <2>1, <2>2, PopKeeps
<1>8. CASE ReadDatagram
  <2> DEFINE f == [Top EXCEPT !.pc = "parse", !.buf = Head(queue)]
  <2>1. stack # <<>> /\ Top \in Frame /\ Head(queue) \in Seq(Message)
    BY <1>8, StackOperations, HeadTailProperties DEF ReadDatagram, Reading, TypeInv, TypeOK
  <2>2. f \in Frame /\ SameSwap(f, Top) /\ f.pc # "callback"
    BY <2>1 DEF Frame, SameSwap
  <2>3. stack' = SetTop(f) /\ UNCHANGED <<validCallback, configured>>
    BY <1>8 DEF ReadDatagram
  <2> HIDE DEF f
  <2> QED
    BY <2>1, <2>2, <2>3, SetTopKeeps
<1>9. CASE ReadFails
  BY <1>9, RecvmsgsReturnsKeeps DEF ReadFails, Reading
<1>10. CASE SequenceMismatch
  BY <1>10, RecvmsgsReturnsKeeps DEF SequenceMismatch, Parsing
<1>11. CASE ValidCallbackWrapper
  <2> DEFINE f == [Top EXCEPT !.buf = Tail(@), !.multi = @ \/ Msg.multi]
             g == [f EXCEPT !.pc = "callback", !.running = validCallback]
  <2>1. stack # <<>> /\ Top \in Frame /\ Msg \in Message /\ Tail(Top.buf) \in Seq(Message)
    BY <1>11, Parsed DEF ValidCallbackWrapper, TypeInv, TypeOK
  <2>2. Top.multi \in BOOLEAN /\ Msg.multi \in BOOLEAN /\ Top.pc = "parse"
    BY <1>11, <2>1 DEF Frame, Message, ValidCallbackWrapper, Parsing
  <2>3. f \in Frame /\ SameSwap(f, Top) /\ f.pc # "callback"
    BY <2>1, <2>2 DEF Frame, SameSwap
  <2>4. g \in Frame /\ SameSwap(g, Top) /\ g.running = validCallback
    <3> HIDE DEF f
    <3> QED BY <2>3 DEF Frame, SameSwap, TypeInv, TypeOK
  <2>5. validCallback = Installed(Top)
    BY <2>1 DEF CallbackInv, TopIsInstalled
  <2>6. Installed(g) = Installed(Top)
    BY <2>4 DEF SameSwap, Installed
  <2>7. /\ stack' = SetTop(f) \/ stack' = SetTop(g)
        /\ UNCHANGED <<validCallback, configured>>
    BY <1>11 DEF ValidCallbackWrapper
  <2> HIDE DEF f, g
  <2> QED
    BY <2>1, <2>3, <2>4, <2>5, <2>6, <2>7, SetTopKeeps
<1>12. CASE FinishCallbackWrapper
  <2> DEFINE f == [Top EXCEPT !.buf = Tail(@), !.multi = FALSE]
  <2>1. stack # <<>> /\ Top \in Frame /\ Tail(Top.buf) \in Seq(Message)
    BY <1>12, Parsed DEF FinishCallbackWrapper, TypeInv, TypeOK
  <2>2. f \in Frame /\ SameSwap(f, Top) /\ f.pc # "callback"
    BY <1>12, <2>1 DEF Frame, SameSwap, FinishCallbackWrapper, Parsing
  <2>3. stack' = SetTop(f) /\ UNCHANGED <<validCallback, configured>>
    BY <1>12 DEF FinishCallbackWrapper
  <2> HIDE DEF f
  <2> QED
    BY <2>1, <2>2, <2>3, SetTopKeeps
<1>13. CASE AckCallbackWrapper
  BY <1>13, RecvmsgsReturnsKeeps DEF AckCallbackWrapper, Parsing
<1>14. CASE ErrorCallbackWrapper
  BY <1>14, RecvmsgsReturnsKeeps DEF ErrorCallbackWrapper, Parsing
<1>15. CASE EndOfDatagram
  <2> DEFINE f == [Top EXCEPT !.pc = "read"]
  <2>1. stack # <<>> /\ Top \in Frame
    BY <1>15, StackOperations DEF EndOfDatagram, TypeInv, TypeOK
  <2>2. f \in Frame /\ SameSwap(f, Top) /\ f.pc # "callback"
    BY <2>1 DEF Frame, SameSwap
  <2>3. /\ stack' = SetTop(f) \/ stack' = RecvmsgsReturns
        /\ UNCHANGED <<validCallback, configured>>
    BY <1>15 DEF EndOfDatagram
  <2> HIDE DEF f
  <2> QED
    BY <2>1, <2>2, <2>3, SetTopKeeps, RecvmsgsReturnsKeeps
<1>16. CASE AddMembership \/ DropMembership \/ KernelAnswers \/ KernelMulticasts
  BY <1>1, <1>16 DEF AddMembership, DropMembership, KernelAnswers, KernelReplies,
                     KernelFinishes, KernelMulticasts
<1> QED
  BY <1>1, <1>2, <1>3, <1>4, <1>5, <1>6, <1>7, <1>8, <1>9, <1>10, <1>11, <1>12, <1>13,
     <1>14, <1>15, <1>16 DEF Next, Client, Library, vars

\* The discipline lasts until an exception skips a swap or a callback calls onValidMessage.
LEMMA Disciplined == Spec => [](TypeInv /\ (~disturbed => CallbackInv))
<1> DEFINE Inv == TypeInv /\ (~disturbed => CallbackInv)
<1>1. Inv /\ [Next]_vars => Inv'
  <2> SUFFICES ASSUME Inv, [Next]_vars PROVE Inv'
    OBVIOUS
  <2>1. TypeInv'
    BY NextType
  <2>2. disturbed => disturbed'
    <3>1. CASE \/ \E h \in Handlers : OnValidMessage(h)
               \/ CallbackThrows
      BY <3>1, Zenon DEF OnValidMessage, CallbackThrows
    <3>2. CASE \E c \in Calls, m \in Messages, dump, own \in BOOLEAN :
                 \E a \in AnswersTo(dump) \cup {NotSent} : SendMessageSync(c, m, dump, a, own)
      BY <3>2 DEF SendMessageSync
    <3>3. CASE ReceiveMessages \/ AddMembership \/ DropMembership
      BY <3>3 DEF ReceiveMessages, AddMembership, DropMembership, historyVars
    <3>4. CASE Library
      BY <3>4 DEF Library, SyncReturns, CallbackReturns, ReadDatagram, ReadFails,
                  SequenceMismatch, ValidCallbackWrapper, FinishCallbackWrapper,
                  AckCallbackWrapper, ErrorCallbackWrapper, EndOfDatagram, historyVars
    <3>5. CASE KernelAnswers \/ KernelMulticasts
      BY <3>5 DEF KernelAnswers, KernelReplies, KernelFinishes, KernelMulticasts, historyVars
    <3>6. CASE UNCHANGED vars
      BY <3>6 DEF vars, historyVars
    <3> QED
      BY <3>1, <3>2, <3>3, <3>4, <3>5, <3>6 DEF Next, Client
  <2> QED
    BY <2>1, <2>2, NextCallback
<1>2. Init => Inv
  BY InitType, InitCallback
<1> QED
  BY <1>1, <1>2, PTL DEF Spec

\* Until then the callback set by onValidMessage is back whenever no call is running,
\* whatever the memberships, resends, nested calls, failed sends and lost messages.
THEOREM HandlerIsRestored == Spec => []HandlerRestored
<1>1. TypeInv /\ (~disturbed => CallbackInv) => HandlerRestored
  BY DEF CallbackInv, BottomFoundConfigured, HandlerRestored
<1> QED
  BY <1>1, Disciplined, PTL

\* Until then a callback runs only while it is the installed one, at any nesting depth.
THEOREM RunningCallbackStays == Spec => []RunningCallbackInPlace
<1>1. TypeInv /\ (~disturbed => CallbackInv) => RunningCallbackInPlace
  <2> SUFFICES ASSUME TypeInv, CallbackInv, InCallback PROVE Top.running = validCallback
    BY DEF RunningCallbackInPlace
  <2>1. Len(stack) \in DOMAIN stack /\ Top = stack[Len(stack)]
    BY FrontLast DEF InCallback, TypeInv, TypeOK, Top
  <2> QED
    BY <2>1 DEF InCallback, CallbackInv, RunsInstalled, TopIsInstalled
<1> QED
  BY <1>1, Disciplined, PTL

-----------------------------------------------------------------------------
(* What is on its way *)

\* The messages on their way to the callbacks: those left of the datagram being parsed,
\* which is number 0, and the queued ones.  A place is a datagram and a position in it.
Datagram(i) == IF i # 0 THEN queue[i] ELSE IF stack = <<>> THEN <<>> ELSE Top.buf
Pending == UNION {{i} \X DOMAIN Datagram(i) : i \in 0..Len(queue)}
At(p) == Datagram(p[1])[p[2]]
Earlier(p, q) == p[1] < q[1] \/ (p[1] = q[1] /\ p[2] < q[2])

IsCaller(c) == stack # <<>> /\ Top.op = "sync" /\ Top.call = c

\* One activation at a time, with nothing left to parse when it reads.
OneActivation ==
  /\ Len(stack) <= 1
  /\ stack # <<>> => /\ Top.pc = "loop" => Top.op = "sync"
                     /\ Top.pc \in {"loop", "read"} => Top.buf = <<>>
                     /\ Top.op = "sync" => Top.call \in Calls

\* The call that is active is the one that runs.
ActiveIsCaller == \A c \in Calls : outcome[c] = "active" <=> IsCaller(c)

\* The kernel answers only the call that waits.
ServesCaller ==
  /\ Len(serving) <= 1
  /\ \A i \in DOMAIN serving : /\ IsCaller(serving[i].call)
                               /\ serving[i].sent <= answer[serving[i].call].replies

\* What is on its way is for that call, or an event, which comes only after addMembership.
PendingIsCallers ==
  /\ member => acceptAny
  /\ \A p \in Pending : \/ At(p).call = 0 /\ At(p).type = "valid" /\ acceptAny
                        \/ At(p).call \in Calls /\ IsCaller(At(p).call)

\* What ends an answer is the answer's, and nothing of the answer follows it.
EndComesLast ==
  \A p \in Pending : At(p).type # "valid" =>
    /\ serving = <<>> /\ At(p).type = answer[At(p).call].end
    /\ \A q \in Pending : Earlier(p, q) => At(q).call = 0

\* A call that has its verdict has the whole answer, and the verdict is its own.
AnsweredIsOver ==
  \A c \in Calls : IsCaller(c) /\ callStatus <= 0 =>
    /\ serving = <<>> /\ \A p \in Pending : At(p).call = 0
    /\ callStatus = 0 <=> answer[c].end \notin ErrorEnds

\* A call's own callback is installed only during the call, and nobody puts it back.
OwnCallbackOnly ==
  /\ \A c \in Calls : validCallback = CallCallback(c) => IsCaller(c) /\ Top.swapped
  /\ stack # <<>> => \A c \in Calls : Top.saved # CallCallback(c)
  /\ \A c \in Calls : IsCaller(c) => (Top.swapped <=> listens[c])

\* The inductive invariant: one call at a time is answered, and its answer is its own.
OneCallInv ==
  /\ OneActivation /\ ActiveIsCaller /\ ServesCaller /\ PendingIsCallers /\ EndComesLast
  /\ AnsweredIsOver /\ OwnCallbackOnly /\ OwnRepliesOnly /\ StatusIsTheAnswer

\* The call that waits has sent a Message again, whose old number is not expected.
Waiting == callStatus > 0 /\ \E c \in Calls : IsCaller(c)
Refused == /\ acceptAny = FALSE /\ seqNext = seqExpect
           /\ \A p \in Pending : At(p).seq # seqExpect
           /\ \A i \in DOMAIN serving : serving[i].seq # seqExpect

\* The sequence number expected is that of the waiting call, or of the next one.
SeqFits ==
  /\ IF Waiting THEN seqNext = seqExpect + 1 \/ Refused ELSE seqNext = seqExpect
  /\ \A m \in Messages : header[m] < seqNext
  /\ "membership" \in Usage \/ acceptAny = FALSE

\* The replies the kernel has sent to call c; the pending ones among them.
Sent(c) == IF serving = <<>> THEN answer[c].replies ELSE serving[1].sent
Own(p, c) == At(p).call = c /\ At(p).type = "valid"

\* Each reply sent is heard or pending, the pending ones after those heard and in order.
Rising(c) ==
  \A p, q \in Pending : Own(p, c) /\ Own(q, c) /\ Earlier(p, q) => At(p).n < At(q).n
NoneMissing(c) ==
  \A n \in 1..Sent(c) : \/ \E i \in OwnReplies(c) : heard[CallCallback(c)][i].n = n
                        \/ \E p \in Pending : Own(p, c) /\ At(p).n = n
NoneTooMany(c) ==
  /\ \A i \in OwnReplies(c) : heard[CallCallback(c)][i].n \in 1..Sent(c)
  /\ \A p \in Pending : Own(p, c) =>
       /\ At(p).n \in 1..Sent(c)
       /\ \A i \in OwnReplies(c) : heard[CallCallback(c)][i].n < At(p).n
WholeAnswer(c) == Rising(c) /\ NoneMissing(c) /\ NoneTooMany(c)

\* What carries sequence number s is accepted.
Accepts(s) == acceptAny \/ s = seqExpect

\* The whole answer of the caller carries one sequence number, and unless it is refused
\* for that - then the call never ends - nothing of it is lost.
AnswerIsWhole(c) ==
  \E s \in Nat :
    /\ \A p \in Pending : At(p).call = c => At(p).seq = s
    /\ \A i \in DOMAIN serving : serving[i].seq = s
    /\ Accepts(s) /\ listens[c] => WholeAnswer(c)
    /\ ~Accepts(s) => callStatus > 0

\* What a callback has heard so far came in order.
HeardInOrder ==
  \A c \in Calls : \A i, j \in OwnReplies(c) :
    i < j => heard[CallCallback(c)][i].n < heard[CallCallback(c)][j].n

\* The inductive invariant: the answer of the call is never torn apart.
CompleteInv ==
  /\ \A c \in Calls : IsCaller(c) /\ listens[c] => validCallback = CallCallback(c)
  /\ \A c \in Calls : IsCaller(c) => AnswerIsWhole(c)
  /\ \A c \in Calls : ~listens[c] \/ outcome[c] = "none" => heard[CallCallback(c)] = <<>>
  /\ HeardInOrder /\ CompleteOnReturn

\* A step after which the messages at D are no longer on their way, and the others are,
\* in the same order.
Loses(D) ==
  \E g : /\ \A p \in Pending' : g[p] \in Pending \ D /\ At(p)' = At(g[p])
         /\ \A p, q \in Pending' : Earlier(p, q) => Earlier(g[p], g[q])
         /\ \A r \in Pending \ D : \E p \in Pending' : g[p] = r

\* A step that puts m behind all the others.
Gains(m) ==
  \E e : /\ Pending' = Pending \cup {e} /\ e \notin Pending /\ At(e)' = m
         /\ ~Earlier(e, e)
         /\ \A p \in Pending : At(p)' = At(p) /\ Earlier(p, e) /\ ~Earlier(e, p)

\* What is on its way, place by place.
PlacesAreThese ==
  /\ Datagram(0) \in Seq(Message)
  /\ \A p : p \in Pending <=> \E i \in 0..Len(queue) : \E j \in 1..Len(Datagram(i)) :
                                p = <<i, j>>
  /\ \A i \in 0..Len(queue) : Datagram(i) \in Seq(Message)
  /\ \A p \in Pending : At(p) \in Message

\* The places are positions in sequences of messages.
LEMMA PendingIs == TypeInv => PlacesAreThese
<1> SUFFICES ASSUME TypeInv PROVE PlacesAreThese
  OBVIOUS
<1>1. Datagram(0) \in Seq(Message)
  <2>1. stack # <<>> => Top \in Frame
    BY StackOperations DEF TypeInv, TypeOK
  <2> QED BY <2>1 DEF Frame, Datagram
<1>2. \A i \in 1..Len(queue) : Datagram(i) \in Seq(Message)
  BY DEF TypeInv, TypeOK, Datagram
<1>3. \A i \in 0..Len(queue) : Datagram(i) \in Seq(Message)
  <2>1. \A i \in 0..Len(queue) : i = 0 \/ i \in 1..Len(queue)
    BY DEF TypeInv, TypeOK
  <2> QED BY <1>1, <1>2, <2>1
<1>4. \A p : p \in Pending <=> \E i \in 0..Len(queue) : \E j \in 1..Len(Datagram(i)) :
                                 p = <<i, j>>
  BY <1>3, LenProperties DEF Pending
<1>5. \A p \in Pending : At(p) \in Message
  BY <1>3, <1>4 DEF At
<1> QED BY <1>1, <1>3, <1>4, <1>5 DEF PlacesAreThese

\* The same after a step.
LEMMA PendingWillBe == TypeInv' => PlacesAreThese'
  BY PendingIs, PTL

\* A datagram is taken from the queue for parsing.
LEMMA ReadLosesNothing ==
  ASSUME TypeInv, TypeInv', Datagram(0) = <<>>, queue # <<>>, queue' = Tail(queue),
         Datagram(0)' = Head(queue)
  PROVE  Loses({})
<1>1. /\ Len(queue') = Len(queue) - 1 /\ Len(queue) \in Nat \ {0}
      /\ \A i \in 1..Len(queue') : queue'[i] = queue[i + 1]
  BY EmptySeq, HeadTailProperties DEF TypeInv, TypeOK
<1>2. \A i \in 0..Len(queue') : Datagram(i)' = Datagram(i + 1) /\ i + 1 \in 0..Len(queue)
  <2>1. Datagram(0)' = Datagram(1)
    BY HeadTailProperties DEF Datagram, TypeInv, TypeOK
  <2>2. ASSUME NEW i \in 1..Len(queue') PROVE Datagram(i)' = Datagram(i + 1)
    BY <1>1, <2>2 DEF Datagram
  <2>3. \A i \in 0..Len(queue') : i + 1 \in 0..Len(queue) /\ (i = 0 \/ i \in 1..Len(queue'))
    BY <1>1
  <2> QED BY <2>1, <2>2, <2>3
<1>3. \A i \in 1..Len(queue) : i - 1 \in 0..Len(queue') /\ Datagram(i - 1)' = Datagram(i)
  BY <1>1, <1>2
<1>4. /\ \A p : p \in Pending <=> \E i \in 0..Len(queue) : \E j \in 1..Len(Datagram(i)) :
                                    p = <<i, j>>
      /\ \A p : p \in Pending' <=> \E i \in 0..Len(queue') : \E j \in 1..Len(Datagram(i)') :
                                    p = <<i, j>>
  BY PendingIs, PendingWillBe DEF PlacesAreThese
<1> DEFINE g == [p \in Pending' |-> <<p[1] + 1, p[2]>>]
<1>5. ASSUME NEW p \in Pending' PROVE g[p] \in Pending /\ At(p)' = At(g[p])
  BY <1>2, <1>4 DEF At
<1>6. ASSUME NEW p \in Pending', NEW q \in Pending', Earlier(p, q) PROVE Earlier(g[p], g[q])
  BY <1>4, <1>6 DEF Earlier
<1>7. ASSUME NEW r \in Pending PROVE \E p \in Pending' : g[p] = r
  <2>1. PICK i \in 0..Len(queue) : \E j \in 1..Len(Datagram(i)) : r = <<i, j>>
    BY <1>4
  <2>1a. PICK j \in 1..Len(Datagram(i)) : r = <<i, j>>
    BY <2>1
  <2>2. i \in 1..Len(queue)
    BY <2>1a, EmptySeq
  <2>3. <<i - 1, j>> \in Pending'
    BY <1>3, <1>4, <2>2
  <2>4. g[<<i - 1, j>>] = r
    BY <2>1a, <2>2, <2>3
  <2> QED BY <2>3, <2>4
<1> HIDE DEF g
<1> QED BY <1>5, <1>6, <1>7 DEF Loses

\* The message at the head of the datagram being parsed comes first.
LEMMA HeadIsFirst ==
  ASSUME TypeInv, Parsing
  PROVE  /\ <<0, 1>> \in Pending /\ At(<<0, 1>>) = Msg
         /\ \A p \in Pending : p # <<0, 1>> => Earlier(<<0, 1>>, p)
<1>1. Datagram(0) = Top.buf /\ Top.buf # <<>> /\ Top.buf \in Seq(Message)
  BY PendingIs, PendingWillBe DEF PlacesAreThese, Parsing, Datagram
<1>2. 1 \in 1..Len(Datagram(0)) /\ Datagram(0)[1] = Msg
  BY <1>1, EmptySeq DEF Msg
<1>3. 0 \in 0..Len(queue)
  BY DEF TypeInv, TypeOK
<1>4. <<0, 1>> \in Pending
  BY <1>2, <1>3, PendingIs, PendingWillBe DEF PlacesAreThese
<1>5. ASSUME NEW p \in Pending, p # <<0, 1>> PROVE Earlier(<<0, 1>>, p)
  <2>1. PICK i \in 0..Len(queue) : \E j \in 1..Len(Datagram(i)) : p = <<i, j>>
    BY PendingIs, PendingWillBe DEF PlacesAreThese
  <2>1a. PICK j \in 1..Len(Datagram(i)) : p = <<i, j>>
    BY <2>1
  <2> QED BY <1>5, <2>1a DEF Earlier
<1> QED BY <1>2, <1>4, <1>5 DEF At

\* A message is parsed.
LEMMA ParseLosesHead ==
  ASSUME TypeInv, TypeInv', Parsing, queue' = queue, Datagram(0)' = Tail(Top.buf)
  PROVE  Loses({<<0, 1>>})
<1> DEFINE b == Datagram(0)
<1>1. b = Top.buf /\ b # <<>> /\ b \in Seq(Message)
  BY PendingIs, PendingWillBe DEF PlacesAreThese, Parsing, Datagram
<1>2. /\ Len(Datagram(0)') = Len(b) - 1 /\ Len(b) \in Nat \ {0}
      /\ \A j \in 1..Len(Datagram(0)') : Datagram(0)'[j] = b[j + 1]
  BY <1>1, EmptySeq, HeadTailProperties
<1>3. \A i \in 1..Len(queue) : Datagram(i)' = Datagram(i)
  BY DEF Datagram
<1>4. /\ \A p : p \in Pending <=> \E i \in 0..Len(queue) : \E j \in 1..Len(Datagram(i)) :
                                    p = <<i, j>>
      /\ \A p : p \in Pending' <=> \E i \in 0..Len(queue') : \E j \in 1..Len(Datagram(i)') :
                                    p = <<i, j>>
      /\ \A i \in 1..Len(queue) : Datagram(i) \in Seq(Message)
      /\ Len(queue) \in Nat
  <2>1. \A i \in 1..Len(queue) : i \in 0..Len(queue)
    OBVIOUS
  <2>2. Len(queue) \in Nat
    BY DEF TypeInv, TypeOK
  <2> QED BY <2>1, <2>2, PendingIs, PendingWillBe DEF PlacesAreThese
<1> DEFINE g == [p \in Pending' |-> IF p[1] = 0 THEN <<0, p[2] + 1>> ELSE p]
<1> HIDE DEF b
<1>5. ASSUME NEW p \in Pending' PROVE g[p] \in Pending \ {<<0, 1>>} /\ At(p)' = At(g[p])
  <2>1. PICK i \in 0..Len(queue) : \E j \in 1..Len(Datagram(i)') : p = <<i, j>>
    BY <1>4
  <2>1a. PICK j \in 1..Len(Datagram(i)') : p = <<i, j>>
    BY <2>1
  <2>2. CASE i = 0
    <3>1. g[p] = <<0, j + 1>> /\ j \in Nat \ {0} /\ j + 1 \in 1..Len(b)
      BY <1>2, <2>1a, <2>2
    <3>2. <<0, j + 1>> \in Pending
      BY <1>4, <3>1 DEF b
    <3>3. At(p)' = Datagram(0)'[j] /\ At(g[p]) = b[j + 1]
      BY <2>1a, <2>2, <3>1 DEF At, b
    <3>4. Datagram(0)'[j] = b[j + 1]
      BY <1>2, <2>1a, <2>2
    <3> HIDE DEF g
    <3> QED BY <3>1, <3>2, <3>3, <3>4
  <2>3. CASE i # 0
    BY <1>3, <1>4, <2>1a, <2>3 DEF At
  <2> QED BY <2>2, <2>3
<1>6. ASSUME NEW p \in Pending', NEW q \in Pending', Earlier(p, q) PROVE Earlier(g[p], g[q])
  <2>1. PICK i \in 0..Len(queue) : \E j \in 1..Len(Datagram(i)') : p = <<i, j>>
    BY <1>4
  <2>1a. PICK j \in 1..Len(Datagram(i)') : p = <<i, j>>
    BY <2>1
  <2>2. PICK k \in 0..Len(queue) : \E l \in 1..Len(Datagram(k)') : q = <<k, l>>
    BY <1>4
  <2>2a. PICK l \in 1..Len(Datagram(k)') : q = <<k, l>>
    BY <2>2
  <2>3. j \in Int /\ l \in Int
    BY <2>1a, <2>2a
  <2> QED BY <1>6, <2>1a, <2>2a, <2>3 DEF Earlier
<1>7. ASSUME NEW r \in Pending \ {<<0, 1>>} PROVE \E p \in Pending' : g[p] = r
  <2>1. PICK i \in 0..Len(queue) : \E j \in 1..Len(Datagram(i)) : r = <<i, j>>
    BY <1>4
  <2>1a. PICK j \in 1..Len(Datagram(i)) : r = <<i, j>>
    BY <2>1
  <2>2. CASE i = 0
    <3>1. j - 1 \in 1..Len(Datagram(0)')
      BY <1>2, <1>7, <2>1a, <2>2 DEF b
    <3>2. <<0, j - 1>> \in Pending'
      BY <1>4, <3>1
    <3>3. g[<<0, j - 1>>] = r
      BY <2>1a, <2>2, <3>1, <3>2
    <3> QED BY <3>2, <3>3
  <2>3. CASE i # 0
    <3>1. r \in Pending' /\ r[1] # 0
      BY <1>3, <1>4, <2>1a, <2>3
    <3> QED BY <3>1
  <2> QED BY <2>2, <2>3
<1> HIDE DEF g
<1> QED BY <1>5, <1>6, <1>7 DEF Loses

\* The rest of the datagram being parsed is thrown away, if there is a rest.
LEMMA DropLosesRest ==
  ASSUME TypeInv, TypeInv', queue' = queue, Datagram(0)' = <<>>
  PROVE  Loses({p \in Pending : p[1] = 0})
<1>1. \A i \in 1..Len(queue) : Datagram(i)' = Datagram(i)
  BY DEF Datagram
<1>2. /\ \A p : p \in Pending <=> \E i \in 0..Len(queue) : \E j \in 1..Len(Datagram(i)) :
                                    p = <<i, j>>
      /\ \A p : p \in Pending' <=> \E i \in 0..Len(queue') : \E j \in 1..Len(Datagram(i)') :
                                    p = <<i, j>>
  BY PendingIs, PendingWillBe DEF PlacesAreThese
<1> DEFINE g == [p \in Pending' |-> p]
<1>3. ASSUME NEW p \in Pending' PROVE p \in Pending /\ p[1] # 0 /\ At(p)' = At(p)
  <2>1. PICK i \in 0..Len(queue) : \E j \in 1..Len(Datagram(i)') : p = <<i, j>>
    BY <1>2
  <2>2. i # 0
    BY <2>1, EmptySeq
  <2>3. i \in 1..Len(queue)
    BY <2>2 DEF TypeInv, TypeOK
  <2> QED BY <1>1, <1>2, <2>1, <2>3 DEF At
<1>4. ASSUME NEW p \in Pending, p[1] # 0 PROVE p \in Pending'
  <2>1. PICK i \in 0..Len(queue) : \E j \in 1..Len(Datagram(i)) : p = <<i, j>>
    BY <1>2
  <2>2. i \in 1..Len(queue)
    BY <1>4, <2>1 DEF TypeInv, TypeOK
  <2> QED BY <1>1, <1>2, <2>1, <2>2
<1>5. \A p \in Pending' : g[p] = p
  OBVIOUS
<1> HIDE DEF g
<1> QED BY <1>3, <1>4, <1>5 DEF Loses

\* Nothing moves.
LEMMA SameLosesNothing ==
  ASSUME TypeInv, TypeInv', queue' = queue, Datagram(0)' = Datagram(0)
  PROVE  Loses({})
<1>1. \A i \in 0..Len(queue) : Datagram(i)' = Datagram(i)
  BY DEF Datagram
<1>2. Pending' = Pending
  BY <1>1 DEF Pending
<1>3. \A p \in Pending : At(p)' = At(p)
  BY <1>1, PendingIs, PendingWillBe DEF PlacesAreThese, At
<1> DEFINE g == [p \in Pending |-> p]
<1>4. \A p \in Pending : g[p] = p
  OBVIOUS
<1> HIDE DEF g
<1> QED BY <1>2, <1>3, <1>4 DEF Loses

\* What the kernel sends goes behind all that is on its way, unless it is lost.
LEMMA SentGoesLast ==
  ASSUME TypeInv, TypeInv', NEW m \in Message, Enqueue(m), stack' = stack
  PROVE  Gains(m) \/ ("overrun" \in Usage /\ Loses({}))
<1>0. PICK n \in Nat : n = Len(queue)
  BY DEF TypeInv, TypeOK
<1>1. /\ \A p : p \in Pending <=> \E i \in 0..n : \E j \in 1..Len(Datagram(i)) : p = <<i, j>>
      /\ \A p : p \in Pending' <=> \E i \in 0..Len(queue') : \E j \in 1..Len(Datagram(i)') :
                                    p = <<i, j>>
      /\ \A i \in 0..n : Datagram(i) \in Seq(Message)
  BY <1>0, PendingIs, PendingWillBe DEF PlacesAreThese
<1>2. n \in Nat /\ \A i : i \in 0..(n + 1) <=> i = 0 \/ i \in 1..n \/ i = n + 1
  BY <1>0
<1>3. Datagram(0)' = Datagram(0) /\ \A i \in Nat \ {0} : /\ Datagram(i) = queue[i]
                                                        /\ Datagram(i)' = queue'[i]
  BY DEF Datagram, Top
<1>4. \A i : i \in 0..n <=> i = 0 \/ i \in 1..n
  BY <1>2
<1>5. CASE queue' = Append(queue, <<m>>)
  <2> DEFINE e == <<n + 1, 1>>
  <2>1. /\ Len(queue') = n + 1 /\ queue'[n + 1] = <<m>>
        /\ \A i \in 1..n : queue'[i] = queue[i]
    BY <1>0, <1>5, AppendProperties DEF TypeInv, TypeOK
  <2>2. Len(<<m>>) = 1 /\ <<m>>[1] = m
    OBVIOUS
  <2>3. n + 1 \in Nat \ {0} /\ \A i \in 1..n : i \in Nat \ {0}
    BY <1>2
  <2>4. /\ \A i \in 0..n : Datagram(i)' = Datagram(i)
        /\ Datagram(n + 1)' = <<m>>
    BY <1>2, <1>3, <1>4, <2>1, <2>3
  <2>5. \A p : p \in Pending' <=> p \in Pending \/ p = e
    <3>1. ASSUME NEW p \in Pending' PROVE p \in Pending \/ p = e
      <4>1. PICK i \in 0..(n + 1) : \E j \in 1..Len(Datagram(i)') : p = <<i, j>>
        BY <1>1, <2>1
      <4>2. CASE i = n + 1
        BY <2>2, <2>4, <4>1, <4>2
      <4>3. CASE i \in 0..n
        BY <1>1, <2>4, <4>1, <4>3
      <4> QED BY <1>2, <1>4, <4>1, <4>2, <4>3
    <3>2. e \in Pending'
      <4>1. n + 1 \in 0..(n + 1) /\ 1 \in 1..Len(Datagram(n + 1)')
        BY <1>2, <2>2, <2>4
      <4> QED BY <1>1, <2>1, <4>1
    <3>3. ASSUME NEW p \in Pending PROVE p \in Pending'
      <4>1. PICK i \in 0..n : \E j \in 1..Len(Datagram(i)) : p = <<i, j>>
        BY <1>1
      <4>2. i \in 0..(n + 1)
        BY <1>2
      <4> QED BY <1>1, <2>1, <2>4, <4>1, <4>2
    <3> QED BY <3>1, <3>2, <3>3
  <2>6. ASSUME NEW p \in Pending PROVE At(p)' = At(p) /\ Earlier(p, e) /\ ~Earlier(e, p)
    <3>1. PICK i \in 0..n : \E j \in 1..Len(Datagram(i)) : p = <<i, j>>
      BY <1>1
    <3> QED BY <1>2, <2>4, <3>1 DEF At, Earlier
  <2>7. e \notin Pending /\ ~Earlier(e, e)
    BY <1>1, <1>2 DEF Earlier
  <2>8. At(e)' = m
    BY <2>2, <2>4 DEF At
  <2> HIDE DEF e
  <2>9. Pending' = Pending \cup {e}
    BY <2>5
  <2> QED BY <2>6, <2>7, <2>8, <2>9 DEF Gains
<1>6. CASE queue # <<>> /\ queue' = [queue EXCEPT ![Len(queue)] = Append(@, m)]
  <2>0. PICK b : b = queue[n]
    OBVIOUS
  <2> DEFINE e == <<n, Len(b) + 1>>
  <2>1. n \in 1..n /\ n # 0 /\ n \in Nat \ {0} /\ b \in Seq(Message)
    BY <1>0, <1>6, <2>0, EmptySeq DEF TypeInv, TypeOK
  <2>2. Append(b, m) \in Seq(Message)
    BY <2>1, AppendProperties
  <2>3. /\ Len(queue') = n /\ queue'[n] = Append(b, m)
        /\ \A i \in 1..n : i # n => queue'[i] = queue[i]
    <3>1. queue \in Seq(Seq(Message))
      BY DEF TypeInv, TypeOK
    <3>2. queue' = [queue EXCEPT ![n] = Append(b, m)]
      BY <1>0, <1>6, <2>0
    <3> QED BY <1>0, <2>1, <2>2, <3>1, <3>2, ExceptSeq
  <2>4. /\ Len(Append(b, m)) = Len(b) + 1 /\ Append(b, m)[Len(b) + 1] = m
        /\ \A j \in 1..Len(b) : Append(b, m)[j] = b[j]
        /\ Len(b) \in Nat
    BY <2>1, AppendProperties
  <2>5. /\ \A i \in 0..n : i # n => Datagram(i)' = Datagram(i)
        /\ Datagram(n)' = Append(b, m) /\ Datagram(n) = b
    <3>1. \A i \in 1..n : i \in Nat \ {0}
      BY <1>2
    <3> QED BY <1>3, <1>4, <2>1, <2>3, <3>1, <2>0
  <2>6. \A j : j \in 1..(Len(b) + 1) <=> j \in 1..Len(b) \/ j = Len(b) + 1
    BY <2>4
  <2>7. \A p : p \in Pending' <=> p \in Pending \/ p = e
    <3>1. ASSUME NEW p \in Pending' PROVE p \in Pending \/ p = e
      <4>1. PICK i \in 0..n : \E j \in 1..Len(Datagram(i)') : p = <<i, j>>
        BY <1>1, <2>3
      <4>2. CASE i = n
        BY <1>1, <2>4, <2>5, <2>6, <4>1, <4>2
      <4>3. CASE i # n
        BY <1>1, <2>5, <4>1, <4>3
      <4> QED BY <4>2, <4>3
    <3>2. e \in Pending'
      <4>1. n \in 0..n /\ Len(b) + 1 \in 1..Len(Datagram(n)')
        BY <2>1, <2>4, <2>5
      <4> QED BY <1>1, <2>3, <4>1
    <3>3. ASSUME NEW p \in Pending PROVE p \in Pending'
      <4>1. PICK i \in 0..n : \E j \in 1..Len(Datagram(i)) : p = <<i, j>>
        BY <1>1
      <4>2. CASE i = n
        BY <1>1, <2>3, <2>4, <2>5, <2>6, <4>1, <4>2
      <4>3. CASE i # n
        BY <1>1, <2>3, <2>5, <4>1, <4>3
      <4> QED BY <4>2, <4>3
    <3> QED BY <3>1, <3>2, <3>3
  <2>8. e \notin Pending /\ ~Earlier(e, e)
    <3>1. Len(b) + 1 \notin 1..Len(b)
      BY <2>4
    <3> QED BY <1>1, <2>1, <2>4, <2>5, <3>1 DEF Earlier
  <2>9. At(e)' = m
    BY <2>4, <2>5 DEF At
  <2>10. ASSUME NEW p \in Pending PROVE At(p)' = At(p) /\ Earlier(p, e) /\ ~Earlier(e, p)
    <3>1. PICK i \in 0..n : \E j \in 1..Len(Datagram(i)) : p = <<i, j>>
      BY <1>1
    <3>2. PICK j \in 1..Len(Datagram(i)) : p = <<i, j>>
      BY <3>1
    <3>3. CASE i = n
      BY <2>1, <2>4, <2>5, <3>2, <3>3 DEF At, Earlier
    <3>4. CASE i # n
      BY <1>2, <2>1, <2>5, <3>2, <3>4 DEF At, Earlier
    <3> QED BY <3>3, <3>4
  <2> HIDE DEF e
  <2>11. Pending' = Pending \cup {e}
    BY <2>7
  <2> QED BY <2>8, <2>9, <2>10, <2>11 DEF Gains
<1>7. CASE "overrun" \in Usage /\ queue' = queue
  BY <1>3, <1>7, SameLosesNothing
<1> QED BY <1>5, <1>6, <1>7 DEF Enqueue, PartOfSameDump
-----------------------------------------------------------------------------
(* One call at a time *)

\* The client makes no call from a callback, and its callbacks do not throw.  Every theorem
\* below that needs it says so.
OneCallAtATime == {"nest", "throw"} \cap Usage = {}

\* The only activation is the whole stack.
LEMMA OneFrame ==
  ASSUME TypeInv, OneActivation, stack # <<>>
  PROVE  /\ stack = <<Top>> /\ Top \in Frame /\ Pop = <<>> /\ \A f : SetTop(f) = <<f>>
         /\ Datagram(0) = Top.buf
<1>0. stack \in Seq(Frame)
  BY DEF TypeInv, TypeOK
<1>1. Len(stack) \in Nat /\ Len(stack) # 0 /\ Len(stack) <= 1
  BY ONLY <1>0, stack # <<>>, OneActivation, EmptySeq, LenProperties DEF OneActivation
<1>2. Top = stack[1] /\ Top \in Frame /\ Len(Pop) = 0 /\ Pop \in Seq(Frame)
      /\ Len(stack) = 1
  <2>0. \A n \in Nat : n # 0 /\ n <= 1 => n = 1
    OBVIOUS
  <2>1. Len(stack) = 1
    BY <1>1, <2>0, Zenon
  <2> QED BY <1>0, <2>1, FrontLast DEF Top, Pop
<1>3. stack = <<Top>> /\ Pop = <<>>
  BY <1>0, <1>2, EmptySeq
<1>4. \A f : SetTop(f) = <<f>>
  BY <1>2, <1>3 DEF SetTop
<1> QED BY <1>2, <1>3, <1>4 DEF Datagram

\* The activation after a step that leaves one.
LEMMA TopWillBe == \A f : stack' = <<f>> => stack' # <<>> /\ Top' = f /\ Datagram(0)' = f.buf
  BY DEF Top, Last, Datagram

\* A step after which the same call, or none as before, is running; and one after which
\* the activation is the same one, if it has not ended.
KeepsCaller == \A c : IsCaller(c)' <=> IsCaller(c)
KeepsActivation == OneActivation' /\ (stack' # <<>> => stack # <<>> /\ SameSwap(Top', Top))

\* The activation goes on, and returns from nl_recvmsgs.
LEMMA SetTopKeepsCaller ==
  ASSUME TypeInv, OneActivation, stack # <<>>, NEW f \in Frame, stack' = SetTop(f),
         SameSwap(f, Top), f.pc = "loop" => f.op = "sync",
         f.pc \in {"loop", "read"} => f.buf = <<>>
  PROVE  KeepsCaller /\ KeepsActivation /\ Top' = f /\ stack' # <<>> /\ Datagram(0)' = f.buf
<1>1. stack' = <<f>>
  BY OneFrame
<1>2. Top' = f /\ stack' # <<>> /\ Datagram(0)' = f.buf
  BY <1>1, TopWillBe
<1>3. OneActivation'
  BY <1>1, <1>2 DEF OneActivation, SameSwap
<1> QED BY <1>2, <1>3 DEF KeepsCaller, KeepsActivation, SameSwap, IsCaller

\* sendMessageSync goes round its loop, or receiveMessages returns.
LEMMA RecvmsgsReturnsToCaller ==
  ASSUME TypeInv, OneActivation, stack # <<>>, stack' = RecvmsgsReturns
  PROVE  KeepsCaller /\ KeepsActivation /\ Datagram(0)' = <<>>
<1>1. CASE Top.op = "sync"
  <2> DEFINE f == [Top EXCEPT !.pc = "loop", !.buf = <<>>, !.multi = FALSE]
  <2>1. f \in Frame /\ SameSwap(f, Top) /\ f.pc = "loop" /\ f.buf = <<>> /\ f.op = "sync"
    BY <1>1, OneFrame, EmptySeq DEF Frame, SameSwap
  <2>2. stack' = SetTop(f)
    BY <1>1 DEF RecvmsgsReturns
  <2> HIDE DEF f
  <2> QED BY <1>1, <2>1, <2>2, SetTopKeepsCaller
<1>2. CASE Top.op # "sync"
  <2>1. stack' = <<>>
    BY <1>2, OneFrame DEF RecvmsgsReturns
  <2> QED BY <1>2, <2>1, EmptySeq
          DEF KeepsCaller, KeepsActivation, OneActivation, IsCaller, Datagram
<1> QED BY <1>1, <1>2

\* Steps that only lose messages change nothing between caller and kernel.
LEMMA LosingKeeps ==
  ASSUME TypeInv, TypeInv', OneCallInv, KeepsCaller, NEW D, Loses(D),
         UNCHANGED <<callStatus, serving, outcome, answer>>,
         acceptAny => acceptAny', member' => acceptAny'
  PROVE  /\ ActiveIsCaller' /\ ServesCaller' /\ PendingIsCallers' /\ EndComesLast'
         /\ AnsweredIsOver' /\ StatusIsTheAnswer'
<1>1. PICK g : /\ \A p \in Pending' : g[p] \in Pending /\ At(p)' = At(g[p])
               /\ \A p, q \in Pending' : Earlier(p, q) => Earlier(g[p], g[q])
  BY DEF Loses
<1>2. ActiveIsCaller' /\ ServesCaller' /\ StatusIsTheAnswer'
  BY DEF OneCallInv, KeepsCaller, ActiveIsCaller, ServesCaller, StatusIsTheAnswer, Returned
<1>3. PendingIsCallers'
  BY <1>1 DEF OneCallInv, KeepsCaller, PendingIsCallers
<1>4. EndComesLast'
  BY <1>1 DEF OneCallInv, EndComesLast
<1>5. AnsweredIsOver'
  BY <1>1 DEF OneCallInv, KeepsCaller, AnsweredIsOver
<1> QED BY <1>2, <1>3, <1>4, <1>5

\* The step that takes the end of an answer for the verdict.
LEMMA VerdictKeeps ==
  ASSUME TypeInv, TypeInv', OneCallInv, KeepsCaller, NEW D, Loses(D), Parsing, <<0, 1>> \in D,
         Msg.type # "valid", callStatus' <= 0, callStatus' = 0 <=> Msg.type \notin ErrorEnds,
         UNCHANGED <<serving, outcome, answer, acceptAny, member>>
  PROVE  /\ ActiveIsCaller' /\ ServesCaller' /\ PendingIsCallers' /\ EndComesLast'
         /\ AnsweredIsOver' /\ StatusIsTheAnswer'
<1>1. PICK g : /\ \A p \in Pending' : g[p] \in Pending \ D /\ At(p)' = At(g[p])
               /\ \A p, q \in Pending' : Earlier(p, q) => Earlier(g[p], g[q])
  BY DEF Loses
<1>2. ActiveIsCaller' /\ ServesCaller' /\ StatusIsTheAnswer'
  BY DEF OneCallInv, KeepsCaller, ActiveIsCaller, ServesCaller, StatusIsTheAnswer, Returned
<1>3. PendingIsCallers'
  BY <1>1 DEF OneCallInv, KeepsCaller, PendingIsCallers
<1>4. EndComesLast'
  BY <1>1 DEF OneCallInv, EndComesLast
<1>5. /\ serving = <<>> /\ IsCaller(Msg.call) /\ Msg.type = answer[Msg.call].end
      /\ \A p \in Pending : p # <<0, 1>> => At(p).call = 0
  BY HeadIsFirst DEF OneCallInv, PendingIsCallers, EndComesLast
<1>6. AnsweredIsOver'
  <2> SUFFICES ASSUME NEW c \in Calls, IsCaller(c)'
               PROVE  /\ serving' = <<>> /\ \A p \in Pending' : At(p)'.call = 0
                      /\ callStatus' = 0 <=> answer'[c].end \notin ErrorEnds
    BY DEF AnsweredIsOver
  <2>1. c = Msg.call
    BY <1>5 DEF KeepsCaller, IsCaller
  <2> QED BY <1>1, <1>5, <2>1
<1> QED BY <1>2, <1>3, <1>4, <1>6

\* A message is sent, by the caller's answer or as an event.
LEMMA SendingKeeps ==
  ASSUME TypeInv, TypeInv', OneCallInv, stack' = stack, NEW m \in Message,
         Gains(m) \/ \E D : Loses(D),
         UNCHANGED <<callStatus, outcome, answer, acceptAny, member>>,
         ServesCaller', serving' # <<>> => serving # <<>>,
         \/ m.call = 0 /\ m.type = "valid" /\ acceptAny /\ serving' = serving
         \/ m.call \in Calls /\ IsCaller(m.call) /\ serving # <<>>
            /\ (m.type # "valid" => serving' = <<>> /\ m.type = answer[m.call].end)
  PROVE  /\ ActiveIsCaller' /\ PendingIsCallers' /\ EndComesLast'
         /\ AnsweredIsOver' /\ StatusIsTheAnswer'
<1>1. \A c : IsCaller(c)' <=> IsCaller(c)
  BY DEF IsCaller, Top
<1>2. ActiveIsCaller' /\ StatusIsTheAnswer'
  BY <1>1 DEF OneCallInv, ActiveIsCaller, StatusIsTheAnswer, Returned
<1>3. \A p \in Pending' : \/ At(p)' = m
                          \/ \E r \in Pending : At(p)' = At(r)
  BY DEF Gains, Loses
<1>4. PendingIsCallers'
  BY <1>1, <1>3 DEF OneCallInv, PendingIsCallers
<1>5. serving # <<>> => \A p \in Pending : At(p).type = "valid"
  BY DEF OneCallInv, EndComesLast
<1>6. EndComesLast'
  <2>1. CASE Gains(m)
    <3>1. PICK e : /\ Pending' = Pending \cup {e} /\ e \notin Pending /\ At(e)' = m
                   /\ ~Earlier(e, e)
                   /\ \A p \in Pending : At(p)' = At(p) /\ Earlier(p, e) /\ ~Earlier(e, p)
      BY <2>1 DEF Gains
    <3>2. ASSUME NEW p \in Pending, At(p).type # "valid"
          PROVE  serving = <<>> /\ m.call = 0 /\ At(p).type = answer[At(p).call].end
                 /\ \A q \in Pending : Earlier(p, q) => At(q).call = 0
      BY <1>5, <3>2 DEF OneCallInv, EndComesLast
    <3>3. ASSUME NEW p \in Pending', At(p)'.type # "valid"
          PROVE  /\ serving' = <<>> /\ At(p)'.type = answer[At(p)'.call].end
                 /\ \A q \in Pending' : Earlier(p, q) => At(q)'.call = 0
      <4>1. CASE p = e
        BY <3>1, <3>3, <4>1
      <4>2. CASE p \in Pending
        BY <3>1, <3>2, <3>3, <4>2
      <4> QED BY <3>1, <4>1, <4>2
    <3> QED BY <3>3 DEF EndComesLast
  <2>2. ASSUME NEW D, Loses(D) PROVE EndComesLast'
    <3>1. PICK g : /\ \A p \in Pending' : g[p] \in Pending /\ At(p)' = At(g[p])
                   /\ \A p, q \in Pending' : Earlier(p, q) => Earlier(g[p], g[q])
      BY <2>2 DEF Loses
    <3> QED BY <3>1 DEF OneCallInv, EndComesLast
  <2> QED BY <2>1, <2>2
<1>7. AnsweredIsOver'
  BY <1>1, <1>3 DEF OneCallInv, AnsweredIsOver
<1> QED BY <1>2, <1>4, <1>6, <1>7

\* The invariant holds when the socket has been constructed.
LEMMA OneCallInit == Init /\ TypeInv => OneCallInv
<1> SUFFICES ASSUME Init, TypeInv PROVE OneCallInv
  OBVIOUS
<1>1. stack = <<>> /\ serving = <<>> /\ Len(queue) = 0 /\ Datagram(0) = <<>>
  BY DEF Init, Datagram
<1>2. Pending = {}
  BY <1>1, PendingIs DEF PlacesAreThese
<1>3. Len(stack) = 0 /\ Len(serving) = 0 /\ DOMAIN serving = {}
  BY <1>1
<1>4. OneActivation /\ ServesCaller /\ PendingIsCallers /\ EndComesLast
  BY <1>1, <1>2, <1>3 DEF Init, OneActivation, ServesCaller, PendingIsCallers, EndComesLast
<1>5. ActiveIsCaller /\ AnsweredIsOver
  BY <1>1 DEF Init, IsCaller, ActiveIsCaller, AnsweredIsOver
<1>6. OwnCallbackOnly /\ StatusIsTheAnswer
  BY <1>1 DEF Init, IsCaller, OwnCallbackOnly, CallCallback, NoCallback, StatusIsTheAnswer, Returned
<1>7. OwnRepliesOnly
  <2>1. \A c \in Calls : heard[CallCallback(c)] = <<>>
    BY DEF Init, Callbacks
  <2> QED BY <2>1 DEF OwnRepliesOnly
<1> QED BY <1>4, <1>5, <1>6, <1>7 DEF OneCallInv

\* The callback installed stays that of the call.
LEMMA SwapKeeps ==
  ASSUME OneCallInv, KeepsCaller, KeepsActivation, UNCHANGED <<validCallback, listens>>
  PROVE  OwnCallbackOnly'
  BY DEF OneCallInv, KeepsCaller, KeepsActivation, SameSwap, IsCaller, OwnCallbackOnly

\* Nobody runs while a call begins: all that is on its way are events.
LEMMA NobodyRuns ==
  ASSUME TypeInv, OneCallInv, stack = <<>>
  PROVE  /\ \A c : ~IsCaller(c)
         /\ serving = <<>>
         /\ \A p \in Pending : At(p).call = 0 /\ At(p).type = "valid" /\ acceptAny
         /\ Datagram(0) = <<>>
<1>1. \A c : ~IsCaller(c)
  BY DEF IsCaller
<1>2. DOMAIN serving = {} /\ serving \in Seq([call : Calls, seq : Nat, dump : BOOLEAN, sent : Nat])
  BY <1>1 DEF OneCallInv, ServesCaller, TypeInv, TypeOK
<1>3. serving = <<>>
  <2>1. serving # <<>> => 1 \in 1..Len(serving)
    BY <1>2, EmptySeq
  <2> QED BY <1>2, <2>1, LenProperties
<1> QED BY <1>1, <1>3 DEF OneCallInv, PendingIsCallers, Datagram

\* A call begins: none is running, all that is on its way are events.
LEMMA CallBegins ==
  ASSUME TypeInv, TypeInv', OneCallAtATime, OneCallInv,
         NEW c \in Calls, NEW m \in Messages, NEW dump \in BOOLEAN, NEW own \in BOOLEAN,
         NEW a \in AnswersTo(dump) \cup {NotSent}, SendMessageSync(c, m, dump, a, own)
  PROVE  /\ stack = <<>> /\ serving = <<>> /\ OneActivation'
         /\ stack' # <<>> /\ Top'.saved = validCallback /\ Top'.swapped = own
         /\ \A d : IsCaller(d)' <=> d = c
         /\ \A p \in Pending' : At(p)'.call = 0 /\ At(p)'.type = "valid" /\ acceptAny'
<1> DEFINE f == Activation("sync", c, own, "loop")
<1>1. /\ f.op = "sync" /\ f.call = c /\ f.pc = "loop" /\ f.buf = <<>>
      /\ f.saved = validCallback /\ f.swapped = own
  BY DEF Activation
<1>2. stack = <<>> /\ stack' = Append(stack, f)
  BY DEF SendMessageSync, ClientRuns, OneCallAtATime
<1> HIDE DEF f
<1>3. stack' = <<f>> /\ Top' = f /\ stack' # <<>> /\ Datagram(0)' = <<>>
  BY <1>1, <1>2, TopWillBe
<1>4. \A d : IsCaller(d)' <=> d = c
  BY <1>1, <1>3 DEF IsCaller
<1>5. queue' = queue /\ callStatus' = 1 /\ UNCHANGED <<acceptAny, member, heard>>
      /\ validCallback' = (IF own THEN CallCallback(c) ELSE validCallback)
      /\ outcome' = [outcome EXCEPT ![c] = "active"] /\ answer' = [answer EXCEPT ![c] = a]
      /\ listens' = [listens EXCEPT ![c] = own]
  BY DEF SendMessageSync
<1>6. Loses({})
  BY <1>3, <1>5, NobodyRuns, <1>2, SameLosesNothing
<1>7. \A p \in Pending' : At(p)'.call = 0 /\ At(p)'.type = "valid" /\ acceptAny'
  BY <1>2, <1>5, <1>6, NobodyRuns DEF Loses
<1>8. OneActivation'
  BY <1>1, <1>3 DEF OneActivation
<1> QED BY <1>1, <1>2, <1>3, <1>4, <1>7, <1>8, NobodyRuns

\* sendMessageSync begins with nothing on its way for any call.
LEMMA SendMessageSyncKeeps ==
  ASSUME TypeInv, TypeInv', OneCallAtATime, OneCallInv,
         NEW c \in Calls, NEW m \in Messages, NEW dump \in BOOLEAN, NEW own \in BOOLEAN,
         NEW a \in AnswersTo(dump) \cup {NotSent}, SendMessageSync(c, m, dump, a, own)
  PROVE  OneCallInv'
<1>1. /\ stack = <<>> /\ serving = <<>> /\ OneActivation'
      /\ stack' # <<>> /\ Top'.saved = validCallback /\ Top'.swapped = own
  BY CallBegins
<1>2. \A d : IsCaller(d)' <=> d = c
  BY CallBegins
<1>3. callStatus' = 1 /\ UNCHANGED <<acceptAny, member, heard>>
      /\ validCallback' = (IF own THEN CallCallback(c) ELSE validCallback)
      /\ outcome' = [outcome EXCEPT ![c] = "active"] /\ answer' = [answer EXCEPT ![c] = a]
      /\ listens' = [listens EXCEPT ![c] = own]
  BY DEF SendMessageSync
<1>4. \A p \in Pending' : At(p)'.call = 0 /\ At(p)'.type = "valid" /\ acceptAny'
  BY CallBegins
<1>5. ActiveIsCaller' /\ StatusIsTheAnswer'
  <2>1. \A d \in Calls : outcome[d] # "active"
    BY <1>1 DEF OneCallInv, ActiveIsCaller, IsCaller
  <2>2. \A d \in Calls : d # c => outcome'[d] = outcome[d] /\ answer'[d] = answer[d]
    BY <1>3 DEF TypeInv, TypeOK
  <2>3. outcome'[c] = "active"
    BY <1>3 DEF TypeInv, TypeOK
  <2> QED BY <1>2, <2>1, <2>2, <2>3 DEF ActiveIsCaller, OneCallInv, StatusIsTheAnswer, Returned
<1>6. ServesCaller'
  <2>2. PICK s : \/ serving' = <<>>
                 \/ serving' = <<s>> /\ s.call = c /\ s.sent = 0
    BY <1>1 DEF SendMessageSync
  <2>3. answer'[c].replies \in Nat
    BY BoundsAreNat DEF TypeInv, TypeOK, Answer
  <2>4. CASE serving' = <<>>
    BY <2>4 DEF ServesCaller
  <2>5. CASE serving' = <<s>> /\ s.call = c /\ s.sent = 0
    BY <1>2, <2>3, <2>5 DEF ServesCaller
  <2> QED BY <2>2, <2>4, <2>5
<1>7. PendingIsCallers' /\ EndComesLast' /\ AnsweredIsOver'
  BY <1>3, <1>4 DEF OneCallInv, PendingIsCallers, EndComesLast, AnsweredIsOver
<1>8. OwnCallbackOnly'
  <2>1. \A d \in Calls : validCallback # CallCallback(d)
    BY <1>1 DEF OneCallInv, OwnCallbackOnly, IsCaller
  <2>2. \A d \in Calls : CallCallback(d) = CallCallback(c) => d = c
    BY DEF CallCallback
  <2>3. listens'[c] = own
    BY <1>3 DEF TypeInv, TypeOK
  <2> QED BY <1>1, <1>2, <1>3, <2>1, <2>2, <2>3 DEF OwnCallbackOnly
<1>9. OwnRepliesOnly'
  BY <1>3 DEF OneCallInv, OwnRepliesOnly
<1> QED BY <1>1, <1>5, <1>6, <1>7, <1>8, <1>9 DEF OneCallInv

\* A call ends: it has its verdict, and nothing of its answer is left.
LEMMA CallEnds ==
  ASSUME TypeInv, TypeInv', OneCallInv, NEW c, c = Top.call, SyncReturns
  PROVE  /\ stack # <<>> /\ stack' = <<>> /\ c \in Calls /\ IsCaller(c) /\ serving = <<>>
         /\ \A p \in Pending : At(p).call = 0
         /\ \A p \in Pending' : \E r \in Pending : At(p)' = At(r)
         /\ callStatus <= 0 /\ (callStatus = 0 <=> answer[c].end \notin ErrorEnds)
<1>1. stack # <<>> /\ c \in Calls /\ IsCaller(c) /\ callStatus <= 0 /\ Datagram(0) = <<>>
  BY OneFrame DEF SyncReturns, OneCallInv, OneActivation, IsCaller
<1>2. stack' = <<>>
  BY OneFrame, <1>1 DEF SyncReturns, OneCallInv
<1>3. /\ serving = <<>> /\ \A p \in Pending : At(p).call = 0
      /\ callStatus = 0 <=> answer[c].end \notin ErrorEnds
  BY <1>1 DEF OneCallInv, AnsweredIsOver
<1>4. queue' = queue
  BY DEF SyncReturns, kernelVars
<1>5. Loses({})
  <2>1. Datagram(0)' = <<>>
    BY <1>2 DEF Datagram
  <2> QED BY <1>1, <1>4, <2>1, SameLosesNothing
<1>6. \A p \in Pending' : \E r \in Pending : At(p)' = At(r)
  BY <1>5 DEF Loses
<1> QED BY <1>1, <1>2, <1>3, <1>6

\* It returns with the status of its own answer, and leaves nothing on its way.
LEMMA SyncReturnsKeeps ==
  ASSUME TypeInv, TypeInv', OneCallInv, SyncReturns PROVE OneCallInv'
<1>1. PICK c : c = Top.call
  OBVIOUS
<1>2. stack # <<>> /\ stack' = <<>> /\ c \in Calls /\ IsCaller(c)
  BY <1>1, CallEnds
<1>3. /\ serving = <<>> /\ \A p \in Pending : At(p).call = 0
      /\ callStatus = 0 <=> answer[c].end \notin ErrorEnds
  BY <1>1, CallEnds
<1>4. /\ UNCHANGED <<serving, acceptAny, member, heard, answer, listens, callStatus>>
      /\ outcome' = [outcome EXCEPT ![c] = IF callStatus = 0 THEN "ok" ELSE "failed"]
      /\ validCallback' = IF Top.swapped THEN Top.saved ELSE validCallback
  BY <1>1 DEF SyncReturns, kernelVars
<1>5. \A d : IsCaller(d) => d = c
  BY <1>1 DEF IsCaller
<1>6. \A d : ~IsCaller(d)'
  BY <1>2 DEF IsCaller
<1>7. \A p \in Pending' : \E r \in Pending : At(p)' = At(r)
  BY CallEnds
<1>8. OneActivation' /\ ServesCaller'
  BY <1>2, <1>3, <1>4 DEF OneActivation, ServesCaller
<1>9. ActiveIsCaller' /\ StatusIsTheAnswer'
  <2>1. \A d \in Calls : d # c => outcome'[d] = outcome[d]
    BY <1>4 DEF TypeInv, TypeOK
  <2>2. outcome'[c] = IF callStatus = 0 THEN "ok" ELSE "failed"
    BY <1>2, <1>4 DEF TypeInv, TypeOK
  <2>3. ActiveIsCaller'
    BY <1>5, <1>6, <2>1, <2>2 DEF OneCallInv, ActiveIsCaller
  <2>4. StatusIsTheAnswer'
    BY <1>2, <1>3, <1>4, <2>1, <2>2 DEF OneCallInv, StatusIsTheAnswer, Returned
  <2> QED BY <2>3, <2>4
<1>10. PendingIsCallers' /\ EndComesLast' /\ AnsweredIsOver'
  <2>1. \A p \in Pending : At(p).type = "valid" /\ acceptAny
    BY <1>3 DEF OneCallInv, PendingIsCallers, Calls
  <2> QED BY <1>3, <1>4, <1>6, <1>7, <2>1
          DEF OneCallInv, PendingIsCallers, EndComesLast, AnsweredIsOver
<1>11. OwnCallbackOnly'
  <2>1. \A d \in Calls : validCallback' # CallCallback(d)
    <3>1. /\ \A d \in Calls : validCallback = CallCallback(d) => Top.swapped
          /\ \A d \in Calls : Top.saved # CallCallback(d)
      BY <1>2 DEF OneCallInv, OwnCallbackOnly
    <3>2. CASE Top.swapped
      BY <1>4, <3>1, <3>2
    <3>3. CASE ~Top.swapped
      BY <1>4, <3>1, <3>3
    <3> QED BY <3>2, <3>3
  <2> QED BY <1>2, <1>6, <2>1 DEF OwnCallbackOnly
<1>12. OwnRepliesOnly'
  BY <1>4 DEF OneCallInv, OwnRepliesOnly
<1> QED BY <1>8, <1>9, <1>10, <1>11, <1>12 DEF OneCallInv

\* receiveMessages begins when no call is active.
LEMMA ReceiveMessagesKeeps ==
  ASSUME TypeInv, TypeInv', OneCallAtATime, OneCallInv, ReceiveMessages PROVE OneCallInv'
<1> DEFINE f == Activation("recv", 0, FALSE, "read")
<1>1. f.op = "recv" /\ f.pc = "read" /\ f.buf = <<>> /\ f.saved = validCallback
  BY DEF Activation
<1>2. stack = <<>> /\ stack' = Append(stack, f)
  BY DEF ReceiveMessages, ClientRuns, OneCallAtATime
<1> HIDE DEF f
<1>3. stack' = <<f>> /\ Top' = f /\ stack' # <<>> /\ Datagram(0)' = <<>>
  BY <1>1, <1>2, TopWillBe
<1>4. UNCHANGED <<callStatus, validCallback, acceptAny, member, serving, queue, outcome, answer,
                  listens, heard>>
  BY DEF ReceiveMessages, socketVars, kernelVars, historyVars
<1>5. \A c : ~IsCaller(c) /\ ~IsCaller(c)'
  BY <1>1, <1>2, <1>3 DEF IsCaller
<1>6. Loses({})
  BY <1>2, <1>3, <1>4, NobodyRuns, SameLosesNothing
<1>7. OneActivation'
  BY <1>1, <1>3 DEF OneActivation
<1>8. OwnCallbackOnly'
  BY <1>1, <1>3, <1>4, <1>5 DEF OneCallInv, OwnCallbackOnly
<1>9. OwnRepliesOnly'
  BY <1>4 DEF OneCallInv, OwnRepliesOnly
<1>10. member' => acceptAny'
  BY <1>4 DEF OneCallInv, PendingIsCallers
<1> QED BY <1>4, <1>5, <1>6, <1>7, <1>8, <1>9, <1>10, LosingKeeps DEF OneCallInv, KeepsCaller

\* The client's other calls: in a callback they find the callback of the call installed,
\* which onValidMessage replaces.
LEMMA ClientCallsKeep ==
  ASSUME TypeInv, TypeInv', OneCallInv,
         AddMembership \/ DropMembership \/ \E h \in Handlers : OnValidMessage(h)
  PROVE  OneCallInv'
<1>1. /\ UNCHANGED <<stack, queue, callStatus, serving, outcome, answer, listens, heard>>
      /\ acceptAny => acceptAny'
  <2>1. CASE AddMembership
    BY <2>1 DEF AddMembership, historyVars
  <2>3. CASE DropMembership
    BY <2>3 DEF DropMembership, socketVars, historyVars
  <2>2. ASSUME NEW h \in Handlers, OnValidMessage(h)
        PROVE  UNCHANGED <<stack, queue, callStatus, serving, outcome, answer, listens, heard,
                           acceptAny>>
    BY <2>2 DEF OnValidMessage, kernelVars
  <2> QED BY <2>1, <2>2, <2>3
<1>2. KeepsCaller /\ KeepsActivation
  BY <1>1 DEF OneCallInv, KeepsCaller, KeepsActivation, SameSwap, IsCaller, OneActivation, Top
<1>3. Loses({})
  BY <1>1, SameLosesNothing DEF Datagram, Top
<1>4. member' => acceptAny'
  BY DEF AddMembership, DropMembership, OnValidMessage, OneCallInv, PendingIsCallers,
         socketVars, kernelVars, TypeInv, TypeOK
<1>5. OwnCallbackOnly'
  <2>1. validCallback' = validCallback \/ \A c \in Calls : validCallback' # CallCallback(c)
    <3>1. CASE AddMembership \/ DropMembership
      BY <3>1 DEF AddMembership, DropMembership, socketVars
    <3>2. ASSUME NEW h \in Handlers, OnValidMessage(h)
          PROVE  \A c \in Calls : validCallback' # CallCallback(c)
      BY <3>2 DEF OnValidMessage, HandlerCallback, CallCallback
    <3> QED BY <3>1, <3>2
  <2> QED BY <1>1, <1>2, <2>1 DEF OneCallInv, OwnCallbackOnly, KeepsCaller, Top
<1>6. OwnRepliesOnly'
  BY <1>1 DEF OneCallInv, OwnRepliesOnly
<1> QED BY <1>1, <1>2, <1>3, <1>4, <1>5, <1>6, LosingKeeps DEF OneCallInv, KeepsActivation

\* libnl reads, goes on or gives up.
LEMMA ReaderStep ==
  ASSUME TypeInv, TypeInv', OneCallInv,
         \/ CallbackReturns \/ ReadDatagram \/ ReadFails
         \/ SequenceMismatch \/ EndOfDatagram \/ UNCHANGED vars
  PROVE  /\ KeepsCaller /\ KeepsActivation
         /\ UNCHANGED <<socketVars, seqVars, member, serving, historyVars>>
         /\ Loses({}) \/ (SequenceMismatch /\ Loses({p \in Pending : p[1] = 0}))
<1>0. UNCHANGED <<socketVars, seqVars, member, serving, historyVars>>
  BY DEF CallbackReturns, ReadDatagram, ReadFails, SequenceMismatch, EndOfDatagram, vars,
         kernelVars
<1>1. CASE CallbackReturns
  <2> DEFINE f == [Top EXCEPT !.pc = "parse", !.running = NoCallback]
  <2>1. stack # <<>> /\ stack' = SetTop(f) /\ queue' = queue
    BY <1>1 DEF CallbackReturns, InCallback, kernelVars
  <2>2. /\ f \in Frame /\ SameSwap(f, Top) /\ f.pc = "parse" /\ f.buf = Datagram(0)
    BY <2>1, OneFrame DEF OneCallInv, Frame, SameSwap
  <2> HIDE DEF f
  <2>3. KeepsCaller /\ KeepsActivation /\ Datagram(0)' = Datagram(0)
    BY <2>1, <2>2, SetTopKeepsCaller DEF OneCallInv
  <2> QED BY <1>0, <2>1, <2>3, SameLosesNothing
<1>2. CASE ReadDatagram
  <2> DEFINE f == [Top EXCEPT !.pc = "parse", !.buf = Head(queue)]
  <2>1. /\ stack # <<>> /\ stack' = SetTop(f) /\ queue # <<>> /\ queue' = Tail(queue)
        /\ Top.pc \in {"loop", "read"}
    BY <1>2 DEF ReadDatagram, Reading
  <2>2. Head(queue) \in Seq(Message) /\ Datagram(0) = <<>>
    BY <2>1, OneFrame, HeadTailProperties DEF OneCallInv, OneActivation, TypeInv, TypeOK
  <2>3. f \in Frame /\ SameSwap(f, Top) /\ f.pc = "parse" /\ f.buf = Head(queue)
    BY <2>1, <2>2, OneFrame DEF OneCallInv, Frame, SameSwap
  <2> HIDE DEF f
  <2>4. KeepsCaller /\ KeepsActivation /\ Datagram(0)' = Head(queue)
    BY <2>1, <2>3, SetTopKeepsCaller DEF OneCallInv
  <2> QED BY <1>0, <2>1, <2>2, <2>4, ReadLosesNothing
<1>3. CASE SequenceMismatch
  <2>1. stack # <<>> /\ stack' = RecvmsgsReturns /\ queue' = queue
    BY <1>3 DEF SequenceMismatch, Parsing, kernelVars
  <2>2. KeepsCaller /\ KeepsActivation /\ Datagram(0)' = <<>>
    BY <2>1, RecvmsgsReturnsToCaller DEF OneCallInv
  <2> QED BY <1>0, <1>3, <2>1, <2>2, DropLosesRest
<1>6. CASE ReadFails \/ (EndOfDatagram /\ stack' = RecvmsgsReturns)
  <2>1. /\ stack # <<>> /\ stack' = RecvmsgsReturns /\ queue' = queue
        /\ Top.pc \in {"loop", "read"} \/ Top.buf = <<>>
    BY <1>6 DEF ReadFails, EndOfDatagram, Reading, kernelVars
  <2>2. Datagram(0) = <<>>
    BY <2>1, OneFrame DEF OneCallInv, OneActivation
  <2>3. KeepsCaller /\ KeepsActivation /\ Datagram(0)' = <<>>
    BY <2>1, RecvmsgsReturnsToCaller DEF OneCallInv
  <2> QED BY <1>0, <2>1, <2>2, <2>3, SameLosesNothing
<1>4. CASE EndOfDatagram /\ stack' # RecvmsgsReturns
  <2> DEFINE f == [Top EXCEPT !.pc = "read"]
  <2>1. stack # <<>> /\ stack' = SetTop(f) /\ Top.buf = <<>> /\ queue' = queue
    BY <1>4 DEF EndOfDatagram, kernelVars
  <2>2. f \in Frame /\ SameSwap(f, Top) /\ f.pc = "read" /\ f.buf = <<>> /\ Datagram(0) = <<>>
    BY <2>1, OneFrame DEF OneCallInv, Frame, SameSwap
  <2> HIDE DEF f
  <2>3. KeepsCaller /\ KeepsActivation /\ Datagram(0)' = Datagram(0)
    BY <2>1, <2>2, SetTopKeepsCaller DEF OneCallInv
  <2> QED BY <1>0, <2>1, <2>3, SameLosesNothing
<1>5. CASE UNCHANGED vars
  <2>1. KeepsCaller /\ KeepsActivation
    BY <1>5 DEF OneCallInv, KeepsCaller, KeepsActivation, SameSwap, IsCaller, OneActivation,
                Top, vars
  <2>2. Loses({})
    BY <1>5, SameLosesNothing DEF Datagram, Top, vars, kernelVars
  <2> QED BY <1>0, <2>1, <2>2
<1> QED BY <1>1, <1>2, <1>3, <1>4, <1>5, <1>6

\* Reading and skipping lose messages and change nothing else.
LEMMA ReaderKeeps ==
  ASSUME TypeInv, TypeInv', OneCallInv,
         \/ CallbackReturns \/ ReadDatagram \/ ReadFails
         \/ SequenceMismatch \/ EndOfDatagram \/ UNCHANGED vars
  PROVE  OneCallInv'
<1>1. member => acceptAny
  BY DEF OneCallInv, PendingIsCallers
<1>2. OwnRepliesOnly'
  BY ReaderStep DEF OneCallInv, OwnRepliesOnly, socketVars, historyVars
<1>3. \E D : Loses(D)
  BY ReaderStep
<1> QED BY <1>1, <1>2, <1>3, ReaderStep, SwapKeeps, LosingKeeps
        DEF OneCallInv, KeepsActivation, socketVars, historyVars

\* A reply or an event is parsed.
LEMMA ParseStep ==
  ASSUME TypeInv, TypeInv', OneCallInv, ValidCallbackWrapper
  PROVE  /\ KeepsCaller /\ KeepsActivation /\ Parsing /\ Accepted /\ Msg.type = "valid"
         /\ Loses({<<0, 1>>})
         /\ UNCHANGED <<socketVars, seqVars, member, serving, outcome, answer, listens>>
         /\ \/ validCallback = NoCallback /\ heard' = heard
            \/ validCallback \in Callbacks
               /\ heard' = [heard EXCEPT ![validCallback] = Append(@, Msg)]
<1> DEFINE f == [Top EXCEPT !.buf = Tail(@), !.multi = @ \/ Msg.multi]
           h == [f EXCEPT !.pc = "callback", !.running = validCallback]
<1>1. /\ Parsing /\ Accepted /\ stack # <<>> /\ Top.pc = "parse" /\ Msg.type = "valid"
      /\ UNCHANGED <<socketVars, seqVars, member, serving, queue, outcome, answer, listens>>
  BY DEF ValidCallbackWrapper, Parsing, kernelVars
<1>2. /\ Top \in Frame /\ Msg \in Message /\ Tail(Top.buf) \in Seq(Message)
      /\ Top.multi \in BOOLEAN /\ Msg.multi \in BOOLEAN
  BY <1>1, Parsed DEF TypeInv, TypeOK, Frame, Message
<1>3. f \in Frame /\ SameSwap(f, Top) /\ f.pc = "parse" /\ f.buf = Tail(Top.buf)
  BY <1>1, <1>2 DEF Frame, SameSwap
<1>4. h \in Frame /\ SameSwap(h, Top) /\ h.pc = "callback" /\ h.buf = Tail(Top.buf)
  <2> HIDE DEF f
  <2> QED BY <1>3 DEF Frame, SameSwap, TypeInv, TypeOK
<1>5. \/ stack' = SetTop(f) /\ validCallback = NoCallback /\ heard' = heard
      \/ stack' = SetTop(h) /\ validCallback \in Callbacks
         /\ heard' = [heard EXCEPT ![validCallback] = Append(@, Msg)]
  BY DEF ValidCallbackWrapper, TypeInv, TypeOK
<1> HIDE DEF f, h
<1>6. KeepsCaller /\ KeepsActivation /\ Datagram(0)' = Tail(Top.buf)
  BY <1>1, <1>3, <1>4, <1>5, SetTopKeepsCaller DEF OneCallInv
<1>7. Loses({<<0, 1>>})
  BY <1>1, <1>6, ParseLosesHead
<1> QED BY <1>1, <1>5, <1>6, <1>7

\* The callback of a call is given what is for that call, or an event.
LEMMA ValidCallbackWrapperKeeps ==
  ASSUME TypeInv, TypeInv', OneCallInv, ValidCallbackWrapper PROVE OneCallInv'
<1>1. /\ KeepsCaller /\ KeepsActivation /\ Parsing /\ Msg.type = "valid" /\ Msg \in Message
      /\ Loses({<<0, 1>>})
      /\ UNCHANGED <<callStatus, validCallback, acceptAny, member, serving, outcome, answer,
                     listens>>
  BY ParseStep, Parsed DEF socketVars, TypeInv, TypeOK
<1>2. OwnRepliesOnly'
  <2>1. CASE heard' = heard
    BY <1>1, <2>1 DEF OneCallInv, OwnRepliesOnly
  <2>2. CASE validCallback \in Callbacks
             /\ heard' = [heard EXCEPT ![validCallback] = Append(@, Msg)]
    <3>1. \/ Msg.call = 0 /\ acceptAny
          \/ IsCaller(Msg.call)
      BY <1>1, HeadIsFirst DEF OneCallInv, PendingIsCallers
    <3> SUFFICES ASSUME NEW c \in Calls, NEW i \in DOMAIN heard'[CallCallback(c)]
                 PROVE  \/ heard'[CallCallback(c)][i].call = c
                        \/ acceptAny' /\ heard'[CallCallback(c)][i].call = 0
      BY DEF OwnRepliesOnly
    <3>2. CallCallback(c) \in Callbacks
      BY DEF Callbacks
    <3>3. CASE CallCallback(c) # validCallback
      BY <1>1, <2>2, <3>2, <3>3 DEF OneCallInv, OwnRepliesOnly, TypeInv, TypeOK
    <3>4. CASE CallCallback(c) = validCallback
      <4>1. IsCaller(c)
        BY <3>4 DEF OneCallInv, OwnCallbackOnly
      <4>2. Msg.call = c \/ (Msg.call = 0 /\ acceptAny)
        BY <3>1, <4>1 DEF IsCaller
      <4>3. heard[CallCallback(c)] \in Seq(Message)
        BY <3>2 DEF TypeInv, TypeOK
      <4>4. heard'[CallCallback(c)] = Append(heard[CallCallback(c)], Msg)
        BY <2>2, <3>2, <3>4 DEF TypeInv, TypeOK
      <4>5. \/ i \in DOMAIN heard[CallCallback(c)]
               /\ heard'[CallCallback(c)][i] = heard[CallCallback(c)][i]
            \/ heard'[CallCallback(c)][i] = Msg
        BY <1>1, <4>3, <4>4, AppendProperties, LenProperties
      <4> QED BY <1>1, <4>2, <4>5 DEF OneCallInv, OwnRepliesOnly
    <3> QED BY <3>3, <3>4
  <2>3. heard' = heard \/ (validCallback \in Callbacks
                           /\ heard' = [heard EXCEPT ![validCallback] = Append(@, Msg)])
    BY ParseStep
  <2> QED BY <2>1, <2>2, <2>3
<1>3. member' => acceptAny'
  BY <1>1 DEF OneCallInv, PendingIsCallers
<1> QED BY <1>1, <1>2, <1>3, LosingKeeps, SwapKeeps DEF OneCallInv, KeepsActivation

\* DONE, an ACK or an error is parsed.
LEMMA VerdictStep ==
  ASSUME TypeInv, TypeInv', OneCallInv,
         FinishCallbackWrapper \/ AckCallbackWrapper \/ ErrorCallbackWrapper
  PROVE  /\ KeepsCaller /\ KeepsActivation /\ Parsing /\ Accepted /\ Msg.type # "valid"
         /\ callStatus' <= 0 /\ (callStatus' = 0 <=> Msg.type \notin ErrorEnds)
         /\ \E D : Loses(D) /\ <<0, 1>> \in D
         /\ seqExpect' = seqExpect + 1
         /\ UNCHANGED <<validCallback, acceptAny, seqNext, member, serving, historyVars>>
<1>1. /\ Parsing /\ stack # <<>> /\ Top.pc = "parse" /\ Accepted /\ Msg.type # "valid"
      /\ callStatus' <= 0 /\ (callStatus' = 0 <=> Msg.type \notin ErrorEnds)
      /\ seqExpect' = seqExpect + 1
      /\ UNCHANGED <<validCallback, acceptAny, seqNext, member, serving, queue, historyVars>>
  BY DEF FinishCallbackWrapper, AckCallbackWrapper, ErrorCallbackWrapper, Parsing, ErrorEnds,
         ErrorCode, EPROTO, kernelVars
<1>2. CASE FinishCallbackWrapper
  <2> DEFINE f == [Top EXCEPT !.buf = Tail(@), !.multi = FALSE]
  <2>1. Top \in Frame /\ Tail(Top.buf) \in Seq(Message)
    BY <1>1, Parsed DEF TypeInv, TypeOK
  <2>2. f \in Frame /\ SameSwap(f, Top) /\ f.pc = "parse" /\ f.buf = Tail(Top.buf)
    BY <1>1, <2>1 DEF Frame, SameSwap
  <2>3. stack' = SetTop(f)
    BY <1>2 DEF FinishCallbackWrapper
  <2> HIDE DEF f
  <2>4. KeepsCaller /\ KeepsActivation /\ Datagram(0)' = Tail(Top.buf)
    BY <1>1, <2>2, <2>3, SetTopKeepsCaller DEF OneCallInv
  <2>5. Loses({<<0, 1>>})
    BY <1>1, <2>4, ParseLosesHead
  <2> QED BY <1>1, <2>4, <2>5
<1>3. CASE AckCallbackWrapper \/ ErrorCallbackWrapper
  <2>1. stack' = RecvmsgsReturns
    BY <1>3 DEF AckCallbackWrapper, ErrorCallbackWrapper
  <2>2. KeepsCaller /\ KeepsActivation /\ Datagram(0)' = <<>>
    BY <1>1, <2>1, RecvmsgsReturnsToCaller DEF OneCallInv
  <2>3. Loses({p \in Pending : p[1] = 0}) /\ <<0, 1>> \in {p \in Pending : p[1] = 0}
    BY <1>1, <2>2, DropLosesRest, HeadIsFirst
  <2> QED BY <1>1, <2>2, <2>3
<1> QED BY <1>2, <1>3

\* The verdict is that of the call that waits.
LEMMA VerdictStepsKeep ==
  ASSUME TypeInv, TypeInv', OneCallInv,
         FinishCallbackWrapper \/ AckCallbackWrapper \/ ErrorCallbackWrapper
  PROVE  OneCallInv'
<1>1. OwnRepliesOnly'
  BY VerdictStep DEF OneCallInv, OwnRepliesOnly, historyVars
<1>2. PICK D : Loses(D) /\ <<0, 1>> \in D
  BY VerdictStep
<1> QED BY <1>1, <1>2, VerdictStep, VerdictKeeps, SwapKeeps
        DEF OneCallInv, KeepsActivation, historyVars

\* A request being served.
Serving == [call : Calls, seq : Nat, dump : BOOLEAN, sent : Nat]

\* What the kernel may send while one call at most is served: a multicast event, the next
\* reply to that call, or the end of its answer.
SendsEvent(m) == m.call = 0 /\ m.type = "valid" /\ acceptAny /\ serving' = serving
SendsReply(m, r) ==
  /\ serving = <<r>> /\ serving' = <<[r EXCEPT !.sent = @ + 1]>>
  /\ IsCaller(r.call) /\ r.sent < answer[r.call].replies
  /\ m.call = r.call /\ m.type = "valid" /\ m.seq = r.seq /\ m.n = r.sent + 1
SendsEnd(m, r) ==
  /\ serving = <<r>> /\ serving' = <<>>
  /\ IsCaller(r.call) /\ r.sent = answer[r.call].replies
  /\ m.call = r.call /\ m.type = answer[r.call].end /\ m.type # "valid" /\ m.seq = r.seq

\* The steps of the kernel are these.
LEMMA KernelStep ==
  ASSUME TypeInv, TypeInv', OneCallInv, KernelAnswers \/ KernelMulticasts
  PROVE  /\ UNCHANGED <<socketVars, seqVars, stack, member, historyVars>>
         /\ \E m \in Message :
              /\ Enqueue(m)
              /\ SendsEvent(m) \/ \E r \in Serving : SendsReply(m, r) \/ SendsEnd(m, r)
<1>1. UNCHANGED <<socketVars, seqVars, stack, member, historyVars>>
  BY DEF KernelAnswers, KernelReplies, KernelFinishes, KernelMulticasts
<1>2. serving \in Seq(Serving) /\ DOMAIN serving = 1..Len(serving) /\ Len(serving) \in Nat
  BY LenProperties DEF TypeInv, TypeOK, Serving
<1>3. \A i \in DOMAIN serving :
        /\ i = 1 /\ Len(serving) = 1 /\ serving = <<serving[i]>>
        /\ serving[i] \in Serving /\ IsCaller(serving[i].call)
  <2> SUFFICES ASSUME NEW i \in DOMAIN serving
               PROVE  /\ i = 1 /\ Len(serving) = 1 /\ serving = <<serving[i]>>
                      /\ serving[i] \in Serving /\ IsCaller(serving[i].call)
    OBVIOUS
  <2>1. i \in 1..Len(serving) /\ Len(serving) <= 1
    BY <1>2 DEF OneCallInv, ServesCaller
  <2>2. i = 1 /\ Len(serving) = 1
    BY <1>2, <2>1
  <2>3. serving[i] \in Serving
    BY ONLY <1>2, <2>1, ElementOfSeq
  <2>4. IsCaller(serving[i].call)
    BY DEF OneCallInv, ServesCaller
  <2>5. serving = <<serving[i]>>
    BY <1>2, <2>2
  <2> QED BY <2>2, <2>3, <2>4, <2>5
<1>4. ASSUME NEW i \in DOMAIN serving, KernelReplies(i)
      PROVE  \E m \in Message, r \in Serving : Enqueue(m) /\ SendsReply(m, r)
  <2> DEFINE m == Valid(serving[i].call, serving[i].seq, serving[i].sent + 1, serving[i].dump)
  <2>1. PICK r \in Serving : r = serving[i]
    BY <1>3
  <2>2. /\ m \in Message /\ m.call = r.call /\ m.type = "valid" /\ m.seq = r.seq
        /\ m.n = r.sent + 1
    BY <2>1, BoundsAreNat DEF Valid, Message, Calls, Serving
  <2>3. Enqueue(m) /\ serving' = [serving EXCEPT ![i].sent = @ + 1]
        /\ r.sent < answer[r.call].replies
    BY <1>4, <2>1 DEF KernelReplies
  <2> HIDE DEF m
  <2>4. serving = <<r>> /\ IsCaller(r.call) /\ i = 1
    BY <1>3, <2>1
  <2>5. serving' = <<[r EXCEPT !.sent = @ + 1]>>
    BY <2>3, <2>4
  <2> QED BY <2>2, <2>3, <2>4, <2>5 DEF SendsReply
<1>5. ASSUME NEW i \in DOMAIN serving, KernelFinishes(i)
      PROVE  \E m \in Message, r \in Serving : Enqueue(m) /\ SendsEnd(m, r)
  <2> DEFINE m == Terminator(answer[serving[i].call].end, serving[i].call, serving[i].seq)
  <2>1. PICK r \in Serving : r = serving[i]
    BY <1>3
  <2>2. answer[r.call].end \in EndTypes
    BY <2>1 DEF TypeInv, TypeOK, ServedWasSent, Answer, Serving
  <2>3. /\ m \in Message /\ m.call = r.call /\ m.type = answer[r.call].end /\ m.seq = r.seq
        /\ m.type # "valid"
    BY <2>1, <2>2, BoundsAreNat DEF Terminator, Message, Calls, Serving, EndTypes, ErrorEnds
  <2>4. Enqueue(m) /\ serving' = RemoveAt(serving, i) /\ r.sent = answer[r.call].replies
    BY <1>5, <2>1 DEF KernelFinishes
  <2> HIDE DEF m
  <2>5. serving = <<r>> /\ IsCaller(r.call) /\ Len(serving) - 1 = 0
    BY <1>3, <2>1
  <2>6. RemoveAt(serving, i) \in Seq(Serving) /\ Len(RemoveAt(serving, i)) = 0
    BY ONLY <1>2, <2>5, i \in DOMAIN serving, RemoveAtElements
  <2>7. serving' = <<>>
    BY <2>4, <2>6, EmptySeq
  <2> QED BY <2>3, <2>4, <2>5, <2>7 DEF SendsEnd
<1>6. CASE KernelMulticasts
  <2> DEFINE m == Valid(0, 0, events + 1, FALSE)
  <2>1. m \in Message /\ m.call = 0 /\ m.type = "valid"
    BY BoundsAreNat DEF Valid, Message, TypeInv, TypeOK
  <2>2. Enqueue(m) /\ serving' = serving
    BY <1>6 DEF KernelMulticasts
  <2>3. acceptAny
    BY <1>6 DEF KernelMulticasts, OneCallInv, PendingIsCallers
  <2> HIDE DEF m
  <2>4. SendsEvent(m)
    BY <2>1, <2>2, <2>3 DEF SendsEvent
  <2> QED BY <1>1, <2>1, <2>2, <2>4
<1> QED BY <1>1, <1>4, <1>5, <1>6 DEF KernelAnswers

\* What the kernel sends goes behind all the others, or is lost.
LEMMA KernelKeeps ==
  ASSUME TypeInv, TypeInv', OneCallInv, KernelAnswers \/ KernelMulticasts
  PROVE  OneCallInv'
<1>1. UNCHANGED <<socketVars, seqVars, stack, member, historyVars>>
  BY KernelStep
<1>2. OneActivation' /\ OwnCallbackOnly' /\ OwnRepliesOnly' /\ \A c : IsCaller(c)' <=> IsCaller(c)
  BY <1>1 DEF OneCallInv, OneActivation, OwnCallbackOnly, OwnRepliesOnly, IsCaller, Top,
              socketVars, historyVars
<1>3. PICK m \in Message :
        /\ Enqueue(m)
        /\ SendsEvent(m) \/ \E r \in Serving : SendsReply(m, r) \/ SendsEnd(m, r)
  BY KernelStep
<1>4. Gains(m) \/ \E D : Loses(D)
  BY <1>1, <1>3, SentGoesLast
<1>5. CASE SendsEvent(m)
  <2>1. ServesCaller'
    BY <1>1, <1>2, <1>5 DEF SendsEvent, OneCallInv, ServesCaller, historyVars
  <2> QED BY <1>1, <1>2, <1>4, <1>5, <2>1, SendingKeeps
          DEF OneCallInv, SendsEvent, socketVars, historyVars
<1>6. ASSUME NEW r \in Serving, SendsReply(m, r) PROVE OneCallInv'
  <2>1. ServesCaller' /\ serving # <<>> /\ r.call \in Calls
    <3>1. r.sent \in Nat /\ r.call \in Calls
      BY DEF Serving
    <3>2. answer[r.call] \in Answer
      BY <3>1 DEF TypeInv, TypeOK
    <3>3. r.sent + 1 <= answer[r.call].replies
      BY <1>6, <3>1, <3>2, BoundsAreNat DEF Answer, SendsReply
    <3>4. PICK u : u = [r EXCEPT !.sent = @ + 1]
      OBVIOUS
    <3>5. u.sent = r.sent + 1 /\ u.call = r.call
      BY <3>4 DEF Serving
    <3>6. serving' = <<u>> /\ serving = <<r>> /\ IsCaller(r.call) /\ answer' = answer
      BY <1>1, <1>6, <3>4 DEF SendsReply, historyVars
    <3> QED BY <1>2, <3>1, <3>3, <3>5, <3>6 DEF ServesCaller
  <2> QED BY <1>1, <1>2, <1>4, <1>6, <2>1, SendingKeeps
          DEF OneCallInv, SendsReply, socketVars, historyVars
<1>7. ASSUME NEW r \in Serving, SendsEnd(m, r) PROVE OneCallInv'
  <2>1. ServesCaller' /\ serving # <<>> /\ r.call \in Calls
    BY <1>7 DEF SendsEnd, ServesCaller, Serving
  <2> QED BY <1>1, <1>2, <1>4, <1>7, <2>1, SendingKeeps
          DEF OneCallInv, SendsEnd, socketVars, historyVars
<1> QED BY <1>3, <1>5, <1>6, <1>7

\* Every step keeps the invariant.
LEMMA OneCallNext ==
  ASSUME TypeInv, OneCallAtATime, OneCallInv, [Next]_vars PROVE OneCallInv'
<1>1. TypeInv'
  BY NextType
<1>2. ~CallbackThrows
  BY DEF OneCallAtATime, CallbackThrows
<1> QED BY <1>1, <1>2, SendMessageSyncKeeps, SyncReturnsKeeps, ReceiveMessagesKeeps,
           ClientCallsKeep, ReaderKeeps, ValidCallbackWrapperKeeps, VerdictStepsKeep,
           KernelKeeps DEF Next, Client, Library

\* The invariant holds for every client that makes one call at a time.
LEMMA OneCallAlways == ASSUME OneCallAtATime PROVE Spec => [](TypeInv /\ OneCallInv)
<1> DEFINE Inv == TypeInv /\ OneCallInv
<1>1. Init => Inv
  BY InitType, OneCallInit
<1>2. Inv /\ [Next]_vars => Inv'
  BY NextType, OneCallNext
<1> QED BY <1>1, <1>2, PTL DEF Spec

\* A client that makes one call at a time: whatever it subscribes to, sends again, sets
\* from a callback or fails to send, and whatever the receive queue loses, the callback of
\* a call is run on replies to that call and on events only.
THEOREM AnswersAreOwn == ASSUME OneCallAtATime PROVE Spec => []OwnRepliesOnly
<1>1. TypeInv /\ OneCallInv => OwnRepliesOnly
  BY DEF OneCallInv
<1> QED BY <1>1, OneCallAlways, PTL

\* For the same clients a call that returns does so with the verdict the kernel gave to it,
\* never with that of an event, of a lost message or of another call.
THEOREM VerdictsAreOwn == ASSUME OneCallAtATime PROVE Spec => []StatusIsTheAnswer
<1>1. TypeInv /\ OneCallInv => StatusIsTheAnswer
  BY DEF OneCallInv
<1> QED BY <1>1, OneCallAlways, PTL
-----------------------------------------------------------------------------
(* Nothing left behind *)

\* There is no call while the client does anything else.
LEMMA NobodyCalls ==
  ASSUME OneCallAtATime, ReceiveMessages \/ AddMembership \/ DropMembership
  PROVE  \A c : ~IsCaller(c) /\ ~IsCaller(c)'
<1>1. stack = <<>>
  BY DEF ReceiveMessages, AddMembership, DropMembership, ClientRuns, OneCallAtATime
<1>2. CASE ReceiveMessages
  <2> DEFINE f == Activation("recv", 0, FALSE, "read")
  <2>1. f.op = "recv" /\ stack' = Append(stack, f)
    BY <1>2 DEF ReceiveMessages, Activation
  <2> HIDE DEF f
  <2>2. stack' = <<f>>
    BY <1>1, <2>1
  <2> QED BY <1>1, <2>1, <2>2, TopWillBe DEF IsCaller
<1>3. CASE AddMembership \/ DropMembership
  BY <1>1, <1>3 DEF AddMembership, DropMembership, IsCaller
<1> QED BY <1>2, <1>3

\* A verdict comes once, to a call that waits for it.
LEMMA VerdictIsAwaited ==
  ASSUME TypeInv, OneCallInv, Parsing, Msg.type # "valid"
  PROVE  Msg.call \in Calls /\ IsCaller(Msg.call) /\ callStatus > 0
<1>1. Msg.call \in Calls /\ IsCaller(Msg.call)
  BY HeadIsFirst DEF OneCallInv, PendingIsCallers
<1>2. Msg.call # 0
  BY <1>1 DEF Calls
<1>3. ~(callStatus <= 0)
  BY <1>1, <1>2, HeadIsFirst DEF OneCallInv, AnsweredIsOver
<1> QED BY <1>1, <1>3 DEF TypeInv, TypeOK, CallStatus, ErrorCode, EPROTO

\* An answer with an old number stays one.
LEMMA RefusedStays ==
  ASSUME TypeInv, Refused, UNCHANGED <<acceptAny, seqNext, seqExpect>>,
         \/ serving' = serving /\ \E D : Loses(D)
         \/ \E m \in Message, r \in Serving :
              Gains(m) /\ m.seq = r.seq /\ serving = <<r>>
              /\ (serving' = <<>> \/ serving' = <<[r EXCEPT !.sent = @ + 1]>>)
         \/ \E r \in Serving : serving = <<r>> /\ Loses({})
              /\ (serving' = <<>> \/ serving' = <<[r EXCEPT !.sent = @ + 1]>>)
  PROVE  Refused'
<1>1. CASE serving' = serving /\ \E D : Loses(D)
  BY <1>1 DEF Refused, Loses
<1>2. ASSUME NEW r \in Serving, serving = <<r>>,
             serving' = <<>> \/ serving' = <<[r EXCEPT !.sent = @ + 1]>>
      PROVE  r.seq # seqExpect /\ \A i \in DOMAIN serving' : serving'[i].seq # seqExpect
  <2>1. r.seq # seqExpect
    BY <1>2 DEF Refused
  <2>2. [r EXCEPT !.sent = @ + 1].seq = r.seq
    BY DEF Serving
  <2>3. PICK u : u = [r EXCEPT !.sent = @ + 1]
    OBVIOUS
  <2>4. u.seq # seqExpect /\ (serving' = <<>> \/ serving' = <<u>>)
    BY <1>2, <2>1, <2>2, <2>3
  <2> QED BY ONLY <2>1, <2>4
<1>3. ASSUME NEW m \in Message, NEW r \in Serving, Gains(m), m.seq = r.seq, serving = <<r>>,
             serving' = <<>> \/ serving' = <<[r EXCEPT !.sent = @ + 1]>>
      PROVE  Refused'
  <2>1. \A p \in Pending' : At(p)'.seq # seqExpect
    BY <1>2, <1>3 DEF Gains, Refused
  <2> QED BY <1>2, <1>3, <2>1 DEF Refused
<1>4. ASSUME NEW r \in Serving, serving = <<r>>, Loses({}),
             serving' = <<>> \/ serving' = <<[r EXCEPT !.sent = @ + 1]>>
      PROVE  Refused'
  <2>1. \A p \in Pending' : At(p)'.seq # seqExpect
    BY <1>4 DEF Loses, Refused
  <2> QED BY <1>2, <1>4, <2>1 DEF Refused
<1> QED BY <1>1, <1>3, <1>4

\* What goes on while nobody looks at sequence numbers.
LEMMA SeqFitsStays ==
  ASSUME TypeInv, SeqFits, KeepsCaller, UNCHANGED <<callStatus, header, seqNext, seqExpect>>,
         "membership" \in Usage \/ acceptAny' = acceptAny,
         Waiting /\ Refused => Refused'
  PROVE  SeqFits'
<1>1. Waiting' <=> Waiting
  BY DEF Waiting, KeepsCaller
<1> QED BY <1>1 DEF SeqFits

\* A call takes the next number, or an old one.
LEMMA SendFits ==
  ASSUME TypeInv, TypeInv', OneCallAtATime, ~({"resend", "membership"} \subseteq Usage),
         OneCallInv, SeqFits,
         NEW c \in Calls, NEW m \in Messages, NEW dump \in BOOLEAN, NEW own \in BOOLEAN,
         NEW a \in AnswersTo(dump) \cup {NotSent}, SendMessageSync(c, m, dump, a, own)
  PROVE  SeqFits'
<1>1. /\ stack = <<>> /\ serving = <<>> /\ IsCaller(c)'
      /\ \A p \in Pending' : acceptAny'
  BY CallBegins
<1>2. /\ callStatus' = 1 /\ seqExpect' = seqExpect /\ acceptAny' = acceptAny
      /\ header[m] # 0 => "resend" \in Usage
      /\ seqNext' = IF header[m] = 0 THEN seqNext + 1 ELSE seqNext
  BY DEF SendMessageSync
<1>3. PICK s \in Nat : s = IF header[m] = 0 THEN seqNext ELSE header[m]
  BY DEF TypeInv, TypeOK
<1>4. /\ header' = [header EXCEPT ![m] = s]
      /\ serving' = <<>> \/ serving' = <<[call |-> c, seq |-> s, dump |-> dump, sent |-> 0]>>
  BY <1>1, <1>3 DEF SendMessageSync
<1>5. seqNext = seqExpect /\ \A n \in Messages : header[n] \in Nat /\ header[n] < seqNext
  <2>1. ~Waiting
    BY <1>1 DEF Waiting, IsCaller
  <2> QED BY <2>1 DEF SeqFits, TypeInv, TypeOK
<1>6. seqNext \in Nat /\ seqExpect \in Nat /\ header \in [Messages -> Nat]
  BY DEF TypeInv, TypeOK
<1>7. Waiting'
  BY <1>1, <1>2 DEF Waiting
<1>8. s < seqNext' /\ seqNext <= seqNext'
  BY <1>2, <1>3, <1>5, <1>6
<1>9. \A n \in Messages : header'[n] < seqNext'
  <2>1. \A n \in Messages : header'[n] = s \/ header'[n] = header[n]
    BY <1>4, <1>6
  <2> QED BY <1>2, <1>5, <1>6, <1>8, <2>1
<1>10. "membership" \in Usage \/ acceptAny' = FALSE
  BY <1>2 DEF SeqFits
<1>11. CASE header[m] = 0
  BY <1>2, <1>5, <1>7, <1>9, <1>10, <1>11 DEF SeqFits
<1>12. CASE header[m] # 0
  <2>1. acceptAny' = FALSE /\ Pending' = {}
    BY <1>1, <1>2, <1>10, <1>12
  <2>2. s # seqExpect'
    BY <1>2, <1>3, <1>5, <1>6, <1>12
  <2>3. \A i \in DOMAIN serving' : serving'[i].seq # seqExpect'
    BY <1>4, <2>2
  <2>4. seqNext' = seqExpect'
    BY <1>2, <1>5, <1>12
  <2> QED BY <1>7, <1>9, <1>10, <2>1, <2>3, <2>4 DEF SeqFits, Refused
<1> QED BY <1>11, <1>12

\* A verdict, which is not refused, moves on the number expected.
LEMMA VerdictFits ==
  ASSUME TypeInv, TypeInv', OneCallInv, SeqFits,
         FinishCallbackWrapper \/ AckCallbackWrapper \/ ErrorCallbackWrapper
  PROVE  SeqFits'
<1>1. /\ KeepsCaller /\ Parsing /\ (acceptAny \/ Msg.seq = seqExpect) /\ Msg.type # "valid"
      /\ seqExpect' = seqExpect + 1 /\ callStatus' <= 0
      /\ UNCHANGED <<acceptAny, seqNext>>
  BY VerdictStep DEF Accepted
<1>2. header' = header
  BY DEF FinishCallbackWrapper, AckCallbackWrapper, ErrorCallbackWrapper
<1>3. Waiting /\ ~Refused
  BY <1>1, VerdictIsAwaited, HeadIsFirst DEF Waiting, Refused
<1>4. ~Waiting'
  <2>1. ~(callStatus' > 0)
    BY <1>1 DEF TypeInv, TypeOK, CallStatus, ErrorCode, EPROTO
  <2> QED BY <2>1 DEF Waiting
<1> QED BY <1>1, <1>2, <1>3, <1>4 DEF SeqFits

\* The kernel answers with the number it was asked with.
LEMMA KernelFits ==
  ASSUME TypeInv, TypeInv', OneCallInv, SeqFits, KernelAnswers \/ KernelMulticasts
  PROVE  SeqFits'
<1>1. /\ KeepsCaller /\ stack' = stack
      /\ UNCHANGED <<callStatus, acceptAny, header, seqNext, seqExpect>>
  BY KernelStep DEF KeepsCaller, IsCaller, Top, socketVars, seqVars
<1>2. PICK m \in Message :
        /\ Enqueue(m)
        /\ SendsEvent(m) \/ \E r \in Serving : SendsReply(m, r) \/ SendsEnd(m, r)
  BY KernelStep
<1>3. Gains(m) \/ Loses({})
  BY <1>1, <1>2, SentGoesLast
<1>4. ASSUME Refused PROVE Refused'
  <2>1. PICK r \in Serving : SendsReply(m, r) \/ SendsEnd(m, r)
    BY <1>2, <1>4 DEF SendsEvent, Refused
  <2>2. /\ m.seq = r.seq /\ serving = <<r>>
        /\ serving' = <<>> \/ serving' = <<[r EXCEPT !.sent = @ + 1]>>
    BY <2>1 DEF SendsReply, SendsEnd
  <2>3. CASE Gains(m)
    BY <1>1, <1>4, <2>2, <2>3, RefusedStays
  <2>4. CASE Loses({})
    BY <1>1, <1>4, <2>2, <2>4, RefusedStays
  <2> QED BY <1>3, <2>3, <2>4
<1> QED BY <1>1, <1>4, SeqFitsStays

\* The sequence numbers stay in step: the call takes one, and its verdict, which is never
\* missed, moves on the one expected.
LEMMA SeqFitsNext ==
  ASSUME TypeInv, OneCallAtATime, ~({"resend", "membership"} \subseteq Usage), OneCallInv,
         SeqFits, [Next]_vars
  PROVE  SeqFits'
<1>1. TypeInv'
  BY NextType
<1>2. CASE SyncReturns
  <2>1. callStatus <= 0 /\ UNCHANGED <<callStatus, acceptAny, header, seqNext, seqExpect>>
    BY <1>2 DEF SyncReturns, seqVars
  <2>2. ~Waiting /\ ~Waiting'
    BY <2>1 DEF Waiting, TypeInv, TypeOK, CallStatus, ErrorCode, EPROTO
  <2> QED BY <2>1, <2>2 DEF SeqFits
<1>3. CASE CallbackReturns \/ ReadDatagram \/ ReadFails \/ SequenceMismatch \/ EndOfDatagram
           \/ UNCHANGED vars
  <2>1. /\ KeepsCaller /\ \E D : Loses(D)
        /\ UNCHANGED <<callStatus, acceptAny, header, seqNext, seqExpect, serving>>
    BY <1>1, <1>3, ReaderStep DEF socketVars, seqVars
  <2> QED BY <2>1, RefusedStays, SeqFitsStays
<1>4. CASE ValidCallbackWrapper
  <2>1. /\ KeepsCaller /\ Loses({<<0, 1>>})
        /\ UNCHANGED <<callStatus, acceptAny, header, seqNext, seqExpect, serving>>
    BY <1>1, <1>4, ParseStep DEF socketVars, seqVars
  <2> QED BY <2>1, RefusedStays, SeqFitsStays
<1>5. CASE ReceiveMessages \/ AddMembership \/ DropMembership
  <2>1. UNCHANGED <<callStatus, header, seqNext, seqExpect>>
        /\ ("membership" \in Usage \/ acceptAny' = acceptAny)
    BY <1>5 DEF ReceiveMessages, AddMembership, DropMembership, socketVars, seqVars
  <2>2. ~Waiting /\ ~Waiting'
    BY <1>5, NobodyCalls DEF Waiting
  <2> QED BY <2>1, <2>2 DEF SeqFits
<1>7. ASSUME NEW h \in Handlers, OnValidMessage(h) PROVE SeqFits'
  <2>1. UNCHANGED <<callStatus, acceptAny, header, seqNext, seqExpect, stack, serving, queue>>
    BY <1>7 DEF OnValidMessage, seqVars, kernelVars
  <2>2. KeepsCaller /\ Datagram(0)' = Datagram(0)
    BY <2>1 DEF KeepsCaller, IsCaller, Datagram, Top
  <2>3. Loses({})
    BY <1>1, <2>1, <2>2, SameLosesNothing
  <2> QED BY <2>1, <2>2, <2>3, RefusedStays, SeqFitsStays
<1>6. ~CallbackThrows
  BY DEF OneCallAtATime, CallbackThrows
<1> QED BY <1>1, <1>2, <1>3, <1>4, <1>5, <1>6, <1>7, SendFits, VerdictFits, KernelFits
        DEF Next, Client, Library

\* Unless a Message is sent again on a socket that has joined a group, nothing of an answer
\* is left between calls, in the queue or in the kernel, and the next request carries the
\* number that is expected, after errors, failed sends and lost messages too.
THEOREM CallsLeaveNothing ==
  ASSUME OneCallAtATime, ~({"resend", "membership"} \subseteq Usage)
  PROVE  Spec => []NothingLeftBehind
<1> DEFINE Inv == TypeInv /\ OneCallInv /\ SeqFits
<1>1. Init => Inv
  <2>1. Init => SeqFits
    BY DEF Init, SeqFits, Waiting, IsCaller
  <2> QED BY <2>1, InitType, OneCallInit
<1>2. Inv /\ [Next]_vars => Inv'
  BY NextType, OneCallNext, SeqFitsNext
<1>3. Inv => NothingLeftBehind
  <2> SUFFICES ASSUME Inv, stack = <<>>
               PROVE  /\ serving = <<>> /\ seqExpect = seqNext
                      /\ \A i \in DOMAIN queue : \A j \in DOMAIN queue[i] : queue[i][j].call = 0
    BY DEF NothingLeftBehind
  <2>1. serving = <<>>
    BY NobodyRuns
  <2>2. seqExpect = seqNext
    BY DEF SeqFits, Waiting, IsCaller, TypeInv, TypeOK
  <2>3. ASSUME NEW i \in DOMAIN queue, NEW j \in DOMAIN queue[i] PROVE queue[i][j].call = 0
    <3>1. i \in 1..Len(queue) /\ Len(queue) \in Nat
      BY LenProperties DEF TypeInv, TypeOK
    <3>2. i \in 0..Len(queue) /\ Datagram(i) = queue[i]
      BY <3>1 DEF Datagram
    <3>3. <<i, j>> \in Pending /\ At(<<i, j>>) = queue[i][j]
      BY <3>2 DEF Pending, At
    <3> QED BY <3>3, NobodyRuns
  <2> QED BY <2>1, <2>2, <2>3
<1> QED BY <1>1, <1>2, <1>3, PTL DEF Spec
-----------------------------------------------------------------------------
(* The whole answer *)

\* The replies call c has heard stay those, and stay what they are.
HeardKept(c) ==
  /\ OwnReplies(c)' = OwnReplies(c)
  /\ \A i \in OwnReplies(c) : heard'[CallCallback(c)][i].n = heard[CallCallback(c)][i].n

\* Losing what is not a reply to c leaves its answer whole.
LEMMA WholeKept ==
  ASSUME NEW c, NEW D, Loses(D), \A p \in Pending \cap D : ~Own(p, c),
         Sent(c)' = Sent(c), HeardKept(c), WholeAnswer(c)
  PROVE  WholeAnswer(c)'
<1>1. PICK g : /\ \A p \in Pending' : g[p] \in Pending \ D /\ At(p)' = At(g[p])
               /\ \A p, q \in Pending' : Earlier(p, q) => Earlier(g[p], g[q])
               /\ \A r \in Pending \ D : \E p \in Pending' : g[p] = r
  BY DEF Loses
<1>2. \A p \in Pending' : Own(p, c)' <=> Own(g[p], c)
  BY <1>1 DEF Own
<1>3. Rising(c)'
  BY <1>1, <1>2 DEF WholeAnswer, Rising
<1>4. NoneMissing(c)'
  <2> SUFFICES ASSUME NEW n \in 1..Sent(c)
               PROVE  \/ \E i \in OwnReplies(c) : heard[CallCallback(c)][i].n = n
                      \/ \E p \in Pending' : Own(p, c)' /\ At(p)'.n = n
    BY DEF NoneMissing, HeardKept
  <2>1. CASE \E r \in Pending : Own(r, c) /\ At(r).n = n
    BY <1>1, <1>2, <2>1
  <2> QED BY <2>1 DEF WholeAnswer, NoneMissing
<1>5. NoneTooMany(c)'
  BY <1>1, <1>2 DEF WholeAnswer, NoneTooMany, HeardKept
<1> QED BY <1>3, <1>4, <1>5 DEF WholeAnswer

\* So does hearing the first of them.
LEMMA WholeHeard ==
  ASSUME TypeInv, Parsing, NEW c, Loses({<<0, 1>>}), Own(<<0, 1>>, c), Sent(c)' = Sent(c),
         NEW k, OwnReplies(c)' = OwnReplies(c) \cup {k},
         heard'[CallCallback(c)][k].n = At(<<0, 1>>).n,
         \A i \in OwnReplies(c) :
           heard'[CallCallback(c)][i].n = heard[CallCallback(c)][i].n,
         WholeAnswer(c)
  PROVE  WholeAnswer(c)'
<1> DEFINE z == <<0, 1>>
<1>1. PICK g : /\ \A p \in Pending' : g[p] \in Pending \ {z} /\ At(p)' = At(g[p])
               /\ \A p, q \in Pending' : Earlier(p, q) => Earlier(g[p], g[q])
               /\ \A r \in Pending \ {z} : \E p \in Pending' : g[p] = r
  BY DEF Loses
<1>2. \A p \in Pending' : Own(p, c)' <=> Own(g[p], c)
  BY <1>1 DEF Own
<1>3. z \in Pending /\ \A p \in Pending : p # z => Earlier(z, p)
  BY HeadIsFirst
<1> HIDE DEF z
<1>4. Own(z, c) /\ heard'[CallCallback(c)][k].n = At(z).n
  BY DEF z
<1>5. Rising(c)'
  BY <1>1, <1>2 DEF WholeAnswer, Rising
<1>6. NoneMissing(c)'
  <2> SUFFICES ASSUME NEW n \in 1..Sent(c)
               PROVE  \/ \E i \in OwnReplies(c)' : heard'[CallCallback(c)][i].n = n
                      \/ \E p \in Pending' : Own(p, c)' /\ At(p)'.n = n
    BY DEF NoneMissing
  <2>1. CASE \E i \in OwnReplies(c) : heard[CallCallback(c)][i].n = n
    BY <2>1
  <2>2. ASSUME NEW r \in Pending, Own(r, c), At(r).n = n, r # z
        PROVE  \E p \in Pending' : Own(p, c)' /\ At(p)'.n = n
    BY <1>1, <1>2, <2>2
  <2>3. CASE At(z).n = n
    BY <1>4, <2>3
  <2> QED BY <2>1, <2>2, <2>3 DEF WholeAnswer, NoneMissing
<1>7. NoneTooMany(c)'
  <2>1. \A i \in OwnReplies(c)' : heard'[CallCallback(c)][i].n \in 1..Sent(c)'
    BY <1>3, <1>4 DEF WholeAnswer, NoneTooMany
  <2>2. ASSUME NEW p \in Pending', Own(p, c)'
        PROVE  /\ At(p)'.n \in 1..Sent(c)'
               /\ \A i \in OwnReplies(c)' : heard'[CallCallback(c)][i].n < At(p)'.n
    <3>1. g[p] \in Pending /\ g[p] # z /\ At(p)' = At(g[p]) /\ Own(g[p], c)
      BY <1>1, <1>2, <2>2
    <3>2. At(z).n < At(g[p]).n
      BY <1>3, <1>4, <3>1 DEF WholeAnswer, Rising
    <3> QED BY <1>4, <3>1, <3>2 DEF WholeAnswer, NoneTooMany
  <2> QED BY <2>1, <2>2 DEF NoneTooMany
<1> QED BY <1>5, <1>6, <1>7 DEF WholeAnswer

\* So does the next reply, and what is no reply to c.
LEMMA WholeGains ==
  ASSUME NEW c, NEW m, Gains(m), Sent(c) \in Nat, HeardKept(c), WholeAnswer(c),
         \/ m.call = c /\ m.type = "valid" /\ m.n = Sent(c) + 1 /\ Sent(c)' = Sent(c) + 1
         \/ ~(m.call = c /\ m.type = "valid") /\ Sent(c)' = Sent(c)
  PROVE  WholeAnswer(c)'
<1>1. PICK e : /\ Pending' = Pending \cup {e} /\ e \notin Pending /\ At(e)' = m
               /\ ~Earlier(e, e)
               /\ \A p \in Pending : At(p)' = At(p) /\ Earlier(p, e) /\ ~Earlier(e, p)
  BY DEF Gains
<1>2. \A p \in Pending : Own(p, c)' <=> Own(p, c)
  BY <1>1 DEF Own
<1>3. Own(e, c)' <=> m.call = c /\ m.type = "valid"
  BY <1>1 DEF Own
<1>4. Sent(c)' \in Nat /\ \A n : n \in 1..Sent(c)' => n \in 1..Sent(c) \/ (Own(e, c)' /\ n = m.n)
  BY <1>3
<1>5. \A n \in 1..Sent(c) : n \in 1..Sent(c)' /\ (Own(e, c)' => n < m.n)
  BY <1>3
<1>6. Own(e, c)' => m.n \in 1..Sent(c)'
  BY <1>3
<1>7. Rising(c)'
  <2> SUFFICES ASSUME NEW p \in Pending', NEW q \in Pending', Own(p, c)', Own(q, c)',
                      Earlier(p, q)
               PROVE  At(p)'.n < At(q)'.n
    BY DEF Rising
  <2>1. p \in Pending
    BY <1>1
  <2>2. CASE q = e
    BY <1>1, <1>2, <1>5, <2>1, <2>2 DEF WholeAnswer, NoneTooMany
  <2>3. CASE q \in Pending
    BY <1>1, <1>2, <2>1, <2>3 DEF WholeAnswer, Rising
  <2> QED BY <1>1, <2>2, <2>3
<1>8. NoneMissing(c)'
  <2> SUFFICES ASSUME NEW n \in 1..Sent(c)'
               PROVE  \/ \E i \in OwnReplies(c)' : heard'[CallCallback(c)][i].n = n
                      \/ \E p \in Pending' : Own(p, c)' /\ At(p)'.n = n
    BY DEF NoneMissing
  <2>1. CASE n \in 1..Sent(c)
    <3>1. \/ \E i \in OwnReplies(c) : heard[CallCallback(c)][i].n = n
          \/ \E p \in Pending : Own(p, c) /\ At(p).n = n
      BY <2>1 DEF WholeAnswer, NoneMissing
    <3> QED BY <1>1, <1>2, <3>1 DEF HeardKept
  <2>2. CASE Own(e, c)' /\ n = m.n
    BY <1>1, <2>2
  <2> QED BY <1>4, <2>1, <2>2
<1>9. NoneTooMany(c)'
  <2>1. \A i \in OwnReplies(c)' : heard'[CallCallback(c)][i].n \in 1..Sent(c)'
    BY <1>5 DEF WholeAnswer, NoneTooMany, HeardKept
  <2>2. ASSUME NEW p \in Pending', Own(p, c)'
        PROVE  /\ At(p)'.n \in 1..Sent(c)'
               /\ \A i \in OwnReplies(c)' : heard'[CallCallback(c)][i].n < At(p)'.n
    <3>1. CASE p = e
      BY <1>1, <1>5, <1>6, <2>2, <3>1 DEF WholeAnswer, NoneTooMany, HeardKept
    <3>2. CASE p \in Pending
      BY <1>1, <1>2, <1>5, <2>2, <3>2 DEF WholeAnswer, NoneTooMany, HeardKept
    <3> QED BY <1>1, <3>1, <3>2
  <2> QED BY <2>1, <2>2 DEF NoneTooMany
<1> QED BY <1>7, <1>8, <1>9 DEF WholeAnswer

\* Nobody has heard anything when the socket has been constructed.
LEMMA CompleteInit == Init /\ TypeInv => CompleteInv
<1> SUFFICES ASSUME Init, TypeInv PROVE CompleteInv
  OBVIOUS
<1>1. \A c \in Calls : heard[CallCallback(c)] = <<>> /\ OwnReplies(c) = {} /\ ~IsCaller(c)
  BY DEF Init, Callbacks, OwnReplies, IsCaller
<1>2. CompleteOnReturn
  BY DEF Init, CompleteOnReturn, Returned
<1> QED BY <1>1, <1>2 DEF CompleteInv, HeardInOrder

\* A step that neither begins nor ends a call and runs no callback.
LEMMA PlainKeeps ==
  ASSUME CompleteInv, KeepsCaller, UNCHANGED <<validCallback, heard, outcome, answer, listens>>,
         \A c \in Calls : IsCaller(c) => AnswerIsWhole(c)'
  PROVE  CompleteInv'
<1>1. \A c \in Calls : OwnReplies(c)' = OwnReplies(c)
  BY DEF OwnReplies
<1>2. HeardInOrder' /\ CompleteOnReturn'
  BY <1>1 DEF CompleteInv, HeardInOrder, CompleteOnReturn, Returned
<1> QED BY <1>2 DEF CompleteInv, KeepsCaller

\* A message that is refused for its number is part of the answer that all carries it.
LEMMA ReaderKeepsComplete ==
  ASSUME TypeInv, TypeInv', OneCallInv, CompleteInv,
         \/ CallbackReturns \/ ReadDatagram \/ ReadFails
         \/ SequenceMismatch \/ EndOfDatagram \/ UNCHANGED vars
  PROVE  CompleteInv'
<1>1. /\ KeepsCaller
      /\ UNCHANGED <<callStatus, acceptAny, seqExpect, serving, validCallback, heard, outcome,
                     answer, listens>>
      /\ Loses({}) \/ (SequenceMismatch /\ Loses({p \in Pending : p[1] = 0}))
  BY ReaderStep DEF socketVars, seqVars, historyVars
<1> SUFFICES ASSUME NEW c \in Calls, IsCaller(c) PROVE AnswerIsWhole(c)'
  BY <1>1, PlainKeeps
<1>2. PICK s \in Nat : /\ \A p \in Pending : At(p).call = c => At(p).seq = s
                       /\ \A i \in DOMAIN serving : serving[i].seq = s
                       /\ Accepts(s) /\ listens[c] => WholeAnswer(c)
                       /\ ~Accepts(s) => callStatus > 0
  BY DEF CompleteInv, AnswerIsWhole
<1>3. (Accepts(s)' <=> Accepts(s)) /\ Sent(c)' = Sent(c) /\ HeardKept(c)
  BY <1>1 DEF Accepts, Sent, HeardKept, OwnReplies
<1>4. \A p \in Pending' : At(p)'.call = c => At(p)'.seq = s
  BY <1>1, <1>2 DEF Loses
<1>5. Accepts(s) /\ listens[c] => WholeAnswer(c)'
  <2>1. CASE Loses({})
    BY <1>2, <1>3, <2>1, WholeKept
  <2>2. CASE SequenceMismatch
    <3>1. Parsing /\ ~(acceptAny \/ Msg.seq = seqExpect)
      BY <2>2 DEF SequenceMismatch, Accepted
    <3>2. IsCaller(Msg.call)
      BY <3>1, HeadIsFirst DEF OneCallInv, PendingIsCallers
    <3>3. Msg.call = c
      BY <3>2 DEF IsCaller
    <3>4. Msg.seq = s
      BY <1>2, <3>1, <3>3, HeadIsFirst
    <3> QED BY <3>1, <3>4 DEF Accepts
  <2> QED BY <1>1, <2>1, <2>2
<1> QED BY <1>1, <1>2, <1>3, <1>4, <1>5 DEF AnswerIsWhole

\* The verdict comes when all the replies have been heard.
LEMMA VerdictKeepsComplete ==
  ASSUME TypeInv, TypeInv', OneCallInv, CompleteInv,
         FinishCallbackWrapper \/ AckCallbackWrapper \/ ErrorCallbackWrapper
  PROVE  CompleteInv'
<1>1. /\ KeepsCaller /\ Parsing /\ (acceptAny \/ Msg.seq = seqExpect) /\ Msg.type # "valid"
      /\ UNCHANGED <<acceptAny, serving, validCallback, heard, outcome, answer, listens>>
  BY VerdictStep DEF Accepted, historyVars
<1>2. PICK D : Loses(D)
  BY VerdictStep
<1> SUFFICES ASSUME NEW c \in Calls, IsCaller(c) PROVE AnswerIsWhole(c)'
  BY <1>1, PlainKeeps
<1>3. PICK s \in Nat : /\ \A p \in Pending : At(p).call = c => At(p).seq = s
                       /\ Accepts(s) /\ listens[c] => WholeAnswer(c)
  BY DEF CompleteInv, AnswerIsWhole
<1>4. Msg.call = c
  BY <1>1, VerdictIsAwaited DEF IsCaller
<1>5. serving = <<>> /\ \A p \in Pending : p # <<0, 1>> => At(p).call = 0
  BY <1>1, HeadIsFirst DEF OneCallInv, EndComesLast
<1>6. Accepts(s)
  BY <1>1, <1>3, <1>4, HeadIsFirst DEF Accepts
<1>7. \A p \in Pending : ~Own(p, c)
  BY <1>1, <1>5, HeadIsFirst DEF Own, Calls
<1>8. listens[c] => WholeAnswer(c)'
  <2>1. Sent(c)' = Sent(c) /\ HeardKept(c)
    BY <1>1 DEF Sent, HeardKept, OwnReplies
  <2> QED BY <1>2, <1>3, <1>6, <1>7, <2>1, WholeKept
<1>9. PICK t \in Nat : t = seqExpect'
  BY DEF TypeInv, TypeOK
<1>10. \A p \in Pending' : At(p)'.call # c
  <2>1. \A p \in Pending' : \E r \in Pending : At(p)' = At(r) /\ r # <<0, 1>>
    BY VerdictStep DEF Loses
  <2> QED BY <1>5, <2>1 DEF Calls
<1>11. Accepts(t)' /\ DOMAIN serving' = {}
  BY <1>1, <1>5, <1>9 DEF Accepts
<1> QED BY <1>1, <1>8, <1>9, <1>10, <1>11 DEF AnswerIsWhole

\* The kernel sends the next reply, the end after the last one, or an event.
LEMMA KernelKeepsComplete ==
  ASSUME TypeInv, TypeInv', OneCallInv, CompleteInv, "overrun" \notin Usage,
         KernelAnswers \/ KernelMulticasts
  PROVE  CompleteInv'
<1>1. /\ KeepsCaller /\ stack' = stack
      /\ UNCHANGED <<callStatus, acceptAny, seqExpect, validCallback, heard, outcome, answer,
                     listens>>
  BY KernelStep DEF KeepsCaller, IsCaller, Top, socketVars, seqVars, historyVars
<1>2. PICK m \in Message :
        /\ Enqueue(m)
        /\ SendsEvent(m) \/ \E r \in Serving : SendsReply(m, r) \/ SendsEnd(m, r)
  BY KernelStep
<1>3. Gains(m)
  BY <1>1, <1>2, SentGoesLast
<1> SUFFICES ASSUME NEW c \in Calls, IsCaller(c) PROVE AnswerIsWhole(c)'
  BY <1>1, PlainKeeps
<1>4. PICK s \in Nat : /\ \A p \in Pending : At(p).call = c => At(p).seq = s
                       /\ \A i \in DOMAIN serving : serving[i].seq = s
                       /\ Accepts(s) /\ listens[c] => WholeAnswer(c)
                       /\ ~Accepts(s) => callStatus > 0
  BY DEF CompleteInv, AnswerIsWhole
<1>5. (Accepts(s)' <=> Accepts(s)) /\ HeardKept(c)
  BY <1>1 DEF Accepts, HeardKept, OwnReplies
<1>6. \/ m.call # c /\ serving' = serving
      \/ \E r \in Serving :
           /\ m.call = c /\ m.seq = r.seq /\ serving = <<r>>
           /\ \/ m.type = "valid" /\ m.n = r.sent + 1 /\ serving' = <<[r EXCEPT !.sent = @ + 1]>>
              \/ m.type # "valid" /\ serving' = <<>> /\ r.sent = answer[c].replies
  <2>1. CASE SendsEvent(m)
    BY <2>1 DEF SendsEvent, Calls
  <2>2. ASSUME NEW r \in Serving, IsCaller(r.call) PROVE r.call = c
    BY <2>2 DEF IsCaller
  <2> QED BY <1>2, <2>1, <2>2 DEF SendsReply, SendsEnd
<1>7. \A p \in Pending' : At(p)'.call = c => At(p)'.seq = s
  <2>1. m.call = c => m.seq = s
    <3>1. ASSUME NEW r, serving = <<r>>, m.seq = r.seq PROVE m.seq = s
      BY <1>4, <3>1
    <3> QED BY <1>6, <3>1
  <2> QED BY <1>3, <1>4, <2>1 DEF Gains
<1>8. \A i \in DOMAIN serving' : serving'[i].seq = s
  <2>1. CASE serving' = serving
    BY <1>4, <2>1
  <2>2. CASE serving' = <<>>
    BY <2>2
  <2>3. ASSUME NEW r \in Serving, serving = <<r>>, serving' = <<[r EXCEPT !.sent = @ + 1]>>
        PROVE  \A i \in DOMAIN serving' : serving'[i].seq = s
    <3>1. r.seq = s
      BY <1>4, <2>3
    <3>2. PICK u : u = [r EXCEPT !.sent = @ + 1]
      OBVIOUS
    <3>3. serving' = <<u>> /\ u.seq = s
      BY <2>3, <3>1, <3>2 DEF Serving
    <3> QED BY <3>3
  <2> QED BY <1>6, <2>1, <2>2, <2>3
<1>9. ASSUME WholeAnswer(c) PROVE WholeAnswer(c)'
  <2>1. answer[c].replies \in Nat /\ answer' = answer
    BY <1>1, BoundsAreNat DEF TypeInv, TypeOK, Answer
  <2>2. Sent(c) \in Nat
    <3>1. serving # <<>> => serving[1].sent \in Nat
      <4>1. serving \in Seq(Serving)
        BY DEF TypeInv, TypeOK, Serving
      <4>2. serving # <<>> => serving[1] \in Serving
        <5>1. serving # <<>> => 1 \in 1..Len(serving)
          BY ONLY <4>1, EmptySeq, LenProperties
        <5> QED BY ONLY <4>1, <5>1, ElementOfSeq
      <4> QED BY <4>2 DEF Serving
    <3> QED BY <2>1, <3>1 DEF Sent
  <2>3. CASE m.call # c /\ serving' = serving
    BY <1>3, <1>5, <1>9, <2>1, <2>2, <2>3, WholeGains DEF Sent
  <2>4. ASSUME NEW r \in Serving, m.call = c, m.type = "valid", m.n = r.sent + 1,
               serving = <<r>>, serving' = <<[r EXCEPT !.sent = @ + 1]>>
        PROVE  WholeAnswer(c)'
    <3>1. Sent(c) = r.sent
      BY <2>4 DEF Sent
    <3>2. Sent(c)' = r.sent + 1
      BY <2>4 DEF Sent, Serving
    <3> QED BY <1>3, <1>5, <1>9, <2>2, <2>4, <3>1, <3>2, WholeGains
  <2>5. ASSUME NEW r \in Serving, m.type # "valid", serving = <<r>>, serving' = <<>>,
               r.sent = answer[c].replies
        PROVE  WholeAnswer(c)'
    <3>1. Sent(c)' = Sent(c)
      BY <2>1, <2>5 DEF Sent
    <3> QED BY <1>3, <1>5, <1>9, <2>2, <2>5, <3>1, WholeGains
  <2> QED BY <1>6, <2>3, <2>4, <2>5
<1> QED BY <1>1, <1>4, <1>5, <1>7, <1>8, <1>9 DEF AnswerIsWhole

\* A callback of a call is run only on an event or a reply to the call.
LEMMA WhatIsHeard ==
  ASSUME TypeInv, TypeInv', OneCallInv, ValidCallbackWrapper, NEW c \in Calls
  PROVE  /\ heard[CallCallback(c)] \in Seq(Message) /\ Msg \in Message
         /\ \/ /\ validCallback # CallCallback(c)
               /\ heard'[CallCallback(c)] = heard[CallCallback(c)]
            \/ /\ validCallback = CallCallback(c)
               /\ IsCaller(c) /\ listens[c] /\ Msg.call \in {0, c}
               /\ heard'[CallCallback(c)] = Append(heard[CallCallback(c)], Msg)
<1>1. CallCallback(c) \in Callbacks /\ CallCallback(c) # NoCallback
  BY DEF Callbacks, CallCallback, NoCallback
<1>2. heard[CallCallback(c)] \in Seq(Message) /\ heard \in [Callbacks -> Seq(Message)]
  BY <1>1 DEF TypeInv, TypeOK
<1>3. Parsing /\ Msg.type = "valid"
      /\ \/ validCallback = NoCallback /\ heard' = heard
         \/ validCallback \in Callbacks
            /\ heard' = [heard EXCEPT ![validCallback] = Append(@, Msg)]
  BY ParseStep
<1>4. Msg \in Message
  BY <1>3, Parsed DEF TypeInv, TypeOK
<1>5. CASE validCallback # CallCallback(c)
  BY <1>1, <1>2, <1>3, <1>4, <1>5
<1>6. CASE validCallback = CallCallback(c)
  <2>1. IsCaller(c) /\ listens[c]
    BY <1>6 DEF OneCallInv, OwnCallbackOnly
  <2>2. Msg.call \in {0, c}
    BY <1>3, <2>1, HeadIsFirst DEF OneCallInv, PendingIsCallers, IsCaller
  <2> QED BY <1>1, <1>2, <1>3, <1>4, <1>6, <2>1, <2>2
<1> QED BY <1>5, <1>6

\* The history of a callback with one more message.
LEMMA HeardLast ==
  ASSUME NEW c, heard[CallCallback(c)] \in Seq(Message), Msg \in Message,
         heard'[CallCallback(c)] = Append(heard[CallCallback(c)], Msg),
         NEW k, k = Len(heard[CallCallback(c)]) + 1
  PROVE  /\ heard'[CallCallback(c)][k] = Msg
         /\ \A i \in OwnReplies(c) :
              i < k /\ i # k /\ heard'[CallCallback(c)][i] = heard[CallCallback(c)][i]
         /\ \A i \in OwnReplies(c)' : i < k \/ i = k
         /\ OwnReplies(c)' = OwnReplies(c) \cup (IF Msg.call = c THEN {k} ELSE {})
<1> DEFINE h == heard[CallCallback(c)]
           g == Append(h, Msg)
<1>1. /\ DOMAIN h = 1..Len(h) /\ Len(h) \in Nat /\ DOMAIN g = 1..k /\ g[k] = Msg
      /\ \A i \in 1..Len(h) : g[i] = h[i]
  BY AppendProperties, LenProperties
<1>2. \A i : i \in 1..k <=> i \in 1..Len(h) \/ i = k
  BY <1>1
<1>3. \A i \in 1..Len(h) : i < k /\ i # k
  BY <1>1
<1>4. heard'[CallCallback(c)] = g
  OBVIOUS
<1> HIDE DEF h, g
<1>5. OwnReplies(c) = {i \in DOMAIN h : h[i].call = c}
  BY DEF OwnReplies, h
<1>6. OwnReplies(c)' = {i \in DOMAIN g : g[i].call = c}
  BY <1>4 DEF OwnReplies
<1>7. OwnReplies(c)' = OwnReplies(c) \cup (IF Msg.call = c THEN {k} ELSE {})
  BY <1>1, <1>2, <1>3, <1>5, <1>6
<1> QED BY <1>1, <1>2, <1>3, <1>4, <1>5, <1>6, <1>7 DEF h

\* The reply heard is the first of those on their way, and comes after all heard before.
LEMMA NextReplyIsHeard ==
  ASSUME TypeInv, Parsing, acceptAny \/ Msg.seq = seqExpect, Msg.type = "valid", CompleteInv,
         NEW c \in Calls, IsCaller(c), listens[c], Msg.call = c
  PROVE  WholeAnswer(c) /\ Own(<<0, 1>>, c) /\ <<0, 1>> \in Pending /\ At(<<0, 1>>) = Msg
<1>1. PICK s \in Nat : /\ \A p \in Pending : At(p).call = c => At(p).seq = s
                       /\ Accepts(s) /\ listens[c] => WholeAnswer(c)
  BY DEF CompleteInv, AnswerIsWhole
<1> QED BY <1>1, HeadIsFirst DEF Accepts, Own

\* The message parsed is the first of those on their way, so what is heard is the next reply.
LEMMA ParseKeepsComplete ==
  ASSUME TypeInv, TypeInv', OneCallInv, CompleteInv, ValidCallbackWrapper
  PROVE  CompleteInv'
<1>1. /\ KeepsCaller /\ Parsing /\ (acceptAny \/ Msg.seq = seqExpect) /\ Msg.type = "valid"
      /\ Loses({<<0, 1>>})
      /\ UNCHANGED <<callStatus, acceptAny, seqExpect, serving, validCallback, outcome, answer,
                     listens>>
  BY ParseStep DEF Accepted, socketVars, seqVars
<1>2. ASSUME NEW c \in Calls, heard'[CallCallback(c)] = heard[CallCallback(c)]
      PROVE  OwnReplies(c)' = OwnReplies(c) /\ HeardKept(c)
  BY <1>2 DEF OwnReplies, HeardKept
<1>3. ASSUME NEW c \in Calls, heard'[CallCallback(c)] # heard[CallCallback(c)]
      PROVE  IsCaller(c) /\ listens[c] /\ outcome[c] = "active"
  BY <1>3, WhatIsHeard DEF OneCallInv, ActiveIsCaller
<1>4. ASSUME NEW c \in Calls, IsCaller(c) PROVE AnswerIsWhole(c)'
  <2>1. PICK s \in Nat : /\ \A p \in Pending : At(p).call = c => At(p).seq = s
                         /\ \A i \in DOMAIN serving : serving[i].seq = s
                         /\ Accepts(s) /\ listens[c] => WholeAnswer(c)
                         /\ ~Accepts(s) => callStatus > 0
    BY <1>4 DEF CompleteInv, AnswerIsWhole
  <2>2. (Accepts(s)' <=> Accepts(s)) /\ Sent(c)' = Sent(c)
    BY <1>1 DEF Accepts, Sent
  <2>3. \A p \in Pending' : At(p)'.call = c => At(p)'.seq = s
    BY <1>1, <2>1 DEF Loses
  <2>4. ASSUME WholeAnswer(c), listens[c] PROVE WholeAnswer(c)'
    <3>1. validCallback = CallCallback(c)
      BY <1>4, <2>4 DEF CompleteInv
    <3>2. PICK k : k = Len(heard[CallCallback(c)]) + 1
      OBVIOUS
    <3>3. /\ heard'[CallCallback(c)][k] = Msg
          /\ \A i \in OwnReplies(c) : heard'[CallCallback(c)][i] = heard[CallCallback(c)][i]
          /\ OwnReplies(c)' = OwnReplies(c) \cup (IF Msg.call = c THEN {k} ELSE {})
      BY <3>1, <3>2, WhatIsHeard, HeardLast
    <3>4. CASE Msg.call = c
      BY <1>1, <1>4, <2>2, <2>4, <3>3, <3>4, NextReplyIsHeard, WholeHeard
    <3>5. CASE Msg.call # c
      <4>1. HeardKept(c)
        BY <3>3, <3>5 DEF HeardKept
      <4>2. \A p \in Pending \cap {<<0, 1>>} : ~Own(p, c)
        BY <1>1, <3>5, HeadIsFirst DEF Own
      <4> QED BY <1>1, <2>2, <2>4, <4>1, <4>2, WholeKept
    <3> QED BY <3>4, <3>5
  <2> QED BY <1>1, <2>1, <2>2, <2>3, <2>4 DEF AnswerIsWhole
<1>5. HeardInOrder'
  <2> SUFFICES ASSUME NEW c \in Calls, NEW i \in OwnReplies(c)', NEW j \in OwnReplies(c)', i < j
               PROVE  heard'[CallCallback(c)][i].n < heard'[CallCallback(c)][j].n
    BY DEF HeardInOrder
  <2>1. CASE heard'[CallCallback(c)] = heard[CallCallback(c)]
    BY <1>2, <2>1 DEF CompleteInv, HeardInOrder
  <2>2. CASE heard'[CallCallback(c)] # heard[CallCallback(c)]
    <3>1. IsCaller(c) /\ listens[c]
      BY <1>3, <2>2
    <3>2. PICK k : k = Len(heard[CallCallback(c)]) + 1
      OBVIOUS
    <3>3. /\ heard'[CallCallback(c)][k] = Msg
          /\ \A l \in OwnReplies(c) :
               l < k /\ l # k /\ heard'[CallCallback(c)][l] = heard[CallCallback(c)][l]
          /\ OwnReplies(c)' = OwnReplies(c) \cup (IF Msg.call = c THEN {k} ELSE {})
          /\ k \in Nat /\ OwnReplies(c) \subseteq Nat
      <4>1. Len(heard[CallCallback(c)]) \in Nat /\ OwnReplies(c) \subseteq Nat
        BY WhatIsHeard, LenProperties DEF OwnReplies
      <4> QED BY <2>2, <3>2, <4>1, WhatIsHeard, HeardLast
    <3>4. CASE i \in OwnReplies(c) /\ j \in OwnReplies(c)
      BY <3>3, <3>4 DEF CompleteInv, HeardInOrder
    <3>5. CASE i \in OwnReplies(c) /\ j = k /\ Msg.call = c
      BY <1>1, <3>1, <3>3, <3>5, NextReplyIsHeard DEF WholeAnswer, NoneTooMany
    <3>6. ~(i = k)
      BY <3>3
    <3> QED BY <3>3, <3>4, <3>5, <3>6
  <2> QED BY <2>1, <2>2
<1>6. CompleteOnReturn'
  BY <1>1, <1>2, <1>3 DEF CompleteInv, CompleteOnReturn, Returned
<1>7. \A c \in Calls : ~listens'[c] \/ outcome'[c] = "none" => heard'[CallCallback(c)] = <<>>
  BY <1>1, <1>3 DEF CompleteInv
<1> QED BY <1>1, <1>4, <1>5, <1>6, <1>7 DEF CompleteInv, KeepsCaller

\* A new call installs its callback, and none of its answer is sent.
LEMMA SendKeepsComplete ==
  ASSUME TypeInv, TypeInv', OneCallAtATime, OneCallInv, CompleteInv,
         NEW c \in Calls, NEW m \in Messages, NEW dump \in BOOLEAN, NEW own \in BOOLEAN,
         NEW a \in AnswersTo(dump) \cup {NotSent}, SendMessageSync(c, m, dump, a, own)
  PROVE  CompleteInv'
<1>1. callStatus' = 1 /\ heard' = heard /\ outcome[c] = "none"
      /\ validCallback' = (IF own THEN CallCallback(c) ELSE validCallback)
      /\ outcome' = [outcome EXCEPT ![c] = "active"] /\ answer' = [answer EXCEPT ![c] = a]
      /\ listens' = [listens EXCEPT ![c] = own]
  BY DEF SendMessageSync, IsNextCall
<1>2. /\ outcome'[c] = "active" /\ listens'[c] = own /\ answer'[c] = a
      /\ \A d \in Calls : d # c => UNCHANGED <<outcome[d], listens[d], answer[d]>>
  BY <1>1 DEF TypeInv, TypeOK
<1>3. \A d : IsCaller(d)' <=> d = c
  BY CallBegins
<1>4. \A p \in Pending' : At(p)'.call = 0
  BY CallBegins
<1>5. \A d : OwnReplies(d)' = OwnReplies(d)
  BY <1>1 DEF OwnReplies
<1>6. heard[CallCallback(c)] = <<>> /\ OwnReplies(c) = {}
  BY <1>1 DEF CompleteInv, OwnReplies
<1>7. serving = <<>>
  BY CallBegins
<1>8. PICK s \in Nat : s = IF header[m] = 0 THEN seqNext ELSE header[m]
  BY DEF TypeInv, TypeOK
<1>9. \/ serving' = <<>> /\ a.replies = 0
      \/ serving' = <<[call |-> c, seq |-> s, dump |-> dump, sent |-> 0]>>
  BY <1>7, <1>8 DEF SendMessageSync, NotSent
<1>10. Sent(c)' = 0 /\ \A i \in DOMAIN serving' : serving'[i].seq = s
  BY <1>2, <1>9 DEF Sent
<1>11. WholeAnswer(c)'
  BY <1>4, <1>5, <1>6, <1>10 DEF WholeAnswer, Rising, NoneMissing, NoneTooMany, Own, Calls
<1>12. AnswerIsWhole(c)'
  BY <1>1, <1>4, <1>10, <1>11 DEF AnswerIsWhole, Calls
<1>13. HeardInOrder' /\ CompleteOnReturn'
  BY <1>1, <1>2, <1>5 DEF CompleteInv, HeardInOrder, CompleteOnReturn, Returned
<1> QED BY <1>1, <1>2, <1>3, <1>6, <1>12, <1>13 DEF CompleteInv

\* A call that has its verdict has heard all its replies.
LEMMA AllIsHeard ==
  ASSUME TypeInv, TypeInv', OneCallInv, CompleteInv, SyncReturns, NEW c, c = Top.call, listens[c]
  PROVE  {heard[CallCallback(c)][i].n : i \in OwnReplies(c)} = 1..answer[c].replies
<1>1. /\ c \in Calls /\ IsCaller(c) /\ serving = <<>> /\ \A p \in Pending : At(p).call = 0
      /\ callStatus <= 0
  BY CallEnds
<1>2. WholeAnswer(c) /\ Sent(c) = answer[c].replies
  <2>1. ~(callStatus > 0)
    BY <1>1 DEF TypeInv, TypeOK, CallStatus, ErrorCode, EPROTO
  <2> QED BY <1>1, <2>1 DEF CompleteInv, AnswerIsWhole, Sent
<1>3. \A p \in Pending : ~Own(p, c)
  BY <1>1 DEF Own, Calls
<1> QED BY <1>2, <1>3 DEF WholeAnswer, NoneMissing, NoneTooMany

\* At the return nothing of the answer is on its way, so all of it has been heard.
LEMMA ReturnKeepsComplete ==
  ASSUME TypeInv, TypeInv', OneCallInv, CompleteInv, SyncReturns
  PROVE  CompleteInv'
<1>1. PICK c : c = Top.call
  OBVIOUS
<1>2. stack' = <<>> /\ c \in Calls
  BY <1>1, CallEnds
<1>3. /\ UNCHANGED <<heard, answer, listens>>
      /\ \A d \in Calls : d # c => outcome'[d] = outcome[d]
      /\ outcome'[c] # "none"
  BY <1>1, <1>2 DEF SyncReturns, TypeInv, TypeOK
<1>4. \A d : OwnReplies(d)' = OwnReplies(d) /\ ~IsCaller(d)'
  BY <1>2, <1>3 DEF OwnReplies, IsCaller
<1>5. ASSUME listens[c]
      PROVE  {heard[CallCallback(c)][i].n : i \in OwnReplies(c)} = 1..answer[c].replies
  BY <1>1, <1>5, AllIsHeard
<1>6. HeardInOrder'
  BY <1>3, <1>4 DEF CompleteInv, HeardInOrder
<1>7. CompleteOnReturn'
  BY <1>2, <1>3, <1>4, <1>5 DEF CompleteInv, CompleteOnReturn, HeardInOrder, Returned
<1>8. \A d \in Calls : ~listens'[d] \/ outcome'[d] = "none" => heard'[CallCallback(d)] = <<>>
  BY <1>2, <1>3 DEF CompleteInv
<1> QED BY <1>4, <1>6, <1>7, <1>8 DEF CompleteInv

\* What the client does between calls.
LEMMA IdleKeepsComplete ==
  ASSUME TypeInv, OneCallAtATime, CompleteInv, "reconfigure" \notin Usage,
         \/ ReceiveMessages \/ AddMembership \/ DropMembership
         \/ \E h \in Handlers : OnValidMessage(h)
  PROVE  CompleteInv'
<1>1. UNCHANGED <<heard, outcome, answer, listens>>
  <2>1. ASSUME NEW h \in Handlers, OnValidMessage(h)
        PROVE  UNCHANGED <<heard, outcome, answer, listens>>
    BY <2>1 DEF OnValidMessage
  <2>2. CASE ReceiveMessages \/ AddMembership \/ DropMembership
    BY <2>2 DEF ReceiveMessages, AddMembership, DropMembership, historyVars
  <2> QED BY <2>1, <2>2
<1>2. \A c : ~IsCaller(c)'
  <2>1. CASE ReceiveMessages \/ AddMembership \/ DropMembership
    BY <2>1, NobodyCalls
  <2>2. ASSUME NEW h \in Handlers, OnValidMessage(h) PROVE stack' = <<>>
    BY <2>2 DEF OnValidMessage
  <2> QED BY <2>1, <2>2 DEF IsCaller
<1>3. HeardInOrder' /\ CompleteOnReturn'
  <2>1. \A c \in Calls : OwnReplies(c)' = OwnReplies(c)
    BY <1>1 DEF OwnReplies
  <2> QED BY <1>1, <2>1 DEF CompleteInv, HeardInOrder, CompleteOnReturn, Returned
<1> QED BY <1>1, <1>2, <1>3 DEF CompleteInv

\* Every step keeps the invariant, if no datagram is lost and no callback sets another.
LEMMA CompleteNext ==
  ASSUME TypeInv, OneCallAtATime, {"overrun", "reconfigure"} \cap Usage = {},
         OneCallInv, CompleteInv, [Next]_vars
  PROVE  CompleteInv'
<1>1. TypeInv'
  BY NextType
<1>2. ~CallbackThrows
  BY DEF OneCallAtATime, CallbackThrows
<1> QED BY <1>1, <1>2, SendKeepsComplete, ReturnKeepsComplete, IdleKeepsComplete,
           ReaderKeepsComplete, ParseKeepsComplete, VerdictKeepsComplete, KernelKeepsComplete
        DEF Next, Client, Library

\* If no callback calls onValidMessage and the receive queue loses nothing, then a call that
\* returns has heard every reply to its request, once and in order, also when the Message
\* was sent before, when the client is subscribed to events and after failed sends.
THEOREM AnswersAreComplete ==
  ASSUME OneCallAtATime, {"overrun", "reconfigure"} \cap Usage = {}
  PROVE  Spec => []CompleteOnReturn
<1> DEFINE Inv == TypeInv /\ OneCallInv /\ CompleteInv
<1>1. Init => Inv
  BY InitType, OneCallInit, CompleteInit
<1>2. Inv /\ [Next]_vars => Inv'
  BY NextType, OneCallNext, CompleteNext
<1>3. Inv => CompleteOnReturn
  BY DEF CompleteInv
<1> QED BY <1>1, <1>2, <1>3, PTL DEF Spec
-----------------------------------------------------------------------------
(* A call of sendMessageSync is a call of SyncCall *)

\* What a callback was told is a sequence: its own replies' numbers among zeros.
ToldAreSeqs ==
  \A c \in Calls :
    /\ Told(c) \in Seq(Nat) /\ heard[CallCallback(c)] \in Seq(Message)
    /\ Len(Told(c)) = Len(heard[CallCallback(c)])
    /\ DOMAIN Told(c) = DOMAIN heard[CallCallback(c)]
    /\ OwnReplies(c) \subseteq DOMAIN Told(c)
    /\ \A i \in DOMAIN Told(c) :
         Told(c)[i] = IF i \in OwnReplies(c) THEN heard[CallCallback(c)][i].n ELSE 0

\* What the callback of a call was told follows what it was run on.
LEMMA ToldIsSeq == TypeInv => ToldAreSeqs
<1> SUFFICES ASSUME TypeInv, NEW c \in Calls
             PROVE  /\ Told(c) \in Seq(Nat) /\ heard[CallCallback(c)] \in Seq(Message)
                    /\ Len(Told(c)) = Len(heard[CallCallback(c)])
                    /\ DOMAIN Told(c) = DOMAIN heard[CallCallback(c)]
                    /\ OwnReplies(c) \subseteq DOMAIN Told(c)
                    /\ \A i \in DOMAIN Told(c) : Told(c)[i] = IF i \in OwnReplies(c)
                                                   THEN heard[CallCallback(c)][i].n ELSE 0
  BY DEF ToldAreSeqs
<1>1. heard[CallCallback(c)] \in Seq(Message)
  BY DEF TypeInv, TypeOK, Callbacks
<1>2. PICK n \in Nat : n = Len(heard[CallCallback(c)]) /\ DOMAIN heard[CallCallback(c)] = 1..n
  BY <1>1, LenProperties
<1>3. \A i \in 1..n : heard[CallCallback(c)][i] \in Message
  BY <1>1, <1>2, ElementOfSeq
<1>4. Told(c) \in [1..n -> Nat]
  BY <1>2, <1>3 DEF Told, Message
<1>5. Told(c) \in Seq(Nat) /\ Len(Told(c)) = n
  BY <1>4
<1> QED BY <1>1, <1>2, <1>4, <1>5 DEF Told, OwnReplies

\* The same after a step.
LEMMA ToldWillBe == TypeInv' => ToldAreSeqs'
  BY ToldIsSeq, PTL

\* The callback of a call is told the first of the replies it has not been told yet.
LEMMA NextIsTold ==
  ASSUME TypeInv, TypeInv', OneCallInv, CompleteInv, ValidCallbackWrapper, NEW c \in Calls,
         heard'[CallCallback(c)] # heard[CallCallback(c)]
  PROVE  /\ outcome[c] = "active" /\ listens[c]
         /\ \A d \in Calls : d # c => Told(d)' = Told(d)
         /\ \/ Told(c)' = Append(Told(c), 0)
            \/ \E n \in 1..answer[c].replies :
                 /\ Told(c)' = Append(Told(c), n)
                 /\ \A i \in DOMAIN Told(c) : Told(c)[i] # n
                 /\ \A k \in 1..answer[c].replies :
                      (\A i \in DOMAIN Told(c) : Told(c)[i] # k) => n <= k
<1>1. /\ Parsing /\ (acceptAny \/ Msg.seq = seqExpect) /\ Msg.type = "valid"
  BY ParseStep DEF Accepted
<1>2. /\ validCallback = CallCallback(c) /\ IsCaller(c) /\ listens[c] /\ Msg.call \in {0, c}
      /\ heard'[CallCallback(c)] = Append(heard[CallCallback(c)], Msg) /\ Msg \in Message
  BY WhatIsHeard
<1>3. outcome[c] = "active"
  BY <1>2 DEF OneCallInv, ActiveIsCaller
<1>4. ASSUME NEW d \in Calls, d # c PROVE Told(d)' = Told(d)
  <2>1. CallCallback(d) # CallCallback(c)
    BY <1>4 DEF CallCallback
  <2>2. heard'[CallCallback(d)] = heard[CallCallback(d)]
    BY <1>2, <2>1, WhatIsHeard
  <2> QED BY <2>2 DEF Told
<1>5. PICK k : k = Len(heard[CallCallback(c)]) + 1
  OBVIOUS
<1>6. /\ Told(c) \in Seq(Nat) /\ heard[CallCallback(c)] \in Seq(Message)
      /\ Len(Told(c)) + 1 = k /\ OwnReplies(c) \subseteq DOMAIN Told(c)
      /\ \A i \in DOMAIN Told(c) :
           Told(c)[i] = IF i \in OwnReplies(c) THEN heard[CallCallback(c)][i].n ELSE 0
  BY <1>5, ToldIsSeq DEF ToldAreSeqs
<1>7. /\ heard'[CallCallback(c)][k] = Msg /\ k \notin OwnReplies(c)
      /\ \A i \in OwnReplies(c) : heard'[CallCallback(c)][i] = heard[CallCallback(c)][i]
      /\ OwnReplies(c)' = OwnReplies(c) \cup (IF Msg.call = c THEN {k} ELSE {})
  BY <1>2, <1>5, <1>6, HeardLast
<1>8. PICK n \in Nat : n = IF Msg.call = c THEN Msg.n ELSE 0
  BY <1>2 DEF Message
<1>9. Told(c)' = Append(Told(c), n)
  <2>1. /\ Told(c)' \in Seq(Nat) /\ Len(Told(c)') = k
        /\ \A i \in DOMAIN Told(c)' : Told(c)'[i] = IF i \in OwnReplies(c)'
                                                    THEN heard'[CallCallback(c)][i].n ELSE 0
    <3>1. Len(heard'[CallCallback(c)]) = k
      BY <1>2, <1>5, <1>6, AppendProperties
    <3> QED BY <3>1, ToldWillBe DEF ToldAreSeqs
  <2>2. PICK t : t = Told(c)'
    OBVIOUS
  <2>3. PICK u : u = Told(c)
    OBVIOUS
  <2>4. /\ t \in Seq(Nat) /\ Len(t) = k /\ u \in Seq(Nat) /\ Len(u) + 1 = k
        /\ DOMAIN t = 1..k /\ DOMAIN u = 1..Len(u) /\ Len(u) \in Nat
    BY <1>6, <2>1, <2>2, <2>3, LenProperties
  <2>5. \A i \in 1..k : i = k \/ i \in 1..Len(u)
    BY <2>4
  <2>6. t[k] = n
    <3>1. k \in 1..k
      BY <2>4
    <3> QED BY <1>7, <1>8, <2>1, <2>2, <2>4, <3>1
  <2>7. \A i \in 1..Len(u) : t[i] = u[i]
    <3>1. \A i \in 1..Len(u) : i \in 1..k /\ i # k
      BY <2>4
    <3>2. \A i \in 1..Len(u) : i \in OwnReplies(c)' <=> i \in OwnReplies(c)
      BY <1>7, <3>1
    <3> QED BY <1>6, <1>7, <2>1, <2>2, <2>3, <2>4, <3>1, <3>2
  <2>8. t = Append(u, n)
    <3>1. /\ Append(u, n) \in Seq(Nat) /\ Len(Append(u, n)) = k /\ Append(u, n)[k] = n
          /\ \A i \in 1..Len(u) : Append(u, n)[i] = u[i]
      BY ONLY <2>4, n \in Nat, AppendProperties
    <3>2. \A i \in 1..k : t[i] = Append(u, n)[i]
      BY <2>5, <2>6, <2>7, <3>1
    <3> QED BY ONLY <2>4, <3>1, <3>2, SeqEqual
  <2> QED BY <2>2, <2>3, <2>8
<1>10. CASE Msg.call # c
  BY <1>2, <1>3, <1>4, <1>8, <1>9, <1>10
<1>11. CASE Msg.call = c
  <2>1. WholeAnswer(c) /\ Own(<<0, 1>>, c) /\ <<0, 1>> \in Pending /\ At(<<0, 1>>).n = n
    BY <1>1, <1>2, <1>8, <1>11, NextReplyIsHeard
  <2>2. /\ n \in 1..Sent(c)
        /\ \A i \in OwnReplies(c) : heard[CallCallback(c)][i].n < n
    BY <2>1 DEF WholeAnswer, NoneTooMany
  <2>3. Sent(c) \in Nat /\ Sent(c) <= answer[c].replies /\ answer[c].replies \in Nat
    <3>1. answer[c].replies \in Nat
      BY BoundsAreNat DEF TypeInv, TypeOK, Answer
    <3>2. ASSUME serving # <<>>
          PROVE  serving[1].sent \in Nat /\ serving[1].sent <= answer[c].replies
      <4>1. serving \in Seq(Serving)
        BY DEF TypeInv, TypeOK, Serving
      <4>2. 1 \in 1..Len(serving) /\ DOMAIN serving = 1..Len(serving)
        BY ONLY <3>2, <4>1, EmptySeq, LenProperties
      <4>3. serving[1] \in Serving
        BY ONLY <4>1, <4>2, ElementOfSeq
      <4>4. serving[1].call = c /\ serving[1].sent <= answer[serving[1].call].replies
        BY <1>2, <4>2 DEF OneCallInv, ServesCaller, IsCaller
      <4> QED BY <4>3, <4>4 DEF Serving
    <3> QED BY <3>1, <3>2 DEF Sent
  <2>4. \A i \in DOMAIN Told(c) : Told(c)[i] # n
    BY <1>6, <2>2
  <2>5. ASSUME NEW l \in 1..answer[c].replies, \A i \in DOMAIN Told(c) : Told(c)[i] # l
        PROVE  n <= l
    <3> SUFFICES ASSUME l < n PROVE FALSE
      BY <2>2
    <3>1. l \in 1..Sent(c)
      BY <2>2, <2>3
    <3>2. \A i \in OwnReplies(c) : heard[CallCallback(c)][i].n # l
      BY <1>6, <2>5
    <3>3. PICK p \in Pending : Own(p, c) /\ At(p).n = l
      BY <2>1, <3>1, <3>2 DEF WholeAnswer, NoneMissing
    <3>4. p # <<0, 1>>
      BY <2>1, <3>3
    <3>5. n < l
      BY <1>1, <2>1, <3>3, <3>4, HeadIsFirst DEF WholeAnswer, Rising
    <3> QED BY <3>5
  <2>6. n \in 1..answer[c].replies
    BY <2>2, <2>3
  <2> QED BY <1>2, <1>3, <1>4, <1>9, <2>4, <2>5, <2>6
<1> QED BY <1>10, <1>11

\* What the callbacks were told changes only when a message is parsed.
LEMMA OthersTellNothing ==
  ASSUME TypeInv, OneCallAtATime, OneCallInv, [Next]_vars
  PROVE  \/ UNCHANGED <<outcome, answer, listens, heard>>
         \/ SyncReturns
         \/ ValidCallbackWrapper
         \/ \E c \in Calls, m \in Messages, dump, own \in BOOLEAN :
              \E a \in AnswersTo(dump) \cup {NotSent} : SendMessageSync(c, m, dump, a, own)
<1> USE DEF historyVars
<1>1. CASE \E h \in Handlers : OnValidMessage(h)
  BY <1>1 DEF OnValidMessage
<1>2. CASE ReceiveMessages \/ AddMembership \/ DropMembership
  BY <1>2 DEF ReceiveMessages, AddMembership, DropMembership
<1>3. CASE CallbackReturns \/ ReadDatagram \/ ReadFails \/ SequenceMismatch \/ EndOfDatagram
           \/ FinishCallbackWrapper \/ AckCallbackWrapper \/ ErrorCallbackWrapper
  BY <1>3 DEF CallbackReturns, ReadDatagram, ReadFails, SequenceMismatch, EndOfDatagram,
              FinishCallbackWrapper, AckCallbackWrapper, ErrorCallbackWrapper
<1>4. CASE KernelAnswers \/ KernelMulticasts
  BY <1>4 DEF KernelAnswers, KernelReplies, KernelFinishes, KernelMulticasts
<1>5. ~CallbackThrows
  BY DEF OneCallAtATime, CallbackThrows
<1> QED BY <1>1, <1>2, <1>3, <1>4, <1>5 DEF Next, Client, Library, vars

\* sendMessageSync begins a call of SyncCall.
LEMMA SendIsCall ==
  ASSUME TypeInv, TypeInv', OneCallAtATime, OneCallInv,
         NEW c \in Calls, NEW m \in Messages, NEW dump \in BOOLEAN, NEW own \in BOOLEAN,
         NEW a \in AnswersTo(dump) \cup {NotSent}, SendMessageSync(c, m, dump, a, own)
  PROVE  \E p \in Contract!Promise : Contract!Call(c, p, own)
<1>1. /\ outcome[c] = "none" /\ outcome' = [outcome EXCEPT ![c] = "active"]
      /\ answer' = [answer EXCEPT ![c] = a] /\ listens' = [listens EXCEPT ![c] = own]
      /\ heard' = heard /\ stack = <<>>
  BY DEF SendMessageSync, IsNextCall, ClientRuns, OneCallAtATime
<1>2. Contract!Idle
  BY <1>1 DEF OneCallInv, ActiveIsCaller, IsCaller, Contract!Idle
<1>3. answer'[c] = a /\ \A d \in Calls : d # c => answer'[d] = answer[d]
  BY <1>1 DEF TypeInv, TypeOK
<1> DEFINE p == [replies |-> a.replies, fails |-> a.end \in ErrorEnds]
<1>4. p \in Contract!Promise
  BY <1>3 DEF TypeInv, TypeOK, Answer, Contract!Promise
<1>5. Promised(c)' = p /\ \A d \in Calls : d # c => Promised(d)' = Promised(d)
  BY <1>3 DEF Promised
<1> HIDE DEF p
<1>6. [d \in Calls |-> Promised(d)]' = [[d \in Calls |-> Promised(d)] EXCEPT ![c] = p]
  BY <1>5
<1>7. [d \in Calls |-> Told(d)]' = [d \in Calls |-> Told(d)]
  BY <1>1 DEF Told
<1> QED BY <1>1, <1>2, <1>4, <1>6, <1>7 DEF Contract!Call

\* Its return is the return of SyncCall, with nothing due.
LEMMA ReturnIsReturn ==
  ASSUME TypeInv, TypeInv', OneCallInv, CompleteInv, SyncReturns
  PROVE  \E c \in Calls : Contract!Return(c)
<1>1. PICK c : c = Top.call
  OBVIOUS
<1>2. c \in Calls /\ IsCaller(c) /\ (callStatus = 0 <=> answer[c].end \notin ErrorEnds)
  BY <1>1, CallEnds
<1>3. /\ UNCHANGED <<answer, listens, heard>>
      /\ outcome' = [outcome EXCEPT ![c] = IF callStatus = 0 THEN "ok" ELSE "failed"]
  BY <1>1 DEF SyncReturns
<1>4. outcome[c] = "active"
  BY <1>2 DEF OneCallInv, ActiveIsCaller
<1>5. listens[c] => Contract!Due(c) = {}
  <2> SUFFICES ASSUME listens[c], NEW n \in 1..answer[c].replies
               PROVE  \E i \in DOMAIN Told(c) : Told(c)[i] = n
    BY <1>2 DEF Contract!Due, Promised
  <2>1. PICK i \in OwnReplies(c) : heard[CallCallback(c)][i].n = n
    BY <1>1, AllIsHeard
  <2> QED BY <1>2, <2>1, ToldIsSeq DEF ToldAreSeqs
<1>6. outcome' = [outcome EXCEPT ![c] = IF Promised(c).fails THEN "failed" ELSE "ok"]
  BY <1>2, <1>3 DEF Promised
<1>7. /\ [d \in Calls |-> Promised(d)]' = [d \in Calls |-> Promised(d)]
      /\ [d \in Calls |-> Told(d)]' = [d \in Calls |-> Told(d)]
  BY <1>3 DEF Told, Promised
<1> QED BY <1>2, <1>3, <1>4, <1>5, <1>6, <1>7 DEF Contract!Return

\* Its callback is run on the next reply, or on an event.
LEMMA ParseIsTell ==
  ASSUME TypeInv, TypeInv', OneCallInv, CompleteInv, ValidCallbackWrapper, NEW c \in Calls,
         heard'[CallCallback(c)] # heard[CallCallback(c)]
  PROVE  Contract!Tell(c) \/ Contract!TellEvent(c)
<1>1. /\ outcome[c] = "active" /\ listens[c] /\ UNCHANGED <<outcome, answer, listens>>
      /\ \A d \in Calls : d # c => Told(d)' = Told(d)
  BY NextIsTold, ParseStep
<1>2. [d \in Calls |-> Promised(d)]' = [d \in Calls |-> Promised(d)]
  BY <1>1 DEF Promised
<1>3. ASSUME NEW n, Told(c)' = Append(Told(c), n) PROVE Contract!TellNext(c, n)
  <2>1. [d \in Calls |-> Told(d)]'
          = [[d \in Calls |-> Told(d)] EXCEPT ![c] = Append(Told(c), n)]
    BY <1>1, <1>3
  <2> QED BY <1>1, <1>2, <2>1 DEF Contract!TellNext
<1>4. CASE Told(c)' = Append(Told(c), 0)
  BY <1>3, <1>4 DEF Contract!TellEvent
<1>5. ASSUME NEW n \in 1..answer[c].replies, Told(c)' = Append(Told(c), n),
             \A i \in DOMAIN Told(c) : Told(c)[i] # n,
             \A k \in 1..answer[c].replies :
               (\A i \in DOMAIN Told(c) : Told(c)[i] # k) => n <= k
      PROVE  Contract!Tell(c)
  <2>1. Contract!Due(c)
          = {k \in 1..answer[c].replies : \A i \in DOMAIN Told(c) : Told(c)[i] # k}
    BY DEF Contract!Due, Promised
  <2> QED BY <1>3, <1>5, <2>1 DEF Contract!Tell
<1> QED BY <1>4, <1>5, NextIsTold

\* Every step is a step of SyncCall or changes nothing there.
LEMMA StepIsAbstract ==
  ASSUME TypeInv, OneCallAtATime, {"overrun", "reconfigure"} \cap Usage = {},
         OneCallInv, CompleteInv, [Next]_vars
  PROVE  [Contract!Next]_(Contract!vars)
<1>1. TypeInv'
  BY NextType
<1>2. ASSUME UNCHANGED <<outcome, answer, listens>>,
             \A c \in Calls : heard'[CallCallback(c)] = heard[CallCallback(c)]
      PROVE  UNCHANGED Contract!vars
  <2>1. \A d \in Calls : Told(d)' = Told(d) /\ Promised(d)' = Promised(d)
    BY <1>2 DEF Told, Promised
  <2> QED BY <1>2, <2>1 DEF Contract!vars
<1>3. CASE ValidCallbackWrapper
  <2>1. UNCHANGED <<outcome, answer, listens>>
    BY <1>1, <1>3, ParseStep
  <2> QED BY <1>1, <1>2, <1>3, <2>1, ParseIsTell DEF Contract!Next
<1>4. CASE SyncReturns
  BY <1>1, <1>4, ReturnIsReturn DEF Contract!Next
<1>5. CASE UNCHANGED <<outcome, answer, listens, heard>>
  BY <1>2, <1>5
<1>6. ASSUME NEW c \in Calls, NEW m \in Messages, NEW dump \in BOOLEAN, NEW own \in BOOLEAN,
             NEW a \in AnswersTo(dump) \cup {NotSent}, SendMessageSync(c, m, dump, a, own)
      PROVE  Contract!Next
  BY <1>1, <1>6, SendIsCall DEF Contract!Next
<1> QED BY <1>3, <1>4, <1>5, <1>6, OthersTellNothing

\* Under the same assumptions sendMessageSync is, step by step, a call of SyncCall, its safety
\* part: no two calls overlap, the callback of the call is told each reply once and in order
\* with events at most in between, and the call returns after the last one with its verdict.
THEOREM CallIsSyncCall ==
  ASSUME OneCallAtATime, {"overrun", "reconfigure"} \cap Usage = {}
  PROVE  Spec => Contract!Spec
<1> DEFINE Inv == TypeInv /\ OneCallInv /\ CompleteInv
<1>1. Init => Inv
  BY InitType, OneCallInit, CompleteInit
<1>2. Inv /\ [Next]_vars => Inv'
  BY NextType, OneCallNext, CompleteNext
<1>3. Inv /\ [Next]_vars => [Contract!Next]_(Contract!vars)
  BY StepIsAbstract
<1>4. Init => Contract!Init
  <2> SUFFICES ASSUME Init PROVE Contract!Init
    OBVIOUS
  <2>1. \A c \in Calls : Promised(c) = [replies |-> 0, fails |-> FALSE]
    <3> SUFFICES ASSUME NEW c \in Calls PROVE Promised(c) = [replies |-> 0, fails |-> FALSE]
      OBVIOUS
    <3>1. answer[c].replies = 0 /\ (answer[c].end \in ErrorEnds) = FALSE
      BY DEF Init, NotSent, ErrorEnds
    <3> QED BY <3>1, Zenon DEF Promised
  <2>2. ASSUME NEW c \in Calls PROVE Told(c) = <<>>
    <3>1. heard[CallCallback(c)] = <<>>
      BY DEF Init, Callbacks
    <3>2. Told(c) \in Seq(Nat) /\ Len(Told(c)) = 0
      BY <3>1, InitType, ToldIsSeq DEF ToldAreSeqs
    <3> QED BY ONLY <3>2, EmptySeq
  <2>3. /\ [c \in Calls |-> Promised(c)] = [c \in Calls |-> [replies |-> 0, fails |-> FALSE]]
        /\ [c \in Calls |-> Told(c)] = [c \in Calls |-> <<>>]
    BY <2>1, <2>2
  <2> QED BY <2>3 DEF Init, Contract!Init
<1> QED BY <1>1, <1>2, <1>3, <1>4, PTL DEF Spec, Contract!Spec

-----------------------------------------------------------------------------
(* Nothing is handed out twice *)

\* Where a message can be: in the history of a callback, in a queued datagram, or in what an
\* activation has left of the datagram it parses.  A copy is such a box and a position in it.
Boxes == {"heard"} \X Callbacks \cup {"queue"} \X DOMAIN queue \cup {"stack"} \X DOMAIN stack
Held(b) == IF b[1] = "heard" THEN heard[b[2]]
           ELSE IF b[1] = "queue" THEN queue[b[2]] ELSE stack[b[2]].buf
Copies == UNION {{b} \X DOMAIN Held(b) : b \in Boxes}
What(p) == Held(p[1])[p[2]]

\* The same reply, or the same event.
Same(m1, m2) == m1.type = "valid" /\ m2.type = "valid" /\ m1.call = m2.call /\ m1.n = m2.n

\* The inductive invariant: one copy of each reply and each event exists at most, and only of
\* those that the kernel has sent.
OneCopy == \A p, q \in Copies : Same(What(p), What(q)) => p = q
OnlySent ==
  \A p \in Copies : What(p).type = "valid" =>
    /\ IF What(p).call = 0 THEN What(p).n <= events ELSE outcome[What(p).call] # "none"
    /\ \A i \in DOMAIN serving : serving[i].call = What(p).call => What(p).n <= serving[i].sent
ServedOnce == \A i, j \in DOMAIN serving : serving[i].call = serving[j].call => i = j
OnlyValidHeard == \A cb \in Callbacks : \A i \in DOMAIN heard[cb] : heard[cb][i].type = "valid"
OnceInv == OneCopy /\ OnlySent /\ ServedOnce /\ OnlyValidHeard

\* The boxes and the copies, one by one.
CopiesAreThese ==
  /\ \A b : b \in Boxes <=> \/ \E cb \in Callbacks : b = <<"heard", cb>>
                            \/ \E i \in 1..Len(queue) : b = <<"queue", i>>
                            \/ \E k \in 1..Len(stack) : b = <<"stack", k>>
  /\ \A b \in Boxes : Held(b) \in Seq(Message)
  /\ \A p : p \in Copies <=> \E b \in Boxes : \E j \in 1..Len(Held(b)) : p = <<b, j>>
  /\ \A p \in Copies : What(p) \in Message

\* They are sequences of messages.
LEMMA CopiesAre == TypeInv => CopiesAreThese
<1> SUFFICES ASSUME TypeInv PROVE CopiesAreThese
  OBVIOUS
<1>1. /\ queue \in Seq(Seq(Message)) /\ stack \in Seq(Frame)
      /\ heard \in [Callbacks -> Seq(Message)]
  BY DEF TypeInv, TypeOK
<1>2. /\ DOMAIN queue = 1..Len(queue) /\ \A i \in 1..Len(queue) : queue[i] \in Seq(Message)
      /\ DOMAIN stack = 1..Len(stack) /\ \A k \in 1..Len(stack) : stack[k] \in Frame
  BY <1>1, LenProperties, ElementOfSeq
<1>3. \A k \in 1..Len(stack) : stack[k].buf \in Seq(Message)
  BY <1>2 DEF Frame
<1>4. \A b : b \in Boxes <=> \/ \E cb \in Callbacks : b = <<"heard", cb>>
                             \/ \E i \in 1..Len(queue) : b = <<"queue", i>>
                             \/ \E k \in 1..Len(stack) : b = <<"stack", k>>
  BY <1>2 DEF Boxes
<1>5. \A b \in Boxes : Held(b) \in Seq(Message)
  BY <1>1, <1>2, <1>3, <1>4 DEF Held
<1>6. \A p : p \in Copies <=> \E b \in Boxes : \E j \in 1..Len(Held(b)) : p = <<b, j>>
  BY <1>5, LenProperties DEF Copies
<1>7. \A p \in Copies : What(p) \in Message
  BY <1>5, <1>6, ElementOfSeq DEF What
<1> QED BY <1>4, <1>5, <1>6, <1>7 DEF CopiesAreThese

\* The same after a step.
LEMMA CopiesWillBe == TypeInv' => CopiesAreThese'
  BY CopiesAre, PTL

\* A step that makes no copies, except a new one at e.
MovesBut(e) ==
  \E g : /\ \A p \in Copies' : p # e => g[p] \in Copies /\ What(p)' = What(g[p])
         /\ \A p, q \in Copies' : p # e /\ q # e /\ g[p] = g[q] => p = q
Nowhere == <<"nowhere", 0>>
Moves == MovesBut(Nowhere)

\* It is enough that boxes are emptied, or moved as they are, no two to one place.
LEMMA BoxesMove ==
  ASSUME TypeInv, TypeInv', NEW f,
         \A b \in Boxes' : Held(b)' = <<>> \/ (f[b] \in Boxes /\ Held(b)' = Held(f[b])),
         \A a, b \in Boxes' : f[a] = f[b] => a = b
  PROVE  Moves
<1>1. /\ \A p : p \in Copies' <=> \E b \in Boxes' : \E j \in 1..Len(Held(b)') : p = <<b, j>>
      /\ \A p : p \in Copies <=> \E b \in Boxes : \E j \in 1..Len(Held(b)) : p = <<b, j>>
  BY CopiesAre, CopiesWillBe DEF CopiesAreThese
<1> DEFINE g == [p \in Copies' |-> <<f[p[1]], p[2]>>]
<1>2. ASSUME NEW p \in Copies' PROVE g[p] \in Copies /\ What(p)' = What(g[p])
  <2>1. PICK b \in Boxes' : \E j \in 1..Len(Held(b)') : p = <<b, j>>
    BY <1>1
  <2>2. PICK j \in 1..Len(Held(b)') : p = <<b, j>>
    BY <2>1
  <2>3. f[b] \in Boxes /\ Held(b)' = Held(f[b])
    BY <2>2, EmptySeq
  <2> QED BY <1>1, <2>2, <2>3 DEF What
<1>3. ASSUME NEW p \in Copies', NEW q \in Copies', g[p] = g[q] PROVE p = q
  <2>1. PICK a \in Boxes' : \E j \in 1..Len(Held(a)') : p = <<a, j>>
    BY <1>1
  <2>2. PICK b \in Boxes' : \E j \in 1..Len(Held(b)') : q = <<b, j>>
    BY <1>1
  <2> QED BY <1>3, <2>1, <2>2
<1> HIDE DEF g
<1> QED BY <1>2, <1>3 DEF Moves, MovesBut

\* The stack is popped, pushed with nothing to parse, or has its top frame replaced: what each
\* activation has left is what it had, or nothing.
StackRests ==
  \A k \in 1..Len(stack)' : \/ stack'[k].buf = <<>>
                            \/ k \in 1..Len(stack) /\ stack'[k].buf = stack[k].buf

\* Such a step moves copies or drops them.
LEMMA RestMoves ==
  ASSUME TypeInv, TypeInv', UNCHANGED <<heard, queue>>, StackRests
  PROVE  Moves
<1>1. /\ \A b : b \in Boxes <=> \/ \E cb \in Callbacks : b = <<"heard", cb>>
                                \/ \E i \in 1..Len(queue) : b = <<"queue", i>>
                                \/ \E k \in 1..Len(stack) : b = <<"stack", k>>
      /\ \A b : b \in Boxes' <=> \/ \E cb \in Callbacks : b = <<"heard", cb>>
                                 \/ \E i \in 1..Len(queue) : b = <<"queue", i>>
                                 \/ \E k \in 1..Len(stack)' : b = <<"stack", k>>
  BY CopiesAre, CopiesWillBe DEF CopiesAreThese
<1> DEFINE f == [b \in Boxes' |-> b]
<1>2. ASSUME NEW b \in Boxes' PROVE Held(b)' = <<>> \/ (b \in Boxes /\ Held(b)' = Held(b))
  BY <1>1 DEF Held, StackRests
<1>3. /\ \A b \in Boxes' : Held(b)' = <<>> \/ (f[b] \in Boxes /\ Held(b)' = Held(f[b]))
      /\ \A a, b \in Boxes' : f[a] = f[b] => a = b
  BY <1>2
<1> HIDE DEF f
<1> QED BY <1>3, BoxesMove

\* The datagram at the head of the queue becomes that of the running activation.
LEMMA ReadMoves ==
  ASSUME TypeInv, TypeInv', ReadDatagram
  PROVE  Moves
<1>0. PICK n \in Nat : n = Len(stack)
  BY DEF TypeInv, TypeOK
<1>1. /\ \A b : b \in Boxes <=> \/ \E cb \in Callbacks : b = <<"heard", cb>>
                                \/ \E i \in 1..Len(queue) : b = <<"queue", i>>
                                \/ \E k \in 1..n : b = <<"stack", k>>
      /\ \A b : b \in Boxes' <=> \/ \E cb \in Callbacks : b = <<"heard", cb>>
                                 \/ \E i \in 1..Len(queue)' : b = <<"queue", i>>
                                 \/ \E k \in 1..Len(stack)' : b = <<"stack", k>>
  BY <1>0, CopiesAre, CopiesWillBe DEF CopiesAreThese
<1>2. PICK fr : fr = [Top EXCEPT !.pc = "parse", !.buf = Head(queue)]
  OBVIOUS
<1>3. n # 0 /\ Len(stack') = n /\ stack'[n] = fr /\ \A k \in 1..n : k # n => stack'[k] = stack[k]
  <2>1. stack # <<>> /\ stack \in Seq(Frame) /\ stack' = [stack EXCEPT ![n] = fr]
    BY <1>0, <1>2 DEF ReadDatagram, Reading, SetTop, TypeInv, TypeOK
  <2>2. n # 0 /\ n \in 1..n
    BY <1>0, <2>1, EmptySeq
  <2> QED BY <1>0, <2>1, <2>2, ExceptSeq
<1>4. /\ fr.buf = queue[1] /\ heard' = heard
      /\ Len(queue) \in Nat \ {0} /\ Len(queue') = Len(queue) - 1
      /\ \A i \in 1..Len(queue') : queue'[i] = queue[i + 1] /\ i + 1 \in 1..Len(queue)
  <2>1. Top \in Frame
    BY StackOperations DEF ReadDatagram, Reading, TypeInv, TypeOK
  <2>2. fr.buf = Head(queue)
    BY <1>2, <2>1 DEF Frame
  <2>3. queue # <<>> /\ queue \in Seq(Seq(Message)) /\ queue' = Tail(queue) /\ heard' = heard
    BY DEF ReadDatagram, TypeInv, TypeOK, historyVars
  <2> QED BY <2>2, <2>3, EmptySeq, HeadTailProperties
<1> DEFINE f == [b \in Boxes' |-> IF b = <<"stack", n>> THEN <<"queue", 1>>
                                  ELSE IF b[1] = "queue" THEN <<"queue", b[2] + 1>> ELSE b]
<1>5. ASSUME NEW b \in Boxes' PROVE f[b] \in Boxes /\ Held(b)' = Held(f[b])
  <2>1. CASE \E cb \in Callbacks : b = <<"heard", cb>>
    BY <1>1, <1>4, <2>1 DEF Held
  <2>2. CASE \E i \in 1..Len(queue)' : b = <<"queue", i>>
    BY <1>1, <1>4, <2>2 DEF Held
  <2>3. CASE b = <<"stack", n>>
    BY <1>1, <1>3, <1>4, <2>3 DEF Held
  <2>4. CASE \E k \in 1..n : k # n /\ b = <<"stack", k>>
    BY <1>1, <1>3, <2>4 DEF Held
  <2> QED BY <1>1, <1>3, <2>1, <2>2, <2>3, <2>4
<1>6. ASSUME NEW a \in Boxes', NEW b \in Boxes', f[a] = f[b] PROVE a = b
  BY <1>1, <1>4, <1>6
<1> HIDE DEF f
<1> QED BY <1>5, <1>6, BoxesMove

\* The first message left is parsed: it is thrown away, or it ends the history of a callback.
LEMMA ParseMoves ==
  ASSUME TypeInv, TypeInv', Parsing, queue' = queue,
         NEW fr, stack' = SetTop(fr), fr.buf = Tail(Top.buf), fr \in Frame,
         \/ heard' = heard
         \/ \E cb \in Callbacks : heard' = [heard EXCEPT ![cb] = Append(@, Msg)]
  PROVE  Moves
<1>0. PICK n \in Nat : n = Len(stack)
  BY DEF TypeInv, TypeOK
<1>1. /\ \A b : b \in Boxes <=> \/ \E cb \in Callbacks : b = <<"heard", cb>>
                                \/ \E i \in 1..Len(queue) : b = <<"queue", i>>
                                \/ \E k \in 1..n : b = <<"stack", k>>
      /\ \A b : b \in Boxes' <=> \/ \E cb \in Callbacks : b = <<"heard", cb>>
                                 \/ \E i \in 1..Len(queue) : b = <<"queue", i>>
                                 \/ \E k \in 1..Len(stack)' : b = <<"stack", k>>
  BY <1>0, CopiesAre, CopiesWillBe DEF CopiesAreThese
<1>2. /\ \A p : p \in Copies' <=> \E b \in Boxes' : \E j \in 1..Len(Held(b)') : p = <<b, j>>
      /\ \A p : p \in Copies <=> \E b \in Boxes : \E j \in 1..Len(Held(b)) : p = <<b, j>>
      /\ \A b \in Boxes : Held(b) \in Seq(Message) /\ Len(Held(b)) \in Nat
  BY CopiesAre, CopiesWillBe DEF CopiesAreThese
<1>3. /\ n # 0 /\ n \in 1..n /\ Len(stack') = n /\ stack'[n] = fr /\ stack[n] = Top
      /\ \A k \in 1..n : k # n => stack'[k] = stack[k]
  <2>1. stack # <<>> /\ stack \in Seq(Frame) /\ stack' = [stack EXCEPT ![n] = fr]
    BY <1>0 DEF Parsing, SetTop, TypeInv, TypeOK
  <2>2. n # 0 /\ n \in 1..n
    BY <1>0, <2>1, EmptySeq
  <2>3. Top = stack[n]
    BY <1>0, <2>1, FrontLast DEF Top
  <2> QED BY <1>0, <2>1, <2>2, <2>3, ExceptSeq
<1> DEFINE top == <<"stack", n>>
<1>4. top \in Boxes /\ top \in Boxes'
  BY <1>1, <1>3
<1>5. PICK l \in Nat \ {0} : /\ l = Len(Held(top)) /\ Len(Held(top)') = l - 1
                             /\ Held(top)[1] = Msg
                             /\ \A j \in 1..(l - 1) : Held(top)'[j] = Held(top)[j + 1]
  <2>1. Held(top) = Top.buf /\ Held(top)' = Tail(Top.buf)
    BY <1>3 DEF Held
  <2>2. Top.buf \in Seq(Message) /\ Top.buf # <<>>
    BY <1>2, <1>4, <2>1 DEF Parsing
  <2>3. /\ Len(Top.buf) \in Nat \ {0} /\ Len(Tail(Top.buf)) = Len(Top.buf) - 1
        /\ Top.buf[1] = Msg
        /\ \A j \in 1..(Len(Top.buf) - 1) : Tail(Top.buf)[j] = Top.buf[j + 1]
    BY <2>2, EmptySeq, HeadTailProperties DEF Msg
  <2> HIDE DEF top
  <2> QED BY <2>1, <2>3
<1>6. ASSUME NEW b \in Boxes', b # top
      PROVE  /\ b \in Boxes /\ Len(Held(b)) \in Nat
             /\ \/ Held(b)' = Held(b)
                \/ /\ \E cb \in Callbacks : b = <<"heard", cb>> /\ heard'[cb] # heard[cb]
                   /\ Len(Held(b)') = Len(Held(b)) + 1 /\ Held(b)'[Len(Held(b)) + 1] = Msg
                   /\ \A j \in 1..Len(Held(b)) : Held(b)'[j] = Held(b)[j]
  <2>1. b \in Boxes
    BY <1>1, <1>3
  <2>2. CASE \E cb \in Callbacks : b = <<"heard", cb>>
    <3>1. PICK cb \in Callbacks : b = <<"heard", cb>>
      BY <2>2
    <3>2. Held(b) = heard[cb] /\ Held(b)' = heard'[cb] /\ heard \in [Callbacks -> Seq(Message)]
      BY <3>1 DEF Held, TypeInv, TypeOK
    <3>3. heard'[cb] = heard[cb] \/ heard'[cb] = Append(heard[cb], Msg)
      BY <3>2
    <3>4. Msg \in Message /\ heard[cb] \in Seq(Message)
      BY <3>2, Parsed DEF TypeInv, TypeOK
    <3>5. CASE heard'[cb] = heard[cb]
      BY <2>1, <3>2, <3>4, <3>5, LenProperties
    <3>6. CASE heard'[cb] # heard[cb]
      <4>1. /\ Len(heard'[cb]) = Len(heard[cb]) + 1 /\ heard'[cb][Len(heard[cb]) + 1] = Msg
            /\ \A j \in 1..Len(heard[cb]) : heard'[cb][j] = heard[cb][j]
            /\ Len(heard[cb]) \in Nat
        BY <3>3, <3>4, <3>6, AppendProperties, LenProperties
      <4> QED BY <2>1, <3>1, <3>2, <3>6, <4>1
    <3> QED BY <3>5, <3>6
  <2>3. CASE \E i \in 1..Len(queue) : b = <<"queue", i>>
    BY <1>2, <2>1, <2>3 DEF Held
  <2>4. CASE \E k \in 1..n : k # n /\ b = <<"stack", k>>
    BY <1>2, <1>3, <2>1, <2>4 DEF Held
  <2> QED BY <1>1, <1>3, <1>6, <2>2, <2>3, <2>4
<1>7. ASSUME NEW a \in Boxes', NEW b \in Boxes', a # top, b # top,
             Held(a)' # Held(a), Held(b)' # Held(b)
      PROVE  a = b
  <2>1. PICK c \in Callbacks : a = <<"heard", c>> /\ heard'[c] # heard[c]
    BY <1>6, <1>7
  <2>2. PICK d \in Callbacks : b = <<"heard", d>> /\ heard'[d] # heard[d]
    BY <1>6, <1>7
  <2>3. heard \in [Callbacks -> Seq(Message)]
    BY DEF TypeInv, TypeOK
  <2> QED BY <2>1, <2>2, <2>3
<1> DEFINE g == [p \in Copies' |-> IF p[1] = top THEN <<top, p[2] + 1>>
                                   ELSE IF p \in Copies THEN p ELSE <<top, 1>>]
<1>8. <<top, 1>> \in Copies /\ What(<<top, 1>>) = Msg
  BY <1>2, <1>4, <1>5 DEF What
<1>9. \A j \in 1..(l - 1) : <<top, j + 1>> \in Copies
  BY <1>2, <1>4, <1>5
<1>10. ASSUME NEW p \in Copies'
       PROVE  \/ /\ \E j \in 1..(l - 1) : p = <<top, j>> /\ g[p] = <<top, j + 1>>
                 /\ g[p] \in Copies /\ What(p)' = What(g[p])
              \/ /\ p[1] # top /\ p \in Copies /\ g[p] = p /\ What(p)' = What(p)
              \/ /\ p[1] # top /\ g[p] = <<top, 1>> /\ What(p)' = Msg
                 /\ p[1] \in Boxes' /\ Held(p[1])' # Held(p[1])
                 /\ p = <<p[1], Len(Held(p[1])) + 1>>
  <2>1. PICK b \in Boxes' : \E j \in 1..Len(Held(b)') : p = <<b, j>>
    BY <1>2
  <2>2. PICK j \in 1..Len(Held(b)') : p = <<b, j>>
    BY <2>1
  <2>3. CASE b = top
    <3>1. j \in 1..(l - 1) /\ g[p] = <<top, j + 1>> /\ What(p)' = Held(top)'[j]
          /\ What(<<top, j + 1>>) = Held(top)[j + 1]
      BY <1>5, <2>2, <2>3 DEF What
    <3> QED BY <1>5, <1>9, <2>2, <2>3, <3>1
  <2>4. CASE b # top /\ Held(b)' = Held(b)
    <3>1. p \in Copies /\ p[1] # top
      BY <1>2, <1>6, <2>2, <2>4
    <3> QED BY <2>2, <2>4, <3>1 DEF What
  <2>5. CASE b # top /\ Held(b)' # Held(b)
    <3>1. /\ b \in Boxes /\ Len(Held(b)) \in Nat
          /\ Len(Held(b)') = Len(Held(b)) + 1 /\ Held(b)'[Len(Held(b)) + 1] = Msg
          /\ \A i \in 1..Len(Held(b)) : Held(b)'[i] = Held(b)[i]
      BY <1>6, <2>5
    <3>2. CASE j \in 1..Len(Held(b))
      <4>1. p \in Copies /\ p[1] # top
        BY <1>2, <2>2, <2>5, <3>1, <3>2
      <4> QED BY <2>2, <3>1, <3>2, <4>1 DEF What
    <3>3. CASE j = Len(Held(b)) + 1
      <4>1. p \notin Copies
        BY <1>2, <2>2, <3>1, <3>3
      <4> QED BY <2>2, <2>5, <3>1, <3>3, <4>1 DEF What
    <3> QED BY <2>2, <3>1, <3>2, <3>3
  <2> QED BY <2>3, <2>4, <2>5
<1>11. ASSUME NEW p \in Copies', NEW q \in Copies', g[p] = g[q] PROVE p = q
  <2> HIDE DEF g
  <2>0. \A j \in 1..(l - 1) : j + 1 # 1
    OBVIOUS
  <2>1. CASE \E j \in 1..(l - 1) : p = <<top, j>> /\ g[p] = <<top, j + 1>>
    <3>1. PICK j \in 1..(l - 1) : p = <<top, j>> /\ g[p] = <<top, j + 1>>
      BY <2>1
    <3>2. g[q] = <<top, j + 1>> /\ g[q] # <<top, 1>> /\ (g[q] = q => q[1] = top)
      BY <1>11, <2>0, <3>1
    <3>3. PICK i \in 1..(l - 1) : q = <<top, i>> /\ g[q] = <<top, i + 1>>
      BY <1>10, <3>2
    <3> QED BY <3>1, <3>2, <3>3
  <2>2. CASE p[1] # top /\ p \in Copies /\ g[p] = p
    <3>1. g[q] = p /\ g[q] # <<top, 1>> /\ \A j \in 1..(l - 1) : g[q] # <<top, j + 1>>
      BY <1>11, <2>2
    <3> QED BY <1>10, <3>1
  <2>3. CASE /\ p[1] # top /\ g[p] = <<top, 1>>
             /\ p[1] \in Boxes' /\ Held(p[1])' # Held(p[1])
             /\ p = <<p[1], Len(Held(p[1])) + 1>>
    <3>1. /\ q[1] # top /\ q[1] \in Boxes' /\ Held(q[1])' # Held(q[1])
          /\ q = <<q[1], Len(Held(q[1])) + 1>>
      <4>1. g[q] = <<top, 1>> /\ \A j \in 1..(l - 1) : g[q] # <<top, j + 1>>
        BY <1>11, <2>0, <2>3
      <4>2. g[q] = q => q[1] = top
        BY <4>1
      <4> QED BY <1>10, <4>1, <4>2
    <3>2. p[1] = q[1]
      BY <1>7, <2>3, <3>1
    <3> QED BY <2>3, <3>1, <3>2
  <2> QED BY <1>10, <2>1, <2>2, <2>3
<1>12. ASSUME NEW p \in Copies' PROVE g[p] \in Copies /\ What(p)' = What(g[p])
  <2> HIDE DEF g
  <2> QED BY <1>8, <1>10
<1> HIDE DEF g
<1> QED BY <1>11, <1>12 DEF Moves, MovesBut

\* A message the kernel sends is the only new one, if it is not lost.
LEMMA SentIsNew ==
  ASSUME TypeInv, TypeInv', NEW m \in Message, Enqueue(m), UNCHANGED <<heard, stack>>
  PROVE  \E e : MovesBut(e) /\ (e \in Copies' => What(e)' = m)
<1>0. PICK n \in Nat : n = Len(queue)
  BY DEF TypeInv, TypeOK
<1>1. /\ \A b : b \in Boxes <=> \/ \E cb \in Callbacks : b = <<"heard", cb>>
                                \/ \E i \in 1..n : b = <<"queue", i>>
                                \/ \E k \in 1..Len(stack) : b = <<"stack", k>>
      /\ \A b : b \in Boxes' <=> \/ \E cb \in Callbacks : b = <<"heard", cb>>
                                 \/ \E i \in 1..Len(queue)' : b = <<"queue", i>>
                                 \/ \E k \in 1..Len(stack) : b = <<"stack", k>>
  BY <1>0, CopiesAre, CopiesWillBe DEF CopiesAreThese
<1>2. /\ \A p : p \in Copies' <=> \E b \in Boxes' : \E j \in 1..Len(Held(b)') : p = <<b, j>>
      /\ \A p : p \in Copies <=> \E b \in Boxes : \E j \in 1..Len(Held(b)) : p = <<b, j>>
  BY CopiesAre, CopiesWillBe DEF CopiesAreThese
<1>3. ASSUME NEW e, \A p \in Copies' : p # e => p \in Copies /\ What(p)' = What(p)
      PROVE  MovesBut(e)
  <2>1. PICK g : g = [p \in Copies' |-> p]
    OBVIOUS
  <2>2. \A p \in Copies' : g[p] = p
    BY <2>1
  <2> QED BY <1>3, <2>2 DEF MovesBut
<1>4. \A b : b[1] = "heard" \/ b[1] = "stack" => Held(b)' = Held(b)
  BY DEF Held
<1>5. CASE queue' = Append(queue, <<m>>)
  <2> DEFINE e == <<<<"queue", n + 1>>, 1>>
  <2>1. /\ Len(queue') = n + 1 /\ queue'[n + 1] = <<m>>
        /\ \A i \in 1..n : queue'[i] = queue[i]
    BY <1>0, <1>5, AppendProperties DEF TypeInv, TypeOK
  <2>2. Len(<<m>>) = 1 /\ <<m>>[1] = m /\ \A i : i \in 1..(n + 1) => i \in 1..n \/ i = n + 1
    BY <1>0
  <2>3. What(e)' = m
    BY <2>1, <2>2 DEF What, Held
  <2>4. ASSUME NEW p \in Copies', p # e PROVE p \in Copies /\ What(p)' = What(p)
    <3>1. PICK b \in Boxes' : \E j \in 1..Len(Held(b)') : p = <<b, j>>
      BY <1>2
    <3>2. PICK j \in 1..Len(Held(b)') : p = <<b, j>>
      BY <3>1
    <3>3. b # <<"queue", n + 1>>
      <4> SUFFICES ASSUME b = <<"queue", n + 1>> PROVE FALSE
        OBVIOUS
      <4>1. Held(b)' = <<m>>
        BY <2>1 DEF Held
      <4>2. j = 1
        BY <2>2, <3>2, <4>1
      <4> QED BY <2>4, <3>2, <4>2
    <3>4. b \in Boxes /\ Held(b)' = Held(b)
      BY <1>1, <1>4, <2>1, <2>2, <3>3 DEF Held
    <3> QED BY <1>2, <3>2, <3>4 DEF What
  <2> HIDE DEF e
  <2> QED BY <1>3, <2>3, <2>4
<1>6. CASE queue # <<>> /\ queue' = [queue EXCEPT ![Len(queue)] = Append(@, m)]
  <2>0. PICK b0 : b0 = queue[n]
    OBVIOUS
  <2> DEFINE e == <<<<"queue", n>>, Len(b0) + 1>>
  <2>1. n \in 1..n /\ b0 \in Seq(Message)
    BY <1>0, <1>6, <2>0, EmptySeq DEF TypeInv, TypeOK
  <2>2. Append(b0, m) \in Seq(Message)
    BY <2>1, AppendProperties
  <2>3. /\ Len(queue') = n /\ queue'[n] = Append(b0, m)
        /\ \A i \in 1..n : i # n => queue'[i] = queue[i]
    <3>1. queue \in Seq(Seq(Message))
      BY DEF TypeInv, TypeOK
    <3>2. queue' = [queue EXCEPT ![n] = Append(b0, m)]
      BY <1>0, <1>6, <2>0
    <3> QED BY <1>0, <2>1, <2>2, <3>1, <3>2, ExceptSeq
  <2>4. /\ Len(Append(b0, m)) = Len(b0) + 1 /\ Append(b0, m)[Len(b0) + 1] = m
        /\ \A j \in 1..Len(b0) : Append(b0, m)[j] = b0[j]
        /\ Len(b0) \in Nat
    BY <2>1, AppendProperties
  <2>5. What(e)' = m
    BY <2>3, <2>4 DEF What, Held
  <2>6. ASSUME NEW p \in Copies', p # e PROVE p \in Copies /\ What(p)' = What(p)
    <3>1. PICK b \in Boxes' : \E j \in 1..Len(Held(b)') : p = <<b, j>>
      BY <1>2
    <3>2. PICK j \in 1..Len(Held(b)') : p = <<b, j>>
      BY <3>1
    <3>3. CASE b = <<"queue", n>>
      <4>1. Held(b)' = Append(b0, m) /\ Held(b) = b0 /\ b \in Boxes
        BY <1>1, <2>0, <2>1, <2>3, <3>3 DEF Held
      <4>2. j \in 1..Len(b0)
        BY <2>4, <2>6, <3>2, <3>3, <4>1
      <4> QED BY <1>2, <2>4, <3>2, <4>1, <4>2 DEF What
    <3>4. CASE b # <<"queue", n>>
      <4>1. b \in Boxes /\ Held(b)' = Held(b)
        BY <1>1, <1>4, <2>3, <3>4 DEF Held
      <4> QED BY <1>2, <3>2, <4>1 DEF What
    <3> QED BY <3>3, <3>4
  <2> HIDE DEF e
  <2> QED BY <1>3, <2>5, <2>6
<1>7. CASE queue' = queue
  <2>1. Copies' = Copies /\ \A p : What(p)' = What(p)
    BY <1>7 DEF Copies, Boxes, What, Held
  <2>2. Nowhere \notin Copies'
    BY <1>1, <1>2 DEF Nowhere
  <2> QED BY <1>3, <2>1, <2>2
<1> QED BY <1>5, <1>6, <1>7 DEF Enqueue, PartOfSameDump

\* A step that only moves copies, and may begin a call, keeps the invariant.
LEMMA MovesKeepOnce ==
  ASSUME TypeInv, TypeInv', OnceInv, Moves, OnlyValidHeard', events' = events,
         \A c \in Calls : outcome[c] # "none" => outcome'[c] # "none",
         \/ serving' = serving
         \/ \E r \in Serving : /\ serving' = Append(serving, r)
                               /\ outcome[r.call] = "none" /\ r.call # 0
  PROVE  OnceInv'
<1>1. serving \in Seq(Serving) /\ DOMAIN serving = 1..Len(serving) /\ Len(serving) \in Nat
  BY LenProperties DEF TypeInv, TypeOK, Serving
<1>2. /\ \A i \in DOMAIN serving' : \/ i \in DOMAIN serving /\ serving'[i] = serving[i]
                                    \/ /\ i = Len(serving) + 1 /\ serving'[i].call # 0
                                       /\ outcome[serving'[i].call] = "none"
  <2>1. CASE serving' = serving
    BY <2>1
  <2>2. CASE \E r \in Serving : /\ serving' = Append(serving, r)
                                /\ outcome[r.call] = "none" /\ r.call # 0
    <3>1. PICK r \in Serving : /\ serving' = Append(serving, r)
                               /\ outcome[r.call] = "none" /\ r.call # 0
      BY <2>2
    <3>1a. PICK t \in Seq(Serving) :
             /\ t = Append(serving, r) /\ Len(t) = Len(serving) + 1 /\ t[Len(serving) + 1] = r
             /\ \A i \in 1..Len(serving) : t[i] = serving[i]
      <4>1. serving \in Seq(Serving) /\ r \in Serving
        BY <1>1
      <4>2. PICK t : t = Append(serving, r)
        OBVIOUS
      <4>3. /\ Append(serving, r) \in Seq(Serving) /\ Len(Append(serving, r)) = Len(serving) + 1
            /\ Append(serving, r)[Len(serving) + 1] = r
            /\ \A i \in 1..Len(serving) : Append(serving, r)[i] = serving[i]
        BY ONLY <4>1, AppendProperties
      <4> QED BY <4>2, <4>3, Zenon
    <3>2. /\ DOMAIN serving' = 1..(Len(serving) + 1)
          /\ serving'[Len(serving) + 1] = r /\ \A i \in 1..Len(serving) : serving'[i] = serving[i]
      <4>1. DOMAIN t = 1..(Len(serving) + 1)
        BY <3>1a, LenProperties
      <4> QED BY <3>1a, <3>1, <4>1
    <3>3. \A i : i \in 1..(Len(serving) + 1) => i \in 1..Len(serving) \/ i = Len(serving) + 1
      BY <1>1
    <3> QED BY <1>1, <3>1, <3>2, <3>3
  <2> QED BY <2>1, <2>2
<1>3. PICK g : /\ \A p \in Copies' : p # Nowhere => g[p] \in Copies /\ What(p)' = What(g[p])
               /\ \A p, q \in Copies' : p # Nowhere /\ q # Nowhere /\ g[p] = g[q] => p = q
  BY DEF Moves, MovesBut
<1>4. \A p \in Copies' : p # Nowhere /\ What(p)' \in Message
  <2>1. Nowhere \notin Copies'
    BY CopiesWillBe DEF CopiesAreThese, Nowhere
  <2>2. CopiesAreThese'
    BY CopiesWillBe
  <2> QED BY <2>1, <2>2 DEF CopiesAreThese
<1>5. OneCopy'
  BY <1>3, <1>4 DEF OnceInv, OneCopy
<1>6. OnlySent'
  <2> SUFFICES ASSUME NEW p \in Copies', What(p)'.type = "valid"
               PROVE  /\ IF What(p)'.call = 0 THEN What(p)'.n <= events
                                              ELSE outcome'[What(p)'.call] # "none"
                      /\ \A i \in DOMAIN serving' :
                           serving'[i].call = What(p)'.call => What(p)'.n <= serving'[i].sent
    BY DEF OnlySent
  <2>1. PICK w \in Message : w = What(p)'
    BY <1>4
  <2>2. /\ IF w.call = 0 THEN w.n <= events ELSE outcome[w.call] # "none"
        /\ \A i \in DOMAIN serving : serving[i].call = w.call => w.n <= serving[i].sent
    BY <1>3, <1>4, <2>1 DEF OnceInv, OnlySent
  <2>3. w.call # 0 => w.call \in Calls
    BY <2>1, BoundsAreNat DEF Message, Calls
  <2> QED BY <1>2, <2>1, <2>2, <2>3
<1>7. ServedOnce'
  <2>1. \A i \in DOMAIN serving : outcome[serving[i].call] # "none"
    BY DEF TypeInv, ServedWasSent
  <2> QED BY <1>1, <1>2, <2>1 DEF OnceInv, ServedOnce
<1> QED BY <1>5, <1>6, <1>7 DEF OnceInv

\* What the kernel sends is later than all that it has sent for the same call, and than all
\* earlier events.
LEMMA KernelKeepsOnce ==
  ASSUME TypeInv, TypeInv', OnceInv, KernelAnswers \/ KernelMulticasts
  PROVE  OnceInv'
<1>1. UNCHANGED <<stack, heard, outcome, answer>>
  BY DEF KernelAnswers, KernelReplies, KernelFinishes, KernelMulticasts, historyVars
<1>2. /\ serving \in Seq(Serving) /\ DOMAIN serving = 1..Len(serving) /\ Len(serving) \in Nat
      /\ \A i \in DOMAIN serving : serving[i] \in Serving /\ serving[i].call \in Calls
                                   /\ serving[i].sent \in Nat
  <2>1. serving \in Seq(Serving)
    BY DEF TypeInv, TypeOK, Serving
  <2>2. serving \in [1..Len(serving) -> Serving] /\ Len(serving) \in Nat
    BY ONLY <2>1, LenProperties
  <2> QED BY <2>1, <2>2 DEF Serving
<1>3. OnlyValidHeard'
  BY <1>1 DEF OnceInv, OnlyValidHeard
<1>4. 0 \notin Calls /\ events \in Nat
  BY DEF Calls, TypeInv, TypeOK
\* It is enough that the message m is new and is counted as sent.
<1>5. ASSUME NEW m \in Message, Enqueue(m), ServedOnce', events <= events',
             \A c : \A n \in Nat :
               /\ \A i \in DOMAIN serving : serving[i].call = c => n <= serving[i].sent
               => \A i \in DOMAIN serving' : serving'[i].call = c => n <= serving'[i].sent,
             m.type = "valid" =>
               /\ IF m.call = 0 THEN events < m.n /\ m.n <= events' ELSE outcome[m.call] # "none"
               /\ m.call # 0 =>
                    \E i \in DOMAIN serving : serving[i].call = m.call /\ serving[i].sent < m.n
               /\ \A i \in DOMAIN serving' : serving'[i].call = m.call => m.n <= serving'[i].sent
      PROVE  OnceInv'
  <2>1. PICK e : MovesBut(e) /\ (e \in Copies' => What(e)' = m)
    BY <1>1, <1>5, SentIsNew
  <2>2. PICK g : /\ \A p \in Copies' : p # e => g[p] \in Copies /\ What(p)' = What(g[p])
                 /\ \A p, q \in Copies' : p # e /\ q # e /\ g[p] = g[q] => p = q
    BY <2>1 DEF MovesBut
  <2>3. \A p \in Copies : What(p) \in Message
    BY CopiesAre DEF CopiesAreThese
  <2>4. events' \in Nat
    BY DEF TypeInv, TypeOK
  <2>5. ASSUME NEW p \in Copies, Same(What(p), m) PROVE FALSE
    <3>1. PICK w \in Message : w = What(p)
      BY <2>3
    <3>2. /\ w.type = "valid" /\ m.type = "valid" /\ w.call = m.call /\ w.n = m.n
          /\ w.n \in Nat /\ m.n \in Nat
      BY <2>5, <3>1 DEF Same, Message
    <3>3. /\ w.call = 0 => w.n <= events
          /\ \A i \in DOMAIN serving : serving[i].call = w.call => w.n <= serving[i].sent
      BY <3>1, <3>2 DEF OnceInv, OnlySent
    <3> QED BY <1>2, <1>4, <1>5, <3>2, <3>3
  <2>6. OneCopy'
    <3> SUFFICES ASSUME NEW p \in Copies', NEW q \in Copies', Same(What(p)', What(q)')
                 PROVE  p = q
      BY DEF OneCopy, Same
    <3>1. CASE p # e /\ q # e
      BY <2>2, <3>1 DEF OnceInv, OneCopy
    <3>2. CASE p = e /\ q # e
      BY <2>1, <2>2, <2>5, <3>2 DEF Same
    <3>3. CASE p # e /\ q = e
      BY <2>1, <2>2, <2>5, <3>3 DEF Same
    <3> QED BY <3>1, <3>2, <3>3
  <2>7. OnlySent'
    <3> SUFFICES ASSUME NEW p \in Copies', What(p)'.type = "valid"
                 PROVE  /\ IF What(p)'.call = 0 THEN What(p)'.n <= events'
                                                ELSE outcome'[What(p)'.call] # "none"
                        /\ \A i \in DOMAIN serving' :
                             serving'[i].call = What(p)'.call => What(p)'.n <= serving'[i].sent
      BY DEF OnlySent
    <3>1. CASE p = e
      BY <1>1, <1>5, <2>1, <3>1
    <3>2. CASE p # e
      <4>1. PICK w \in Message : w = What(g[p]) /\ What(p)' = w /\ g[p] \in Copies
        BY <2>2, <2>3, <3>2
      <4>2. /\ w.n \in Nat
            /\ IF w.call = 0 THEN w.n <= events ELSE outcome[w.call] # "none"
            /\ \A i \in DOMAIN serving : serving[i].call = w.call => w.n <= serving[i].sent
        BY <4>1 DEF OnceInv, OnlySent, Message
      <4>3. \A i \in DOMAIN serving' : serving'[i].call = w.call => w.n <= serving'[i].sent
        BY <1>5, <4>2
      <4> QED BY <1>1, <1>4, <1>5, <2>4, <4>1, <4>2, <4>3
    <3> QED BY <3>1, <3>2
  <2> QED BY <1>3, <1>5, <2>6, <2>7 DEF OnceInv
<1>6. ASSUME NEW i \in DOMAIN serving, KernelReplies(i) PROVE OnceInv'
  <2>1. PICK s \in Serving : s = serving[i]
    BY <1>2
  <2>2. PICK r : r = [s EXCEPT !.sent = @ + 1]
    OBVIOUS
  <2>3. PICK m : m = Valid(s.call, s.seq, s.sent + 1, s.dump)
    OBVIOUS
  <2>4. /\ m \in Message /\ m.type = "valid" /\ m.call = s.call /\ m.n = s.sent + 1
        /\ r \in Serving /\ r.call = s.call /\ r.sent = s.sent + 1
        /\ s.call \in Calls /\ s.sent \in Nat
    BY <2>1, <2>2, <2>3, BoundsAreNat DEF Valid, Message, Serving, Calls
  <2>5. Enqueue(m) /\ serving' = [serving EXCEPT ![i] = r] /\ events' = events
    BY <1>6, <2>1, <2>2, <2>3 DEF KernelReplies
  <2>6. /\ DOMAIN serving' = DOMAIN serving /\ serving'[i] = r
        /\ \A j \in DOMAIN serving : j # i => serving'[j] = serving[j]
    BY <1>2, <2>5
  <2>7. ServedOnce'
    BY <2>1, <2>4, <2>6 DEF OnceInv, ServedOnce
  <2>8. ASSUME NEW c, NEW n \in Nat,
               \A j \in DOMAIN serving : serving[j].call = c => n <= serving[j].sent
        PROVE  \A j \in DOMAIN serving' : serving'[j].call = c => n <= serving'[j].sent
    BY <2>1, <2>4, <2>6, <2>8
  <2>9. \A j \in DOMAIN serving' : serving'[j].call = m.call => m.n <= serving'[j].sent
    BY <2>1, <2>4, <2>6 DEF OnceInv, ServedOnce
  <2>10. outcome[m.call] # "none" /\ m.call # 0
    BY <1>4, <2>1, <2>4 DEF TypeInv, ServedWasSent
  <2>11. \E j \in DOMAIN serving : serving[j].call = m.call /\ serving[j].sent < m.n
    BY <2>1, <2>4
  <2> QED BY <1>4, <1>5, <2>4, <2>5, <2>7, <2>8, <2>9, <2>10, <2>11
<1>7. ASSUME NEW i \in DOMAIN serving, KernelFinishes(i) PROVE OnceInv'
  <2>1. PICK m : m = Terminator(answer[serving[i].call].end, serving[i].call, serving[i].seq)
    OBVIOUS
  <2>2. m \in Message /\ m.type # "valid"
    <3>1. answer[serving[i].call] \in Answer /\ answer[serving[i].call].end # "lost"
      BY <1>2 DEF TypeInv, TypeOK, ServedWasSent
    <3>2. answer[serving[i].call].end \in EndTypes /\ "valid" \notin EndTypes
      BY <3>1 DEF Answer, EndTypes, ErrorEnds
    <3>3. serving[i].call \in 0..MaxCalls /\ serving[i].seq \in Nat
      BY <1>2, BoundsAreNat DEF Serving, Calls
    <3> QED BY <2>1, <3>2, <3>3 DEF Terminator, Message
  <2>3. Enqueue(m) /\ serving' = RemoveAt(serving, i) /\ events' = events
    BY <1>7, <2>1 DEF KernelFinishes
  <2>4. /\ serving' \in Seq(Serving) /\ Len(serving') = Len(serving) - 1
        /\ \A j \in 1..(Len(serving) - 1) :
             serving'[j] = IF j < i THEN serving[j] ELSE serving[j + 1]
    BY <1>2, <2>3, RemoveAtElements
  <2>5. DOMAIN serving' = 1..(Len(serving) - 1)
    BY <2>4, LenProperties
  <2>6. \A j \in DOMAIN serving' : j \in DOMAIN serving /\ j + 1 \in DOMAIN serving
    BY <1>2, <2>5
  <2>7. ServedOnce'
    <3> SUFFICES ASSUME NEW j \in DOMAIN serving', NEW k \in DOMAIN serving',
                        serving'[j].call = serving'[k].call
                 PROVE  j = k
      BY DEF ServedOnce
    <3>1. /\ j \in Int /\ k \in Int /\ i \in Int
          /\ serving'[j] = IF j < i THEN serving[j] ELSE serving[j + 1]
          /\ serving'[k] = IF k < i THEN serving[k] ELSE serving[k + 1]
      BY <1>2, <2>4, <2>5
    <3>2. (IF j < i THEN j ELSE j + 1) = (IF k < i THEN k ELSE k + 1)
      BY <2>6, <3>1 DEF OnceInv, ServedOnce
    <3> QED BY <3>1, <3>2
  <2>8. ASSUME NEW c, NEW n \in Nat,
               \A j \in DOMAIN serving : serving[j].call = c => n <= serving[j].sent
        PROVE  \A j \in DOMAIN serving' : serving'[j].call = c => n <= serving'[j].sent
    BY <2>4, <2>5, <2>6, <2>8
  <2> QED BY <1>4, <1>5, <2>2, <2>3, <2>7, <2>8
<1>8. CASE KernelMulticasts
  <2>1. PICK m : m = Valid(0, 0, events + 1, FALSE)
    OBVIOUS
  <2>2. m \in Message /\ m.type = "valid" /\ m.call = 0 /\ m.n = events + 1
    BY <1>4, <2>1, BoundsAreNat DEF Valid, Message
  <2>3. Enqueue(m) /\ serving' = serving /\ events' = events + 1
    BY <1>8, <2>1 DEF KernelMulticasts
  <2>4. ServedOnce'
    BY <2>3 DEF OnceInv, ServedOnce
  <2>5. \A i \in DOMAIN serving : serving[i].call # 0
    BY <1>2, <1>4
  <2>6. events <= events' /\ events < m.n /\ m.n <= events'
    BY <1>4, <2>2, <2>3
  <2> QED BY <1>5, <2>2, <2>3, <2>4, <2>5, <2>6
<1> QED BY <1>6, <1>7, <1>8 DEF KernelAnswers

\* Popping, pushing and replacing the top frame.
LEMMA StackStepRests ==
  ASSUME TypeInv,
         \/ stack' = stack
         \/ \E f : f.buf = <<>> /\ stack' = Append(stack, f)
         \/ stack # <<>> /\ stack' = Pop
         \/ stack # <<>> /\ \E f : (f.buf = <<>> \/ f.buf = Top.buf) /\ stack' = SetTop(f)
  PROVE  StackRests
<1>0. PICK n \in Nat : n = Len(stack) /\ DOMAIN stack = 1..n
  BY DEF TypeInv, TypeOK
<1>1. stack \in Seq(Frame)
  BY DEF TypeInv, TypeOK
<1>2. CASE stack' = stack
  BY <1>2 DEF StackRests
<1>3. CASE \E f : f.buf = <<>> /\ stack' = Append(stack, f)
  <2>1. PICK f : f.buf = <<>> /\ stack' = Append(stack, f)
    BY <1>3
  <2>2. /\ Len(Append(stack, f)) = n + 1 /\ Append(stack, f)[n + 1] = f
        /\ \A k \in 1..n : Append(stack, f)[k] = stack[k]
    BY <1>0, <1>1
  <2>3. \A k \in 1..(n + 1) : k \in 1..n \/ k = n + 1
    BY <1>0
  <2> QED BY <1>0, <2>1, <2>2, <2>3 DEF StackRests
<1>4. CASE stack # <<>> /\ stack' = Pop
  <2>1. /\ n # 0 /\ Len(Pop) = n - 1 /\ \A k \in 1..(n - 1) : Pop[k] = stack[k]
    BY <1>0, <1>1, <1>4, EmptySeq, FrontLast DEF Pop
  <2>2. \A k \in 1..(n - 1) : k \in 1..n
    BY <1>0
  <2> QED BY <1>0, <1>4, <2>1, <2>2 DEF StackRests
<1>5. CASE stack # <<>> /\ \E f : (f.buf = <<>> \/ f.buf = Top.buf) /\ stack' = SetTop(f)
  <2>1. PICK f : (f.buf = <<>> \/ f.buf = Top.buf) /\ stack' = [stack EXCEPT ![n] = f]
    BY <1>0, <1>5 DEF SetTop
  <2>2. n \in 1..n /\ Top = stack[n]
    BY <1>0, <1>1, <1>5, EmptySeq, FrontLast DEF Top
  <2>3. /\ DOMAIN stack' = 1..n /\ stack'[n] = f /\ \A k \in 1..n : k # n => stack'[k] = stack[k]
    BY <1>0, <2>1, <2>2
  <2>4. Len(stack') = n
    BY <1>0, <1>1, <2>1
  <2> QED BY <1>0, <2>1, <2>2, <2>3, <2>4 DEF StackRests
<1> QED BY <1>2, <1>3, <1>4, <1>5

\* The steps of the client and of the library that only change the stack of activations.
LEMMA QuietKeepsOnce ==
  ASSUME TypeInv, TypeInv', OnceInv, StackRests, UNCHANGED <<heard, queue, serving, events>>,
         \A c \in Calls : outcome[c] # "none" => outcome'[c] # "none"
  PROVE  OnceInv'
<1>1. OnlyValidHeard'
  BY DEF OnceInv, OnlyValidHeard
<1> QED BY <1>1, RestMoves, MovesKeepOnce

\* nl_recvmsgs returns.
LEMMA RecvmsgsReturnsRests ==
  ASSUME TypeInv, stack # <<>>, stack' = RecvmsgsReturns
  PROVE  StackRests
<1>1. Top \in Frame
  BY StackOperations DEF TypeInv, TypeOK
<1>2. PICK f : f = [Top EXCEPT !.pc = "loop", !.buf = <<>>, !.multi = FALSE]
  OBVIOUS
<1>3. f.buf = <<>>
  BY <1>1, <1>2 DEF Frame
<1>4. stack' = SetTop(f) \/ stack' = Pop
  BY <1>2 DEF RecvmsgsReturns
<1> QED BY <1>3, <1>4, StackStepRests

\* Nothing has been sent when the socket has been constructed.
LEMMA OnceInit == Init /\ TypeInv => OnceInv
<1> SUFFICES ASSUME Init, TypeInv PROVE OnceInv
  OBVIOUS
<1>1. queue = <<>> /\ stack = <<>> /\ serving = <<>> /\ heard = [cb \in Callbacks |-> <<>>]
  BY DEF Init
<1>2. \A b \in Boxes : Held(b) = <<>>
  BY <1>1, CopiesAre DEF CopiesAreThese, Held
<1>3. \A p : p \notin Copies
  BY <1>2, CopiesAre DEF CopiesAreThese
<1>4. ServedOnce /\ OnlyValidHeard
  BY <1>1 DEF ServedOnce, OnlyValidHeard
<1> QED BY <1>3, <1>4 DEF OnceInv, OneCopy, OnlySent

\* Every step keeps the invariant.
LEMMA OnceNext == TypeInv /\ OnceInv /\ [Next]_vars => OnceInv'
<1> SUFFICES ASSUME TypeInv, OnceInv, [Next]_vars PROVE OnceInv'
  OBVIOUS
<1>0. TypeInv'
  BY NextType
<1> USE DEF socketVars, seqVars, kernelVars, historyVars
<1>1. ASSUME NEW c \in Calls, NEW m \in Messages, NEW dump \in BOOLEAN, NEW own \in BOOLEAN,
             NEW a \in AnswersTo(dump) \cup {NotSent}, SendMessageSync(c, m, dump, a, own)
      PROVE  OnceInv'
  <2>1. PICK f : f = Activation("sync", c, own, "loop")
    OBVIOUS
  <2>2. f.buf = <<>> /\ stack' = Append(stack, f)
    BY <1>1, <2>1 DEF SendMessageSync, Activation
  <2>3. /\ UNCHANGED <<heard, queue, events>> /\ outcome[c] = "none"
        /\ outcome' = [outcome EXCEPT ![c] = "active"]
    BY <1>1 DEF SendMessageSync, IsNextCall
  <2>4. \A d \in Calls : outcome[d] # "none" => outcome'[d] # "none"
    BY <2>3 DEF TypeInv, TypeOK
  <2>5. PICK r : r = [call |-> c, seq |-> IF header[m] = 0 THEN seqNext ELSE header[m],
                      dump |-> dump, sent |-> 0]
    OBVIOUS
  <2>6. serving' = serving \/ serving' = Append(serving, r)
    BY <1>1, <2>5 DEF SendMessageSync
  <2>7. r \in Serving /\ r.call = c /\ c # 0
    BY <2>5 DEF Serving, TypeInv, TypeOK, Calls
  <2>8. OnlyValidHeard'
    BY <2>3 DEF OnceInv, OnlyValidHeard
  <2>9. Moves
    BY <1>0, <2>2, <2>3, StackStepRests, RestMoves
  <2> QED BY <1>0, <2>3, <2>4, <2>6, <2>7, <2>8, <2>9, MovesKeepOnce
<1>2. CASE ReceiveMessages
  <2>1. PICK f : f = Activation("recv", 0, FALSE, "read")
    OBVIOUS
  <2>2. f.buf = <<>> /\ stack' = Append(stack, f)
    BY <1>2, <2>1 DEF ReceiveMessages, Activation
  <2> QED BY <1>0, <1>2, <2>2, StackStepRests, QuietKeepsOnce DEF ReceiveMessages
<1>3. CASE (\E h \in Handlers : OnValidMessage(h)) \/ AddMembership \/ DropMembership
           \/ UNCHANGED vars
  <2>1. UNCHANGED <<heard, queue, serving, events, stack, outcome>>
    BY <1>3 DEF OnValidMessage, AddMembership, DropMembership, vars
  <2> QED BY <1>0, <2>1, StackStepRests, QuietKeepsOnce
<1>4. CASE CallbackThrows \/ SyncReturns
  <2>1. UNCHANGED <<heard, queue, serving, events>> /\ stack # <<>> /\ stack' = Pop
    BY <1>4 DEF CallbackThrows, InCallback, SyncReturns
  <2>2. \A d \in Calls : outcome[d] # "none" => outcome'[d] # "none"
    BY <1>4 DEF CallbackThrows, SyncReturns, TypeInv, TypeOK
  <2> QED BY <1>0, <2>1, <2>2, StackStepRests, QuietKeepsOnce
<1>5. CASE CallbackReturns
  <2>1. PICK f : f = [Top EXCEPT !.pc = "parse", !.running = NoCallback]
    OBVIOUS
  <2>2. stack # <<>> /\ stack' = SetTop(f) /\ UNCHANGED <<heard, queue, serving, events, outcome>>
    BY <1>5, <2>1 DEF CallbackReturns, InCallback
  <2>3. f.buf = Top.buf
    BY <2>1, <2>2, StackOperations DEF Frame, TypeInv, TypeOK
  <2> QED BY <1>0, <2>2, <2>3, StackStepRests, QuietKeepsOnce
<1>6. CASE ReadDatagram
  <2>1. UNCHANGED <<heard, serving, events, outcome>>
    BY <1>6 DEF ReadDatagram
  <2>2. OnlyValidHeard'
    BY <2>1 DEF OnceInv, OnlyValidHeard
  <2> QED BY <1>0, <1>6, <2>1, <2>2, ReadMoves, MovesKeepOnce
<1>7. CASE ReadFails \/ SequenceMismatch \/ AckCallbackWrapper \/ ErrorCallbackWrapper
  <2>1. /\ stack # <<>> /\ stack' = RecvmsgsReturns
        /\ UNCHANGED <<heard, queue, serving, events, outcome>>
    BY <1>7 DEF ReadFails, Reading, SequenceMismatch, AckCallbackWrapper,
                ErrorCallbackWrapper, Parsing
  <2> QED BY <1>0, <2>1, RecvmsgsReturnsRests, QuietKeepsOnce
<1>8. CASE EndOfDatagram
  <2>1. /\ stack # <<>> /\ UNCHANGED <<heard, queue, serving, events, outcome>>
        /\ stack' = SetTop([Top EXCEPT !.pc = "read"]) \/ stack' = RecvmsgsReturns
    BY <1>8 DEF EndOfDatagram
  <2>2. PICK f : f = [Top EXCEPT !.pc = "read"]
    OBVIOUS
  <2>3. f.buf = Top.buf
    BY <2>1, <2>2, StackOperations DEF Frame, TypeInv, TypeOK
  <2>4. StackRests
    BY <2>1, <2>2, <2>3, StackStepRests, RecvmsgsReturnsRests
  <2> QED BY <1>0, <2>1, <2>4, QuietKeepsOnce
<1>9. CASE ValidCallbackWrapper \/ FinishCallbackWrapper
  <2>1. /\ Parsing /\ Top \in Frame /\ Msg \in Message /\ Tail(Top.buf) \in Seq(Message)
    BY <1>9, Parsed DEF ValidCallbackWrapper, FinishCallbackWrapper, TypeInv, TypeOK
  <2>2. UNCHANGED <<queue, serving, events, outcome>>
    BY <1>9 DEF ValidCallbackWrapper, FinishCallbackWrapper
  <2>3. \E f \in Frame : stack' = SetTop(f) /\ f.buf = Tail(Top.buf)
    <3>1. CASE FinishCallbackWrapper
      <4>1. PICK f : f = [Top EXCEPT !.buf = Tail(@), !.multi = FALSE]
        OBVIOUS
      <4>2. f \in Frame /\ f.buf = Tail(Top.buf)
        BY <2>1, <4>1 DEF Frame
      <4>3. stack' = SetTop(f)
        BY <3>1, <4>1, Zenon DEF FinishCallbackWrapper
      <4> QED BY <4>2, <4>3, Zenon
    <3>2. CASE ValidCallbackWrapper
      <4>1. PICK b \in BOOLEAN : b = (Top.multi \/ Msg.multi)
        OBVIOUS
      <4>2. PICK f : f = [Top EXCEPT !.buf = Tail(@), !.multi = b]
        OBVIOUS
      <4>3. f \in Frame /\ f.buf = Tail(Top.buf)
        BY <2>1, <4>2 DEF Frame
      <4>4. f = [Top EXCEPT !.buf = Tail(@), !.multi = @ \/ Msg.multi]
        BY <4>1, <4>2, Zenon
      <4>5. CASE stack' = SetTop(f)
        BY <4>3, <4>5
      <4>6. CASE stack' = SetTop([f EXCEPT !.pc = "callback", !.running = validCallback])
        <5>1. PICK h : h = [f EXCEPT !.pc = "callback", !.running = validCallback]
          OBVIOUS
        <5>2. h \in Frame /\ h.buf = f.buf
          BY <4>3, <5>1 DEF Frame, TypeInv, TypeOK
        <5>3. stack' = SetTop(h) /\ h.buf = Tail(Top.buf)
          BY <4>3, <4>6, <5>1, <5>2, Zenon
        <5> QED BY <5>2, <5>3, Zenon
      <4>7. stack' = SetTop(f)
            \/ stack' = SetTop([f EXCEPT !.pc = "callback", !.running = validCallback])
        BY <3>2, <4>4, Zenon DEF ValidCallbackWrapper
      <4> QED BY <4>5, <4>6, <4>7, Zenon
    <3> QED BY <1>9, <3>1, <3>2
  <2>4. \/ heard' = heard
        \/ /\ Msg.type = "valid"
           /\ \E cb \in Callbacks : heard' = [heard EXCEPT ![cb] = Append(@, Msg)]
    BY <1>9 DEF ValidCallbackWrapper, FinishCallbackWrapper, TypeInv, TypeOK
  <2>5. Moves
    BY <1>0, <2>1, <2>2, <2>3, <2>4, ParseMoves
  <2>6. OnlyValidHeard'
    <3>1. CASE heard' = heard
      BY <3>1 DEF OnceInv, OnlyValidHeard
    <3>2. CASE Msg.type = "valid"
               /\ \E cb \in Callbacks : heard' = [heard EXCEPT ![cb] = Append(@, Msg)]
      <4>1. PICK cb \in Callbacks : heard' = [heard EXCEPT ![cb] = Append(@, Msg)]
        BY <3>2
      <4>2. heard \in [Callbacks -> Seq(Message)] /\ heard[cb] \in Seq(Message)
        BY DEF TypeInv, TypeOK
      <4>3. PICK h : h = Append(heard[cb], Msg)
        OBVIOUS
      <4>4. /\ heard'[cb] = h /\ \A d \in Callbacks : d # cb => heard'[d] = heard[d]
        BY <4>1, <4>2, <4>3
      <4>5. \A i \in DOMAIN h : h[i] = Msg \/ (i \in DOMAIN heard[cb] /\ h[i] = heard[cb][i])
        BY <2>1, <4>2, <4>3, AppendProperties, LenProperties
      <4> QED BY <3>2, <4>4, <4>5 DEF OnceInv, OnlyValidHeard
    <3> QED BY <2>4, <3>1, <3>2
  <2> QED BY <1>0, <2>2, <2>5, <2>6, MovesKeepOnce
<1>10. CASE KernelAnswers \/ KernelMulticasts
  BY <1>0, <1>10, KernelKeepsOnce
<1> QED BY <1>1, <1>2, <1>3, <1>4, <1>5, <1>6, <1>7, <1>8, <1>9, <1>10
        DEF Next, Client, Library

\* Whatever the client and its callbacks do - nested calls, exceptions, resends, failed
\* sends - and whatever the receive queue loses, no reply and no event is handed out twice.
THEOREM NothingIsHeardTwice == Spec => []HeardOnce
<1> DEFINE Inv == TypeInv /\ OnceInv
<1>1. Init => Inv
  BY InitType, OnceInit
<1>2. Inv /\ [Next]_vars => Inv'
  BY NextType, OnceNext
<1>3. Inv => HeardOnce
  <2> SUFFICES ASSUME TypeInv, OnceInv, NEW cb1 \in Callbacks, NEW cb2 \in Callbacks,
                      NEW i \in DOMAIN heard[cb1], NEW j \in DOMAIN heard[cb2],
                      heard[cb1][i].call = heard[cb2][j].call, heard[cb1][i].n = heard[cb2][j].n
               PROVE  cb1 = cb2 /\ i = j
    BY DEF HeardOnce
  <2> DEFINE p == <<<<"heard", cb1>>, i>>
             q == <<<<"heard", cb2>>, j>>
  <2>1. p \in Copies /\ q \in Copies
    BY DEF Copies, Boxes, Held
  <2>2. What(p) = heard[cb1][i] /\ What(q) = heard[cb2][j]
    BY DEF What, Held
  <2>3. heard[cb1][i].type = "valid" /\ heard[cb2][j].type = "valid"
    BY DEF OnceInv, OnlyValidHeard
  <2> HIDE DEF p, q
  <2>4. p = q
    BY <2>1, <2>2, <2>3 DEF OnceInv, OneCopy, Same
  <2> QED BY <2>4 DEF p, q
<1> QED BY <1>1, <1>2, <1>3, PTL DEF Spec
=============================================================================
