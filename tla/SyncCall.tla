------------------------------ MODULE SyncCall ------------------------------
(***************************************************************************)
(* What sendMessageSync promises, with no socket, sequence number, buffer  *)
(* or callStatus in sight: one call at a time, a callback that is told     *)
(* every reply to its request once and in order, with events at most in    *)
(* between, and a return only after the last one, with the verdict the     *)
(* kernel gave to this request and no other.                               *)
(***************************************************************************)
EXTENDS Naturals, Sequences

CONSTANTS Calls, MaxReplies

VARIABLES
  outcome,  \* outcome[c]: "none", "active", "ok" or "failed"
  promise,  \* promise[c]: the replies and the verdict the kernel gives to call c
  listens,  \* listens[c]: call c has a callback of its own
  told      \* told[c]: the replies the callback of call c was told, and 0 for an event
vars == <<outcome, promise, listens, told>>

Promise == [replies : 0..MaxReplies, fails : BOOLEAN]
Idle == \A c \in Calls : outcome[c] # "active"

Init ==
  /\ outcome = [c \in Calls |-> "none"]
  /\ promise = [c \in Calls |-> [replies |-> 0, fails |-> FALSE]]
  /\ listens = [c \in Calls |-> FALSE]
  /\ told = [c \in Calls |-> <<>>]

Call(c, p, own) ==
  /\ Idle /\ outcome[c] = "none"
  /\ outcome' = [outcome EXCEPT ![c] = "active"]
  /\ promise' = [promise EXCEPT ![c] = p]
  /\ listens' = [listens EXCEPT ![c] = own]
  /\ UNCHANGED told

\* The replies the callback has still to be told.
Due(c) == {n \in 1..promise[c].replies : \A i \in DOMAIN told[c] : told[c][i] # n}

TellNext(c, n) ==
  /\ outcome[c] = "active" /\ listens[c]
  /\ told' = [told EXCEPT ![c] = Append(@, n)]
  /\ UNCHANGED <<outcome, promise, listens>>

Tell(c)      == \E n \in Due(c) : (\A k \in Due(c) : n <= k) /\ TellNext(c, n)
TellEvent(c) == TellNext(c, 0)

Return(c) ==
  /\ outcome[c] = "active"
  /\ listens[c] => Due(c) = {}
  /\ outcome' = [outcome EXCEPT ![c] = IF promise[c].fails THEN "failed" ELSE "ok"]
  /\ UNCHANGED <<promise, listens, told>>

Next == \E c \in Calls : \/ \E p \in Promise, own \in BOOLEAN : Call(c, p, own)
                         \/ Tell(c) \/ TellEvent(c)
                         \/ Return(c)

Spec == Init /\ [][Next]_vars

\* A call goes on until it has returned.
FairSpec == Spec /\ WF_vars(\E c \in Calls : Tell(c) \/ Return(c))
=============================================================================
