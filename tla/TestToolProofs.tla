--------------------------- MODULE TestToolProofs ---------------------------
(***************************************************************************)
(* Theorems of TestTool, for any number of lines, changes and watches: the *)
(* type invariant; an answer comes before the events of what it answers;   *)
(* and the tool does not exit before it has answered all its input.        *)
(***************************************************************************)
EXTENDS TestTool, SequenceTheorems, TLAPS

-----------------------------------------------------------------------------
(* Sequences *)

\* A sequence over a set is one over a larger set.
LEMMA WiderSeq ==
  ASSUME NEW S, NEW T, S \subseteq T, NEW s \in Seq(S)
  PROVE  s \in Seq(T)
<1>1. s \in [1..Len(s) -> S] /\ Len(s) \in Nat
  BY LenProperties
<1>2. s \in [1..Len(s) -> T]
  BY <1>1
<1> QED BY <1>1, <1>2, SeqDef

\* Appending to a sequence.
LEMMA Appended ==
  ASSUME NEW S, NEW s \in Seq(S), NEW e \in S
  PROVE  /\ Append(s, e) \in Seq(S) /\ Len(Append(s, e)) = Len(s) + 1
         /\ DOMAIN Append(s, e) = DOMAIN s \cup {Len(s) + 1} /\ Len(s) + 1 \notin DOMAIN s
         /\ DOMAIN s = 1..Len(s) /\ Len(s) \in Nat
         /\ Append(s, e)[Len(s) + 1] = e /\ \A i \in DOMAIN s : Append(s, e)[i] = s[i]
         /\ ToSet(Append(s, e)) = ToSet(s) \cup {e}
<1>1. /\ Append(s, e) \in Seq(S) /\ Len(Append(s, e)) = Len(s) + 1
      /\ Append(s, e)[Len(s) + 1] = e /\ \A i \in 1..Len(s) : Append(s, e)[i] = s[i]
  BY AppendProperties
<1>2. DOMAIN s = 1..Len(s) /\ Len(s) \in Nat /\ DOMAIN Append(s, e) = 1..(Len(s) + 1)
  BY <1>1, LenProperties
<1>3. 1..(Len(s) + 1) = 1..Len(s) \cup {Len(s) + 1} /\ Len(s) + 1 \notin 1..Len(s)
  BY <1>2
<1> QED BY <1>1, <1>2, <1>3 DEF ToSet

\* Taking the first element.
LEMMA HeadTaken ==
  ASSUME NEW S, NEW s \in Seq(S), s # <<>>
  PROVE  /\ Head(s) \in S /\ Tail(s) \in Seq(S)
         /\ ToSet(s) \subseteq ToSet(Tail(s)) \cup {Head(s)}
<1>1. /\ Head(s) = s[1] /\ Tail(s) \in Seq(S) /\ Len(Tail(s)) = Len(s) - 1
      /\ \A i \in 1..Len(Tail(s)) : Tail(s)[i] = s[i + 1]
      /\ Head(s) \in S
  BY HeadTailProperties
<1>2. /\ DOMAIN s = 1..Len(s) /\ Len(s) \in Nat /\ DOMAIN Tail(s) = 1..(Len(s) - 1)
  BY <1>1, LenProperties
<1>3. ASSUME NEW i \in DOMAIN s, i # 1 PROVE s[i] \in ToSet(Tail(s))
  <2>1. i - 1 \in DOMAIN Tail(s) /\ Tail(s)[i - 1] = s[i]
    BY <1>1, <1>2, <1>3
  <2> QED BY <2>1 DEF ToSet
<1> QED BY <1>1, <1>3 DEF ToSet

-----------------------------------------------------------------------------
(* Type correctness *)

\* There is a queue, a cache and a beginning for each watch, and a line in hand while a
\* command runs.
AsMany ==
  /\ Len(caches) = Len(queues) /\ Len(since) = Len(queues)
  /\ pc = "fill" => queues # <<>>
  /\ pc \in {"command", "fill", "print"} => line \in Numbers
TypeInv == TypeOK /\ AsMany

ChangeRecord == [key : Keys, present : BOOLEAN, by : Numbers \cup {0}]

\* The types of the parts, as they are used.
LEMMA TypesOfParts ==
  ASSUME TypeInv
  PROVE  /\ lines \in Seq(Line) /\ pipe \in Seq(Numbers) /\ buffer \in Seq(Numbers)
         /\ queues \in Seq(Seq(DOMAIN log)) /\ caches \in Seq(SUBSET Keys)
         /\ since \in Seq(0..Len(log)) /\ log \in Seq(ChangeRecord)
         /\ Watches = 1..Len(queues) /\ DOMAIN caches = Watches /\ DOMAIN since = Watches
         /\ DOMAIN log = 1..Len(log) /\ DOMAIN lines = Numbers
         /\ Len(log) \in Nat /\ Len(lines) \in Nat /\ Len(queues) \in Nat
         /\ Numbers \subseteq Nat /\ 0 \notin Numbers
         /\ \A w \in Watches : queues[w] \in Seq(DOMAIN log) /\ caches[w] \subseteq Keys
         /\ \A n \in DOMAIN log : log[n] \in ChangeRecord
<1>1. /\ lines \in Seq(Line) /\ pipe \in Seq(Numbers) /\ buffer \in Seq(Numbers)
      /\ queues \in Seq(Seq(DOMAIN log)) /\ caches \in Seq(SUBSET Keys)
      /\ since \in Seq(0..Len(log)) /\ log \in Seq(ChangeRecord)
      /\ Len(caches) = Len(queues) /\ Len(since) = Len(queues)
  BY DEF TypeInv, TypeOK, AsMany, ChangeRecord
<1>2. /\ DOMAIN log = 1..Len(log) /\ DOMAIN lines = 1..Len(lines)
      /\ Watches = 1..Len(queues) /\ DOMAIN caches = Watches /\ DOMAIN since = Watches
      /\ Len(log) \in Nat /\ Len(lines) \in Nat /\ Len(queues) \in Nat
  BY <1>1, LenProperties DEF Watches
<1>3. /\ \A w \in 1..Len(queues) : queues[w] \in Seq(DOMAIN log) /\ caches[w] \in SUBSET Keys
      /\ \A n \in 1..Len(log) : log[n] \in ChangeRecord
  BY <1>1, ElementOfSeq
<1> QED BY <1>1, <1>2, <1>3 DEF Numbers

\* A change of an address grows the log and the queues.
LEMMA ChangeType ==
  ASSUME TypeInv, NEW k \in Keys, NEW by \in Numbers \cup {0}, Change(k, by), lines' = lines
  PROVE  /\ kernel' \subseteq Keys /\ log' \in Seq(ChangeRecord)
         /\ Len(log') = Len(log) + 1 /\ DOMAIN log' = DOMAIN log \cup {Len(log) + 1}
         /\ queues' \in Seq(Seq(DOMAIN log')) /\ Len(queues') = Len(queues)
         /\ log'[Len(log) + 1].by = by /\ \A n \in DOMAIN log : log'[n] = log[n]
<1>1. PICK r : r = [key |-> k, present |-> k \notin kernel, by |-> by]
  OBVIOUS
<1>2. r \in ChangeRecord /\ r.by = by /\ log' = Append(log, r)
  BY <1>1 DEF Change, ChangeRecord
<1>3. /\ log' \in Seq(ChangeRecord) /\ DOMAIN log' = DOMAIN log \cup {Len(log) + 1}
      /\ Len(log') = Len(log) + 1
      /\ log'[Len(log) + 1] = r /\ \A n \in DOMAIN log : log'[n] = log[n]
  BY <1>2, TypesOfParts, Appended
<1>4. ASSUME NEW w \in Watches PROVE Append(queues[w], Len(log) + 1) \in Seq(DOMAIN log')
  <2>1. queues[w] \in Seq(DOMAIN log') /\ Len(log) + 1 \in DOMAIN log'
    BY <1>3, TypesOfParts, WiderSeq
  <2> QED BY <2>1, Appended
<1>5. queues' = [w \in 1..Len(queues) |-> Append(queues[w], Len(log) + 1)]
      /\ Len(queues) \in Nat /\ Watches = 1..Len(queues)
  BY TypesOfParts DEF Change
<1>6. queues' \in [1..Len(queues) -> Seq(DOMAIN log')]
  BY <1>4, <1>5
<1>7. queues' \in Seq(Seq(DOMAIN log')) /\ Len(queues') = Len(queues)
  <2>1. queues' \in Seq(Seq(DOMAIN log'))
    BY <1>5, <1>6, SeqDef
  <2>2. DOMAIN queues' = 1..Len(queues)
    BY <1>5
  <2> QED BY <1>5, <2>1, <2>2, LenProperties
<1>8. kernel' \subseteq Keys
  BY DEF Change, TypeInv, TypeOK
<1> QED BY <1>2, <1>3, <1>7, <1>8

\* What is printed.
Item == [what : {"done", "event"}, of : Nat, by : Nat]

\* In the beginning there is no watch and no change, and at most one line.
LEMMA InitType == Init => TypeInv
<1> SUFFICES ASSUME Init PROVE TypeInv
  OBVIOUS
<1>1. /\ pipe = <<>> /\ buffer = <<>> /\ ready = {} /\ next = 1
      /\ queues = <<>> /\ caches = <<>> /\ since = <<>>
      /\ kernel \subseteq Keys /\ log = <<>> /\ changes = 0 /\ output = <<>>
  BY DEF Init
<1>2. /\ {single, patient, closed} \subseteq BOOLEAN /\ lines \in Seq(Line)
      /\ line \in Numbers \cup {0} /\ pc \in {"poll", "exited", "command"}
      /\ pc = "command" => line \in Numbers
  <2>1. CASE Loop
    <3>1. /\ single = FALSE /\ patient \in BOOLEAN /\ closed = FALSE
          /\ lines = <<>> /\ pc = "poll" /\ line = 0
      BY <2>1 DEF Loop
    <3>2. {single, patient, closed} \subseteq BOOLEAN
      BY <3>1, Zenon
    <3>3. <<>> \in Seq(Line)
      BY EmptySeq
    <3> QED BY <3>1, <3>2, <3>3
  <2>2. CASE OneCommand
    <3>1. PICK l \in Line : lines = <<l>> /\ pc \in {"exited", "command"}
      BY <2>2 DEF OneCommand
    <3>2. lines \in Seq(Line) /\ Len(lines) = 1 /\ line = 1
      BY <2>2, <3>1 DEF OneCommand
    <3>3. line \in Numbers
      BY <3>2 DEF Numbers
    <3> QED BY <2>2, <3>1, <3>2, <3>3 DEF OneCommand
  <2> QED BY <2>1, <2>2 DEF Init
<1> QED BY <1>1, <1>2, BoundsAreNat DEF TypeInv, TypeOK, AsMany, Watches

\* The steps of the loop between its commands.
LEMMA LoopType ==
  ASSUME TypeInv,
         \/ Poll \/ NextManager \/ ManagersDone \/ GetLine \/ List \/ Aborts \/ Close
         \/ UNCHANGED vars
  PROVE  TypeInv'
<1>1. /\ UNCHANGED <<single, patient, lines, watchVars, kernelVars, changes, output>>
      /\ closed' \in BOOLEAN
  BY DEF Poll, NextManager, ManagersDone, GetLine, List, Aborts, Close, inputVars, vars,
         TypeInv, TypeOK
<1>2. ready' \subseteq {0} \cup Watches /\ next' \in 1..(Len(queues) + 1)
  <2>1. CASE Poll
    <3>1. ready' \subseteq {0} \cup Watches
      BY <2>1 DEF Poll
    <3>2. next' = 1 /\ Len(queues) \in Nat
      BY <2>1, TypesOfParts DEF Poll, FirstManager
    <3>3. next' \in 1..(Len(queues) + 1)
      BY <3>2
    <3> QED BY <3>1, <3>3
  <2>2. CASE NextManager
    <3>1. ready' \subseteq {0} \cup Watches
      BY <2>2 DEF NextManager, TypeInv, TypeOK
    <3>2. next' = next + 1 /\ next \in 1..Len(queues) /\ Len(queues) \in Nat
      BY <2>2, TypesOfParts DEF NextManager, AtManager
    <3>3. next' \in 1..(Len(queues) + 1)
      BY <3>2
    <3> QED BY <3>1, <3>3
  <2>3. CASE ManagersDone \/ GetLine \/ List \/ Aborts \/ Close \/ UNCHANGED vars
    BY <2>3 DEF ManagersDone, GetLine, List, Aborts, Close, loopVars, vars, TypeInv, TypeOK
  <2> QED BY <2>1, <2>2, <2>3
<1>3. /\ pipe' \in Seq(Numbers) /\ buffer' \in Seq(Numbers) /\ line' \in Numbers \cup {0}
      /\ pc' \in {"poll", "managers", "getline", "command", "print", "exited", "aborted", pc}
  <2>1. CASE GetLine
    <3>1. CASE buffer # <<>> /\ Dispatch(Head(buffer)) /\ buffer' = Tail(buffer) /\ pipe' = pipe
      BY <3>1, TypesOfParts, HeadTaken DEF Dispatch
    <3>2. CASE pipe # <<>> /\ Dispatch(Head(pipe)) /\ buffer' = Tail(pipe) /\ pipe' = <<>>
      BY <3>2, TypesOfParts, HeadTaken, EmptySeq DEF Dispatch
    <3>3. CASE pc' = "exited" /\ UNCHANGED <<pipe, buffer, line>>
      BY <3>3 DEF TypeInv, TypeOK
    <3> QED BY <2>1, <3>1, <3>2, <3>3 DEF GetLine
  <2>2. CASE Poll \/ NextManager \/ ManagersDone \/ List \/ Aborts \/ Close \/ UNCHANGED vars
    BY <2>2 DEF Poll, NextManager, ManagersDone, List, Aborts, Close, inputVars, loopVars, vars,
                TypeInv, TypeOK
  <2> QED BY <2>1, <2>2
<1>4. pc' = "fill" => pc = "fill"
  BY <1>3
<1>5. pc' \in {"command", "fill", "print"} => line' \in Numbers
  <2>1. CASE GetLine
    <3>1. CASE buffer # <<>> /\ Dispatch(Head(buffer))
      BY <3>1, TypesOfParts, HeadTaken DEF Dispatch
    <3>2. CASE pipe # <<>> /\ Dispatch(Head(pipe))
      BY <3>2, TypesOfParts, HeadTaken DEF Dispatch
    <3>3. CASE pc' = "exited"
      BY <3>3
    <3> QED BY <2>1, <3>1, <3>2, <3>3 DEF GetLine
  <2>2. CASE Poll \/ NextManager \/ ManagersDone \/ List \/ Aborts \/ Close \/ UNCHANGED vars
    BY <2>2 DEF Poll, NextManager, ManagersDone, List, Running, Aborts, Close, loopVars, vars,
                TypeInv, AsMany
  <2> QED BY <2>1, <2>2
<1>6. Numbers' = Numbers /\ Watches' = Watches
  BY <1>1 DEF Numbers, Watches, watchVars
<1>7. TypeOK'
  BY <1>1, <1>2, <1>3, <1>6 DEF TypeInv, TypeOK, watchVars, kernelVars
<1> QED BY <1>1, <1>4, <1>5, <1>6, <1>7 DEF TypeInv, AsMany, watchVars

\* The addresses after a change.
LEMMA AfterType ==
  ASSUME TypeInv, NEW S \in SUBSET Keys, NEW n \in DOMAIN log
  PROVE  After(S, n) \in SUBSET Keys
<1>1. log[n].key \in Keys
  BY TypesOfParts DEF ChangeRecord
<1> QED BY <1>1 DEF After

\* A manager takes an event.
LEMMA TakeType ==
  ASSUME TypeInv, NEW w \in Watches, queues[w] # <<>>, Take(w)
  PROVE  TypeInv'
<1>1. PICK n : n = Head(queues[w])
  OBVIOUS
<1>2. n \in DOMAIN log /\ Tail(queues[w]) \in Seq(DOMAIN log) /\ n \in Nat /\ w \in Nat
  <2>1. queues[w] \in Seq(DOMAIN log) /\ DOMAIN log \subseteq Nat /\ w \in Nat
    BY TypesOfParts
  <2>2. Head(queues[w]) \in DOMAIN log /\ Tail(queues[w]) \in Seq(DOMAIN log)
    BY <2>1, HeadTaken
  <2> QED BY <1>1, <2>1, <2>2
<1>3. /\ queues' = [queues EXCEPT ![w] = Tail(queues[w])]
      /\ caches' = [caches EXCEPT ![w] = After(caches[w], n)]
      /\ output' = output \/ output' = Append(output, Event(w, n))
      /\ UNCHANGED <<inputVars, loopVars, since, kernelVars, changes>>
  BY <1>1 DEF Take
<1>4. queues' \in Seq(Seq(DOMAIN log)) /\ Len(queues') = Len(queues)
  BY <1>2, <1>3, TypesOfParts, ExceptSeq
<1>5. caches' \in Seq(SUBSET Keys) /\ Len(caches') = Len(caches)
  <2>1. After(caches[w], n) \in SUBSET Keys
    BY <1>2, TypesOfParts, AfterType
  <2>2. w \in 1..Len(caches)
    BY TypesOfParts DEF TypeInv, AsMany
  <2> QED BY <1>3, <2>1, <2>2, TypesOfParts, ExceptSeq
<1>6. output' \in Seq(Item)
  <2>1. Event(w, n) \in Item /\ output \in Seq(Item)
    BY <1>2 DEF Event, Item, TypeInv, TypeOK
  <2> QED BY <1>3, <2>1, Appended
<1>7. Watches' = Watches /\ (queues # <<>> => queues' # <<>>)
  BY <1>3 DEF Watches
<1> QED BY <1>3, <1>4, <1>5, <1>6, <1>7
        DEF TypeInv, TypeOK, AsMany, Numbers, Item, inputVars, loopVars, kernelVars

\* An address is changed, by a command or by another process.
LEMMA ChangesType ==
  ASSUME TypeInv, NEW k \in Keys, NEW by \in Numbers \cup {0}, Change(k, by),
         UNCHANGED <<inputVars, ready, next, line, caches, since, output>>,
         (pc' = "print" /\ line \in Numbers) \/ pc' = pc, changes' \in 0..MaxChanges
  PROVE  TypeInv'
<1>1. /\ kernel' \subseteq Keys /\ log' \in Seq(ChangeRecord)
      /\ Len(log') = Len(log) + 1
      /\ queues' \in Seq(Seq(DOMAIN log')) /\ Len(queues') = Len(queues)
  BY ChangeType DEF inputVars
<1>2. since' \in Seq(0..Len(log'))
  <2>1. 0..Len(log) \subseteq 0..Len(log')
    BY <1>1, TypesOfParts
  <2> QED BY <2>1, TypesOfParts, WiderSeq
<1>3. Watches' = Watches /\ (queues # <<>> => queues' # <<>>)
  <2>1. Watches' = 1..Len(queues')
    BY <1>1, LenProperties DEF Watches
  <2>2. Len(queues') # 0 => queues' # <<>>
    BY EmptySeq
  <2>3. queues # <<>> => Len(queues) # 0
    BY TypesOfParts, EmptySeq
  <2> QED BY <1>1, <2>1, <2>2, <2>3, TypesOfParts
<1>4. Numbers' = Numbers
  BY DEF Numbers, inputVars
<1>5. pc' \in {"command", "fill", "print"} => line' \in Numbers'
  BY <1>4 DEF TypeInv, AsMany
<1>6. pc' = "fill" => queues' # <<>>
  BY <1>3 DEF TypeInv, AsMany
<1>7. TypeOK'
  BY <1>1, <1>2, <1>3, <1>4 DEF TypeInv, TypeOK, ChangeRecord, inputVars
<1> QED BY <1>1, <1>5, <1>6, <1>7 DEF TypeInv, AsMany

\* The command of a line changes an address.
LEMMA ChangeObjectType ==
  ASSUME TypeInv, ChangeObject
  PROVE  TypeInv'
<1>1. PICK l : l = lines[line]
  OBVIOUS
<1>2. /\ pc' = "print" /\ UNCHANGED <<inputVars, ready, next, line, caches, since, changes, output>>
      /\ UNCHANGED <<kernelVars, queues>> \/ Change(l.key, line)
  BY <1>1 DEF ChangeObject
<1>3. CASE UNCHANGED <<kernelVars, queues>>
  <2>1. Numbers' = Numbers /\ Watches' = Watches /\ line \in Numbers
    BY <1>2, <1>3 DEF Numbers, Watches, inputVars, ChangeObject, Running, TypeInv, AsMany
  <2>2. TypeOK'
    BY <1>2, <1>3, <2>1 DEF TypeInv, TypeOK, inputVars, kernelVars
  <2> QED BY <1>2, <1>3, <2>1, <2>2 DEF TypeInv, AsMany
<1>4. CASE Change(l.key, line)
  <2>1. line \in Numbers /\ changes \in 0..MaxChanges
    BY DEF TypeInv, TypeOK, AsMany, ChangeObject, Running
  <2>2. l.key \in Keys
    <3>1. l \in Line
      BY <1>1, <2>1, TypesOfParts, ElementOfSeq DEF Numbers
    <3>2. l.op \in {"add", "del"}
      BY <1>1 DEF ChangeObject, Running
    <3> QED BY <3>1, <3>2 DEF Line
  <2> QED BY <1>2, <1>4, <2>1, <2>2, ChangesType
<1> QED BY <1>2, <1>3, <1>4

\* A new watch joins.
LEMMA WatchJoinsType ==
  ASSUME TypeInv, WatchJoins
  PROVE  TypeInv'
<1>1. /\ queues' = Append(queues, <<>>) /\ caches' = Append(caches, {})
      /\ since' = Append(since, 0) /\ pc' = "fill"
      /\ UNCHANGED <<inputVars, ready, next, line, kernelVars, changes, output>>
  BY DEF WatchJoins
<1>2. /\ queues' \in Seq(Seq(DOMAIN log)) /\ Len(queues') = Len(queues) + 1
      /\ Watches' = Watches \cup {Len(queues) + 1}
  <2>1. <<>> \in Seq(DOMAIN log)
    BY EmptySeq
  <2> QED BY <1>1, <2>1, TypesOfParts, Appended DEF Watches
<1>3. caches' \in Seq(SUBSET Keys) /\ Len(caches') = Len(caches) + 1
  <2>1. {} \in SUBSET Keys
    OBVIOUS
  <2> QED BY <1>1, <2>1, TypesOfParts, Appended
<1>4. since' \in Seq(0..Len(log)) /\ Len(since') = Len(since) + 1
  <2>1. 0 \in 0..Len(log)
    BY TypesOfParts
  <2> QED BY <1>1, <2>1, TypesOfParts, Appended
<1>5. next' \in 1..(Len(queues') + 1) /\ ready' \subseteq {0} \cup Watches'
  BY <1>1, <1>2, TypesOfParts DEF TypeInv, TypeOK
<1>6. queues' # <<>> /\ Len(caches') = Len(queues') /\ Len(since') = Len(queues')
  <2>1. Len(queues) \in Nat
    BY TypesOfParts
  <2>2. Len(queues') # 0
    BY <1>2, <2>1
  <2>3. queues' # <<>>
    BY <2>2, EmptySeq
  <2> QED BY <1>2, <1>3, <1>4, <2>3 DEF TypeInv, AsMany
<1>7. line \in Numbers /\ Numbers' = Numbers
  BY <1>1 DEF WatchJoins, Running, TypeInv, AsMany, Numbers, inputVars
<1>8. TypeOK'
  BY <1>1, <1>2, <1>3, <1>4, <1>5, <1>7 DEF TypeInv, TypeOK, inputVars, kernelVars
<1> QED BY <1>1, <1>6, <1>7, <1>8 DEF TypeInv, AsMany

\* The cache of the new watch is filled.
LEMMA WatchFillsType ==
  ASSUME TypeInv, WatchFills
  PROVE  TypeInv'
<1>1. /\ caches' = [caches EXCEPT ![Len(caches)] = kernel]
      /\ since' = [since EXCEPT ![Len(since)] = Len(log)] /\ pc' = "print"
      /\ UNCHANGED <<inputVars, ready, next, line, queues, kernelVars, changes, output>>
  BY DEF WatchFills
<1>2. /\ Len(caches) \in 1..Len(caches) /\ Len(since) \in 1..Len(since)
  <2>1. queues # <<>> /\ Len(caches) = Len(queues) /\ Len(since) = Len(queues)
    BY DEF WatchFills, TypeInv, AsMany
  <2>2. Len(queues) # 0
    BY <2>1, TypesOfParts, EmptySeq
  <2> QED BY <2>1, <2>2, TypesOfParts
<1>3. kernel \in SUBSET Keys /\ Len(log) \in 0..Len(log)
  BY TypesOfParts DEF TypeInv, TypeOK
<1>4. caches' \in Seq(SUBSET Keys) /\ Len(caches') = Len(caches)
  BY <1>1, <1>2, <1>3, TypesOfParts, ExceptSeq
<1>5. since' \in Seq(0..Len(log)) /\ Len(since') = Len(since)
  BY <1>1, <1>2, <1>3, TypesOfParts, ExceptSeq
<1>6. Numbers' = Numbers /\ Watches' = Watches
  BY <1>1 DEF Numbers, Watches, inputVars
<1>7. TypeOK'
  BY <1>1, <1>4, <1>5, <1>6 DEF TypeInv, TypeOK, inputVars, kernelVars
<1>8. line \in Numbers
  BY DEF WatchFills, TypeInv, AsMany
<1> QED BY <1>1, <1>4, <1>5, <1>6, <1>7, <1>8 DEF TypeInv, AsMany

\* The answer is printed.
LEMMA PrintDoneType ==
  ASSUME TypeInv, PrintDone
  PROVE  TypeInv'
<1>1. /\ output' = Append(output, Done(line)) /\ pc' \in {"exited", "poll"}
      /\ UNCHANGED <<inputVars, ready, next, line, watchVars, kernelVars, changes>>
  BY DEF PrintDone
<1>2. output' \in Seq(Item)
  <2>1. Done(line) \in Item /\ output \in Seq(Item)
    BY TypesOfParts DEF Done, Item, TypeInv, TypeOK
  <2> QED BY <1>1, <2>1, Appended
<1>3. Numbers' = Numbers /\ Watches' = Watches
  BY <1>1 DEF Numbers, Watches, inputVars, watchVars
<1>4. TypeOK'
  BY <1>1, <1>2, <1>3 DEF TypeInv, TypeOK, Item, inputVars, kernelVars, watchVars
<1> QED BY <1>1, <1>3, <1>4 DEF TypeInv, AsMany, watchVars

\* The tester writes a line.
LEMMA WriteType ==
  ASSUME TypeInv, NEW l \in Line, Write(l)
  PROVE  TypeInv'
<1>1. /\ lines' = Append(lines, l) /\ pipe' = Append(pipe, Len(lines) + 1)
      /\ UNCHANGED <<single, patient, closed, buffer, loopVars, watchVars, kernelVars, changes,
                     output>>
  BY DEF Write
<1>2. lines' \in Seq(Line) /\ Len(lines') = Len(lines) + 1
  BY <1>1, TypesOfParts, Appended
<1>3. Numbers \subseteq Numbers' /\ Len(lines) + 1 \in Numbers' /\ Watches' = Watches
  BY <1>1, <1>2, TypesOfParts DEF Numbers, Watches, watchVars
<1>4. buffer' \in Seq(Numbers')
  BY <1>1, <1>3, TypesOfParts, WiderSeq
<1>5. pipe' \in Seq(Numbers')
  <2>1. pipe \in Seq(Numbers')
    BY <1>3, TypesOfParts, WiderSeq
  <2> QED BY <1>1, <1>3, <2>1, Appended
<1>6. log' \in Seq(ChangeRecord')
  <2>1. ChangeRecord \subseteq ChangeRecord'
    BY <1>3 DEF ChangeRecord
  <2> QED BY <1>1, <2>1, TypesOfParts, WiderSeq DEF kernelVars
<1>7. TypeOK'
  BY <1>1, <1>2, <1>3, <1>4, <1>5, <1>6
     DEF TypeInv, TypeOK, ChangeRecord, loopVars, watchVars, kernelVars
<1> QED BY <1>1, <1>3, <1>7 DEF TypeInv, AsMany, loopVars, watchVars

\* Every step keeps the types.
LEMMA NextType == TypeInv /\ [Next]_vars => TypeInv'
<1> SUFFICES ASSUME TypeInv, [Next]_vars PROVE TypeInv'
  OBVIOUS
<1>1. CASE \/ Poll \/ NextManager \/ ManagersDone \/ GetLine \/ List \/ Aborts \/ Close
           \/ UNCHANGED vars
  BY <1>1, LoopType
<1>2. CASE DataReady
  BY <1>2, TakeType DEF DataReady, AtManager, HasEvents
<1>3. CASE ChangeObject
  BY <1>3, ChangeObjectType
<1>4. CASE WatchJoins
  BY <1>4, WatchJoinsType
<1>5. CASE WatchFills
  BY <1>5, WatchFillsType
<1>6. CASE PrintDone
  BY <1>6, PrintDoneType
<1>7. CASE \E l \in Line : Write(l)
  BY <1>7, WriteType
<1>8. CASE \E k \in Keys : OthersChange(k)
  <2>1. PICK k \in Keys : OthersChange(k)
    BY <1>8
  <2>2. /\ Change(k, 0) /\ changes' \in 0..MaxChanges /\ pc' = pc
        /\ UNCHANGED <<inputVars, ready, next, line, caches, since, output>>
    BY <2>1, BoundsAreNat DEF OthersChange, loopVars, TypeInv, TypeOK
  <2> QED BY <2>2, ChangesType
<1> QED BY <1>1, <1>2, <1>3, <1>4, <1>5, <1>6, <1>7, <1>8 DEF Next, Tool, Others

\* There is a queue, a cache and a beginning for each watch in every state.
LEMMA TypeHolds == Spec => []TypeInv
<1> QED BY InitType, NextType, PTL DEF Spec

\* Each variable keeps its type: the loop over the managers stays within them, the line
\* that a command runs on is one that was written, and the events in a queue are
\* changes that happened (main of the test tool).
THEOREM TypeCorrect == Spec => []TypeOK
<1>1. TypeInv => TypeOK
  BY DEF TypeInv
<1> QED BY <1>1, TypeHolds, PTL
-----------------------------------------------------------------------------
(* The output *)

\* What is printed is never taken back.
Grows == output' = output \/ \E item \in Item : output' = Append(output, item)

LEMMA OutputGrows ==
  ASSUME TypeInv, Grows
  PROVE  /\ DOMAIN output \subseteq DOMAIN output'
         /\ \A i \in DOMAIN output : output'[i] = output[i] /\ i \in Nat
         /\ \A item : Printed(item) => \E i \in DOMAIN output' : output'[i] = item
<1>1. output \in Seq(Item)
  BY DEF TypeInv, TypeOK, Item
<1>2. \A i \in DOMAIN output : i \in Nat
  BY <1>1, LenProperties
<1>3. CASE output' = output
  BY <1>2, <1>3 DEF Printed
<1>4. ASSUME NEW item \in Item, output' = Append(output, item)
      PROVE  /\ DOMAIN output \subseteq DOMAIN output'
             /\ \A i \in DOMAIN output : output'[i] = output[i]
  BY <1>1, <1>4, Appended
<1>5. /\ DOMAIN output \subseteq DOMAIN output'
      /\ \A i \in DOMAIN output : output'[i] = output[i]
  BY <1>3, <1>4 DEF Grows
<1> QED BY <1>2, <1>5 DEF Printed

\* A step prints what it prints at the end.
LEMMA StepGrows ==
  ASSUME TypeInv, [Next]_vars
  PROVE  Grows
<1>1. CASE DataReady
  <2>1. PICK n : n = Head(queues[next])
    OBVIOUS
  <2>2. /\ next \in Watches /\ queues[next] # <<>>
        /\ output' = output \/ output' = Append(output, Event(next, n))
    BY <1>1, <2>1 DEF DataReady, AtManager, HasEvents, Take
  <2>3. queues[next] \in Seq(DOMAIN log) /\ DOMAIN log \subseteq Nat /\ next \in Nat
    BY <2>2, TypesOfParts
  <2>4. n \in DOMAIN log
    BY <2>1, <2>2, <2>3, HeadTaken
  <2>5. Event(next, n) \in Item
    BY <2>3, <2>4 DEF Event, Item
  <2> QED BY <2>2, <2>5 DEF Grows
<1>2. CASE PrintDone
  <2>1. Done(line) \in Item
    BY <1>2, TypesOfParts DEF PrintDone, Done, Item, TypeInv, AsMany
  <2> QED BY <1>2, <2>1 DEF PrintDone, Grows
<1>3. ASSUME ~DataReady, ~PrintDone PROVE output' = output
  BY <1>3 DEF Next, Tool, Others, Poll, NextManager, ManagersDone, GetLine, ChangeObject, List,
              WatchJoins, WatchFills, Aborts, Write, Close, OthersChange, vars
<1> QED BY <1>1, <1>2, <1>3 DEF Grows

-----------------------------------------------------------------------------
(* An answer comes before the events of what it answers *)

\* A command that has changed something has been answered, or is answered next; no
\* event is read in between.  What is reported happened.
ChangesAreAnswered ==
  \A n \in DOMAIN log :
    log[n].by # 0 => Printed(Done(log[n].by)) \/ (pc = "print" /\ line = log[n].by)
EventsHappened == \A i \in DOMAIN output : output[i].what = "event" => output[i].of \in DOMAIN log
OrderInv == ChangesAreAnswered /\ EventsHappened /\ DoneBeforeEvents

LEMMA InitOrder == Init => OrderInv
<1> SUFFICES ASSUME Init PROVE OrderInv
  OBVIOUS
<1>1. DOMAIN log = {} /\ DOMAIN output = {}
  <2>1. log = <<>> /\ output = <<>>
    BY DEF Init
  <2> QED BY <2>1
<1> QED BY <1>1 DEF OrderInv, ChangesAreAnswered, EventsHappened, DoneBeforeEvents

\* The log grows by the changes of the line in hand, and of others.
LEMMA StepLogs ==
  ASSUME TypeInv, [Next]_vars
  PROVE  /\ DOMAIN log \subseteq DOMAIN log' /\ \A n \in DOMAIN log : log'[n] = log[n]
         /\ \A n \in DOMAIN log' \ DOMAIN log :
              log'[n].by = 0 \/ (log'[n].by = line /\ line' = line /\ pc' = "print")
<1>1. CASE ChangeObject
  <2>1. PICK l : l = lines[line]
    OBVIOUS
  <2>2. /\ pc' = "print" /\ line' = line /\ lines' = lines
        /\ UNCHANGED log \/ Change(l.key, line)
    BY <1>1, <2>1 DEF ChangeObject, kernelVars, inputVars
  <2>3. line \in Numbers
    BY <1>1 DEF ChangeObject, Running, TypeInv, AsMany
  <2>4. l.key \in Keys
    <3>1. l \in Line
      BY <2>1, <2>3, TypesOfParts, ElementOfSeq DEF Numbers
    <3>2. l.op \in {"add", "del"}
      BY <1>1, <2>1 DEF ChangeObject, Running
    <3> QED BY <3>1, <3>2 DEF Line
  <2>5. CASE Change(l.key, line)
    BY <2>2, <2>3, <2>4, <2>5, ChangeType
  <2> QED BY <2>2, <2>5
<1>2. CASE \E k \in Keys : OthersChange(k)
  <2>1. PICK k \in Keys : OthersChange(k)
    BY <1>2
  <2>2. Change(k, 0) /\ lines' = lines
    BY <2>1 DEF OthersChange, inputVars
  <2> QED BY <2>2, ChangeType
<1>3. ASSUME ~ChangeObject, ~\E k \in Keys : OthersChange(k) PROVE log' = log
  BY <1>3 DEF Next, Tool, Others, Poll, DataReady, Take, NextManager, ManagersDone, GetLine, List,
              WatchJoins, WatchFills, PrintDone, Aborts, Write, Close, kernelVars, vars
<1> QED BY <1>1, <1>2, <1>3

\* The answer to a line is not forgotten, and is printed when its turn has come.
LEMMA AnswersStay ==
  ASSUME TypeInv, [Next]_vars, NEW m,
         Printed(Done(m)) \/ (pc = "print" /\ line = m)
  PROVE  (Printed(Done(m)) \/ (pc = "print" /\ line = m))'
<1>1. CASE Printed(Done(m))
  <2>1. \E i \in DOMAIN output' : output'[i] = Done(m)
    BY <1>1, StepGrows, OutputGrows
  <2> QED BY <2>1 DEF Printed
<1>2. CASE pc = "print" /\ line = m /\ PrintDone
  <2>1. output \in Seq(Item) /\ Done(m) \in Item /\ output' = Append(output, Done(m))
    BY <1>2, TypesOfParts DEF PrintDone, Done, Item, TypeInv, TypeOK, AsMany
  <2>2. Len(output) + 1 \in DOMAIN output' /\ output'[Len(output) + 1] = Done(m)
    BY <2>1, Appended
  <2> QED BY <2>2 DEF Printed
<1>3. CASE pc = "print" /\ line = m /\ ~PrintDone
  <2>1. pc' = pc /\ line' = line
    BY <1>3 DEF Next, Tool, Others, Poll, DataReady, AtManager, NextManager, ManagersDone, GetLine,
                ChangeObject, List, Running, WatchJoins, WatchFills, Aborts, Write, Close,
                OthersChange, loopVars, vars
  <2> QED BY <1>3, <2>1
<1> QED BY <1>1, <1>2, <1>3

\* An event printed now is one of a change already answered.
LEMMA NextOrder == TypeInv /\ OrderInv /\ [Next]_vars => OrderInv'
<1> SUFFICES ASSUME TypeInv, OrderInv, [Next]_vars PROVE OrderInv'
  OBVIOUS
<1>1. ChangesAreAnswered'
  <2> SUFFICES ASSUME NEW n \in DOMAIN log', log'[n].by # 0
               PROVE  (Printed(Done(log[n].by)) \/ (pc = "print" /\ line = log[n].by))'
    BY DEF ChangesAreAnswered
  <2>1. CASE n \in DOMAIN log
    <3>1. PICK m : m = log[n].by
      OBVIOUS
    <3>2. log'[n].by = m
      BY <2>1, <3>1, StepLogs
    <3>3. Printed(Done(m)) \/ (pc = "print" /\ line = m)
      BY <2>1, <3>1, <3>2 DEF OrderInv, ChangesAreAnswered
    <3>4. (Printed(Done(m)) \/ (pc = "print" /\ line = m))'
      BY <3>3, AnswersStay
    <3> QED BY <3>2, <3>4 DEF Printed
  <2>2. CASE n \notin DOMAIN log
    BY <2>2, StepLogs
  <2> QED BY <2>1, <2>2
<1>2. ASSUME NEW i \in DOMAIN output', output'[i].what = "event"
      PROVE  /\ output'[i].of \in DOMAIN log
             /\ log[output'[i].of].by # 0 =>
                  \E j \in 1..(i - 1) : output'[j] = Done(log[output'[i].of].by)
  <2>1. CASE i \in DOMAIN output
    <3>1. output'[i] = output[i] /\ output[i].what = "event"
      BY <1>2, <2>1, StepGrows, OutputGrows
    <3>2. /\ output[i].of \in DOMAIN log
          /\ log[output[i].of].by # 0 =>
               \E j \in 1..(i - 1) : output[j] = Done(log[output[i].of].by)
      BY <2>1, <3>1 DEF OrderInv, EventsHappened, DoneBeforeEvents
    <3>3. \A j \in 1..(i - 1) : output'[j] = output[j]
      <4>1. DOMAIN output = 1..Len(output) /\ Len(output) \in Nat
        BY LenProperties DEF TypeInv, TypeOK
      <4>2. \A j \in 1..(i - 1) : j \in DOMAIN output
        BY <2>1, <4>1
      <4> QED BY <4>2, StepGrows, OutputGrows
    <3> QED BY <3>1, <3>2, <3>3
  <2>2. CASE i \notin DOMAIN output
    <3>1. DataReady
      <4>1. ASSUME PrintDone PROVE FALSE
        <5>1. output \in Seq(Item) /\ Done(line) \in Item /\ output' = Append(output, Done(line))
          BY <4>1, TypesOfParts DEF PrintDone, Done, Item, TypeInv, TypeOK, AsMany
        <5>2. output'[i] = Done(line)
          BY <2>2, <5>1, Appended
        <5> QED BY <1>2, <5>2 DEF Done
      <4>2. ASSUME ~DataReady, ~PrintDone PROVE output' = output
        BY <4>2 DEF Next, Tool, Others, Poll, NextManager, ManagersDone, GetLine, ChangeObject,
                    List, WatchJoins, WatchFills, Aborts, Write, Close, OthersChange, vars
      <4> QED BY <2>2, <4>1, <4>2
    <3>2. PICK n : n = Head(queues[next])
      OBVIOUS
    <3>3. /\ next \in Watches /\ queues[next] # <<>> /\ pc = "managers"
          /\ output' = output \/ output' = Append(output, Event(next, n))
      BY <3>1, <3>2 DEF DataReady, AtManager, HasEvents, Take
    <3>4. output' = Append(output, Event(next, n))
      BY <2>2, <3>3
    <3>5. queues[next] \in Seq(DOMAIN log) /\ DOMAIN log \subseteq Nat /\ next \in Nat
      BY <3>3, TypesOfParts
    <3>6. n \in DOMAIN log
      BY <3>2, <3>3, <3>5, HeadTaken
    <3>7. Event(next, n) \in Item /\ output \in Seq(Item)
      BY <3>5, <3>6 DEF Event, Item, TypeInv, TypeOK
    <3>8. /\ i = Len(output) + 1 /\ output'[i] = Event(next, n)
          /\ DOMAIN output = 1..(i - 1) /\ \A j \in DOMAIN output : output'[j] = output[j]
      BY <2>2, <3>4, <3>7, Appended
    <3>9. output'[i].of = n
      BY <3>8 DEF Event
    <3>10. log[n].by # 0 => Printed(Done(log[n].by))
      BY <3>3, <3>6 DEF OrderInv, ChangesAreAnswered
    <3> QED BY <3>6, <3>8, <3>9, <3>10 DEF Printed
  <2> QED BY <2>1, <2>2
<1>3. \A n \in DOMAIN log : n \in DOMAIN log' /\ log'[n] = log[n]
  BY StepLogs
<1>4. EventsHappened'
  BY <1>2, <1>3 DEF EventsHappened
<1>5. DoneBeforeEvents'
  <2> SUFFICES ASSUME NEW i \in DOMAIN output', output'[i].what = "event",
                      log'[output'[i].of].by # 0
               PROVE  \E j \in 1..(i - 1) : output'[j] = Done(log'[output'[i].of].by)
    BY DEF DoneBeforeEvents, Done
  <2>1. log'[output'[i].of] = log[output'[i].of]
    BY <1>2, <1>3
  <2> QED BY <1>2, <2>1
<1> QED BY <1>1, <1>4, <1>5 DEF OrderInv

\* A watch reports a change made by a command only after the answer to the command: the
\* one thread reads no event between the request and the print (main, runCommand).
THEOREM AnswersComeFirst == Spec => []DoneBeforeEvents
<1>1. OrderInv => DoneBeforeEvents
  BY DEF OrderInv
<1> QED BY <1>1, TypeHolds, InitOrder, NextOrder, PTL DEF Spec

-----------------------------------------------------------------------------
(* The tool does not exit before it has answered its input *)

\* A line that wants an answer is in the pipe, in the buffer of getline, in hand, or
\* answered; and at the exit there is nothing more to read.
InHand(n)  == line = n /\ pc \in {"command", "fill", "print"}
Waiting(n) == n \in ToSet(pipe) \/ n \in ToSet(buffer) \/ InHand(n)
NoneLost == \A n \in DOMAIN lines : Answerable(n) => Waiting(n) \/ Printed(Done(n))
Drained == pipe = <<>> /\ buffer = <<>> /\ closed
LostInv ==
  /\ pc # "aborted" => NoneLost
  /\ single \/ pc = "exited" => Drained

LEMMA InitLost == Init => LostInv
<1> SUFFICES ASSUME Init PROVE LostInv
  OBVIOUS
<1>1. pipe = <<>> /\ buffer = <<>>
  BY DEF Init
<1>2. CASE Loop
  <2>1. DOMAIN lines = {}
    <3>1. lines = <<>>
      BY <1>2 DEF Loop
    <3> QED BY <3>1
  <2>2. NoneLost
    BY <2>1 DEF NoneLost
  <2>3. single = FALSE /\ pc = "poll"
    BY <1>2 DEF Loop
  <2>4. ~single /\ pc # "exited"
    BY <2>3, Zenon
  <2> QED BY <2>2, <2>4 DEF LostInv
<1>3. CASE OneCommand
  <2>1. PICK l \in Line : lines = <<l>> /\ pc = IF l.op = "nothing" THEN "exited" ELSE "command"
    BY <1>3 DEF OneCommand
  <2>2. DOMAIN lines = {1} /\ lines[1] = l /\ line = 1
    BY <1>3, <2>1 DEF OneCommand
  <2>3. NoneLost
    BY <2>1, <2>2 DEF NoneLost, Answerable, Waiting, InHand
  <2>4. closed
    <3>1. closed = TRUE
      BY <1>3 DEF OneCommand
    <3> QED BY <3>1, Zenon
  <2> QED BY <1>1, <2>3, <2>4 DEF LostInv, Drained
<1> QED BY <1>2, <1>3 DEF Init

\* getline takes the next line, and loses none.
LEMMA LineTaken ==
  ASSUME TypeInv, NEW s \in Seq(Numbers), s # <<>>, Dispatch(Head(s)),
         UNCHANGED <<lines, output>>,
         ToSet(Tail(s)) \subseteq ToSet(pipe') \cup ToSet(buffer'),
         NEW n \in DOMAIN lines, Answerable(n), n \in ToSet(s)
  PROVE  Waiting(n)'
<1>1. n = Head(s) \/ n \in ToSet(Tail(s))
  BY HeadTaken
<1>2. CASE n = Head(s)
  BY <1>2 DEF Dispatch, Answerable, Waiting, InHand
<1>3. CASE n \in ToSet(Tail(s))
  BY <1>3 DEF Waiting
<1> QED BY <1>1, <1>2, <1>3

LEMMA NextLost == TypeInv /\ LostInv /\ [Next]_vars => LostInv'
<1> SUFFICES ASSUME TypeInv, LostInv, [Next]_vars PROVE LostInv'
  OBVIOUS
<1>1. \A n : Printed(Done(n)) => Printed(Done(n))'
  <2>1. \A n : Printed(Done(n)) => \E i \in DOMAIN output' : output'[i] = Done(n)
    BY StepGrows, OutputGrows
  <2> QED BY <2>1 DEF Printed
<1>2. CASE GetLine
  <2>1. pc = "getline" /\ UNCHANGED <<single, lines, closed, output>>
    BY <1>2 DEF GetLine
  <2>2. NoneLost /\ \A n : ~InHand(n)
    BY <2>1 DEF LostInv, InHand
  <2>3. CASE buffer # <<>> /\ Dispatch(Head(buffer)) /\ buffer' = Tail(buffer) /\ pipe' = pipe
    <3>1. ~single /\ pc' \in {"poll", "command"}
      BY <2>3 DEF LostInv, Drained, Dispatch
    <3>2. ASSUME NEW n \in DOMAIN lines, Answerable(n) PROVE (Waiting(n) \/ Printed(Done(n)))'
      <4>1. CASE n \in ToSet(buffer)
        BY <2>1, <2>3, <3>2, <4>1, TypesOfParts, LineTaken
      <4>2. CASE n \in ToSet(pipe) \/ Printed(Done(n))
        BY <1>1, <2>3, <4>2 DEF Waiting
      <4> QED BY <2>2, <3>2, <4>1, <4>2 DEF NoneLost, Waiting
    <3>3. NoneLost'
      BY <2>1, <3>2 DEF NoneLost, Answerable
    <3> QED BY <2>1, <3>1, <3>3 DEF LostInv
  <2>4. CASE buffer = <<>> /\ pipe # <<>> /\ Dispatch(Head(pipe)) /\ buffer' = Tail(pipe)
    <3>1. ~single /\ pc' \in {"poll", "command"}
      BY <2>4 DEF LostInv, Drained, Dispatch
    <3>2. ASSUME NEW n \in DOMAIN lines, Answerable(n) PROVE (Waiting(n) \/ Printed(Done(n)))'
      <4>1. CASE n \in ToSet(pipe)
        BY <2>1, <2>4, <3>2, <4>1, TypesOfParts, LineTaken
      <4>2. n \notin ToSet(buffer)
        BY <2>4 DEF ToSet
      <4> QED BY <1>1, <2>2, <3>2, <4>1, <4>2 DEF NoneLost, Waiting
    <3>3. NoneLost'
      BY <2>1, <3>2 DEF NoneLost, Answerable
    <3> QED BY <2>1, <3>1, <3>3 DEF LostInv
  <2>5. CASE Drained /\ UNCHANGED <<pipe, buffer, line>>
    <3>1. NoneLost'
      BY <1>1, <2>1, <2>2, <2>5 DEF NoneLost, Answerable, Waiting
    <3> QED BY <2>1, <2>5, <3>1 DEF LostInv, Drained
  <2> QED BY <1>2, <2>3, <2>4, <2>5 DEF GetLine, Drained
<1>3. CASE PrintDone
  <2>1. /\ pc = "print" /\ pc' = IF single THEN "exited" ELSE "poll"
        /\ UNCHANGED <<single, lines, closed, pipe, buffer, line>>
    BY <1>3 DEF PrintDone, inputVars
  <2>2. (single => Drained) /\ NoneLost
    BY <2>1 DEF LostInv
  <2>3. ASSUME NEW n \in DOMAIN lines, Answerable(n) PROVE (Waiting(n) \/ Printed(Done(n)))'
    <3>1. CASE InHand(n)
      <4>1. (Printed(Done(n)) \/ (pc = "print" /\ line = n))'
        BY <2>1, <3>1, AnswersStay DEF InHand
      <4> QED BY <2>1, <4>1
    <3> QED BY <1>1, <2>1, <2>2, <2>3, <3>1 DEF NoneLost, Waiting
  <2>4. NoneLost'
    BY <2>1, <2>3 DEF NoneLost, Answerable
  <2> QED BY <2>1, <2>2, <2>4 DEF LostInv, Drained
<1>4. CASE \E l \in Line : Write(l)
  <2>1. PICK l \in Line : Write(l)
    BY <1>4
  <2>2. /\ lines' = Append(lines, l) /\ pipe' = Append(pipe, Len(lines) + 1)
        /\ UNCHANGED <<single, closed, buffer, pc, line, output>>
    BY <2>1 DEF Write, loopVars
  <2>3. ~single /\ pc # "exited"
    BY <2>1 DEF Write, LostInv, Drained
  <2>4. /\ DOMAIN lines' = DOMAIN lines \cup {Len(lines) + 1}
        /\ \A n \in DOMAIN lines : lines'[n] = lines[n]
    BY <2>2, TypesOfParts, Appended
  <2>5. ToSet(pipe') = ToSet(pipe) \cup {Len(lines) + 1}
    <3>1. pipe \in Seq(Nat) /\ Len(lines) + 1 \in Nat
      BY TypesOfParts, WiderSeq
    <3> QED BY <2>2, <3>1, Appended
  <2>6. NoneLost => NoneLost'
    BY <1>1, <2>2, <2>4, <2>5 DEF NoneLost, Answerable, Waiting, InHand
  <2> QED BY <2>2, <2>3, <2>6 DEF LostInv
<1>5. CASE \/ Poll \/ DataReady \/ NextManager \/ ManagersDone \/ ChangeObject \/ List
           \/ WatchJoins \/ WatchFills \/ Close \/ (\E k \in Keys : OthersChange(k))
           \/ UNCHANGED vars
  <2>1. /\ UNCHANGED <<single, lines, pipe, buffer>>
        /\ closed => closed'
        /\ \A n : InHand(n) => InHand(n)'
        /\ pc' \in {"exited", "aborted"} => pc' = pc
    BY <1>5 DEF Poll, DataReady, AtManager, Take, NextManager, ManagersDone, ChangeObject, List,
                Running, WatchJoins, WatchFills, Close, OthersChange, InHand, inputVars, loopVars,
                vars
  <2>2. NoneLost => NoneLost'
    <3>1. ASSUME NEW n, Waiting(n) \/ Printed(Done(n)) PROVE (Waiting(n) \/ Printed(Done(n)))'
      BY <1>1, <2>1, <3>1 DEF Waiting
    <3> QED BY <2>1, <3>1 DEF NoneLost, Answerable
  <2>3. pc = "aborted" => pc' = "aborted"
    BY <1>5 DEF Poll, DataReady, AtManager, Take, NextManager, ManagersDone, ChangeObject, List,
                Running, WatchJoins, WatchFills, Close, OthersChange, inputVars, loopVars, vars
  <2>4. single' \/ pc' = "exited" => single \/ pc = "exited"
    BY <2>1
  <2>5. Drained => Drained'
    BY <2>1 DEF Drained
  <2>6. pc' # "aborted" => NoneLost'
    BY <2>2, <2>3 DEF LostInv
  <2>7. single \/ pc = "exited" => Drained
    BY DEF LostInv
  <2> QED BY ONLY <2>4, <2>5, <2>6, <2>7, Zenon DEF LostInv
<1>6. CASE Aborts
  <2>1. pc' = "aborted" /\ UNCHANGED inputVars
    BY <1>6 DEF Aborts
  <2> QED BY <2>1 DEF LostInv, Drained, inputVars
<1> QED BY <1>2, <1>3, <1>4, <1>5, <1>6 DEF Next, Tool, Others

\* When the tool exits, it has answered every line, those that getline had read ahead
\* included: only a getline that finds its buffer and the pipe empty ends the loop.
THEOREM InputIsAnswered == Spec => []NothingLostAtExit
<1>1. LostInv => NothingLostAtExit
  <2> SUFFICES ASSUME LostInv, pc = "exited", NEW n \in DOMAIN lines, Answerable(n)
               PROVE  Printed(Done(n))
    BY DEF NothingLostAtExit
  <2>1. pipe = <<>> /\ buffer = <<>> /\ (Waiting(n) \/ Printed(Done(n)))
    BY DEF LostInv, NoneLost, Drained
  <2>2. ToSet(pipe) = {} /\ ToSet(buffer) = {}
    BY <2>1 DEF ToSet
  <2> QED BY <2>1, <2>2 DEF Waiting, InHand
<1> QED BY <1>1, TypeHolds, InitLost, NextLost, PTL DEF Spec
=============================================================================
