------------------------------ MODULE TestTool ------------------------------
(***************************************************************************)
(* The main loop of the test tool.  One thread waits with poll for its     *)
(* standard input and for the cache managers of its watches, runs          *)
(* dataReady of the managers that are ready, and then, if its input is     *)
(* ready, reads one line and runs the command on it.  A tester writes the  *)
(* lines and reads the output; other processes change addresses as well.   *)
(* The line buffer of getline sits between the descriptor that poll        *)
(* watches and the lines that the loop sees.  Given a command as its       *)
(* arguments, the tool runs it and exits, without the loop.                *)
(*                                                                         *)
(* A watch is a RouteCacheManager and its address cache, seen from         *)
(* outside: a queue of events and a set of addresses.  RouteCache models   *)
(* its inside.                                                             *)
(*                                                                         *)
(* Usage:  "fail"  poll, dataReady or a command fails                      *)
(***************************************************************************)
EXTENDS Integers, SequencesExt

CONSTANTS
  Keys,        \* addresses
  MaxLines,    \* bound on the lines of the tester
  MaxChanges,  \* bound on the changes by other processes
  Usage

ASSUME BoundsAreNat == MaxLines \in Nat /\ MaxChanges \in Nat
ASSUME UsageIsKnown == Usage \subseteq {"fail"}

VARIABLES
  single,   \* the tool was given a command as its arguments
  patient,  \* the tester writes known commands, and waits for each answer
  lines,    \* the lines the tester has written
  closed,   \* the tester has closed its end of the pipe
  pipe,     \* the numbers of the lines in the pipe
  buffer,   \* those getline has read ahead
  pc,       \* where main is
  ready,    \* the revents of the last poll: 0 for standard input, w for manager w
  next,     \* the manager the loop is at
  line,     \* the number of the line in hand
  queues,   \* queues[w]: the events in the socket of manager w
  caches,   \* caches[w]: the addresses in the cache of watch w
  since,    \* since[w]: the last change before the cache of watch w was filled
  kernel,   \* the addresses that exist
  log,      \* all changes of the addresses, with the line that made them or 0
  changes,  \* number of changes by other processes
  output    \* what has been printed

inputVars == <<single, patient, lines, closed, pipe, buffer>>
loopVars  == <<pc, ready, next, line>>
watchVars == <<queues, caches, since>>
kernelVars == <<kernel, log>>
vars == <<inputVars, loopVars, watchVars, kernelVars, changes, output>>

-----------------------------------------------------------------------------
\* "nothing" is a blank line or an unknown command.
Line == [op : {"add", "del"}, key : Keys] \cup [op : {"watch", "list", "nothing"}]

\* What is printed: the answer to line of, or change of as seen by watch by.
Done(n)     == [what |-> "done", of |-> n, by |-> 0]
Event(w, n) == [what |-> "event", of |-> n, by |-> w]
Printed(item) == \E i \in DOMAIN output : output[i] = item

Watches  == DOMAIN queues
Answerable(n) == n \in DOMAIN lines /\ lines[n].op # "nothing"
Stopped  == pc \in {"exited", "aborted"}

\* The addresses S after change n.
After(S, n) == IF log[n].present THEN S \cup {log[n].key} ELSE S \ {log[n].key}

\* An address comes or goes, and every manager is told.
Change(k, by) ==
  /\ kernel' = IF k \in kernel THEN kernel \ {k} ELSE kernel \cup {k}
  /\ log' = Append(log, [key |-> k, present |-> k \notin kernel, by |-> by])
  /\ queues' = [w \in Watches |-> Append(queues[w], Len(log) + 1)]

-----------------------------------------------------------------------------
(* The main loop *)

\* Mutant: only POLLIN is looked at, not the POLLHUP of a closed pipe.
InputReadyWithData == pipe # <<>>
InputReady == pipe # <<>> \/ closed

\* The first manager served after poll: managers[0], beside pollFds[1].  Mutants: off
\* by one in either index.
FirstManagerSkipped == 2
FirstManagerIsInput == 0
FirstManager == 1

Poll ==
  /\ pc = "poll"
  /\ ready' = {w \in Watches : queues[w] # <<>>} \cup {n \in {0} : InputReady}
  /\ ready' # {}
  /\ next' = FirstManager
  /\ pc' = "managers"
  /\ UNCHANGED <<inputVars, line, watchVars, kernelVars, changes, output>>

\* dataReady takes the next event into the cache; the callback of addressWatch prints
\* it if it changed the cache.
Take(w) ==
  LET n == Head(queues[w])
  IN /\ queues' = [queues EXCEPT ![w] = Tail(@)]
     /\ caches' = [caches EXCEPT ![w] = After(@, n)]
     /\ output' = IF After(caches[w], n) # caches[w] THEN Append(output, Event(w, n))
                  ELSE output
  /\ UNCHANGED <<inputVars, loopVars, since, kernelVars, changes>>

AtManager == pc = "managers" /\ next \in Watches
HasEvents == next \in ready /\ queues[next] # <<>>

\* Mutant: a thread of its own runs dataReady.
DataReadyInThread == ~Stopped /\ \E w \in Watches : queues[w] # <<>> /\ Take(w)
DataReady == AtManager /\ HasEvents /\ Take(next)

NextManager ==
  /\ AtManager /\ ~HasEvents
  /\ next' = next + 1
  /\ UNCHANGED <<inputVars, pc, ready, line, watchVars, kernelVars, changes, output>>

ManagersDone ==
  /\ pc = "managers" /\ next \notin Watches
  /\ pc' = IF 0 \in ready THEN "getline" ELSE "poll"
  /\ UNCHANGED <<inputVars, ready, next, line, watchVars, kernelVars, changes, output>>

\* A line in hand: a blank one ends the round, and an unknown command is reported on
\* stderr only.
Dispatch(n) ==
  /\ line' = n
  /\ pc' = IF lines[n].op = "nothing" THEN "poll" ELSE "command"

\* Mutant: the closed pipe is noticed before the lines read ahead are used up.
GetLineOrQuit ==
  /\ pc = "getline"
  /\ \/ /\ pipe = <<>> /\ closed
        /\ pc' = "exited"
        /\ UNCHANGED <<pipe, buffer, line>>
     \/ /\ buffer # <<>> /\ ~(pipe = <<>> /\ closed)
        /\ Dispatch(Head(buffer))
        /\ buffer' = Tail(buffer)
        /\ pipe' = pipe
     \/ /\ buffer = <<>> /\ pipe # <<>>
        /\ Dispatch(Head(pipe))
        /\ buffer' = Tail(pipe)
        /\ pipe' = <<>>
  /\ UNCHANGED <<single, patient, lines, closed, ready, next, watchVars, kernelVars, changes,
                 output>>

\* getline takes a line from its buffer, and fills that with all there is in the pipe
\* only when it is empty.
GetLine ==
  /\ pc = "getline"
  /\ \/ /\ buffer # <<>>
        /\ Dispatch(Head(buffer))
        /\ buffer' = Tail(buffer)
        /\ pipe' = pipe
     \/ /\ buffer = <<>> /\ pipe # <<>>
        /\ Dispatch(Head(pipe))
        /\ buffer' = Tail(pipe)
        /\ pipe' = <<>>
     \/ /\ buffer = <<>> /\ pipe = <<>> /\ closed
        /\ pc' = "exited"
        /\ UNCHANGED <<pipe, buffer, line>>
  /\ UNCHANGED <<single, patient, lines, closed, ready, next, watchVars, kernelVars, changes,
                 output>>

-----------------------------------------------------------------------------
(* The commands *)

Running(ops) == pc = "command" /\ lines[line].op \in ops

\* address-add and address-del, link-add and link-del: the request, which changes
\* nothing when the object is there already or is not there.
ChangeObject ==
  /\ Running({"add", "del"})
  /\ LET l == lines[line]
     IN IF (l.op = "add") = (l.key \in kernel)
        THEN UNCHANGED <<kernelVars, queues>>
        ELSE Change(l.key, line)
  /\ pc' = "print"
  /\ UNCHANGED <<inputVars, ready, next, line, caches, since, changes, output>>

\* address-list and link-list: a cache of their own is filled and printed.
List ==
  /\ Running({"list"})
  /\ pc' = "print"
  /\ UNCHANGED <<inputVars, ready, next, line, watchVars, kernelVars, changes, output>>

\* address-watch: the new manager joins its group ...
WatchJoins ==
  /\ Running({"watch"})
  /\ queues' = Append(queues, <<>>)
  /\ caches' = Append(caches, {})
  /\ since' = Append(since, 0)
  /\ pc' = "fill"
  /\ UNCHANGED <<inputVars, ready, next, line, kernelVars, changes, output>>

\* ... and its cache is filled, watched, and put with the others.
WatchFills ==
  /\ pc = "fill"
  /\ caches' = [caches EXCEPT ![Len(caches)] = kernel]
  /\ since' = [since EXCEPT ![Len(since)] = Len(log)]
  /\ pc' = "print"
  /\ UNCHANGED <<inputVars, ready, next, line, queues, kernelVars, changes, output>>

PrintDone ==
  /\ pc = "print"
  /\ output' = Append(output, Done(line))
  /\ pc' = IF single THEN "exited" ELSE "poll"
  /\ UNCHANGED <<inputVars, ready, next, line, watchVars, kernelVars, changes>>

\* poll fails, or an exception that nobody catches or an unexpected argument ends the
\* process.
Aborts ==
  /\ "fail" \in Usage /\ pc \in {"poll", "managers", "command", "fill"}
  /\ pc' = "aborted"
  /\ UNCHANGED <<inputVars, ready, next, line, watchVars, kernelVars, changes, output>>

-----------------------------------------------------------------------------
(* The tester and the other processes *)

Write(l) ==
  /\ ~closed /\ Len(lines) < MaxLines
  /\ patient => l.op # "nothing" /\ \A n \in DOMAIN lines : Printed(Done(n))
  /\ lines' = Append(lines, l)
  /\ pipe' = Append(pipe, Len(lines) + 1)
  /\ UNCHANGED <<single, patient, closed, buffer, loopVars, watchVars, kernelVars, changes, output>>

Close ==
  /\ ~closed
  /\ closed' = TRUE
  /\ UNCHANGED <<single, patient, lines, pipe, buffer, loopVars, watchVars, kernelVars, changes,
                 output>>

OthersChange(k) ==
  /\ changes < MaxChanges
  /\ changes' = changes + 1
  /\ Change(k, 0)
  /\ UNCHANGED <<inputVars, loopVars, caches, since, output>>

-----------------------------------------------------------------------------
Loop ==
  /\ single = FALSE /\ patient \in BOOLEAN
  /\ lines = <<>> /\ closed = FALSE
  /\ pc = "poll" /\ line = 0

\* The command is the only line there will be; nobody reads the input.
OneCommand ==
  /\ single = TRUE /\ patient = FALSE
  /\ \E l \in Line : /\ lines = <<l>>
                     /\ pc = IF l.op = "nothing" THEN "exited" ELSE "command"
  /\ closed = TRUE /\ line = 1

Init ==
  /\ Loop \/ OneCommand
  /\ pipe = <<>> /\ buffer = <<>> /\ ready = {} /\ next = 1
  /\ queues = <<>> /\ caches = <<>> /\ since = <<>>
  /\ kernel \in SUBSET Keys /\ log = <<>> /\ changes = 0
  /\ output = <<>>

Tool == \/ Poll \/ DataReady \/ NextManager \/ ManagersDone \/ GetLine
        \/ ChangeObject \/ List \/ WatchJoins \/ WatchFills \/ PrintDone

Others == (\E l \in Line : Write(l)) \/ Close \/ \E k \in Keys : OthersChange(k)

Next == Tool \/ Aborts \/ Others

Spec == Init /\ [][Next]_vars

\* The tool's one thread keeps running.
FairSpec == Spec /\ WF_vars(Tool)

-----------------------------------------------------------------------------
(* Properties *)

\* Each variable keeps its type; in particular the loop never leaves its managers.
Numbers == 1..Len(lines)
TypeOK ==
  /\ {single, patient, closed} \subseteq BOOLEAN
  /\ lines \in Seq(Line) /\ pipe \in Seq(Numbers) /\ buffer \in Seq(Numbers)
  /\ pc \in {"poll", "managers", "getline", "command", "fill", "print", "exited", "aborted"}
  /\ ready \subseteq {0} \cup Watches /\ next \in 1..(Len(queues) + 1)
  /\ line \in Numbers \cup {0}
  /\ queues \in Seq(Seq(DOMAIN log))
  /\ caches \in Seq(SUBSET Keys) /\ since \in Seq(0..Len(log))
  /\ kernel \subseteq Keys /\ changes \in 0..MaxChanges
  /\ log \in Seq([key : Keys, present : BOOLEAN, by : Numbers \cup {0}])
  /\ output \in Seq([what : {"done", "event"}, of : Nat, by : Nat])

\* A watch reports a change that a command made only after the answer to the command:
\* nothing is printed between what one command prints.
DoneBeforeEvents ==
  \A i \in DOMAIN output :
    (output[i].what = "event" /\ log[output[i].of].by # 0) =>
      \E j \in 1..(i - 1) : output[j] = Done(log[output[i].of].by)

\* When the tool exits, at the end of its input or of its one command, it has answered
\* every line, those that getline had read ahead included.
NothingLostAtExit == pc = "exited" => \A n \in DOMAIN lines : Answerable(n) => Printed(Done(n))

\* A tester that waits for each answer gets it, and one that does not wait gets all of
\* them when it closes the pipe, unless the tool fails.  (Lines written together and not
\* followed by another or by the end may stay in the buffer of getline, which poll does
\* not see.)
EveryLineAnswered ==
  \A n \in 1..MaxLines :
    (Answerable(n) /\ (patient \/ closed)) ~> (Printed(Done(n)) \/ pc = "aborted")

\* Every watch reports every change after its cache was filled, unless the tool stops.
EveryEventPrinted ==
  \A w \in 1..MaxLines, n \in 1..(MaxLines + MaxChanges) :
    (w \in Watches /\ pc # "fill" /\ since[w] < n /\ n <= Len(log)) ~>
      (Printed(Event(w, n)) \/ Stopped)
=============================================================================
