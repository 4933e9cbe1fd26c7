--------------------------- MODULE AdmissionQueue ---------------------------
(***************************************************************************)
(* The gateway's capacity admission: a request selects a server under its  *)
(* cap (routing/resolver.go) and registers there (gateway/active_requests  *)
(* .go); when there is none it parks in the queue (gateway/admission_queue *)
(* .go) until a release, the re-check, its deadline or a cancel.  Selecting*)
(* and registering are two steps, and so are unregistering and releasing.  *)
(***************************************************************************)
EXTENDS Naturals, Sequences, FiniteSets

S == INSTANCE SequencesExt

CONSTANTS
  Request, Server,
  Nil,
  Cap,       \* the effective cap of each server
  Watch,     \* the candidate servers of each request
  Bounded,   \* the requests whose wait has a deadline
  MaxDepth

VARIABLES
  items,   \* activeRegistry: the server each registered request runs on
  queue,   \* admissionQueue.waiters
  signal,  \* the requests whose channel holds a wake
  req      \* the requests: where each is and what it holds

vars == <<items, queue, signal, req>>

TypeOK ==
  /\ items \in [Request -> Server \cup {Nil}]
  /\ queue \in Seq(Request) /\ Len(queue) <= MaxDepth
  /\ signal \subseteq Request
  /\ req \in [Request -> [pc : {"select", "add", "park", "wait", "retry", "give_up",
                                "running", "release", "served", "refused"},
                          server : Server \cup {Nil}, late : BOOLEAN, queued : BOOLEAN]]

Init ==
  /\ items = [r \in Request |-> Nil]
  /\ queue = <<>>
  /\ signal = {}
  /\ req = [r \in Request |->
              [pc |-> "select", server |-> Nil, late |-> FALSE, queued |-> FALSE]]

goto(r, pc) == req' = [req EXCEPT ![r].pc = pc]

\* ServerActivity
inFlight(s) == Cardinality({r \in Request : items[r] = s})

underCap(r) == {s \in Watch[r] : inFlight(s) < Cap[s]}

selectCandidate(r) ==
  /\ req[r].pc = "select"
  /\ IF underCap(r) = {} THEN goto(r, "park")
     ELSE \E s \in underCap(r) : req' = [req EXCEPT ![r].pc = "add", ![r].server = s]
  /\ UNCHANGED <<items, queue, signal>>

Add(r) ==
  /\ req[r].pc = "add"
  /\ items' = [items EXCEPT ![r] = req[r].server]
  /\ goto(r, "running")
  /\ UNCHANGED <<queue, signal>>

\* The deadline of a request is absolute: it counts from its start.
Deadline(r) ==
  /\ r \in Bounded /\ ~req[r].late
  /\ req[r].pc \in {"select", "park", "wait", "retry"}
  /\ req' = [req EXCEPT ![r].late = TRUE]
  /\ UNCHANGED <<items, queue, signal>>

\* parkTurn, and WaitForSlot up to its select.
parkTurn(r) ==
  /\ req[r].pc = "park"
  /\ IF req[r].late \/ Len(queue) >= MaxDepth
     THEN goto(r, "refused") /\ UNCHANGED queue
     ELSE /\ queue' = Append(queue, r)
          /\ req' = [req EXCEPT ![r].pc = "wait", ![r].queued = TRUE]
  /\ UNCHANGED <<items, signal>>

Woken(r) ==
  /\ req[r].pc = "wait" /\ r \in signal
  /\ goto(r, "retry")
  /\ UNCHANGED <<items, queue, signal>>

\* Mutant: waits for a release.
RecheckOff(r) == r \in signal /\ req[r].pc = "wait" /\ Woken(r)

Recheck(r) ==
  /\ req[r].pc = "wait"
  /\ goto(r, "retry")
  /\ UNCHANGED <<items, queue, signal>>

Timeout(r) ==
  /\ req[r].pc = "wait" /\ req[r].late
  /\ goto(r, "give_up")
  /\ UNCHANGED <<items, queue, signal>>

\* The client goes away.
Cancel(r) ==
  /\ req[r].pc = "wait"
  /\ goto(r, "give_up")
  /\ UNCHANGED <<items, queue, signal>>

\* The deferred remove; the channel is the turn's own.
remove(r) ==
  /\ req[r].pc \in {"retry", "give_up"}
  /\ queue' = S!Remove(queue, r)
  /\ signal' = signal \ {r}
  /\ goto(r, IF req[r].pc = "retry" THEN "select" ELSE "refused")
  /\ UNCHANGED items

Remove(r) ==
  /\ req[r].pc = "running"
  /\ items' = [items EXCEPT ![r] = Nil]
  /\ goto(r, "release")
  /\ UNCHANGED <<queue, signal>>

\* Mutant: the waiter stays in the queue.
releaseKeepsWaiter(r) ==
  /\ req[r].pc = "release"
  /\ LET watching == {i \in DOMAIN queue : req[r].server \in Watch[queue[i]]}
     IN  signal' = signal \cup (IF watching = {} THEN {} ELSE {queue[S!Min(watching)]})
  /\ goto(r, "served")
  /\ UNCHANGED <<items, queue>>

\* The front waiter that watches the server is signalled and leaves the queue.
release(r) ==
  /\ req[r].pc = "release"
  /\ LET watching == {i \in DOMAIN queue : req[r].server \in Watch[queue[i]]}
     IN  IF watching = {} THEN UNCHANGED <<queue, signal>>
         ELSE LET i == S!Min(watching)
              IN  /\ signal' = signal \cup {queue[i]}
                  /\ queue' = S!RemoveAt(queue, i)
  /\ goto(r, "served")
  /\ UNCHANGED items

\* What the gateway does by itself.
Progress(r) ==
  \/ selectCandidate(r) \/ Add(r) \/ parkTurn(r) \/ Woken(r) \/ Recheck(r) \/ Timeout(r)
  \/ remove(r) \/ release(r)

Next == \E r \in Request : Progress(r) \/ Deadline(r) \/ Cancel(r) \/ Remove(r)

Spec == Init /\ [][Next]_vars

(***************************************************************************)
(* Properties.                                                             *)
(***************************************************************************)
\* A waiter's channel is empty while it is queued, so release never drops a signal (its
\* default branch cannot happen); and whoever was taken off the queue while it waits has
\* been signalled.
QueueMatchesSignals ==
  \A r \in Request :
    /\ r \in S!ToSet(queue) => r \notin signal /\ req[r].pc \in {"wait", "retry", "give_up"}
    /\ req[r].pc = "wait" /\ r \notin S!ToSet(queue) => r \in signal

Decided(r) == req[r].pc \in {"served", "refused"}

Waiting(r) == req[r].pc \notin {"running", "release", "served", "refused"}

\* Exactly one waiter is woken per freed slot, so that two queued waiters never both
\* claim the same one (admissionQueue).
OneWaiterPerSlot ==
  \A s \in Server :
    Cardinality({r \in Request : /\ req[r].queued
                                 /\ req[r].pc \in {"add", "running"} /\ req[r].server = s})
      <= Cap[s]
=============================================================================
