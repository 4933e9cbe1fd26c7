-------------------------- MODULE ManagerInvariants --------------------------
(***************************************************************************)
(* The invariants that the theorems about Manager rest on, and the words in *)
(* which the lemmas about the owner's operators are stated.  ManagerLemmas, *)
(* ManagerProofs, ManagerBooks, ManagerTurns and ManagerTheorems have the  *)
(* proofs, for every set of specs, indexes, callers, generations and       *)
(* documents and for every bound.                                          *)
(***************************************************************************)
EXTENDS Manager

(***************************************************************************)
(* IInv, which implies TypeOK and StateMatchesProc.                        *)
(*                                                                         *)
(* StateMatchesProc is not inductive by itself. An exit that the owner     *)
(* caused leaves the state as it is unless it is draining, so              *)
(* intentionalStop has to imply a state that may stay (Settled). A drain's *)
(* timer signals whatever the key's state, so it has to be the timer of a  *)
(* process that drains. A start that fails while the owner is closing sets *)
(* the state to stopped with the process still there, so this has to be    *)
(* excluded: a closing owner's processes all drain, and it asks for        *)
(* nothing. And a health probe's result sets the state to running whatever *)
(* it was, so there has to be one result per process, and none once its    *)
(* start has failed.                                                       *)
(*                                                                         *)
(* OK(b, X, q) says this of an owner record b in the middle of a handler,  *)
(* with the commands and the probes of q around it; X holds the key whose  *)
(* process has exited and whose state is still that of the process.        *)
(***************************************************************************)

Settled(st) ==
  /\ st.state \in {"starting", "running"} => st.proc # Nil
  /\ st.proc # Nil => st.state \in {"starting", "running", "draining", "start_failed"}
  /\ st.intentionalStop => st.proc # Nil /\ st.state \in {"draining", "start_failed"}

Gone(st) == st.proc = Nil /\ ~st.intentionalStop

SpecsOK(b, X) == \A k \in Key : IF k \in X THEN Gone(b.specs[k]) ELSE Settled(b.specs[k])

ClosingOK(b) ==
  b.closing =>
    /\ b.work = NoWork
    /\ \A k \in Key : b.specs[k].proc # Nil => b.specs[k].state = "draining"

DrainTimersOK(b, q) ==
  \A m \in b.armed \cup q.cmds :
    m.cmd = "drainGraceExpired" /\ b.specs[m.key].proc = m.proc
      => b.specs[m.key].state = "draining"

Probed(q, p) == q.poll[p] # Nil \/ \E m \in q.cmds : m.cmd = "startResult" /\ m.proc = p

ProbesOK(b, q) ==
  \A k \in Key : b.specs[k].proc # Nil /\ Probed(q, b.specs[k].proc)
                   => b.specs[k].state \in {"starting", "draining"}

OK(b, X, q) ==
  /\ b \in OwnerType
  /\ q.cmds \subseteq Command \cup Timer
  /\ SpecsOK(b, X)
  /\ ClosingOK(b)
  /\ DrainTimersOK(b, q)
  /\ ProbesOK(b, q)

OneResult ==
  \A m \in cmds : m.cmd = "startResult" =>
    /\ poll[m.proc] = Nil
    /\ \A n \in cmds : n.cmd = "startResult" /\ n.proc = m.proc => n = m

\* What is around the owner.
Env == [cmds |-> cmds, poll |-> poll]

IInv == TypeOK /\ OneResult /\ OK(o, {}, Env)

\* What a step of a turn establishes.
Asked ==
  /\ OK(o', {}, Env')
  /\ life' \in [Proc -> {"alive", "killed", "exited"}]
  /\ poll' \in [Proc -> Key \cup {Nil}]
  /\ OneResult'

(***************************************************************************)
(* The owner's books: who waits, who holds a lease, whose process is whose, *)
(* and which timer will move a state on.                                   *)
(*                                                                         *)
(* Good(b, W, L, M) says that the books of an owner record b are in order  *)
(* when the owner has accepted the callers of W, the processes live as L   *)
(* says and the commands of M are on the channel.                          *)
(*                                                                         *)
(* One part takes a whole turn to hold.  A request for a burst instance    *)
(* whose last start failed makes its state anew, which would lose those    *)
(* who wait on it, so between two turns nobody waits on a burst instance   *)
(* that has no process.  In the middle of a turn somebody may, and then    *)
(* the turn still has to ask for that instance, which starts it or answers *)
(* them: Mid(b, U), where the keys of U are excepted.                      *)
(***************************************************************************)

Waiting(b, W) ==
  /\ W \subseteq Caller
  /\ \A k \in Key : \A c \in b.specs[k].pending : c \in W /\ b.reply[c] = "none"
  /\ \A c \in W : b.reply[c] = "none" => \E k \in Key : c \in b.specs[k].pending
  /\ \A j, k \in Key : \A c \in b.specs[j].pending : c \in b.specs[k].pending => j = k

Leases(b) ==
  /\ \A c \in Caller : b.reply[c] = "none" => b.lease[c] = NoLease
  /\ \A k \in Key : b.specs[k].inFlight =
                      IF b.specs[k].proc = Nil THEN 0
                      ELSE Cardinality({c \in Caller : b.lease[c] = leaseOf(b, k)})
  /\ \A k \in Key : b.specs[k].state = "starting" => b.specs[k].inFlight = 0

Empties(b) ==
  \A k \in Key : b.specs[k].state = "absent" => b.specs[k].pending = {} /\ b.specs[k].proc = Nil

Homes(b, L) ==
  /\ \A p \in Proc : L[p] # "exited" => \E k \in Key : b.specs[k].proc = p
  /\ \A j, k \in Key : b.specs[j].proc = b.specs[k].proc /\ b.specs[k].proc # Nil => j = k

Armed(b, L, M) ==
  \A k \in Key :
    LET p == b.specs[k].proc
    IN  /\ b.specs[k].state = "draining" /\ p # Nil =>
             \/ L[p] # "alive"
             \/ cmdDrainGraceExpired(k, p) \in M \cup b.armed
             \/ cmdKillGraceExpired(k, p) \in M \cup b.armed
        /\ b.specs[k].state = "backoff" =>
             \E m \in M \cup b.armed : m.cmd = "backoffFire" /\ m.key = k

Good(b, W, L, M) ==
  b \in OwnerType /\ Waiting(b, W) /\ Leases(b) /\ Empties(b) /\ Homes(b, L) /\ Armed(b, L, M)

\* Burst instances without a process that somebody waits on.
Unasked(b) == {k \in Key : /\ k[2] > 0 /\ burst(b.specs[k], k)
                           /\ b.specs[k].proc = Nil /\ b.specs[k].pending # {}}

toAsk(b, k) ==
  \/ k \in b.work.first \/ k = b.work.self \/ k \in b.work.woken \/ b.work.wake # "none"
  \/ \E i \in DOMAIN b.work.claims : b.work.claims[i] = k

Mid(b, U) ==
  /\ \A k \in Key : k[2] > 0 /\ burst(b.specs[k], k) => b.specs[k].state # "backoff"
  /\ \A k \in Unasked(b) \ U : k \notin b.decided /\ toAsk(b, k)
  /\ b.closing => \A k \in Key : b.specs[k].pending = {}
  /\ ~b.stopped

Fine(b, W, L, M, U) == Good(b, W, L, M) /\ Mid(b, U)

\* The end of a step of the owner: the turn goes on, or it is over.
TurnOK(b) == (b.work = NoWork => b.decided = {}) /\ (b.stopped => b.work = NoWork /\ live(b) = {})

Ended(b, W, L, M) == Good(b, W, L, M) /\ (~b.stopped => Mid(b, {})) /\ TurnOK(b)

(***************************************************************************)
(* BInv, which implies WaitersAccounted, InFlightCountsLeases,             *)
(* NoOrphanProcess and TimersArmed: the books are in order for the callers *)
(* that the owner has accepted and not let go, and, CallsOK, what the      *)
(* commands on the channel still stand for: a request for a caller that has *)
(* no answer yet, a release for the lease that its caller still holds, an  *)
(* exit for a process that has exited.                                     *)
(***************************************************************************)

\* The callers whose request the owner has taken and who are still there.
Accepted ==
  {c \in Caller : /\ phase[c] \in {"asked", "cancelled"}
                  /\ \A m \in cmds : ~(m.cmd = "ensure" /\ m.caller = c)}

CallsOK ==
  /\ \A c \in Caller : phase[c] = "idle" => o.reply[c] = "none"
  /\ \A m \in cmds : m.cmd = "ensure" =>
       /\ phase[m.caller] = "asked" /\ o.reply[m.caller] = "none"
       /\ \A n \in cmds : n.cmd = "ensure" /\ n.caller = m.caller => n = m
  /\ \A m \in cmds : m.cmd = "release" =>
       /\ phase[m.caller] = "done"
       /\ o.lease[m.caller] = [key |-> m.key, proc |-> m.proc]
       /\ \A n \in cmds : n.cmd = "release" /\ n.caller = m.caller => n = m
  /\ \A m \in cmds : m.cmd = "childExited" => life[m.proc] = "exited"

BInv == Ended(o, Accepted, life, cmds) /\ CallsOK

\* What a step may do: the steps of AnsweredOnce and of SignalledOnlyWhenIdle.
Answers == \A c \in Caller : o.reply[c] # "none" => o'.reply[c] = o.reply[c]

Signals ==
  \A k \in Key :
       /\ o'.specs[k].proc = o.specs[k].proc
       /\ o'.specs[k].intentionalStop /\ ~o.specs[k].intentionalStop
       => \/ o'.specs[k].inFlight = 0
          \/ cmdDrainGraceExpired(k, o.specs[k].proc) \in cmds \ cmds'

\* What is known of the number of callers in a set, who are finitely many.
Counting ==
  /\ Cardinality({}) = 0
  /\ \A c \in Caller : Cardinality({c}) = 1
  /\ \A S \in SUBSET Caller : Cardinality(S) \in Nat /\ (Cardinality(S) = 0 => S = {})
  /\ \A S \in SUBSET Caller : \A c \in S : Cardinality(S \ {c}) = Cardinality(S) - 1
  /\ \A S, T \in SUBSET Caller :
       S \cap T = {} => Cardinality(S \cup T) = Cardinality(S) + Cardinality(T)

(***************************************************************************)
(* How an operator changes the owner's record.                             *)
(***************************************************************************)

\* Who is answered or not of W keeps what they have.
Kept(b, c, W) ==
  \A x \in Caller : x \notin W \/ b.reply[x] # "none" =>
                      c.reply[x] = b.reply[x] /\ c.lease[x] = b.lease[x]

\* No process comes or goes, no lease is counted, and only an idle one is signalled.
Steady(b, c) ==
  \A k \in Key : /\ c.specs[k].proc = b.specs[k].proc
                 /\ c.specs[k].inFlight = b.specs[k].inFlight
                 /\ c.specs[k].intentionalStop =>
                      b.specs[k].intentionalStop \/ c.specs[k].inFlight = 0

SameTurn(b, c) == c.work = b.work /\ c.decided \subseteq b.decided /\ c.stopped = b.stopped

\* The callers of C are answered and nobody else; processes and leases stay.
Change(b, c, C) ==
  /\ c \in OwnerType
  /\ C \subseteq Caller
  /\ \A x \in Caller : IF x \in C
                       THEN b.reply[x] = "none" /\ c.reply[x] # "none" /\ c.lease[x] = NoLease
                       ELSE c.reply[x] = b.reply[x] /\ c.lease[x] = b.lease[x]
  /\ \A k \in Key :
       /\ c.specs[k].pending = b.specs[k].pending \ C
       /\ c.specs[k].proc = b.specs[k].proc
       /\ c.specs[k].inFlight = b.specs[k].inFlight
       /\ c.specs[k].state = "starting" => b.specs[k].state = "starting"
       /\ c.specs[k].state = "absent" =>
            b.specs[k].state = "absent" \/ (c.specs[k].pending = {} /\ c.specs[k].proc = Nil)

\* What a change may do to the burst instances.
BurstsKept(b, c) ==
  /\ \A k \in Key :
       /\ c.specs[k].spec = b.specs[k].spec \/ c.specs[k].pending = {}
       /\ c.specs[k].state = "backoff" =>
            \/ c.specs[k].spec = b.specs[k].spec /\ b.specs[k].state = "backoff"
            \/ ~burst(c.specs[k], k)
  /\ c.closing => b.closing \/ \A k \in Key : c.specs[k].pending = {}

\* Nothing starts to drain or to back off, and no timer that something waits for is stopped.
TimersKept(b, c) ==
  /\ \A k \in Key : c.specs[k].state \in {"draining", "backoff"} =>
                      c.specs[k].state = b.specs[k].state
  /\ \A m \in b.armed : m.cmd \in {"drainGraceExpired", "killGraceExpired", "backoffFire"}
       => m \in c.armed \/ (m.cmd = "backoffFire" /\ c.specs[m.key].state # "backoff")

\* Callers C that wait on k are answered and taken off its queue, and their timers stopped.
OffQueue(b, c, k, C, out, A) ==
  /\ C \subseteq b.specs[k].pending
  /\ A \subseteq b.armed
  /\ \A m \in b.armed : m.cmd # "waiterTimeout" => m \in A
  /\ c = [answer(b, C, out, NoLease) EXCEPT !.specs[k].pending = @ \ C, !.armed = A]

\* What that leaves alone.
OnlyQueues(b, c, C) ==
  /\ \A j \in Key : /\ c.specs[j].state = b.specs[j].state
                    /\ c.specs[j].spec = b.specs[j].spec
                    /\ c.specs[j].pending = b.specs[j].pending \ C
                    /\ c.specs[j].removed = b.specs[j].removed
  /\ c.closing = b.closing /\ c.decided = b.decided

\* x has left the queue of k with an answer, its timer stopped or not.
Dequeued(b, k, x, out) ==
  {dequeue(b, k, x, out), [dequeue(b, k, x, out) EXCEPT !.armed = @ \ {cmdWaiterTimeout(k, x)}]}

(***************************************************************************)
(* The changes that the asks and the command handlers make.                *)
(***************************************************************************)

\* A record of k that differs in its flags and counters, and perhaps in a state that needs
\* neither a process nor a timer.
Alike(b, k, st) ==
  /\ st \in SpecState
  /\ st.pending = b.specs[k].pending /\ st.proc = b.specs[k].proc
  /\ st.inFlight = b.specs[k].inFlight /\ st.spec = b.specs[k].spec
  /\ st.intentionalStop = b.specs[k].intentionalStop
  /\ st.state = b.specs[k].state \/ st.state \notin {"absent", "starting", "draining", "backoff"}

\* k's record becomes st; its flag is set to f; the policy is noted to have been consulted.
At(b, k, st) == [b EXCEPT !.specs[k] = st]

Flagged(b, k, f) == [b EXCEPT !.specs[k].waitingOnSibling = f]

Noted(b, k) == [b EXCEPT !.specs[k].waitingOnSibling = FALSE, !.decided = @ \cup {k}]

\* No process comes or goes and none is signalled.
Silent(b, c) ==
  \A k \in Key : /\ c.specs[k].proc = b.specs[k].proc
                 /\ c.specs[k].intentionalStop => b.specs[k].intentionalStop

\* A process that stays is told to stop only when nobody uses it.
Unhurried(b, c) ==
  \A k \in Key : /\ c.specs[k].proc = b.specs[k].proc
                 /\ c.specs[k].intentionalStop
                 => b.specs[k].intentionalStop \/ c.specs[k].inFlight = 0

Started(b, k, p, T) ==
  [b EXCEPT !.specs[k].proc = p, !.specs[k].state = "starting",
            !.specs[k].everHealthy = FALSE, !.armed = @ \ T]

\* What a step of the owner comes to.
Stepped(W) == Ended(o', W, life', cmds') /\ Kept(o, o', W) /\ Unhurried(o, o')

\* What a handler finds when it has taken its command, but for the timers.
Ready(W) ==
  /\ Fine(o, W, life, cmds', {}) /\ o.work = NoWork /\ o.decided = {} /\ life' = life
  /\ \A m \in cmds : m.cmd = "killGraceExpired" => m \in cmds'

\* The callers of C get a lease of k's process: those who waited on k, or one that is
\* accepted now.
Served(b, c, k, C, A, st) ==
  /\ b.specs[k].proc # Nil /\ b.specs[k].state # "starting"
  /\ C \in SUBSET Caller /\ \A x \in C : b.reply[x] = "none"
  /\ \A j \in Key \ {k} : b.specs[j].pending \ C = b.specs[j].pending
  /\ A \subseteq b.armed /\ \A m \in b.armed : m.cmd # "waiterTimeout" => m \in A
  /\ st \in SpecState /\ st.pending = b.specs[k].pending \ C
  /\ st.proc = b.specs[k].proc /\ st.state = b.specs[k].state /\ st.spec = b.specs[k].spec
  /\ st.intentionalStop = b.specs[k].intentionalStop
  /\ st.inFlight = b.specs[k].inFlight + Cardinality(C)
  /\ c = [At(answer(b, C, "ok", leaseOf(b, k)), k, st) EXCEPT !.armed = A]

\* What answer does, as one fact.
AnswerIs(b, a, C, out, l) ==
  /\ a \in OwnerType
  /\ \A x \in Caller : /\ a.reply[x] = IF x \in C THEN out ELSE b.reply[x]
                       /\ a.lease[x] = IF x \in C THEN l ELSE b.lease[x]
  /\ a.specs = b.specs /\ a.armed = b.armed /\ a.work = b.work
  /\ a.decided = b.decided /\ a.stopped = b.stopped /\ a.closing = b.closing

\* The process of k is told to stop if it drains and was used by this lease alone.
Relieved(c, k) == IF c.specs[k].state = "draining" /\ c.specs[k].inFlight = 0
                  THEN terminateNow(c, k) ELSE c

\* The lease of x ends.  It counts no more if it is one of k's process p.
LeaseEnds(b, c, x, k, p) ==
  /\ b.lease[x] = [key |-> k, proc |-> p]
  /\ c \in OwnerType /\ c.lease = [b.lease EXCEPT ![x] = NoLease]
  /\ c.reply = b.reply /\ c.armed = b.armed /\ c.work = b.work /\ c.decided = b.decided
  /\ c.stopped = b.stopped /\ c.closing = b.closing
  /\ \A j \in Key : /\ c.specs[j].pending = b.specs[j].pending
                    /\ c.specs[j].proc = b.specs[j].proc
                    /\ c.specs[j].state = b.specs[j].state
                    /\ c.specs[j].spec = b.specs[j].spec
                    /\ c.specs[j].intentionalStop = b.specs[j].intentionalStop
                    /\ c.specs[j].inFlight = IF j = k /\ b.specs[k].proc = p
                                             THEN b.specs[j].inFlight - 1
                                             ELSE b.specs[j].inFlight

\* An operator that leaves the processes and the turn as they are.
Mild(b, c, W, U) == /\ Fine(c, W, life, cmds', U) /\ Kept(b, c, W) /\ Steady(b, c)
                    /\ SameTurn(b, c)

\* Between two turns, with m on the channel.
Idle(W, m) ==
  /\ Fine(o, W, life, cmds, {}) /\ o.work = NoWork /\ o.decided = {} /\ cmds' = cmds \ {m}

\* The callers of C, all who wait on the keys of S, are answered and nobody else.
Replied(b, a, C, W, S) ==
  /\ a \in OwnerType /\ a.specs = b.specs /\ a.work = b.work
  /\ a.decided = b.decided /\ a.stopped = b.stopped /\ a.closing = b.closing
  /\ C \subseteq Caller /\ C \subseteq W
  /\ \A x \in Caller : IF x \in C
                       THEN b.reply[x] = "none" /\ a.reply[x] # "none" /\ a.lease[x] = NoLease
                       ELSE a.reply[x] = b.reply[x] /\ a.lease[x] = b.lease[x]
  /\ \A k \in Key : b.specs[k].pending \ C = IF k \in S THEN {} ELSE b.specs[k].pending
  /\ a.armed \subseteq b.armed
  /\ \A m \in b.armed : m.cmd # "waiterTimeout" => m \in a.armed
=============================================================================
