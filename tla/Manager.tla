------------------------------- MODULE Manager -------------------------------
(***************************************************************************)
(* The runtime manager of the server agent, server-agent/internal/runtime/ *)
(* manager.go and stop.go: the goroutine (owner.run) that owns every piece *)
(* of state about the managed model processes, and the goroutines around   *)
(* it (callers of EnsureRunning and EnsureServing, timers, child           *)
(* processes, health polls, the configuration driver) that talk to it by   *)
(* posting commands on one unbuffered channel.                             *)
(*                                                                         *)
(* o is the owner struct; the operators on it are the owner's methods and  *)
(* take and return such a record, so a handler composes them as the Go     *)
(* code does.  The asks for admission that a handler makes one after the   *)
(* other are listed in o.work and made one step each; no command is taken  *)
(* and nothing else moves until the list is empty, which is one turn of    *)
(* the loop.                                                               *)
(*                                                                         *)
(* The agent modelled has no host sample and no measurer installed and an  *)
(* eviction grace of zero, so no ask ever waits for a sample, a            *)
(* measurement or a grace window.  Every spec has an upstream model of its *)
(* own, and none is the literal address of another's instance.             *)
(***************************************************************************)
EXTENDS Policy, Sequences

CONSTANTS SpecID,     \* ids of specs, numbers: the order of the id strings
          Index,      \* instance indexes that callers may name
          Proc,       \* names for generations of processes (*runningProc)
          Caller,     \* calls of EnsureRunning and EnsureServing
          Doc,        \* configuration documents the driver may apply
          Nil,        \* Go's nil
          MaxPushes,  \* bound: how often a document is applied
          MaxStops,   \* bound: how often Stop is called
          MayClose    \* bound: whether Close is called

Key == SpecID \X Index

NoSpec == [admin |-> "", pinned |-> FALSE, replicable |-> FALSE, min |-> 0, max |-> 0,
           launch |-> 0, permitted |-> FALSE, expandable |-> FALSE, idle |-> FALSE,
           waitTimeout |-> FALSE, gpus |-> [g \in {} |-> 0], ram |-> 0, role |-> ""]

\* A document lists the specs ids; specs gives each its settings.
NoDoc == [etag |-> 0, ids |-> {}, specs |-> [s \in SpecID |-> NoSpec],
          maxProcesses |-> 0, budgets |-> [g \in {} |-> 0], allowed |-> {}]

BackoffTimer == 1 .. (MaxPushes + 1)

ASSUME ManagerAssumption ==
  /\ SpecID \subseteq Nat
  /\ Index \subseteq Nat
  /\ 0 \in Index
  /\ IsFiniteSet(Caller)
  /\ MaxPushes \in Nat
  /\ MaxStops \in Nat
  /\ MayClose \in BOOLEAN
  /\ Nil \notin Key
  /\ Nil \notin Proc
  /\ Nil \notin Caller
  /\ Nil \notin BackoffTimer
  /\ NoDoc \notin Doc
  /\ \A d \in Doc : /\ DOMAIN d = DOMAIN NoDoc
                    /\ d.ids \subseteq SpecID
                    /\ DOMAIN d.specs = SpecID
                    /\ \A s \in SpecID : d.specs[s].min \in Int

VARIABLES
  o,       \* the owner struct
  cmds,    \* commands that some goroutine is blocked on sending
  life,    \* per generation: "alive", "killed" (SIGKILL sent) or "exited"
  poll,    \* per generation: the key its pollHealth goroutine runs for, or Nil
  phase,   \* per caller: "idle", "asked", "cancelled" or "done"
  pushes,  \* documents applied so far
  stops    \* calls of Stop so far

vars == <<o, cmds, life, poll, phase, pushes, stops>>

(***************************************************************************)
(* Commands.  A timer is represented by the command that it will post.     *)
(***************************************************************************)
NoCmd == [cmd |-> "none", key |-> Nil, proc |-> Nil, caller |-> Nil, flag |-> FALSE,
          timer |-> Nil, doc |-> Nil]

cmdApply(d) == [NoCmd EXCEPT !.cmd = "apply", !.doc = d]
cmdClose == [NoCmd EXCEPT !.cmd = "close"]
cmdStop(k) == [NoCmd EXCEPT !.cmd = "stop", !.key = k]
cmdEnsure(k, c, serving) ==
  [NoCmd EXCEPT !.cmd = "ensure", !.key = k, !.caller = c, !.flag = serving]
cmdCancelEnsure(c) == [NoCmd EXCEPT !.cmd = "cancelEnsure", !.caller = c]
cmdRelease(k, p, c) ==
  [NoCmd EXCEPT !.cmd = "release", !.key = k, !.proc = p, !.caller = c]
cmdChildExited(k, p, sigkill) ==
  [NoCmd EXCEPT !.cmd = "childExited", !.key = k, !.proc = p, !.flag = sigkill]
cmdStartResult(k, p, ok) ==
  [NoCmd EXCEPT !.cmd = "startResult", !.key = k, !.proc = p, !.flag = ok]
cmdWaiterTimeout(k, c) ==
  [NoCmd EXCEPT !.cmd = "waiterTimeout", !.key = k, !.caller = c]
cmdBackoffFire(k, n) == [NoCmd EXCEPT !.cmd = "backoffFire", !.key = k, !.timer = n]
cmdDrainGraceExpired(k, p) ==
  [NoCmd EXCEPT !.cmd = "drainGraceExpired", !.key = k, !.proc = p]
cmdKillGraceExpired(k, p) ==
  [NoCmd EXCEPT !.cmd = "killGraceExpired", !.key = k, !.proc = p]

(***************************************************************************)
(* specState.  The instance is the key's second component; a key that is   *)
(* not in the owner's map has the state "absent".                          *)
(***************************************************************************)
absent == [spec |-> NoSpec, state |-> "absent", proc |-> Nil, inFlight |-> 0,
           pending |-> {}, backoffTimer |-> Nil, backoffOnExit |-> FALSE,
           intentionalStop |-> FALSE, removed |-> FALSE, drainedFor |-> <<>>,
           waitingOnSibling |-> FALSE, ramBootstrapRetries |-> 0,
           everHealthy |-> FALSE]

fresh(spec) == [absent EXCEPT !.spec = spec, !.state = "stopped"]

exists(b, k) == b.specs[k].state # "absent"

live(b) == {k \in Key : b.specs[k].proc # Nil}

protected(st, k) == k[2] < ProtectedCount(st.spec)

burst(st, k) == IsBurst(st.spec, k[2])

pinnedForAdmission(st, k) ==
  IF st.spec.replicable THEN protected(st, k) ELSE st.spec.pinned

wantsUp(st, k) == st.pending # {} \/ protected(st, k)

wantsWake(st, k) ==
  st.state # "absent" /\ st.proc = Nil /\ st.state # "backoff" /\ wantsUp(st, k)

wantsWakeAfterStart(st, k) ==
  wantsWake(st, k) /\ (st.pending # {} \/ pinnedForAdmission(st, k))

\* Mutant: looks at the lower siblings.
lowerSiblingRuns(b, k) == \E j \in live(b) : j[1] = k[1] /\ j[2] < k[2]

higherSiblingRuns(b, k) == \E j \in live(b) : j[1] = k[1] /\ j[2] > k[2]

\* Mutant: does not look at the process.
burstForgetsProc(st, k) ==
  st.state # "absent" /\ burst(st, k) /\ ~st.removed /\ st.pending = {}

burstLeftNothing(st, k) ==
  st.state # "absent" /\ burst(st, k) /\ ~st.removed /\ st.proc = Nil /\ st.pending = {}

restsAtFailure(st) == st.state \in {"crashed", "start_failed", "not_permitted"}

(***************************************************************************)
(* Answering callers.  reply is what went down a caller's channel; a lease *)
(* is the generation that a served caller holds until it releases it.      *)
(* ahead records who was queued before whom.                               *)
(***************************************************************************)
answer(b, C, out, lease) ==
  [b EXCEPT !.reply = [c \in Caller |-> IF c \in C THEN out ELSE @[c]],
            !.lease = [c \in Caller |-> IF c \in C THEN lease ELSE @[c]],
            !.ahead = {q \in @ : q[1] \notin C /\ q[2] \notin C}]

NoLease == [key |-> Nil, proc |-> Nil]

leaseOf(b, k) == [key |-> k, proc |-> b.specs[k].proc]

enqueue(b, k, c) ==
  [b EXCEPT !.specs[k].pending = @ \cup {c},
            !.ahead = @ \cup ((UNION {b.specs[j].pending : j \in Key}) \X {c}),
            !.armed = IF b.specs[k].spec.waitTimeout THEN @ \cup {cmdWaiterTimeout(k, c)}
                      ELSE @]

\* Mutant: answers the caller and leaves it queued.
dequeueKeepsWaiter(b, k, c, out) == answer(b, {c}, out, NoLease)

dequeue(b, k, c, out) ==
  [answer(b, {c}, out, NoLease) EXCEPT !.specs[k].pending = @ \ {c}]

\* Everyone queued on a key of S is answered.
answerPending(b, S, err) ==
  LET C == UNION {b.specs[k].pending : k \in S}
  IN  [answer(b, C, err, NoLease) EXCEPT !.armed = @ \ {cmdWaiterTimeout(k, c) : k \in S, c \in C}]

failPending(b, k, err) == [answerPending(b, {k}, err) EXCEPT !.specs[k].pending = {}]

\* lastUsed = time.Now(): from now on k was used after every other key
touch(b, k) ==
  [b EXCEPT !.older = {q \in @ : k \notin {q[1], q[2]}} \cup ((Key \ {k}) \X {k})]

succeedPending(b, k) ==
  LET st == b.specs[k]
      C == st.pending
  IN  touch([answer(b, C, "ok", leaseOf(b, k))
               EXCEPT !.specs[k].pending = {},
                      !.specs[k].inFlight = @ + Cardinality(C),
                      !.armed = @ \ {cmdWaiterTimeout(k, c) : c \in C}], k)

(***************************************************************************)
(* Stopping a process.  killTimer is non-nil from the SIGTERM until the    *)
(* owner handles the timer's command.                                      *)
(***************************************************************************)
signallable(b, k, p) ==
  life[p] # "exited" /\ cmdKillGraceExpired(k, p) \notin b.armed \cup cmds

terminateNow(b, k) ==
  LET p == b.specs[k].proc
  IN  IF ~signallable(b, k, p) THEN b
      ELSE [b EXCEPT !.specs[k].intentionalStop = TRUE,
                     !.armed = (@ \ {cmdDrainGraceExpired(k, p)})
                                 \cup {cmdKillGraceExpired(k, p)}]

\* Mutant: a drain signals at once, whoever is being served.
beginDrainAtOnce(b, S) ==
  LET D == {k \in S \cap live(b) : b.specs[k].state # "draining"}
  IN  [b EXCEPT !.specs = [k \in Key |->
                             IF k \in D
                             THEN [@[k] EXCEPT !.state = "draining", !.intentionalStop = TRUE]
                             ELSE @[k]],
                !.armed = @ \cup {cmdKillGraceExpired(k, b.specs[k].proc) : k \in D}]

\* Mutant: a busy process gets no drain grace timer.
beginDrainWithoutGrace(b, S) ==
  LET D == {k \in S \cap live(b) : b.specs[k].state # "draining"}
      now == {k \in D : b.specs[k].inFlight = 0 /\ signallable(b, k, b.specs[k].proc)}
  IN  [b EXCEPT !.specs = [k \in Key |->
                             IF k \in D
                             THEN [@[k] EXCEPT !.state = "draining",
                                               !.intentionalStop = @ \/ k \in now]
                             ELSE @[k]],
                !.armed = @ \cup {cmdKillGraceExpired(k, b.specs[k].proc) : k \in now}]

\* beginDrain of every key of S
beginDrain(b, S) ==
  LET D == {k \in S \cap live(b) : b.specs[k].state # "draining"}
      idle == {k \in D : b.specs[k].inFlight = 0}
      now == {k \in idle : signallable(b, k, b.specs[k].proc)}
  IN  [b EXCEPT !.specs = [k \in Key |->
                             IF k \in D
                             THEN [b.specs[k] EXCEPT
                                     !.state = "draining",
                                     !.intentionalStop = b.specs[k].intentionalStop \/ k \in now]
                             ELSE b.specs[k]],
                !.armed = @ \cup {cmdKillGraceExpired(k, b.specs[k].proc) : k \in now}
                            \cup {cmdDrainGraceExpired(k, b.specs[k].proc) : k \in D \ idle}]

(***************************************************************************)
(* Leaving and entering the owner's map, and the crash-loop backoff.       *)
(***************************************************************************)
deleteState(b, k) == [b EXCEPT !.specs[k] = absent, !.decided = @ \ {k}]

\* The timers that cancelTimer stops for the backoffs of the keys of S
backoffTimers(b, S) == {cmdBackoffFire(k, b.specs[k].backoffTimer) : k \in S}

retire(b, k) == deleteState([b EXCEPT !.armed = @ \ backoffTimers(b, {k})], k)

retireIfSpent(b, k) ==
  IF burstLeftNothing(b.specs[k], k) /\ ~restsAtFailure(b.specs[k])
  THEN retire(b, k)
  ELSE b

\* A timer that is not outstanding, of which there is always one.
newTimer(b, k) ==
  LET unused == {n \in BackoffTimer : cmdBackoffFire(k, n) \notin b.armed \cup cmds}
  IN  CHOOSE n \in BackoffTimer : unused # {} => n \in unused

\* Mutant: does not wait for the process to exit.
enterBackoffAtOnce(b, k) ==
  [b EXCEPT !.specs[k].state = "backoff",
            !.specs[k].backoffTimer = newTimer(b, k),
            !.armed = @ \cup {cmdBackoffFire(k, newTimer(b, k))}]

enterBackoff(b, k) ==
  LET st == b.specs[k]
      n == newTimer(b, k)
  IN  CASE b.closing -> [b EXCEPT !.specs[k].state = "stopped"]
        [] ~b.closing /\ burst(st, k) -> failPending(b, k, "start_failed")
        [] ~b.closing /\ ~burst(st, k) /\ st.proc # Nil ->
             [b EXCEPT !.specs[k].backoffOnExit = TRUE]
        [] OTHER -> [b EXCEPT !.specs[k].state = "backoff",
                              !.specs[k].backoffTimer = n,
                              !.armed = @ \cup {cmdBackoffFire(k, n)}]

setState(b, k, s) == [b EXCEPT !.specs[k].state = s]

\* setState, recordFailure, failPending and enterBackoff, as every failed start does
failStart(b, k, err) == enterBackoff(failPending(setState(b, k, "start_failed"), k, err), k)

\* The instances that the protected floor calls for, created if missing.
ensureProtectedFloor(b) ==
  LET missing == {k \in Key : /\ k[1] \in b.cfg.ids
                              /\ k[2] > 0
                              /\ k[2] < ProtectedCount(b.cfg.specs[k[1]])
                              /\ InstanceAllowed(b.cfg.specs[k[1]], k[2])
                              /\ ~exists(b, k)}
  IN  [b EXCEPT !.specs = [k \in Key |-> IF k \in missing THEN fresh(b.cfg.specs[k[1]])
                                         ELSE @[k]]]

(***************************************************************************)
(* The rest of a turn.  o.work lists the asks that the turn still has to   *)
(* make, most urgent first: siblings that a start or a refusal lets go on  *)
(* (wakeSiblingsWaitingFor), the start list of applyConfig, the specs that *)
(* a drain was for, the key itself, and the candidates of wakeAdmission,   *)
(* which are collected when their time comes.                              *)
(***************************************************************************)
NoWork == [siblings |-> {}, first |-> {}, claims |-> <<>>, self |-> Nil,
           wake |-> "none", woken |-> {}]

wakeAdmission(b) ==
  {k \in Key : CASE b.work.wake = "all" -> wantsWake(b.specs[k], k)
                 [] b.work.wake = "afterStart" -> wantsWakeAfterStart(b.specs[k], k)
                 [] OTHER -> FALSE}

\* Once only the wake is left, its candidates are collected; once nothing is
\* left the turn ends, and a closing owner with no process stops (run, handle).
advance(b) ==
  LET c == IF b.work = [NoWork EXCEPT !.wake = b.work.wake, !.woken = b.work.woken]
           THEN [b EXCEPT !.work.woken = @ \cup wakeAdmission(b), !.work.wake = "none"]
           ELSE b
  IN  IF c.work = NoWork
      THEN [c EXCEPT !.decided = {}, !.stopped = @ \/ (c.closing /\ live(c) = {})]
      ELSE c

\* Every ask returns at once while the owner is closing.
schedule(b, work) == advance(IF b.closing THEN b ELSE [b EXCEPT !.work = work])

wakeAdmissionCandidates(b) == schedule(b, [NoWork EXCEPT !.wake = "all"])

(***************************************************************************)
(* admitAndStart.                                                          *)
(***************************************************************************)
runningProc(b, k) ==
  LET st == b.specs[k]
  IN  [id |-> k, base |-> k[1], instance |-> k[2], surplus |-> burst(st, k),
       gpus |-> st.spec.gpus, ram |-> st.spec.ram, inFlight |-> st.inFlight,
       pinned |-> pinnedForAdmission(st, k), role |-> st.spec.role,
       lastUsed |-> Cardinality({j \in Key : <<j, k>> \in b.older}),
       starting |-> st.state = "starting"]

buildSnapshot(b, k) ==
  [running |-> {runningProc(b, j) : j \in live(b)}, maxProcesses |-> b.cfg.maxProcesses,
   now |-> 0, grace |-> 0, budgets |-> b.cfg.budgets, hostRAM |-> 0, hostRAMCeiling |-> 0,
   ramBootstrapInFlight |-> \E j \in live(b) : /\ specHasUnknownRAM(b.specs[j].spec)
                                               /\ b.specs[j].state = "starting",
   ramGuess |-> 0, vramBootstrapEligible |-> FALSE, noEvict |-> burst(b.specs[k], k),
   allowed |-> b.cfg.allowed]

decision(b, k) ==
  Admit(buildSnapshot(b, k),
        [id |-> k, base |-> k[1], gpus |-> b.specs[k].spec.gpus, ram |-> b.specs[k].spec.ram,
         role |-> b.specs[k].spec.role])

lowerSiblingWaiting(b, k) ==
  /\ k[2] > 0
  /\ protected(b.specs[k], k)
  /\ \E j \in Key : /\ j[1] = k[1]
                    /\ j[2] < k[2]
                    /\ b.specs[j].proc = Nil
                    /\ b.specs[j].state \in {"stopped", "backoff"}
                    /\ wantsUp(b.specs[j], j)

\* Mutant: the siblings are not told.
wakeNoSiblings(b, k) == b

wakeSiblingsWaitingFor(b, k) ==
  [b EXCEPT !.work.siblings = @ \cup {j \in Key : /\ b.specs[j].waitingOnSibling
                                                  /\ j[1] = k[1]
                                                  /\ j[2] > k[2]}]

setNotPermitted(b, k) ==
  wakeSiblingsWaitingFor(failPending(setState(b, k, "not_permitted"), k, "not_permitted"), k)

setPendingVRAMUnknown(b, k) ==
  wakeSiblingsWaitingFor(
    failPending(setState(b, k, "pending_vram_unknown"), k, "admission_blocked"), k)

appendUnique(list, v) == IF \E i \in DOMAIN list : list[i] = v THEN list ELSE Append(list, v)

evict(b, k, victims) ==
  beginDrain([b EXCEPT !.specs = [j \in Key |->
                IF j \in victims
                THEN [b.specs[j] EXCEPT !.drainedFor = appendUnique(b.specs[j].drainedFor, k)]
                ELSE b.specs[j]]], victims)

\* An ask does nothing for a key that is absent, has a process or is in backoff.
askable(b, k) ==
  exists(b, k) /\ b.specs[k].proc = Nil /\ b.specs[k].state # "backoff"

\* The ask reaches the policy: everything before it in admitAndStart let it pass.
reachesPolicy(b, k) ==
  /\ askable(b, k)
  /\ wantsUp(b.specs[k], k)
  /\ b.specs[k].spec.admin # "force_stopped"
  /\ b.specs[k].spec.permitted
  /\ ~lowerSiblingWaiting(b, k)

demandMissing(b, k) == k[2] > 0 /\ demandUnknown(b.specs[k].spec)

mayStart(b, k) == reachesPolicy(b, k) /\ ~demandMissing(b, k) /\ decision(b, k).kind = "ok"

\* An ask that the policy answers with anything but OK.
decidedAs(b, k, dec) ==
  LET d == [b EXCEPT !.specs[k].waitingOnSibling = FALSE, !.decided = @ \cup {k}]
  IN  CASE demandMissing(b, k) /\ burst(b.specs[k], k) -> failPending(d, k, "demand_unknown")
        [] demandMissing(b, k) /\ ~burst(b.specs[k], k) -> d
        [] ~demandMissing(b, k) /\ dec.kind = "no_capacity" -> failPending(d, k, "no_capacity")
        [] ~demandMissing(b, k) /\ dec.kind = "not_permitted" -> setNotPermitted(d, k)
        [] ~demandMissing(b, k) /\ dec.kind = "pending_vram_unknown" ->
             setPendingVRAMUnknown(d, k)
        [] ~demandMissing(b, k) /\ dec.kind = "evict" -> evict(d, k, dec.evict)
        [] OTHER -> d

decided(b, k) == decidedAs(b, k, decision(b, k))

\* An ask that ends before the policy is consulted.
undecided(b, k) ==
  LET st == b.specs[k]
      d == [b EXCEPT !.specs[k].waitingOnSibling = FALSE]
  IN  CASE ~askable(b, k) -> b
        [] askable(b, k) /\ ~wantsUp(st, k) -> d
        [] askable(b, k) /\ wantsUp(st, k) /\ st.spec.admin = "force_stopped" ->
             failPending(d, k, "admission_blocked")
        [] askable(b, k) /\ wantsUp(st, k) /\ st.spec.admin # "force_stopped"
             /\ ~st.spec.permitted -> setNotPermitted(d, k)
        [] OTHER -> [d EXCEPT !.specs[k].waitingOnSibling = TRUE, !.decided = @ \ {k}]

settle(b, k) == advance(retireIfSpent(b, k))

\* A generation that nothing refers to any more stands for a new one.
unusedProcs ==
  {p \in Proc : /\ life[p] = "exited" /\ poll[p] = Nil
                /\ \A k \in Key : o.specs[k].proc # p
                /\ \A c \in Caller : o.lease[c].proc # p
                /\ \A m \in cmds \cup o.armed : m.proc # p}

startProcess(b, k) ==
  LET d == [b EXCEPT !.specs[k].waitingOnSibling = FALSE, !.decided = @ \cup {k}]
      C == b.specs[k].pending
      p == CHOOSE p \in unusedProcs : TRUE
  IN  \/ /\ ~b.specs[k].spec.expandable
         /\ o' = settle(setNotPermitted(d, k), k)
         /\ UNCHANGED <<life, poll>>
      \/ /\ b.specs[k].spec.expandable  \* no port, no config file or exec fails
         /\ o' = settle(failStart(d, k, "start_failed"), k)
         /\ UNCHANGED <<life, poll>>
      \/ /\ b.specs[k].spec.expandable
         /\ unusedProcs # {}
         /\ o' = settle(wakeSiblingsWaitingFor(
                   [d EXCEPT !.specs[k].proc = p,
                             !.specs[k].state = "starting",
                             !.specs[k].everHealthy = FALSE,
                             !.armed = @ \ {cmdWaiterTimeout(k, c) : c \in C}], k), k)
         /\ life' = [life EXCEPT ![p] = "alive"]
         /\ poll' = [poll EXCEPT ![p] = k]

admitAndStart(b, k) ==
  \/ /\ ~reachesPolicy(b, k)
     /\ o' = settle(undecided(b, k), k)
     /\ UNCHANGED <<life, poll>>
  \/ /\ reachesPolicy(b, k)
     /\ ~mayStart(b, k)
     /\ o' = settle(decided(b, k), k)
     /\ UNCHANGED <<life, poll>>
  \/ /\ mayStart(b, k)
     /\ startProcess(b, k)

reask(b, k) ==
  \/ k \in b.decided /\ o' = advance(b) /\ UNCHANGED <<life, poll>>
  \/ k \notin b.decided /\ admitAndStart(b, k)

lessByQueueAge(b, i, j) ==
  LET P == b.specs[i].pending
      Q == b.specs[j].pending
  IN  IF P = {} \/ Q = {}
      THEN P # {} \/ (Q = {} /\ IdLess(i, j))
      ELSE \E c \in P : \A d \in Q : <<c, d>> \in b.ahead

(***************************************************************************)
(* The asks of a turn, in the order of o.work.                             *)
(***************************************************************************)
AskSibling ==
  \E k \in o.work.siblings :
    LET b == [o EXCEPT !.work.siblings = @ \ {k}]
    IN  /\ \A j \in o.work.siblings \ {k} : IdLess(k, j)
        /\ \/ /\ o.specs[k].waitingOnSibling /\ o.specs[k].proc = Nil
              /\ admitAndStart(b, k)
           \/ /\ ~(o.specs[k].waitingOnSibling /\ o.specs[k].proc = Nil)
              /\ o' = advance(b)
              /\ UNCHANGED <<life, poll>>

AskFirst ==
  /\ o.work.siblings = {}
  /\ \E k \in o.work.first :
       /\ \A j \in o.work.first \ {k} : IdLess(k, j)
       /\ reask([o EXCEPT !.work.first = @ \ {k}], k)

AskClaim ==
  /\ o.work.siblings = {}
  /\ o.work.claims # <<>>
  /\ reask([o EXCEPT !.work.claims = Tail(@)], Head(o.work.claims))

AskSelf ==
  /\ o.work.siblings = {}
  /\ o.work.claims = <<>>
  /\ o.work.self # Nil
  /\ admitAndStart([o EXCEPT !.work.self = Nil], o.work.self)

AskWoken ==
  /\ o.work.siblings = {}
  /\ \E k \in o.work.woken :
       /\ \A j \in o.work.woken \ {k} : lessByQueueAge(o, k, j)
       /\ reask([o EXCEPT !.work.woken = @ \ {k}], k)

FinishTurn ==
  /\ AskSibling \/ AskFirst \/ AskClaim \/ AskSelf \/ AskWoken
  /\ UNCHANGED <<cmds, phase, pushes, stops>>

(***************************************************************************)
(* applyConfig.                                                            *)
(***************************************************************************)
desired(d, k) == k[1] \in d.ids /\ InstanceAllowed(d.specs[k[1]], k[2])

sameReplicableOptIn(d, e) ==
  {s \in d.ids : d.specs[s].replicable} = {s \in e.ids : e.specs[s].replicable}

\* Mutant: only instance 0 is created.
floorIgnoresMin(d, k) == desired(d, k) /\ k[2] = 0

floor(d, k) == desired(d, k) /\ (k[2] = 0 \/ k[2] < ProtectedCount(d.specs[k[1]]))

\* Every key is new, is removed (once its process is gone), is a burst instance that
\* nobody waits for, or is reconciled with its new settings.
applyConfig(b, d) ==
  LET had == {k \in Key : exists(b, k)}
      removed == {k \in had : ~desired(d, k)}
      spare == {k \in had \ (removed \cup live(b)) : k[2] > 0 /\ IsBurst(d.specs[k[1]], k[2])}
      retired == {k \in spare : b.specs[k].pending = {}}
      deleted == (removed \ live(b)) \cup retired
      kept == had \ (removed \cup retired)
      changed == {k \in kept : b.specs[k].spec # d.specs[k[1]]}
      rested == {k \in changed \ live(b) : b.specs[k].state \in {"start_failed", "crashed", "backoff"}}
                  \cup {k \in spare : b.specs[k].state = "backoff"}
      unarmed == deleted \cup spare \cup {k \in rested : b.specs[k].state = "backoff"}
      relaunched == {k \in changed : /\ d.specs[k[1]].admin # "force_stopped"
                                     /\ d.specs[k[1]].launch # b.specs[k].spec.launch}
      halted == {k \in kept : d.specs[k[1]].admin = "force_stopped"}
      reconciled(k) ==
        [b.specs[k] EXCEPT !.spec = d.specs[k[1]],
                           !.removed = FALSE,
                           !.state = IF k \in rested THEN "stopped" ELSE @,
                           !.backoffTimer = IF k \in unarmed THEN Nil ELSE @]
      specs == [k \in Key |->
                  CASE k \in deleted -> absent
                    [] k \in removed \ deleted -> [b.specs[k] EXCEPT !.removed = TRUE]
                    [] k \in kept -> reconciled(k)
                    [] k \notin had /\ floor(d, k) -> fresh(d.specs[k[1]])
                    [] OTHER -> absent]
      c == [answerPending(b, removed \ live(b), "model_not_managed")
              EXCEPT !.cfg = d,
                     !.specs = specs,
                     !.decided = @ \ deleted,
                     !.armed = @ \ backoffTimers(b, unarmed)]
      start == {k \in Key : /\ specs[k].state \notin {"absent", "backoff"}
                            /\ specs[k].proc = Nil
                            /\ specs[k].spec.admin # "force_stopped"
                            /\ protected(specs[k], k)}
  IN  IF d.etag # 0 /\ d.etag = b.cfg.etag /\ sameReplicableOptIn(d, b.cfg)
      THEN advance(b)
      ELSE schedule(beginDrain(c, removed \cup relaunched \cup halted),
                    [NoWork EXCEPT !.first = start, !.wake = "all"])

(***************************************************************************)
(* The command handlers.  Take receives a command once the turn before is  *)
(* over.                                                                   *)
(***************************************************************************)
Take(m, name) ==
  /\ m.cmd = name
  /\ o.work = NoWork
  /\ ~o.stopped
  /\ cmds' = cmds \ {m}

Apply(m) ==
  /\ Take(m, "apply")
  /\ o' = applyConfig(o, m.doc)
  /\ UNCHANGED <<life, poll, phase, pushes, stops>>

resolveAddress(b, k) ==
  /\ exists(b, <<k[1], 0>>)
  /\ k[2] > 0 => /\ ~b.specs[<<k[1], 0>>].removed
                 /\ InstanceAllowed(b.specs[<<k[1], 0>>].spec, k[2])

plainRequestRefused(b, k) ==
  /\ IsBurst(b.specs[<<k[1], 0>>].spec, k[2])
  /\ b.specs[k].state # "starting"
  /\ b.specs[k].state # "running" \/ b.specs[k].proc = Nil

instanceForRequest(b, k) ==
  LET st == b.specs[k]
      spent == /\ burst(st, k) /\ st.proc = Nil
               /\ st.state \in {"crashed", "start_failed"}
      c == IF spent THEN retire(b, k) ELSE b
  IN  IF k[2] = 0 \/ exists(c, k) THEN b
      ELSE [c EXCEPT !.specs[k] = fresh(b.specs[<<k[1], 0>>].spec)]

\* The refusals that handleEnsure makes before it looks at the instance's state.
ensureRefusal(k, serving) ==
  CASE o.closing -> "manager_closed"
    [] ~o.closing /\ ~resolveAddress(o, k) -> "model_not_managed"
    [] ~o.closing /\ resolveAddress(o, k)
         /\ o.specs[<<k[1], 0>>].spec.admin = "force_stopped" -> "admission_blocked"
    [] ~o.closing /\ resolveAddress(o, k)
         /\ o.specs[<<k[1], 0>>].spec.admin # "force_stopped"
         /\ k[2] > 0 /\ serving /\ plainRequestRefused(o, k) -> "no_capacity"
    [] OTHER -> "none"

EnsureRefused(m) ==
  LET err == ensureRefusal(m.key, m.flag)
      spent == burstLeftNothing(o.specs[m.key], m.key) /\ restsAtFailure(o.specs[m.key])
      b == IF err = "no_capacity" /\ spent THEN retire(o, m.key) ELSE o
  IN  /\ Take(m, "ensure")
      /\ err # "none"
      /\ o' = advance(answer(b, {m.caller}, err, NoLease))
      /\ UNCHANGED <<life, poll, phase, pushes, stops>>

EnsureServed(m) ==
  LET k == m.key
  IN  /\ Take(m, "ensure")
      /\ ensureRefusal(k, m.flag) = "none"
      /\ o.specs[k].state = "running" /\ o.specs[k].proc # Nil
      /\ o' = advance(touch([answer(o, {m.caller}, "ok", leaseOf(o, k))
                               EXCEPT !.specs[k].inFlight = @ + 1], k))
      /\ UNCHANGED <<life, poll, phase, pushes, stops>>

\* Within notPermittedRetryInterval of the verdict the verdict is repeated.
EnsureRepeatsVerdict(m) ==
  LET st == o.specs[m.key]
  IN  /\ Take(m, "ensure")
      /\ ensureRefusal(m.key, m.flag) = "none"
      /\ \/ /\ st.state = "not_permitted"
            /\ o' = advance(answer(o, {m.caller}, "not_permitted", NoLease))
         \/ /\ st.state = "pending_vram_unknown"
            /\ o' = advance(answer(o, {m.caller}, "admission_blocked", NoLease))
      /\ UNCHANGED <<life, poll, phase, pushes, stops>>

EnsureBurstBusy(m) ==
  LET st == o.specs[m.key]
  IN  /\ Take(m, "ensure")
      /\ ensureRefusal(m.key, m.flag) = "none"
      /\ exists(o, m.key) /\ burst(st, m.key) /\ st.proc # Nil
      /\ st.state \notin {"starting", "running"}
      /\ o' = advance(answer(o, {m.caller}, "no_capacity", NoLease))
      /\ UNCHANGED <<life, poll, phase, pushes, stops>>

EnsureQueued(m) ==
  LET k == m.key
      b == instanceForRequest(o, k)
  IN  /\ Take(m, "ensure")
      /\ ensureRefusal(k, m.flag) = "none"
      /\ ~(b.specs[k].state = "running" /\ b.specs[k].proc # Nil)
      /\ ~(burst(b.specs[k], k) /\ b.specs[k].proc # Nil /\ b.specs[k].state # "starting")
      /\ o' = schedule(enqueue(b, k, m.caller), [NoWork EXCEPT !.self = k])
      /\ UNCHANGED <<life, poll, phase, pushes, stops>>

CancelEnsure(m) ==
  /\ Take(m, "cancelEnsure")
  /\ \/ \E k \in Key :
          /\ m.caller \in o.specs[k].pending
          /\ o' = advance([dequeue(o, k, m.caller, "canceled")
                             EXCEPT !.armed = @ \ {cmdWaiterTimeout(k, m.caller)}])
     \/ /\ \A k \in Key : m.caller \notin o.specs[k].pending
        /\ o' = advance(o)
  /\ UNCHANGED <<life, poll, phase, pushes, stops>>

\* Mutant: does not look whether the caller still waits.
WaiterTimeoutAnyway(m) ==
  /\ Take(m, "waiterTimeout")
  /\ o' = advance(dequeue(o, m.key, m.caller, "admission_blocked"))
  /\ UNCHANGED <<life, poll, phase, pushes, stops>>

WaiterTimeout(m) ==
  LET st == o.specs[m.key]
  IN  /\ Take(m, "waiterTimeout")
      /\ o' = advance(IF st.state # "starting" /\ m.caller \in st.pending
                      THEN dequeue(o, m.key, m.caller, "admission_blocked")
                      ELSE o)
      /\ UNCHANGED <<life, poll, phase, pushes, stops>>

\* Mutant: any release counts against what runs now.
ReleaseAnyGeneration(m) ==
  LET b == [o EXCEPT !.lease[m.caller] = NoLease]
  IN  /\ Take(m, "release")
      /\ o' = wakeAdmissionCandidates(touch([b EXCEPT !.specs[m.key].inFlight =
                                               IF @ > 0 THEN @ - 1 ELSE @], m.key))
      /\ UNCHANGED <<life, poll, phase, pushes, stops>>

\* Mutant: the same without the guard against a negative count.
ReleaseBelowZero(m) ==
  LET b == [o EXCEPT !.lease[m.caller] = NoLease]
  IN  /\ Take(m, "release")
      /\ o' = wakeAdmissionCandidates(touch([b EXCEPT !.specs[m.key].inFlight = @ - 1], m.key))
      /\ UNCHANGED <<life, poll, phase, pushes, stops>>

\* Mutant: a release wakes nobody.
ReleaseSilently(m) ==
  LET k == m.key
      b == [o EXCEPT !.lease[m.caller] = NoLease]
      c == [b EXCEPT !.specs[k].inFlight = @ - 1]
      d == IF c.specs[k].state = "draining" /\ c.specs[k].inFlight = 0
           THEN terminateNow(c, k) ELSE c
  IN  /\ Take(m, "release")
      /\ o' = advance(IF o.specs[k].proc # m.proc THEN b ELSE touch(d, k))
      /\ UNCHANGED <<life, poll, phase, pushes, stops>>

\* The lease ends with the call of release; here it is dropped when the owner
\* learns of it.
Release(m) ==
  LET k == m.key
      b == [o EXCEPT !.lease[m.caller] = NoLease]
      c == [b EXCEPT !.specs[k].inFlight = IF @ > 0 THEN @ - 1 ELSE @]
      d == IF c.specs[k].state = "draining" /\ c.specs[k].inFlight = 0
           THEN terminateNow(c, k) ELSE c
  IN  /\ Take(m, "release")
      /\ o' = IF o.specs[k].proc # m.proc THEN advance(b)
              ELSE wakeAdmissionCandidates(touch(d, k))
      /\ UNCHANGED <<life, poll, phase, pushes, stops>>

Stop(m) ==
  LET k == m.key
      base == o.specs[<<k[1], 0>>]
      st == o.specs[k]
      err == IF burst(st, k) THEN "no_capacity" ELSE "admission_blocked"
      refused == \/ o.closing \/ ~resolveAddress(o, k) \/ base.removed
                 \/ base.spec.admin # "force_stopped"
                    /\ \/ k[2] < ProtectedCount(base.spec)
                       \/ st.proc # Nil /\ st.state # "draining" /\ higherSiblingRuns(o, k)
      b == IF base.spec.admin # "force_stopped" THEN failPending(o, k, err) ELSE o
  IN  /\ Take(m, "stop")
      /\ o' = advance(IF refused THEN o ELSE beginDrain(b, {k}))
      /\ UNCHANGED <<life, poll, phase, pushes, stops>>

StartResult(m) ==
  LET k == m.key
      b == IF m.flag THEN [o EXCEPT !.specs[k].everHealthy = TRUE] ELSE o
      failed == failPending(setState(o, k, "start_failed"), k, "start_timeout")
  IN  /\ Take(m, "startResult")
      /\ o' = CASE o.specs[k].proc # m.proc -> advance(o)
                [] o.specs[k].proc = m.proc /\ o.specs[k].state = "draining" -> advance(b)
                [] o.specs[k].proc = m.proc /\ o.specs[k].state # "draining" /\ m.flag ->
                     schedule(succeedPending(setState(b, k, "running"), k),
                              [NoWork EXCEPT !.wake = "afterStart"])
                [] OTHER -> advance(enterBackoff(terminateNow(failed, k), k))
      /\ UNCHANGED <<life, poll, phase, pushes, stops>>

betterBootstrapVictim(b, i, j) ==
  IF burst(b.specs[i], i) # burst(b.specs[j], j) THEN burst(b.specs[i], i)
  ELSE <<i, j>> \in b.older

evictOneIdleForBootstrap(b, k) ==
  LET V == {j \in live(b) : /\ j[1] # k[1]
                            /\ b.specs[j].state = "running"
                            /\ ~higherSiblingRuns(b, j)
                            /\ ~pinnedForAdmission(b.specs[j], j)
                            /\ b.specs[j].inFlight = 0}
  IN  evict(b, k, {j \in V : \A i \in V \ {j} : betterBootstrapVictim(b, j, i)})

ramBootstrapMaxRetries == 1

handleBootstrapMemoryPressure(b, k) ==
  IF b.specs[k].ramBootstrapRetries >= ramBootstrapMaxRetries
  THEN failStart(b, k, "start_failed")
  ELSE enterBackoff(setState(evictOneIdleForBootstrap(
         [b EXCEPT !.specs[k].ramBootstrapRetries = @ + 1], k), k, "start_failed"), k)

\* What every exit clears before its kind is looked at.
exited(b, k) ==
  LET p == b.specs[k].proc
  IN  [b EXCEPT !.specs[k] = [@ EXCEPT !.proc = Nil, !.inFlight = 0, !.intentionalStop = FALSE,
                                       !.backoffOnExit = FALSE, !.drainedFor = <<>>,
                                       !.everHealthy = FALSE],
                !.armed = @ \ {cmdKillGraceExpired(k, p), cmdDrainGraceExpired(k, p)}]

removedExit(b, k) ==
  LET d == deleteState(failPending(b, k, "model_not_managed"), k)
  IN  wakeAdmissionCandidates(IF b.closing THEN d ELSE ensureProtectedFloor(d))

intentionalExit(st, b, k) ==
  LET c == IF st.state = "draining" THEN setState(b, k, "stopped") ELSE b
  IN  IF st.backoffOnExit /\ st.spec.admin # "force_stopped"
      THEN wakeAdmissionCandidates(enterBackoff(b, k))
      ELSE schedule(c, IF c.specs[k].state = "stopped"
                       THEN [NoWork EXCEPT !.claims = st.drainedFor, !.self = k, !.wake = "all"]
                       ELSE [NoWork EXCEPT !.wake = "all"])

unexpectedExit(st, b, k, sigkill) ==
  wakeAdmissionCandidates(
    IF ~burst(st, k) /\ specHasUnknownRAM(st.spec) /\ wantsUp(st, k) /\ sigkill
    THEN handleBootstrapMemoryPressure(b, k)
    ELSE IF st.everHealthy THEN enterBackoff(setState(b, k, "crashed"), k)
    ELSE failStart(b, k, "start_failed"))

ChildExited(m) ==
  LET k == m.key
      st == o.specs[k]
      b == exited(o, k)
  IN  /\ Take(m, "childExited")
      /\ o' = CASE st.proc # m.proc -> advance(o)
                [] st.proc = m.proc /\ st.removed -> removedExit(b, k)
                [] st.proc = m.proc /\ ~st.removed /\ st.intentionalStop ->
                     intentionalExit(st, b, k)
                [] OTHER -> unexpectedExit(st, b, k, m.flag)
      /\ UNCHANGED <<life, poll, phase, pushes, stops>>

\* cmdBackoffFire names the spec, not the timer.
BackoffFire(m) ==
  LET k == m.key
      b == [o EXCEPT !.specs[k].backoffTimer = Nil,
                     !.specs[k].state = IF @ = "backoff" THEN "stopped" ELSE @]
  IN  /\ Take(m, "backoffFire")
      /\ o' = IF exists(o, k) THEN schedule(b, [NoWork EXCEPT !.self = k]) ELSE advance(o)
      /\ UNCHANGED <<life, poll, phase, pushes, stops>>

DrainGraceExpired(m) ==
  /\ Take(m, "drainGraceExpired")
  /\ o' = advance(IF o.specs[m.key].proc = m.proc THEN terminateNow(o, m.key) ELSE o)
  /\ UNCHANGED <<life, poll, phase, pushes, stops>>

KillGraceExpired(m) ==
  /\ Take(m, "killGraceExpired")
  /\ life' = IF o.specs[m.key].proc = m.proc /\ life[m.proc] = "alive"
             THEN [life EXCEPT ![m.proc] = "killed"] ELSE life
  /\ o' = advance(o)
  /\ UNCHANGED <<poll, phase, pushes, stops>>

Close(m) ==
  LET waiting == {k \in Key : o.specs[k].state = "backoff"}
      b == [answerPending(o, Key, "manager_closed")
              EXCEPT !.closing = TRUE,
                     !.armed = @ \ backoffTimers(o, waiting),
                     !.specs = [k \in Key |->
                       IF k \in waiting
                       THEN [o.specs[k] EXCEPT !.pending = {}, !.state = "stopped",
                                               !.backoffTimer = Nil]
                       ELSE [o.specs[k] EXCEPT !.pending = {}]]]
  IN  /\ Take(m, "close")
      /\ o' = advance(beginDrain(b, Key))
      /\ UNCHANGED <<life, poll, phase, pushes, stops>>

scanIdle ==
  LET idle == {k \in live(o) : /\ o.specs[k].state = "running"
                               /\ ~protected(o.specs[k], k)
                               /\ o.specs[k].spec.idle
                               /\ o.specs[k].inFlight = 0
                               /\ ~higherSiblingRuns(o, k)}
  IN  /\ o.work = NoWork /\ ~o.stopped /\ ~o.closing
      /\ \E S \in SUBSET idle \ {{}} : o' = advance(beginDrain(o, S))
      /\ UNCHANGED <<cmds, life, poll, phase, pushes, stops>>

(***************************************************************************)
(* The goroutines around the owner.                                        *)
(***************************************************************************)
post(m) == cmds' = cmds \cup {m}

\* EnsureServing differs from EnsureRunning for a burst instance only.
CallEnsure(c, k, serving) ==
  /\ phase[c] = "idle"
  /\ serving => k[2] > 0
  /\ phase' = [phase EXCEPT ![c] = "asked"]
  /\ post(cmdEnsure(k, c, serving))
  /\ UNCHANGED <<o, life, poll, pushes, stops>>

\* The caller's context ends before the owner takes the command.
Abandon(m) ==
  /\ m.cmd = "ensure"
  /\ cmds' = cmds \ {m}
  /\ phase' = [phase EXCEPT ![m.caller] = "done"]
  /\ UNCHANGED <<o, life, poll, pushes, stops>>

\* The caller's context ends while it waits for the answer.
CallCancel(c) ==
  /\ phase[c] = "asked"
  /\ o.reply[c] = "none"
  /\ \A m \in cmds : ~(m.cmd = "ensure" /\ m.caller = c)
  /\ phase' = [phase EXCEPT ![c] = "cancelled"]
  /\ post(cmdCancelEnsure(c))
  /\ UNCHANGED <<o, life, poll, pushes, stops>>

CallRelease(c) ==
  /\ phase[c] \in {"asked", "cancelled"}
  /\ o.lease[c] # NoLease
  /\ phase' = [phase EXCEPT ![c] = "done"]
  /\ post(cmdRelease(o.lease[c].key, o.lease[c].proc, c))
  /\ UNCHANGED <<o, life, poll, pushes, stops>>

\* The driver applies one document at a time.
CallApply(d) ==
  /\ pushes < MaxPushes
  /\ \A m \in cmds : m.cmd # "apply"
  /\ pushes' = pushes + 1
  /\ post(cmdApply(d))
  /\ UNCHANGED <<o, life, poll, phase, stops>>

CallStop(k) ==
  /\ stops < MaxStops
  /\ stops' = stops + 1
  /\ post(cmdStop(k))
  /\ UNCHANGED <<o, life, poll, phase, pushes>>

CallClose ==
  /\ MayClose
  /\ ~o.closing
  /\ cmdClose \notin cmds
  /\ post(cmdClose)
  /\ UNCHANGED <<o, life, poll, phase, pushes, stops>>

TimerFires(m) ==
  /\ m \in o.armed
  /\ o' = [o EXCEPT !.armed = @ \ {m}]
  /\ post(m)
  /\ UNCHANGED <<life, poll, phase, pushes, stops>>

\* waitForExit; how the child died matters for one of unknown RAM demand only.
ChildExits(k, p, sigkill) ==
  /\ sigkill => specHasUnknownRAM(o.specs[k].spec)
  /\ o.specs[k].proc = p
  /\ life[p] # "exited"
  /\ life' = [life EXCEPT ![p] = "exited"]
  /\ post(cmdChildExited(k, p, sigkill))
  /\ UNCHANGED <<o, poll, phase, pushes, stops>>

pollHealthOK(p) ==
  /\ poll[p] # Nil
  /\ life[p] = "alive"
  /\ post(cmdStartResult(poll[p], p, TRUE))
  /\ poll' = [poll EXCEPT ![p] = Nil]
  /\ UNCHANGED <<o, life, phase, pushes, stops>>

pollHealthTimeout(p) ==
  /\ poll[p] # Nil
  /\ post(cmdStartResult(poll[p], p, FALSE))
  /\ poll' = [poll EXCEPT ![p] = Nil]
  /\ UNCHANGED <<o, life, phase, pushes, stops>>

pollHealthExited(p) ==
  /\ poll[p] # Nil
  /\ life[p] = "exited"
  /\ poll' = [poll EXCEPT ![p] = Nil]
  /\ UNCHANGED <<o, cmds, life, phase, pushes, stops>>

(***************************************************************************)
(* The specification.                                                      *)
(***************************************************************************)
Init ==
  /\ o = [cfg |-> NoDoc, specs |-> [k \in Key |-> absent], armed |-> {}, decided |-> {},
          closing |-> FALSE, stopped |-> FALSE, work |-> NoWork,
          reply |-> [c \in Caller |-> "none"], lease |-> [c \in Caller |-> NoLease],
          ahead |-> {}, older |-> {}]
  /\ cmds = {}
  /\ life = [p \in Proc |-> "exited"]
  /\ poll = [p \in Proc |-> Nil]
  /\ phase = [c \in Caller |-> "idle"]
  /\ pushes = 0
  /\ stops = 0

Ensure(m) ==
  \/ EnsureRefused(m) \/ EnsureServed(m) \/ EnsureRepeatsVerdict(m)
  \/ EnsureBurstBusy(m) \/ EnsureQueued(m)

handle(m) ==
  \/ Apply(m) \/ Ensure(m) \/ CancelEnsure(m) \/ WaiterTimeout(m) \/ Release(m) \/ Stop(m)
  \/ StartResult(m) \/ ChildExited(m) \/ BackoffFire(m) \/ DrainGraceExpired(m)
  \/ KillGraceExpired(m) \/ Close(m)

\* The owner takes the next command, or the idle tick, or asks on.
Owner == FinishTurn \/ scanIdle \/ \E m \in cmds : handle(m)

\* Between two turns the other goroutines move.
Others ==
  \/ \E c \in Caller : \/ \E k \in Key, serving \in BOOLEAN : CallEnsure(c, k, serving)
                        \/ CallCancel(c)
                        \/ CallRelease(c)
  \/ \E m \in cmds : Abandon(m)
  \/ \E k \in Key : CallStop(k)
  \/ CallClose
  \/ \E m \in o.armed : TimerFires(m)
  \/ \E p \in Proc : \/ \E k \in Key, sigkill \in BOOLEAN : ChildExits(k, p, sigkill)
                      \/ pollHealthOK(p)
                      \/ pollHealthTimeout(p)
                      \/ pollHealthExited(p)

Goroutine == Others \/ \E d \in Doc : CallApply(d)

Around == o.work = NoWork /\ ~o.stopped /\ Goroutine

Done == o.stopped /\ UNCHANGED vars

Next == Owner \/ Around \/ Done

Spec == Init /\ [][Next]_vars

between == o.work = NoWork /\ ~o.stopped

(***************************************************************************)
(* Types.                                                                  *)
(***************************************************************************)
State == {"absent", "stopped", "starting", "running", "draining", "backoff", "crashed",
          "start_failed", "not_permitted", "pending_vram_unknown"}

Reply == {"none", "ok", "manager_closed", "model_not_managed", "admission_blocked",
          "no_capacity", "demand_unknown", "not_permitted", "start_failed",
          "start_timeout", "canceled"}

SpecType == {NoSpec} \cup {d.specs[s] : d \in Doc, s \in SpecID}

SpecState ==
  [spec : SpecType, state : State, proc : Proc \cup {Nil}, inFlight : Nat,
   pending : SUBSET Caller, backoffTimer : BackoffTimer \cup {Nil},
   backoffOnExit : BOOLEAN, intentionalStop : BOOLEAN, removed : BOOLEAN,
   drainedFor : Seq(Key), waitingOnSibling : BOOLEAN, ramBootstrapRetries : Nat,
   everHealthy : BOOLEAN]

Command ==
  {cmdApply(d) : d \in Doc} \cup {cmdClose} \cup {cmdStop(k) : k \in Key}
    \cup {cmdEnsure(k, c, f) : k \in Key, c \in Caller, f \in BOOLEAN}
    \cup {cmdCancelEnsure(c) : c \in Caller}
    \cup {cmdRelease(k, p, c) : k \in Key, p \in Proc, c \in Caller}
    \cup {cmdChildExited(k, p, f) : k \in Key, p \in Proc, f \in BOOLEAN}
    \cup {cmdStartResult(k, p, f) : k \in Key, p \in Proc, f \in BOOLEAN}

Timer ==
  {cmdWaiterTimeout(k, c) : k \in Key, c \in Caller}
    \cup {cmdBackoffFire(k, n) : k \in Key, n \in BackoffTimer}
    \cup {cmdDrainGraceExpired(k, p) : k \in Key, p \in Proc}
    \cup {cmdKillGraceExpired(k, p) : k \in Key, p \in Proc}

Lease == {NoLease} \cup [key : Key, proc : Proc]

Work ==
  [siblings : SUBSET Key, first : SUBSET Key, claims : Seq(Key), self : Key \cup {Nil},
   wake : {"none", "all", "afterStart"}, woken : SUBSET Key]

OwnerType ==
  [cfg : Doc \cup {NoDoc}, specs : [Key -> SpecState], armed : SUBSET Timer,
   decided : SUBSET Key, closing : BOOLEAN, stopped : BOOLEAN, work : Work,
   reply : [Caller -> Reply],
   lease : [Caller -> Lease],
   ahead : SUBSET (Caller \X Caller), older : SUBSET (Key \X Key)]

\* The type invariant: the owner's records, the commands on its channel and what the
\* other goroutines keep.
TypeOK ==
  /\ o \in OwnerType
  /\ cmds \subseteq Command \cup Timer
  /\ life \in [Proc -> {"alive", "killed", "exited"}]
  /\ poll \in [Proc -> Key \cup {Nil}]
  /\ phase \in [Caller -> {"idle", "asked", "cancelled", "done"}]
  /\ pushes \in 0 .. MaxPushes
  /\ stops \in 0 .. MaxStops

(***************************************************************************)
(* Safety.                                                                 *)
(***************************************************************************)
outstanding == cmds \cup o.armed

\* A spec is starting or running only with a process, and one that has a process
\* shows it: a start, an exit, a drain and a crash-loop wait never leave the state
\* and the process apart (enterBackoff: StateBackoff means nothing is running).
StateMatchesProc ==
  \A k \in Key :
    /\ o.specs[k].state \in {"starting", "running"} => o.specs[k].proc # Nil
    /\ o.specs[k].proc # Nil =>
         o.specs[k].state \in {"starting", "running", "draining", "start_failed"}

\* specState.proc is "non-nil while Starting, Running, or Draining".
ProcWhileDraining == \A k \in Key : o.specs[k].state = "draining" => o.specs[k].proc # Nil

\* No child is lost and none is shared: each living process belongs to exactly one
\* instance until the owner has handled its exit, through every removal, retirement
\* and restart, so an owner that has stopped leaves none behind (Close).
NoOrphanProcess ==
  /\ \A p \in Proc : life[p] # "exited" => \E k \in Key : o.specs[k].proc = p
  /\ \A j, k \in Key : o.specs[j].proc = o.specs[k].proc /\ o.specs[k].proc # Nil => j = k
  /\ o.stopped => \A p \in Proc : life[p] = "exited"

\* A call that the owner has accepted and not answered is queued on exactly one
\* instance, and one that is answered on none: no deletion of a state, no refusal and
\* no cancel loses a waiter or leaves an answered one behind (failPending, C2).
WaitersAccounted ==
  \A c \in Caller :
    LET queuedOn == {k \in Key : c \in o.specs[k].pending}
        waits == /\ phase[c] \in {"asked", "cancelled"}
                 /\ o.reply[c] = "none"
                 /\ \A m \in cmds : ~(m.cmd = "ensure" /\ m.caller = c)
    IN  IF waits THEN \E k \in Key : queuedOn = {k} ELSE queuedOn = {}

\* inFlight is the number of leases on the current generation, whatever order
\* releases, exits and restarts come in: a late release of an earlier generation
\* never decrements it (handleRelease) and an exit voids the leases (onProcExited).
InFlightCountsLeases ==
  \A k \in Key :
    o.specs[k].inFlight =
      IF o.specs[k].proc = Nil THEN 0
      ELSE Cardinality({c \in Caller : o.lease[c] = leaseOf(o, k)})

\* A state that only a timer leaves has that timer, whatever timers were cancelled or
\* came late.  A draining process is on its way out: a timer or an exit will move it on,
\* so Close is bounded by drainGrace + killGrace.  A crash-loop wait ends: a fire of this
\* spec's backoff is still to come.
TimersArmed ==
  \A k \in Key :
    LET p == o.specs[k].proc
    IN  /\ o.specs[k].state = "draining" /\ p # Nil =>
             \/ life[p] # "alive"
             \/ cmdDrainGraceExpired(k, p) \in outstanding
             \/ cmdKillGraceExpired(k, p) \in outstanding
        /\ o.specs[k].state = "backoff" =>
             \E m \in outstanding : m.cmd = "backoffFire" /\ m.key = k

\* No wake is lost: between two turns no instance that wants to be up is kept down
\* although the policy would admit it as it is now (wakeAdmissionCandidates).
NoLostWake ==
  between /\ ~o.closing =>
    \A k \in Key : ~(mayStart(o, k) /\ o.specs[k].spec.expandable)

\* Between two turns the floor of every configured spec has a state that wants up
\* (ensureProtectedFloor), however late the exit of an instance removed before is.
FloorKept ==
  between /\ ~o.closing =>
    \A k \in Key :
      /\ k[1] \in o.cfg.ids
      /\ k[2] < ProtectedCount(o.cfg.specs[k[1]])
      /\ InstanceAllowed(o.cfg.specs[k[1]], k[2])
      => /\ exists(o, k)
         /\ ~o.specs[k].removed
         /\ o.specs[k].spec = o.cfg.specs[k[1]]

\* "A backoff timer must never outlive its spec" (enterBackoff, removeState): one
\* that is still to fire belongs to a spec the owner has, and none is left once the
\* owner has stopped, since Close then waits for it.
BackoffTimerDiesWithSpec ==
  \A m \in o.armed : m.cmd = "backoffFire" => exists(o, m.key) /\ ~o.stopped

(***************************************************************************)
(* What a step may never do.                                               *)
(***************************************************************************)
started(k) == o.specs[k].proc = Nil /\ o'.specs[k].proc # Nil

startsAdmitted ==
  \A k \in Key : started(k) =>
    /\ ~o.closing
    /\ desired(o.cfg, k)
    /\ o.cfg.specs[k[1]].admin # "force_stopped"
    /\ o.cfg.maxProcesses > 0 => Cardinality(live(o)) < o.cfg.maxProcesses
    /\ \A j \in live(o) : j[1] = k[1] \/ {j[1], k[1]} \in o.cfg.allowed

\* A process starts only for a configured instance that is not force-stopped, while
\* the manager is not closing, and only next to processes, draining ones included,
\* that leave it room: within max_processes and with every pair allowed.
StartsAreAdmitted == [][startsAdmitted]_vars

\* A caller is answered at most once: its channel holds one answer, and a second one
\* would block the owner for good.
AnsweredOnce ==
  [][\A c \in Caller : o.reply[c] # "none" => o'.reply[c] = o.reply[c]]_vars

highestLeaves ==
  (\A m \in cmds \ cmds' : m.cmd \notin {"apply", "close"}) =>
    \A k \in Key : o.specs[k].state # "draining" /\ o'.specs[k].state = "draining" =>
      \A j \in live(o) : j[1] = k[1] /\ j[2] > k[2] => o'.specs[j].state = "draining"

\* The highest index leaves first (higherSiblingRuns, siblingsHighestFirst, Stop): but
\* for a pushed configuration and Close, an instance begins to drain only when every
\* higher sibling that has a process drains, so those that run are the lowest ones.
HighestLeavesFirst == [][highestLeaves]_vars

\* A process is told to stop only when nobody uses it, or once its drain grace is
\* over.
SignalledOnlyWhenIdle ==
  [][\A k \in Key :
       /\ o'.specs[k].proc = o.specs[k].proc
       /\ o'.specs[k].intentionalStop /\ ~o.specs[k].intentionalStop
       => \/ o'.specs[k].inFlight = 0
          \/ cmdDrainGraceExpired(k, o.specs[k].proc) \in cmds \ cmds']_vars

(***************************************************************************)
(* Liveness.  Fairness is stated by what it brings about.  A turn ends:    *)
(* each ask takes a key off o.work.  A command on the channel is taken: it *)
(* serves its senders in turn.  A timer of a drain, a kill or a backoff    *)
(* fires unless it is stopped; a killed child exits; pollHealth ends, at   *)
(* its deadline at the latest.  Nothing forces a caller, the driver or an  *)
(* operator to call, a context to end, a waiter to time out or a child     *)
(* that was not killed to exit.                                            *)
(***************************************************************************)
Progress ==
  /\ []<>(o.work = NoWork)
  /\ \A m \in Command \cup Timer : []<>(o.stopped \/ m \notin cmds)
  /\ \A m \in Timer : m.cmd # "waiterTimeout" => []<>(o.stopped \/ m \notin o.armed)
  /\ \A p \in Proc : []<>(o.stopped \/ life[p] # "killed") /\ []<>(o.stopped \/ poll[p] = Nil)

LiveSpec == Spec /\ Progress

\* Close returns: a closing owner gets rid of every process and stops, even if leases
\* are never released and children ignore SIGTERM (handleClose, maybeFinishClose).
CloseFinishes == <>[](o.closing => o.stopped)

\* No call that the owner accepts waits for ever, even one for a spec that has to wait
\* for another one's process to be released, drained and evicted; that one which no
\* longer waits was answered is WaitersAccounted.
WaitersAnswered ==
  \A c \in Caller : []<>(\A k \in Key : c \notin o.specs[k].pending)
=============================================================================
