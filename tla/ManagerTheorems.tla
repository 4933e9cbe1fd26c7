--------------------------- MODULE ManagerTheorems ---------------------------
(***************************************************************************)
(* What the owner promises its callers and its children, for every number  *)
(* of specs, instances, callers, processes and documents.                  *)
(*                                                                         *)
(* ManagerTurns shows that each handler keeps the books in order; here are *)
(* the goroutines around the owner, that BInv of ManagerInvariants holds   *)
(* initially and every action keeps it, and the theorems.                  *)
(***************************************************************************)
EXTENDS ManagerTurns, ManagerProofs, FiniteSetTheorems

\* Most leaves are first-order; the ones that count or compare numbers name SMT.
USE Zenon

(***************************************************************************)
(* The owner's steps.                                                      *)
(***************************************************************************)

\* What the channel holds keeps its meaning through a step of the owner.
LEMMA CallsKept ==
  ASSUME TypeOK, CallsOK, phase' = phase, cmds' \subseteq cmds,
         \A c \in Caller : c \notin Accepted' =>
           /\ o'.reply[c] = o.reply[c]
           /\ \/ o'.lease[c] = o.lease[c]
              \/ \A n \in cmds' : ~(n.cmd = "release" /\ n.caller = c),
         \A n \in cmds' : n.cmd = "childExited" => life'[n.proc] = "exited"
  PROVE  CallsOK'
<1>0. \A n \in cmds' : n \in cmds /\ n \in Command \cup Timer BY DEF TypeOK
<1>1. ASSUME NEW c \in Caller, phase'[c] = "idle" PROVE o'.reply[c] = "none"
  <2>1. c \notin Accepted' BY <1>1 DEF Accepted
  <2> QED BY <1>1, <2>1 DEF CallsOK
<1>2. ASSUME NEW n \in cmds', n.cmd = "ensure"
      PROVE  /\ phase'[n.caller] = "asked" /\ o'.reply[n.caller] = "none"
             /\ \A i \in cmds' : i.cmd = "ensure" /\ i.caller = n.caller => i = n
  <2>1. n.caller \in Caller BY <1>0, <1>2, CommandFields
  <2>2. n.caller \notin Accepted' BY <1>2 DEF Accepted
  <2> QED BY <1>0, <1>2, <2>1, <2>2, SMT DEF CallsOK
<1>3. ASSUME NEW n \in cmds', n.cmd = "release"
      PROVE  /\ phase'[n.caller] = "done"
             /\ o'.lease[n.caller] = [key |-> n.key, proc |-> n.proc]
             /\ \A i \in cmds' : i.cmd = "release" /\ i.caller = n.caller => i = n
  <2>1. n.caller \in Caller BY <1>0, <1>3, CommandFields
  <2>2. phase'[n.caller] = "done" BY <1>0, <1>3 DEF CallsOK
  <2>3. n.caller \notin Accepted' BY <2>2 DEF Accepted
  <2>4. o'.lease[n.caller] = o.lease[n.caller] BY <1>3, <2>1, <2>3
  <2> QED BY <1>0, <1>3, <2>2, <2>4, SMT DEF CallsOK
<1> QED BY <1>1, <1>2, <1>3 DEF CallsOK

\* A step that keeps the books keeps the invariant.
LEMMA SteppedIs ==
  ASSUME TypeOK, CallsOK, phase' = phase, cmds' \subseteq cmds, NEW W, Accepted' = W, Stepped(W),
         \A n \in cmds' : n.cmd = "childExited" => life'[n.proc] = "exited"
  PROVE  BInv' /\ Answers /\ Signals
<1>1. Ended(o', Accepted', life', cmds') BY DEF Stepped
<1>2. \A c \in Caller : c \notin Accepted' => o'.reply[c] = o.reply[c] /\ o'.lease[c] = o.lease[c]
  BY DEF Stepped, Kept
<1>3. CallsOK' BY <1>2, CallsKept
<1>4. Answers BY DEF Stepped, Kept, Answers
<1>5. Signals BY DEF Stepped, Unhurried, Signals
<1> QED BY <1>1, <1>3, <1>4, <1>5 DEF BInv

\* A process starts as a generation that no command names.
LEMMA ExitsKept ==
  ASSUME TypeOK, FinishTurn
  PROVE  \A n \in cmds : n.proc \in Proc /\ life[n.proc] = "exited" => life'[n.proc] = "exited"
<1> DEFINE p == CHOOSE q \in unusedProcs : TRUE
<1>1. ASSUME NEW b, NEW k, admitAndStart(b, k)
      PROVE  life' = life \/ (unusedProcs # {} /\ life' = [life EXCEPT ![p] = "alive"])
  BY <1>1 DEF admitAndStart, startProcess
<1>2. ASSUME NEW b, NEW k, reask(b, k)
      PROVE  life' = life \/ (unusedProcs # {} /\ life' = [life EXCEPT ![p] = "alive"])
  BY <1>1, <1>2 DEF reask
<1> HIDE DEF p
<1>3. life' = life \/ (unusedProcs # {} /\ life' = [life EXCEPT ![p] = "alive"])
  <2>1. CASE AskSibling BY <1>1, <2>1 DEF AskSibling
  <2>2. CASE AskFirst BY <1>2, <2>2 DEF AskFirst
  <2>3. CASE AskClaim BY <1>2, <2>3 DEF AskClaim
  <2>4. CASE AskSelf BY <1>1, <2>4 DEF AskSelf
  <2>5. CASE AskWoken BY <1>2, <2>5 DEF AskWoken
  <2> QED BY <2>1, <2>2, <2>3, <2>4, <2>5, SMT DEF FinishTurn
<1>4. unusedProcs # {} => p \in unusedProcs BY DEF p
<1>5. unusedProcs # {} => \A n \in cmds : n.proc # p BY <1>4 DEF unusedProcs
<1> QED BY <1>3, <1>5 DEF TypeOK

\* The caller a command on the channel speaks for is in the phase it was posted in.
LEMMA PhaseOf ==
  ASSUME TypeOK, CallsOK, NEW n \in cmds
  PROVE  /\ n.cmd = "ensure" =>
              n.caller \in Caller /\ phase[n.caller] = "asked" /\ o.reply[n.caller] = "none"
         /\ n.cmd = "release" => n.caller \in Caller /\ phase[n.caller] = "done"
<1>1. n \in Command \cup Timer BY DEF TypeOK
<1>2. n.cmd \in {"ensure", "release"} => n.caller \in Caller BY <1>1, CommandFields
<1>3. CASE n.cmd = "ensure" BY <1>2, <1>3 DEF CallsOK
<1>4. CASE n.cmd = "release" BY <1>2, <1>4 DEF CallsOK
<1> QED BY <1>3, <1>4

\* A drain timer is the one of its key and process.
LEMMA DrainCommand ==
  ASSUME NEW m \in Command \cup Timer, m.cmd = "drainGraceExpired"
  PROVE  m = cmdDrainGraceExpired(m.key, m.proc)
<1>1. m \notin Command
  <2> SUFFICES ASSUME m \in Command PROVE FALSE BY SMT
  <2>1. m.cmd \in {"apply", "close", "stop", "ensure", "cancelEnsure", "release", "childExited",
                   "startResult"}
    <3>1. CASE (\E d \in Doc : m = cmdApply(d)) \/ m = cmdClose \/ (\E k \in Key : m = cmdStop(k))
      BY <3>1 DEF cmdApply, cmdClose, cmdStop, NoCmd
    <3>2. CASE \/ \E k \in Key, c \in Caller, f \in BOOLEAN : m = cmdEnsure(k, c, f)
               \/ \E c \in Caller : m = cmdCancelEnsure(c)
               \/ \E k \in Key, p \in Proc, c \in Caller : m = cmdRelease(k, p, c)
      BY <3>2 DEF cmdEnsure, cmdCancelEnsure, cmdRelease, NoCmd
    <3>3. CASE \E k \in Key, p \in Proc, f \in BOOLEAN : m = cmdChildExited(k, p, f)
      <4>1. PICK k \in Key, p \in Proc, f \in BOOLEAN : m = cmdChildExited(k, p, f) BY <3>3
      <4> QED BY <4>1 DEF cmdChildExited, NoCmd
    <3>4. CASE \E k \in Key, p \in Proc, f \in BOOLEAN : m = cmdStartResult(k, p, f)
      <4>1. PICK k \in Key, p \in Proc, f \in BOOLEAN : m = cmdStartResult(k, p, f) BY <3>4
      <4> QED BY <4>1 DEF cmdStartResult, NoCmd
    <3> QED BY <3>1, <3>2, <3>3, <3>4, SMT DEF Command
  <2> QED BY <2>1
<1>2. PICK k \in Key, p \in Proc : m = cmdDrainGraceExpired(k, p)
  <2>1. m \in Timer BY <1>1
  <2> QED BY <2>1, WaiterTimer, BackoffTimerFields, KillTimer, SMT DEF Timer
<1>3. m.key = k /\ m.proc = p BY <1>2 DEF cmdDrainGraceExpired, NoCmd
<1> QED BY <1>2, <1>3

\* Every handler keeps the invariant.
LEMMA HandleFine ==
  ASSUME Counting, IInv, BInv, NEW m \in cmds, handle(m)
  PROVE  BInv' /\ Answers /\ Signals
<1> DEFINE W == Accepted
<1>1. cmds' = cmds \ {m} /\ phase' = phase /\ o.work = NoWork /\ ~o.stopped
  BY DEF handle, Ensure, Take, Apply, EnsureRefused, EnsureServed, EnsureRepeatsVerdict,
         EnsureBurstBusy, EnsureQueued, CancelEnsure, WaiterTimeout, Release, Stop, StartResult,
         ChildExited, BackoffFire, DrainGraceExpired, KillGraceExpired, Close
<1>2. /\ TypeOK /\ CallsOK /\ m \in Command \cup Timer /\ cmds' \subseteq cmds
      /\ \A n \in cmds : n \in Command \cup Timer
      /\ life \in [Proc -> {"alive", "killed", "exited"}]
  BY <1>1 DEF IInv, BInv, TypeOK
<1>3. Idle(W, m) /\ W \subseteq Caller
  BY <1>1 DEF BInv, Ended, TurnOK, Fine, Idle, Accepted
<1>4. /\ m.cmd = "apply" => m.doc \in Doc
      /\ m.cmd \in {"ensure", "release", "cancelEnsure", "waiterTimeout"} => m.caller \in Caller
      /\ m.cmd \in {"stop", "ensure", "release", "childExited", "startResult", "waiterTimeout",
                    "backoffFire", "drainGraceExpired", "killGraceExpired"} => m.key \in Key
      /\ m.cmd \in {"release", "childExited", "startResult", "drainGraceExpired",
                    "killGraceExpired"} => m.proc \in Proc
  BY <1>2, CommandFields
<1>5. m.cmd # "ensure" => Accepted' = W BY <1>1 DEF Accepted
<1>6. life' = life => \A n \in cmds' : n.cmd = "childExited" => life'[n.proc] = "exited"
  BY <1>1, <1>2, SMT DEF CallsOK
<1>7. ASSUME Stepped(W), life' = life, m.cmd # "ensure"
      PROVE  BInv' /\ Answers /\ Signals
  BY <1>1, <1>2, <1>5, <1>6, <1>7, SteppedIs
<1> HIDE DEF W
<1>8. ASSUME life' = life, m.cmd \notin {"backoffFire", "drainGraceExpired", "killGraceExpired"}
      PROVE  Ready(W)
  BY <1>3, <1>8, TakeFine
<1>9. CASE Apply(m)
  <2>1. m.cmd = "apply" /\ life' = life BY <1>9 DEF Apply, Take
  <2>2. StateMatchesProc BY DEF IInv, OK, SpecsOK, Settled, StateMatchesProc
  <2> QED BY <1>4, <1>7, <1>8, <1>9, <2>1, <2>2, ApplyFine, SMT
<1>10. CASE Ensure(m)
  <2>1. m.cmd = "ensure" /\ life' = life
    BY <1>10 DEF Ensure, Take, EnsureRefused, EnsureServed, EnsureRepeatsVerdict,
                  EnsureBurstBusy, EnsureQueued
  <2>2. m.key \in Key /\ m.caller \in Caller BY <1>4, <2>1
  <2>3. /\ phase[m.caller] = "asked" /\ o.reply[m.caller] = "none"
        /\ \A n \in cmds : n.cmd = "ensure" /\ n.caller = m.caller => n = m
    BY <1>2, <2>1 DEF CallsOK
  <2>4. m.caller \notin W BY <2>1 DEF W, Accepted
  <2>5. Accepted' = W \cup {m.caller}
    <3>1. \A n \in cmds' : ~(n.cmd = "ensure" /\ n.caller = m.caller) BY <1>1, <2>3
    <3>2. ASSUME NEW c \in Caller \ {m.caller} PROVE c \in Accepted' <=> c \in W
      BY <1>1, <2>1 DEF W, Accepted
    <3>3. m.caller \in Accepted' BY <1>1, <2>2, <2>3, <3>1, SMT DEF Accepted
    <3>4. Accepted' \subseteq Caller /\ W \subseteq Caller BY DEF W, Accepted
    <3> QED BY <3>2, <3>3, <3>4, SMT
  <2>6. Ready(W) BY <1>8, <2>1, SMT
  <2>7. Stepped(W \cup {m.caller})
    <3>1. CASE EnsureRefused(m) BY <2>2, <2>3, <2>4, <2>6, <3>1, EnsureRefusedFine, SMT
    <3>2. CASE EnsureServed(m) BY <2>2, <2>3, <2>4, <2>6, <3>2, EnsureServedFine, SMT
    <3>3. CASE EnsureRepeatsVerdict(m) \/ EnsureBurstBusy(m)
      BY <2>2, <2>3, <2>4, <2>6, <3>3, EnsureAnsweredFine, SMT
    <3>4. CASE EnsureQueued(m) BY <2>2, <2>3, <2>4, <2>6, <3>4, EnsureQueuedFine, SMT
    <3> QED BY <1>10, <3>1, <3>2, <3>3, <3>4, SMT DEF Ensure
  <2> QED BY <1>1, <1>2, <1>6, <2>1, <2>5, <2>7, SteppedIs, SMT
<1>11. CASE CancelEnsure(m) \/ WaiterTimeout(m)
  <2>1. /\ m.cmd = "cancelEnsure" \/ m.cmd = "waiterTimeout"
        /\ m.cmd = "cancelEnsure" \/ WaiterTimeout(m)
        /\ life' = life
    BY <1>11 DEF CancelEnsure, WaiterTimeout, Take
  <2>2. m.caller \in Caller BY <1>4, <2>1
  <2>3. m.key \in Key \/ CancelEnsure(m)
    <3>1. WaiterTimeout(m) => m.cmd = "waiterTimeout" BY DEF WaiterTimeout, Take
    <3> QED BY <1>4, <1>11, <3>1, SMT
  <2>4. Ready(W) BY <1>8, <2>1
  <2>5. Stepped(W) BY <1>11, <2>2, <2>3, <2>4, CancelFine, SMT
  <2> QED BY <1>7, <2>1, <2>5
<1>12. CASE Release(m)
  <2>1. m.cmd = "release" /\ life' = life BY <1>12 DEF Release, Take
  <2>2. m.caller \in Caller /\ m.key \in Key /\ m.proc \in Proc BY <1>4, <2>1, SMT
  <2>3. o.lease[m.caller] = [key |-> m.key, proc |-> m.proc] BY <1>2, <2>1, SMT DEF CallsOK
  <2>4. Ready(W) BY <1>8, <2>1, SMT
  <2>5. /\ Ended(o', W, life', cmds') /\ Unhurried(o, o')
        /\ Kept([o EXCEPT !.lease[m.caller] = NoLease], o', W)
    BY <1>12, <2>2, <2>3, <2>4, ReleaseFine, SMT
  <2>6. \A c \in Caller : c \notin W \/ o.reply[c] # "none" =>
          /\ o'.reply[c] = o.reply[c]
          /\ c # m.caller => o'.lease[c] = o.lease[c]
    <3>1. o \in OwnerType /\ o.lease \in [Caller -> Lease] BY <1>2 DEF TypeOK, OwnerType
    <3> DEFINE d == [o EXCEPT !.lease[m.caller] = NoLease]
    <3>2. d.reply = o.reply /\ \A c \in Caller \ {m.caller} : d.lease[c] = o.lease[c]
      BY <3>1 DEF OwnerType
    <3> HIDE DEF d
    <3> QED BY <2>5, <3>2, SMT DEF Kept, d
  <2>7. \A n \in cmds' : ~(n.cmd = "release" /\ n.caller = m.caller)
    <3>1. \A n \in cmds : n.cmd = "release" /\ n.caller = m.caller => n = m
      BY <1>2, <2>1 DEF CallsOK
    <3> QED BY <1>1, <3>1
  <2>8. Accepted' = W BY <1>5, <2>1
  <2>9. CallsOK' BY <1>1, <1>2, <1>6, <2>1, <2>6, <2>7, <2>8, CallsKept
  <2>10. Answers BY <2>6 DEF Answers
  <2>11. Signals BY <2>5 DEF Unhurried, Signals
  <2> QED BY <2>5, <2>8, <2>9, <2>10, <2>11, SMT DEF BInv
<1>13. CASE Stop(m)
  <2>1. m.cmd = "stop" /\ life' = life BY <1>13 DEF Stop, Take
  <2> QED BY <1>4, <1>7, <1>8, <1>13, <2>1, StopFine, SMT
<1>14. CASE StartResult(m)
  <2>1. m.cmd = "startResult" /\ life' = life BY <1>14 DEF StartResult, Take
  <2>2. Probed(Env, m.proc) BY <2>1 DEF Probed, Env
  <2>3. m.key \in Key /\ m.proc \in Proc BY <1>4, <2>1
  <2>4. o.specs[m.key].proc = m.proc => o.specs[m.key].state \in {"starting", "draining"}
    BY <2>2, <2>3, ManagerAssumption DEF IInv, OK, ProbesOK
  <2> QED BY <1>7, <1>8, <1>14, <2>1, <2>3, <2>4, StartResultFine, SMT
<1>15. CASE ChildExited(m)
  <2>1. m.cmd = "childExited" /\ life' = life BY <1>15 DEF ChildExited, Take
  <2>2. life[m.proc] = "exited" BY <1>2, <2>1 DEF CallsOK
  <2> QED BY <1>4, <1>7, <1>8, <1>15, <2>1, <2>2, ChildExitedFine
<1>16. CASE BackoffFire(m)
  <2>1. m.cmd = "backoffFire" /\ life' = life BY <1>16 DEF BackoffFire, Take
  <2> QED BY <1>3, <1>4, <1>7, <1>16, <2>1, BackoffFireFine, SMT
<1>17. CASE DrainGraceExpired(m)
  <2>1. m.cmd = "drainGraceExpired" /\ life' = life BY <1>17 DEF DrainGraceExpired, Take
  <2>2. m = cmdDrainGraceExpired(m.key, m.proc) BY <1>2, <2>1, DrainCommand
  <2>3. m.key \in Key /\ m.proc \in Proc BY <1>4, <2>1
  <2>4. /\ Ended(o', W, life', cmds') /\ Kept(o, o', W)
        /\ \A k \in Key : /\ o'.specs[k].proc = o.specs[k].proc
                          /\ o'.specs[k].intentionalStop
                          => \/ o.specs[k].intentionalStop \/ o'.specs[k].inFlight = 0
                             \/ k = m.key /\ o.specs[k].proc = m.proc
    BY <1>3, <1>17, <2>2, <2>3, DrainGraceExpiredFine
  <2>5. Accepted' = W BY <1>5, <2>1
  <2>6. CallsOK' BY <1>1, <1>2, <1>6, <2>1, <2>4, <2>5, CallsKept, SMT DEF Kept
  <2>7. Answers BY <2>4 DEF Answers, Kept
  <2>8. m \in cmds \ cmds' BY <1>1
  <2>9. Signals BY <2>2, <2>4, <2>8 DEF Signals
  <2> QED BY <2>4, <2>5, <2>6, <2>7, <2>9, SMT DEF BInv
<1>18. CASE KillGraceExpired(m)
  <2>1. /\ m.cmd = "killGraceExpired"
        /\ life' = IF o.specs[m.key].proc = m.proc /\ life[m.proc] = "alive"
                   THEN [life EXCEPT ![m.proc] = "killed"] ELSE life
    BY <1>18 DEF KillGraceExpired, Take
  <2>2. m.key \in Key /\ m.proc \in Proc BY <1>4, <2>1
  <2>3. Stepped(W) BY <1>2, <1>3, <1>18, <2>2, KillGraceExpiredFine
  <2>4. \A n \in cmds' : n.cmd = "childExited" => life'[n.proc] = "exited"
    <3> SUFFICES ASSUME NEW n \in cmds', n.cmd = "childExited" PROVE life'[n.proc] = "exited"
      OBVIOUS
    <3>1. n \in cmds /\ n \in Command \cup Timer BY <1>2
    <3>2. n.proc \in Proc BY <3>1, CommandFields
    <3>3. life[n.proc] = "exited" BY <1>2, <3>1 DEF CallsOK
    <3> QED BY <1>2, <2>1, <3>2, <3>3
  <2> QED BY <1>1, <1>2, <1>5, <2>1, <2>3, <2>4, SteppedIs
<1>19. CASE Close(m)
  <2>1. m.cmd = "close" /\ life' = life BY <1>19 DEF Close, Take
  <2> QED BY <1>7, <1>8, <1>19, <2>1, CloseFine
<1> QED BY <1>9, <1>10, <1>11, <1>12, <1>13, <1>14, <1>15, <1>16, <1>17, <1>18, <1>19, SMT DEF handle

(***************************************************************************)
(* The goroutines around the owner.                                        *)
(***************************************************************************)

\* More commands are on the channel, or fewer requests.
LEMMA EndedWith ==
  ASSUME NEW b, NEW W, NEW L, NEW M, NEW N, Ended(b, W, L, M),
         \A m \in M : m \in N \/ m.cmd = "ensure"
  PROVE  Ended(b, W, L, N)
<1>1. b \in OwnerType /\ Armed(b, L, M) BY DEF Ended, Good
<1>2. Armed(b, L, N)
  <2> SUFFICES ASSUME NEW k \in Key
               PROVE  LET p == b.specs[k].proc
                      IN  /\ b.specs[k].state = "draining" /\ p # Nil =>
                               \/ L[p] # "alive"
                               \/ cmdDrainGraceExpired(k, p) \in N \cup b.armed
                               \/ cmdKillGraceExpired(k, p) \in N \cup b.armed
                          /\ b.specs[k].state = "backoff" =>
                               \E m \in N \cup b.armed : m.cmd = "backoffFire" /\ m.key = k
    BY DEF Armed
  <2> DEFINE p == b.specs[k].proc
  <2>1. p # Nil => p \in Proc BY <1>1 DEF OwnerType, SpecState
  <2>2. p # Nil => /\ cmdDrainGraceExpired(k, p).cmd = "drainGraceExpired"
                   /\ cmdKillGraceExpired(k, p).cmd = "killGraceExpired"
    BY <2>1, DrainTimer, KillTimer, SMT
  <2>3. /\ b.specs[k].state = "draining" /\ p # Nil =>
             \/ L[p] # "alive"
             \/ cmdDrainGraceExpired(k, p) \in M \cup b.armed
             \/ cmdKillGraceExpired(k, p) \in M \cup b.armed
        /\ b.specs[k].state = "backoff" =>
             \E m \in M \cup b.armed : m.cmd = "backoffFire" /\ m.key = k
    BY <1>1 DEF Armed
  <2> HIDE DEF p
  <2>4. b.specs[k].state = "draining" /\ p # Nil =>
          \/ L[p] # "alive"
          \/ cmdDrainGraceExpired(k, p) \in N \cup b.armed
          \/ cmdKillGraceExpired(k, p) \in N \cup b.armed
    BY <2>2, <2>3
  <2>5. b.specs[k].state = "backoff" =>
          \E m \in N \cup b.armed : m.cmd = "backoffFire" /\ m.key = k
    BY <2>3
  <2> QED BY <2>4, <2>5 DEF p
<1> QED BY <1>2 DEF Ended, Good

\* A command that is neither a request nor a release is posted.
LEMMA PostedCalls ==
  ASSUME TypeOK, CallsOK, phase' = phase, o'.reply = o.reply, o'.lease = o.lease,
         NEW m, cmds' = cmds \/ cmds' = cmds \cup {m},
         m.cmd # "ensure", m.cmd # "release", m.cmd = "childExited" => life'[m.proc] = "exited",
         \A n \in cmds : n.cmd = "childExited" => life'[n.proc] = "exited"
  PROVE  CallsOK' /\ Accepted' = Accepted
<1>1. \A n \in cmds' : n.cmd \in {"ensure", "release"} => n \in cmds OBVIOUS
<1>2. Accepted' = Accepted
  <2>1. \A c \in Caller : (\A n \in cmds' : ~(n.cmd = "ensure" /\ n.caller = c))
                            <=> \A n \in cmds : ~(n.cmd = "ensure" /\ n.caller = c)
    OBVIOUS
  <2> QED BY <2>1 DEF Accepted
<1>3. \A n \in cmds' : n.cmd = "childExited" => life'[n.proc] = "exited" OBVIOUS
<1> QED BY <1>1, <1>2, <1>3, SMT DEF CallsOK

\* The owner's record stays as it is.
LEMMA Unmoved ==
  ASSUME o'.specs = o.specs, o'.reply = o.reply
  PROVE  Answers /\ Signals
BY DEF Answers, Signals

LEMMA CallEnsureFine ==
  ASSUME TypeOK, BInv, NEW c \in Caller, NEW k \in Key, NEW f \in BOOLEAN, CallEnsure(c, k, f)
  PROVE  BInv'
<1> DEFINE m == cmdEnsure(k, c, f)
<1>0. /\ phase[c] = "idle" /\ phase' = [phase EXCEPT ![c] = "asked"]
      /\ cmds' = cmds \cup {m} /\ o' = o /\ life' = life
      /\ phase \in [Caller -> {"idle", "asked", "cancelled", "done"}]
  BY DEF CallEnsure, post, TypeOK
<1>1. m.cmd = "ensure" /\ m.caller = c BY DEF cmdEnsure, NoCmd
<1>2. \A n \in cmds : n.cmd \in {"ensure", "release"} => n.caller \in Caller
  <2>1. \A n \in cmds : n \in Command \cup Timer BY DEF TypeOK
  <2> QED BY <2>1, CommandFields, SMT
<1> HIDE DEF m
<1>3. \A n \in cmds : n.cmd \in {"ensure", "release"} => n.caller # c
  BY <1>0 DEF BInv, CallsOK
<1>4. phase'[c] = "asked" /\ \A x \in Caller \ {c} : phase'[x] = phase[x] BY <1>0
<1>5. Accepted' = Accepted
  <2>1. c \notin Accepted BY <1>0 DEF Accepted
  <2>2. c \notin Accepted' BY <1>0, <1>1 DEF Accepted
  <2>3. ASSUME NEW x \in Caller \ {c} PROVE x \in Accepted' <=> x \in Accepted
    BY <1>0, <1>1, <1>4 DEF Accepted
  <2>4. Accepted' \subseteq Caller /\ Accepted \subseteq Caller BY DEF Accepted
  <2> QED BY <2>1, <2>2, <2>3, <2>4, SMT
<1>6. Ended(o, Accepted, life, cmds') BY <1>0, EndedWith DEF BInv
<1>7. CallsOK'
  <2>1. \A x \in Caller : phase'[x] = "idle" => o'.reply[x] = "none"
    BY <1>0, <1>4 DEF BInv, CallsOK
  <2>2. o.reply[c] = "none" BY <1>0 DEF BInv, CallsOK
  <2>3. \A n \in cmds' : n.cmd = "ensure" =>
          /\ phase'[n.caller] = "asked" /\ o'.reply[n.caller] = "none"
          /\ \A i \in cmds' : i.cmd = "ensure" /\ i.caller = n.caller => i = n
    BY <1>0, <1>1, <1>2, <1>3, <1>4, <2>2, SMT DEF BInv, CallsOK
  <2>4. \A n \in cmds' : n.cmd = "release" =>
          /\ phase'[n.caller] = "done"
          /\ o'.lease[n.caller] = [key |-> n.key, proc |-> n.proc]
          /\ \A i \in cmds' : i.cmd = "release" /\ i.caller = n.caller => i = n
    BY <1>0, <1>1, <1>2, <1>3, <1>4, SMT DEF BInv, CallsOK
  <2>5. \A n \in cmds' : n.cmd = "childExited" => life'[n.proc] = "exited"
    BY <1>0, <1>1 DEF BInv, CallsOK
  <2> QED BY <2>1, <2>3, <2>4, <2>5 DEF CallsOK
<1> QED BY <1>0, <1>5, <1>6, <1>7, SMT DEF BInv

LEMMA CallCancelFine ==
  ASSUME TypeOK, BInv, NEW c \in Caller, CallCancel(c)
  PROVE  BInv'
<1> DEFINE m == cmdCancelEnsure(c)
<1>0. /\ phase[c] = "asked" /\ phase' = [phase EXCEPT ![c] = "cancelled"]
      /\ \A n \in cmds : ~(n.cmd = "ensure" /\ n.caller = c)
      /\ cmds' = cmds \cup {m} /\ o' = o /\ life' = life
      /\ phase \in [Caller -> {"idle", "asked", "cancelled", "done"}]
  BY DEF CallCancel, post, TypeOK
<1>1. m.cmd = "cancelEnsure" BY DEF cmdCancelEnsure, NoCmd
<1> HIDE DEF m
<1>2. phase'[c] = "cancelled" /\ \A x \in Caller \ {c} : phase'[x] = phase[x] BY <1>0, SMT
<1>3. \A n \in cmds : n.cmd \in {"ensure", "release"} => n.caller \in Caller \ {c}
  <2> SUFFICES ASSUME NEW n \in cmds, n.cmd \in {"ensure", "release"}
               PROVE  n.caller \in Caller \ {c}
    OBVIOUS
  <2>1. CASE n.cmd = "ensure" BY <1>0, <2>1, PhaseOf DEF BInv
  <2>2. CASE n.cmd = "release" BY <1>0, <2>2, PhaseOf DEF BInv
  <2> QED BY <2>1, <2>2
<1>4. Accepted' = Accepted
  <2>1. c \in Accepted BY <1>0 DEF Accepted
  <2>2. c \in Accepted' BY <1>0, <1>1, <1>2 DEF Accepted
  <2>3. ASSUME NEW x \in Caller \ {c} PROVE x \in Accepted' <=> x \in Accepted
    BY <1>0, <1>1, <1>2, SMT DEF Accepted
  <2>4. Accepted' \subseteq Caller /\ Accepted \subseteq Caller BY DEF Accepted
  <2> QED BY <2>1, <2>2, <2>3, <2>4, SMT
<1>5. Ended(o, Accepted, life, cmds') BY <1>0, EndedWith, SMT DEF BInv
<1>6. CallsOK'
  <2>1. \A n \in cmds' : n.cmd \in {"ensure", "release", "childExited"} => n \in cmds
    BY <1>0, <1>1
  <2>2. \A x \in Caller : phase'[x] = "idle" => o'.reply[x] = "none"
    BY <1>0, <1>2 DEF BInv, CallsOK
  <2> QED BY <1>0, <1>2, <1>3, <2>1, <2>2, SMT DEF BInv, CallsOK
<1> QED BY <1>0, <1>4, <1>5, <1>6, SMT DEF BInv

\* A caller that holds a lease lets it go: it is answered, so nobody waits for it.
LEMMA CallReleaseFine ==
  ASSUME TypeOK, BInv, NEW c \in Caller, CallRelease(c)
  PROVE  BInv'
<1> DEFINE m == cmdRelease(o.lease[c].key, o.lease[c].proc, c)
<1>0. /\ phase[c] \in {"asked", "cancelled"} /\ phase' = [phase EXCEPT ![c] = "done"]
      /\ cmds' = cmds \cup {m} /\ o' = o /\ life' = life /\ o.lease[c] # NoLease
      /\ phase \in [Caller -> {"idle", "asked", "cancelled", "done"}]
  BY DEF CallRelease, post, TypeOK
<1>1. /\ m.cmd = "release" /\ m.caller = c
      /\ m.key = o.lease[c].key /\ m.proc = o.lease[c].proc
  BY DEF cmdRelease, NoCmd
<1>2. o.lease[c] = [key |-> m.key, proc |-> m.proc]
  <2>1. o.lease[c] \in [key : Key, proc : Proc] BY <1>0 DEF TypeOK, OwnerType, Lease
  <2> QED BY <1>1, <2>1
<1> HIDE DEF m
<1>3. phase'[c] = "done" /\ \A x \in Caller \ {c} : phase'[x] = phase[x] BY <1>0
<1>4. o.reply[c] # "none" BY <1>0 DEF BInv, Ended, Good, Leases
<1>5. \A n \in cmds : n.cmd \in {"ensure", "release"} => n.caller \in Caller \ {c}
  <2> SUFFICES ASSUME NEW n \in cmds, n.cmd \in {"ensure", "release"}
               PROVE  n.caller \in Caller \ {c}
    OBVIOUS
  <2>1. CASE n.cmd = "ensure" BY <1>4, <2>1, PhaseOf DEF BInv
  <2>2. CASE n.cmd = "release" BY <1>0, <2>2, PhaseOf DEF BInv
  <2> QED BY <2>1, <2>2
<1>6. Accepted' = Accepted \ {c}
  <2>1. c \notin Accepted' BY <1>3 DEF Accepted
  <2>2. ASSUME NEW x \in Caller \ {c} PROVE x \in Accepted' <=> x \in Accepted
    BY <1>0, <1>1, <1>3 DEF Accepted
  <2>3. Accepted' \subseteq Caller /\ Accepted \subseteq Caller BY DEF Accepted
  <2> QED BY <2>1, <2>2, <2>3
<1>7. Ended(o, Accepted, life, cmds') BY <1>0, EndedWith DEF BInv
<1>8. Waiting(o, Accepted \ {c}) BY <1>4, <1>7 DEF Ended, Good, Waiting
<1>9. Ended(o, Accepted \ {c}, life, cmds') BY <1>7, <1>8 DEF Ended, Good
<1>10. CallsOK'
  <2>1. \A n \in cmds' : n \in cmds \/ n = m BY <1>0
  <2>2. \A x \in Caller : phase'[x] = "idle" => o'.reply[x] = "none"
    BY <1>0, <1>3 DEF BInv, CallsOK
  <2>3. \A n \in cmds' : n.cmd = "ensure" =>
          /\ phase'[n.caller] = "asked" /\ o'.reply[n.caller] = "none"
          /\ \A i \in cmds' : i.cmd = "ensure" /\ i.caller = n.caller => i = n
    BY <1>0, <1>1, <1>3, <1>5, <2>1, SMT DEF BInv, CallsOK
  <2>4. \A n \in cmds' : n.cmd = "release" =>
          /\ phase'[n.caller] = "done"
          /\ o'.lease[n.caller] = [key |-> n.key, proc |-> n.proc]
          /\ \A i \in cmds' : i.cmd = "release" /\ i.caller = n.caller => i = n
    <3>1. CallsOK BY DEF BInv
    <3>2. ASSUME NEW n \in cmds, n.cmd = "release"
          PROVE  /\ n.caller \in Caller \ {c} /\ phase'[n.caller] = "done"
                 /\ o'.lease[n.caller] = [key |-> n.key, proc |-> n.proc]
                 /\ \A i \in cmds : i.cmd = "release" /\ i.caller = n.caller => i = n
      BY <1>0, <1>3, <1>5, <3>1, <3>2 DEF CallsOK
    <3>3. ASSUME NEW n \in cmds', n.cmd = "release", NEW i \in cmds', i.cmd = "release",
                 i.caller = n.caller
          PROVE  i = n
      BY <1>1, <2>1, <3>2, <3>3
    <3>4. m.cmd = "release" => /\ phase'[m.caller] = "done"
                              /\ o'.lease[m.caller] = [key |-> m.key, proc |-> m.proc]
      BY <1>0, <1>1, <1>2, <1>3
    <3> QED BY <2>1, <3>2, <3>3, <3>4
  <2>5. \A n \in cmds' : n.cmd = "childExited" => life'[n.proc] = "exited"
    BY <1>0, <1>1, <2>1 DEF BInv, CallsOK
  <2> QED BY <2>2, <2>3, <2>4, <2>5 DEF CallsOK
<1> QED BY <1>0, <1>6, <1>9, <1>10 DEF BInv

LEMMA AbandonFine ==
  ASSUME TypeOK, BInv, NEW m \in cmds, Abandon(m)
  PROVE  BInv'
<1> DEFINE c == m.caller
<1>0. /\ m.cmd = "ensure" /\ cmds' = cmds \ {m} /\ phase' = [phase EXCEPT ![c] = "done"]
      /\ o' = o /\ life' = life /\ phase \in [Caller -> {"idle", "asked", "cancelled", "done"}]
      /\ m \in Command \cup Timer
  BY DEF Abandon, TypeOK
<1>1. c \in Caller BY <1>0, CommandFields
<1>2. phase'[c] = "done" /\ \A x \in Caller \ {c} : phase'[x] = phase[x] BY <1>0, <1>1
<1>3. \A n \in cmds' : n.cmd \in {"ensure", "release"} => n.caller \in Caller \ {c}
  <2> SUFFICES ASSUME NEW n \in cmds \ {m}, n.cmd \in {"ensure", "release"}
               PROVE  n.caller \in Caller \ {c}
    BY <1>0
  <2>1. \A i \in cmds : i.cmd = "ensure" /\ i.caller = c => i = m BY <1>0 DEF BInv, CallsOK
  <2>2. phase[c] = "asked" BY <1>0, PhaseOf DEF BInv
  <2>3. CASE n.cmd = "ensure" BY <2>1, <2>3, PhaseOf DEF BInv
  <2>4. CASE n.cmd = "release" BY <2>2, <2>4, PhaseOf DEF BInv
  <2> QED BY <2>3, <2>4
<1>4. Accepted' = Accepted
  <2>1. c \notin Accepted BY <1>0 DEF Accepted
  <2>2. c \notin Accepted' BY <1>2 DEF Accepted
  <2>3. ASSUME NEW x \in Caller \ {c} PROVE x \in Accepted' <=> x \in Accepted
    BY <1>0, <1>2 DEF Accepted
  <2>4. Accepted' \subseteq Caller /\ Accepted \subseteq Caller BY DEF Accepted
  <2> QED BY <2>1, <2>2, <2>3, <2>4, SMT
<1>5. Ended(o, Accepted, life, cmds') BY <1>0, EndedWith DEF BInv
<1>6. CallsOK'
  <2>1. \A x \in Caller : phase'[x] = "idle" => o'.reply[x] = "none"
    BY <1>0, <1>2 DEF BInv, CallsOK
  <2>2. cmds' \subseteq cmds BY <1>0
  <2> QED BY <1>0, <1>2, <1>3, <2>1, <2>2, SMT DEF BInv, CallsOK
<1> QED BY <1>0, <1>4, <1>5, <1>6 DEF BInv

\* A timer moves from the timers to the channel.
LEMMA TimerFiresFine ==
  ASSUME TypeOK, BInv, NEW m \in o.armed, TimerFires(m)
  PROVE  BInv' /\ o'.specs = o.specs /\ o'.reply = o.reply
<1> DEFINE A == o.armed \ {m}
<1>0. /\ o' = [o EXCEPT !.armed = A] /\ cmds' = cmds \cup {m} /\ life' = life /\ phase' = phase
      /\ o \in OwnerType
  BY DEF TimerFires, post, TypeOK
<1>1. m \in Timer /\ A \in SUBSET Timer BY <1>0 DEF OwnerType
<1>2. m.cmd \notin {"ensure", "release", "childExited"}
  BY <1>1, WaiterTimer, BackoffTimerFields, DrainTimer, KillTimer, SMT DEF Timer
<1>3. cmds' \cup A = cmds \cup o.armed BY <1>0
<1> HIDE DEF A
<1> DEFINE c == [o EXCEPT !.armed = A]
<1>4. /\ c \in OwnerType /\ c.specs = o.specs /\ c.reply = o.reply /\ c.lease = o.lease
      /\ c.armed = A /\ c.work = o.work /\ c.decided = o.decided /\ c.stopped = o.stopped
      /\ c.closing = o.closing
  <2>1. c \in OwnerType BY <1>0, <1>1, FieldTypes
  <2> QED BY <1>0, <2>1 DEF OwnerType
<1>5. o' = c BY <1>0
<1> HIDE DEF c
<1>6. CallsOK' /\ Accepted' = Accepted
  <2>1. \A n \in cmds : n.cmd = "childExited" => life'[n.proc] = "exited"
    BY <1>0 DEF BInv, CallsOK
  <2> QED BY <1>0, <1>2, <1>4, <1>5, <2>1, PostedCalls, SMT DEF BInv
<1>7. Good(c, Accepted, life, cmds')
  <2>1. Armed(c, life, cmds') BY <1>3, <1>4, SMT DEF BInv, Ended, Good, Armed
  <2>2. Waiting(c, Accepted) BY <1>4, SMT DEF BInv, Ended, Good, Waiting
  <2>3. Leases(c) BY <1>4, SMT DEF BInv, Ended, Good, Leases, leaseOf
  <2>4. Empties(c) /\ Homes(c, life) BY <1>4, SMT DEF BInv, Ended, Good, Empties, Homes
  <2> QED BY <1>4, <2>1, <2>2, <2>3, <2>4, SMT DEF Good
<1>8. ~c.stopped => Mid(c, {}) BY <1>4, SMT DEF BInv, Ended, Mid, Unasked, toAsk
<1>9. TurnOK(c) BY <1>4 DEF BInv, Ended, TurnOK, live
<1> QED BY <1>0, <1>4, <1>5, <1>6, <1>7, <1>8, <1>9, SMT DEF BInv, Ended

LEMMA ChildExitsFine ==
  ASSUME TypeOK, BInv, NEW k \in Key, NEW p \in Proc, NEW f \in BOOLEAN, ChildExits(k, p, f)
  PROVE  BInv'
<1> DEFINE m == cmdChildExited(k, p, f)
<1>0. /\ life' = [life EXCEPT ![p] = "exited"] /\ cmds' = cmds \cup {m} /\ o' = o /\ phase' = phase
      /\ life \in [Proc -> {"alive", "killed", "exited"}] /\ o \in OwnerType
  BY DEF ChildExits, post, TypeOK
<1>1. m.cmd = "childExited" /\ m.proc = p BY DEF cmdChildExited, NoCmd
<1> HIDE DEF m
<1>2. \A q \in Proc : /\ life'[q] = "exited" \/ life'[q] = life[q]
                      /\ life[q] = "exited" => life'[q] = "exited"
  BY <1>0
<1>3. \A n \in cmds : n.cmd = "childExited" => life'[n.proc] = "exited"
  <2> SUFFICES ASSUME NEW n \in cmds, n.cmd = "childExited" PROVE life'[n.proc] = "exited"
    OBVIOUS
  <2>1. n \in Command \cup Timer BY DEF TypeOK
  <2>2. n.proc \in Proc BY <2>1, CommandFields
  <2> QED BY <1>2, <2>2, SMT DEF BInv, CallsOK
<1>4. life'[p] = "exited" BY <1>0
<1>5. CallsOK' /\ Accepted' = Accepted BY <1>0, <1>1, <1>3, <1>4, PostedCalls DEF BInv
<1>6. Ended(o, Accepted, life, cmds') BY <1>0, EndedWith DEF BInv
<1>7. Homes(o, life') BY <1>2, <1>6 DEF Ended, Good, Homes
<1>8. Armed(o, life', cmds')
  <2>1. \A j \in Key : o.specs[j].proc # Nil => o.specs[j].proc \in Proc
    BY <1>0 DEF OwnerType, SpecState
  <2>2. Armed(o, life, cmds') BY <1>6 DEF Ended, Good
  <2> QED BY <1>2, <2>1, <2>2, SMT DEF Armed
<1> QED BY <1>0, <1>5, <1>6, <1>7, <1>8, SMT DEF BInv, Ended, Good

\* Every step of a goroutine around the owner keeps the invariant.
LEMMA GoroutineFine ==
  ASSUME TypeOK, BInv, Goroutine
  PROVE  BInv' /\ Answers /\ Signals
<1>1. ASSUME NEW m, cmds' = cmds \/ cmds' = cmds \cup {m}, UNCHANGED <<o, life, phase>>,
             m.cmd \notin {"ensure", "release", "childExited"}
      PROVE  BInv' /\ Answers /\ Signals
  <2>1. CallsOK' /\ Accepted' = Accepted
    <3>1. \A n \in cmds : n.cmd = "childExited" => life'[n.proc] = "exited"
      BY <1>1 DEF BInv, CallsOK
    <3> QED BY <1>1, <3>1, PostedCalls DEF BInv
  <2>2. Ended(o, Accepted, life, cmds') BY <1>1, EndedWith DEF BInv
  <2> QED BY <1>1, <2>1, <2>2, Unmoved DEF BInv
<1>2. ASSUME NEW c \in Caller, NEW k \in Key, NEW f \in BOOLEAN, CallEnsure(c, k, f)
      PROVE  BInv' /\ Answers /\ Signals
  BY <1>2, CallEnsureFine, Unmoved DEF CallEnsure
<1>3. ASSUME NEW c \in Caller, CallCancel(c) PROVE BInv' /\ Answers /\ Signals
  BY <1>3, CallCancelFine, Unmoved DEF CallCancel
<1>4. ASSUME NEW c \in Caller, CallRelease(c) PROVE BInv' /\ Answers /\ Signals
  BY <1>4, CallReleaseFine, Unmoved DEF CallRelease
<1>5. ASSUME NEW m \in cmds, Abandon(m) PROVE BInv' /\ Answers /\ Signals
  BY <1>5, AbandonFine, Unmoved DEF Abandon
<1>6. ASSUME NEW d \in Doc, CallApply(d) PROVE BInv' /\ Answers /\ Signals
  <2>1. cmdApply(d).cmd = "apply" BY DEF cmdApply, NoCmd
  <2> QED BY <1>1, <1>6, <2>1 DEF CallApply, post
<1>7. ASSUME NEW k \in Key, CallStop(k) PROVE BInv' /\ Answers /\ Signals
  <2>1. cmdStop(k).cmd = "stop" BY DEF cmdStop, NoCmd
  <2> QED BY <1>1, <1>7, <2>1 DEF CallStop, post
<1>8. ASSUME CallClose PROVE BInv' /\ Answers /\ Signals
  <2>1. cmdClose.cmd = "close" BY DEF cmdClose, NoCmd
  <2> QED BY <1>1, <1>8, <2>1 DEF CallClose, post
<1>9. ASSUME NEW m \in o.armed, TimerFires(m) PROVE BInv' /\ Answers /\ Signals
  BY <1>9, TimerFiresFine, Unmoved
<1>10. ASSUME NEW p \in Proc, NEW k \in Key, NEW f \in BOOLEAN, ChildExits(k, p, f)
       PROVE  BInv' /\ Answers /\ Signals
  BY <1>10, ChildExitsFine, Unmoved DEF ChildExits
<1>11. ASSUME NEW p \in Proc, pollHealthOK(p) \/ pollHealthTimeout(p) \/ pollHealthExited(p)
       PROVE  BInv' /\ Answers /\ Signals
  <2>1. PICK f \in BOOLEAN : /\ cmds' = cmds \/ cmds' = cmds \cup {cmdStartResult(poll[p], p, f)}
                             /\ UNCHANGED <<o, life, phase>>
    BY <1>11 DEF pollHealthOK, pollHealthTimeout, pollHealthExited, post
  <2>2. cmdStartResult(poll[p], p, f).cmd = "startResult" BY DEF cmdStartResult, NoCmd
  <2> QED BY <1>1, <2>1, <2>2
<1> QED BY <1>2, <1>3, <1>4, <1>5, <1>6, <1>7, <1>8, <1>9, <1>10, <1>11, SMT DEF Goroutine, Others

(***************************************************************************)
(* The theorems.                                                           *)
(***************************************************************************)

\* Callers are finitely many, so sets of them can be counted.
LEMMA CallersAreCounted == Counting
<1>1. Cardinality({}) = 0 BY FS_EmptySet
<1>2. \A c \in Caller : Cardinality({c}) = 1 BY FS_Singleton
<1>3. ASSUME NEW S \in SUBSET Caller PROVE IsFiniteSet(S) BY ManagerAssumption, FS_Subset
<1>4. ASSUME NEW S \in SUBSET Caller
      PROVE  Cardinality(S) \in Nat /\ (Cardinality(S) = 0 => S = {})
  BY <1>3, FS_CardinalityType, FS_EmptySet
<1>5. ASSUME NEW S \in SUBSET Caller, NEW c \in S PROVE Cardinality(S \ {c}) = Cardinality(S) - 1
  BY <1>3, FS_RemoveElement
<1>6. ASSUME NEW S \in SUBSET Caller, NEW U \in SUBSET Caller, S \cap U = {}
      PROVE  Cardinality(S \cup U) = Cardinality(S) + Cardinality(U)
  <2>1. Cardinality(S \cup U) = Cardinality(S) + Cardinality(U) - Cardinality({})
    BY <1>3, <1>6, FS_Union
  <2> QED BY <1>1, <1>4, <2>1, SMT
<1> QED BY <1>1, <1>2, <1>4, <1>5, <1>6 DEF Counting

\* The invariant of ManagerProofs holds in every state.
LEMMA Invariant == Spec => []IInv
<1>1. IInv /\ [Next]_vars => IInv' BY CallersAreCounted, NextIInv
<1> QED BY <1>1, InitIInv, PTL DEF Spec

\* Whatever the callers, the driver, an operator, the children and the timers do, the
\* owner's records, the commands on its channel and the goroutines' own state keep their
\* types.
THEOREM TypeCorrect == Spec => []TypeOK
<1>1. IInv => TypeOK BY DEF IInv
<1> QED BY <1>1, Invariant, PTL

\* For every number of specs, instances, callers, processes and documents, a spec is
\* starting or running only with a process, and one that has a process is starting,
\* running, draining or a start that failed and is being stopped: no order of exits,
\* probe results, drains, backoffs, pushes and Close parts the state from the process.
THEOREM StateAndProcess == Spec => []StateMatchesProc
<1>1. IInv => StateMatchesProc
  BY DEF IInv, OK, SpecsOK, Settled, StateMatchesProc
<1> QED BY <1>1, Invariant, PTL

LEMMA InitBInv == Init => BInv
<1> SUFFICES ASSUME Init PROVE BInv
  OBVIOUS
<1>1. o \in OwnerType BY InitIInv DEF IInv, TypeOK
<1>2. /\ o.specs = [k \in Key |-> absent] /\ o.armed = {} /\ o.decided = {}
      /\ o.closing = FALSE /\ o.stopped = FALSE /\ o.work = NoWork
      /\ o.reply = [c \in Caller |-> "none"] /\ o.lease = [c \in Caller |-> NoLease]
  BY DEF Init
<1>3. /\ cmds = {} /\ life = [p \in Proc |-> "exited"] /\ phase = [c \in Caller |-> "idle"]
  BY DEF Init
<1>4. /\ absent.pending = {} /\ absent.proc = Nil /\ absent.inFlight = 0
      /\ absent.state = "absent"
  BY DEF absent
<1>5. \A k \in Key : /\ o.specs[k].pending = {} /\ o.specs[k].proc = Nil
                     /\ o.specs[k].inFlight = 0 /\ o.specs[k].state = "absent"
  BY <1>2, <1>4
<1>6. \A c \in Caller : o.reply[c] = "none" /\ o.lease[c] = NoLease BY <1>2
<1>7. Accepted = {} BY <1>3 DEF Accepted
<1>8. Waiting(o, Accepted) BY <1>5, <1>7 DEF Waiting
<1>9. Leases(o) BY <1>5, <1>6 DEF Leases
<1>10. Empties(o) /\ Homes(o, life) BY <1>3, <1>5 DEF Empties, Homes
<1>11. Armed(o, life, cmds) BY <1>5 DEF Armed
<1>12. Unasked(o) = {} BY <1>5 DEF Unasked
<1>13. Mid(o, {}) BY <1>2, <1>5, <1>12 DEF Mid
<1>14. TurnOK(o) BY <1>2 DEF TurnOK
<1>15. CallsOK BY <1>3, <1>6 DEF CallsOK
<1> QED BY <1>1, <1>8, <1>9, <1>10, <1>11, <1>13, <1>14, <1>15, SMT DEF BInv, Ended, Good

LEMMA NextBInv ==
  ASSUME Counting, IInv, BInv, [Next]_vars
  PROVE  BInv' /\ Answers /\ Signals
<1>0. TypeOK /\ CallsOK BY DEF IInv, BInv
<1>1. CASE UNCHANGED vars
  <2>1. o' = o /\ cmds' = cmds /\ life' = life /\ phase' = phase BY <1>1 DEF vars
  <2>2. CallsOK' BY <1>0, <2>1 DEF CallsOK
  <2>3. Accepted' = Accepted BY <2>1 DEF Accepted
  <2> QED BY <2>1, <2>2, <2>3, Unmoved DEF BInv
<1>2. CASE FinishTurn
  <2>1. cmds' = cmds /\ phase' = phase BY <1>2 DEF FinishTurn
  <2>2. Accepted' = Accepted BY <2>1 DEF Accepted
  <2>3. o.work # NoWork
    <3> SUFFICES ASSUME o.work = NoWork PROVE FALSE OBVIOUS
    <3>1. /\ o.work.siblings = {} /\ o.work.first = {} /\ o.work.claims = <<>>
          /\ o.work.self = Nil /\ o.work.woken = {}
      BY SMT DEF NoWork
    <3> QED BY <1>2, <3>1 DEF FinishTurn, AskSibling, AskFirst, AskClaim, AskSelf, AskWoken
  <2>4. Fine(o, Accepted, life, cmds, {}) BY <2>3 DEF BInv, Ended, TurnOK, Fine
  <2>5. Stepped(Accepted) BY <1>0, <1>2, <2>4, FinishTurnFine
  <2>6. \A n \in cmds' : n.cmd = "childExited" => life'[n.proc] = "exited"
    <3> SUFFICES ASSUME NEW n \in cmds, n.cmd = "childExited" PROVE life'[n.proc] = "exited"
      BY <2>1
    <3>1. n \in Command \cup Timer BY <1>0 DEF TypeOK
    <3>2. n.proc \in Proc BY <3>1, CommandFields
    <3>3. life[n.proc] = "exited" BY <1>0 DEF CallsOK
    <3> QED BY <1>0, <1>2, <3>2, <3>3, ExitsKept
  <2> QED BY <1>0, <2>1, <2>2, <2>5, <2>6, SteppedIs
<1>3. CASE scanIdle
  <2>1. cmds' = cmds /\ phase' = phase /\ life' = life /\ ~o.stopped BY <1>3 DEF scanIdle
  <2>2. Accepted' = Accepted BY <2>1 DEF Accepted
  <2>3. Fine(o, Accepted, life, cmds, {}) BY <2>1 DEF BInv, Ended, Fine
  <2>4. Stepped(Accepted) BY <1>3, <2>3, ScanIdleFine
  <2>5. \A n \in cmds' : n.cmd = "childExited" => life'[n.proc] = "exited"
    BY <1>0, <2>1 DEF CallsOK
  <2> QED BY <1>0, <2>1, <2>2, <2>4, <2>5, SteppedIs, SMT
<1>4. CASE \E m \in cmds : handle(m)
  BY <1>4, HandleFine
<1>5. CASE Around
  BY <1>0, <1>5, GoroutineFine DEF Around
<1> QED BY <1>1, <1>2, <1>3, <1>4, <1>5 DEF Next, Owner, Done

\* Both invariants, at every step.
LEMMA Books == Spec => [](IInv /\ BInv) /\ [][Answers /\ Signals]_vars
<1>1. Init => IInv /\ BInv BY InitIInv, InitBInv
<1>2. IInv /\ BInv /\ [Next]_vars => (IInv /\ BInv)'
  BY CallersAreCounted, NextIInv, NextBInv
<1>3. IInv /\ BInv /\ [Next]_vars => [Answers /\ Signals]_vars
  BY CallersAreCounted, NextBInv
<1> QED BY <1>1, <1>2, <1>3, PTL DEF Spec

\* A call that the owner has accepted and not answered waits on exactly one instance, and
\* one that is answered, withdrawn or not yet taken on none: no pushed configuration, no
\* retired instance, refusal, crash, cancel or Close loses a waiter (failPending,
\* removeState, instanceForRequest) or leaves an answered one in a queue.
THEOREM EveryWaiterIsQueued == Spec => []WaitersAccounted
<1>1. BInv => WaitersAccounted
  <2> SUFFICES ASSUME BInv, NEW c \in Caller
               PROVE  LET queuedOn == {k \in Key : c \in o.specs[k].pending}
                          waits == /\ phase[c] \in {"asked", "cancelled"}
                                   /\ o.reply[c] = "none"
                                   /\ \A m \in cmds : ~(m.cmd = "ensure" /\ m.caller = c)
                      IN  IF waits THEN \E k \in Key : queuedOn = {k} ELSE queuedOn = {}
    BY DEF WaitersAccounted
  <2>0. Waiting(o, Accepted) BY DEF BInv, Ended, Good
  <2>1. CASE c \in Accepted /\ o.reply[c] = "none"
    <3>1. PICK k \in Key : c \in o.specs[k].pending BY <2>0, <2>1 DEF Waiting
    <3>2. {j \in Key : c \in o.specs[j].pending} = {k} BY <2>0, <3>1, SMT DEF Waiting
    <3> QED BY <2>1, <3>2 DEF Accepted
  <2>2. CASE ~(c \in Accepted /\ o.reply[c] = "none")
    <3>1. {j \in Key : c \in o.specs[j].pending} = {} BY <2>0, <2>2 DEF Waiting
    <3> QED BY <2>2, <3>1 DEF Accepted
  <2> QED BY <2>1, <2>2
<1> QED BY <1>1, Books, PTL

\* inFlight counts the leases on the current generation of an instance, whatever order
\* releases, exits, restarts and removals come in (handleRelease, onProcExited).
THEOREM LeasesAreCounted == Spec => []InFlightCountsLeases
<1>1. BInv => InFlightCountsLeases BY DEF BInv, Ended, Good, Leases, InFlightCountsLeases
<1> QED BY <1>1, Books, PTL

\* No child is lost or shared: a process that has not exited is that of exactly one
\* instance, and an owner that has stopped has left none behind (onProcExited, Close).
THEOREM EveryProcessHasAHome == Spec => []NoOrphanProcess
<1>1. BInv => NoOrphanProcess
  <2> SUFFICES ASSUME BInv PROVE NoOrphanProcess
    OBVIOUS
  <2>1. Homes(o, life) /\ TurnOK(o) BY DEF BInv, Ended, Good
  <2>2. ASSUME o.stopped, NEW p \in Proc PROVE life[p] = "exited"
    <3>1. \A k \in Key : o.specs[k].proc = Nil BY <2>1, <2>2 DEF TurnOK, live
    <3>2. p # Nil BY ManagerAssumption
    <3> QED BY <2>1, <3>1, <3>2 DEF Homes
  <2> QED BY <2>1, <2>2 DEF Homes, NoOrphanProcess
<1> QED BY <1>1, Books, PTL

\* A state that only a timer leaves has that timer: a draining process that is alive has
\* its drain or its kill grace still to come, and a crash-loop wait its backoff, whatever
\* timers were stopped, came late or were for an earlier generation (beginDrain,
\* terminateNow, enterBackoff, applyConfig).
THEOREM EveryTimerIsArmed == Spec => []TimersArmed
<1>1. BInv => TimersArmed BY DEF BInv, Ended, Good, Armed, TimersArmed, outstanding
<1> QED BY <1>1, Books, PTL

\* A caller is answered once: its channel holds one answer, and a second one would block
\* the owner for good.
THEOREM OneAnswer == Spec => AnsweredOnce
<1>1. [Answers /\ Signals]_vars =>
        [\A c \in Caller : o.reply[c] # "none" => o'.reply[c] = o.reply[c]]_vars
  BY DEF Answers
<1> QED BY <1>1, Books, PTL DEF AnsweredOnce

\* A process is told to stop only when nobody uses it, or when its own drain grace is
\* over (terminateNow, handleRelease, onDrainGraceExpired).
THEOREM OnlyTheIdleAreSignalled == Spec => SignalledOnlyWhenIdle
<1>1. [Answers /\ Signals]_vars =>
        [\A k \in Key :
           /\ o'.specs[k].proc = o.specs[k].proc
           /\ o'.specs[k].intentionalStop /\ ~o.specs[k].intentionalStop
           => \/ o'.specs[k].inFlight = 0
              \/ cmdDrainGraceExpired(k, o.specs[k].proc) \in cmds \ cmds']_vars
  BY DEF Signals
<1> QED BY <1>1, Books, PTL DEF SignalledOnlyWhenIdle
=============================================================================
