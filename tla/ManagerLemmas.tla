---------------------------- MODULE ManagerLemmas ----------------------------
(***************************************************************************)
(* Types of the owner's record, of its parts and of what is on its channel. *)
(***************************************************************************)
EXTENDS ManagerInvariants, TLAPS

\* Most leaves are first-order; the ones that count or compare numbers name SMT.
USE Zenon

(***************************************************************************)
(* What a command or a timer carries.                                      *)
(***************************************************************************)

\* A timer is what its constructor made of it.
LEMMA WaiterTimer ==
  ASSUME NEW k \in Key, NEW c \in Caller
  PROVE  cmdWaiterTimeout(k, c) \in Timer /\ cmdWaiterTimeout(k, c).cmd = "waiterTimeout"
<1>1. cmdWaiterTimeout(k, c).cmd = "waiterTimeout"
  BY DEF cmdWaiterTimeout, NoCmd
<1> QED BY <1>1, SMT DEF Timer

\* A backoff timer is what its constructor made of it.
LEMMA BackoffTimerFields ==
  ASSUME NEW k \in Key, NEW n \in BackoffTimer
  PROVE  cmdBackoffFire(k, n) \in Timer /\ cmdBackoffFire(k, n).cmd = "backoffFire"
<1>1. cmdBackoffFire(k, n).cmd = "backoffFire"
  BY DEF cmdBackoffFire, NoCmd
<1> QED BY <1>1, SMT DEF Timer

\* A kill timer is what its constructor made of it.
LEMMA KillTimer ==
  ASSUME NEW k \in Key, NEW p \in Proc
  PROVE  cmdKillGraceExpired(k, p) \in Timer /\ cmdKillGraceExpired(k, p).cmd = "killGraceExpired"
<1>1. cmdKillGraceExpired(k, p).cmd = "killGraceExpired"
  BY DEF cmdKillGraceExpired, NoCmd
<1> QED BY <1>1, SMT DEF Timer

\* A drain timer names the key and the process it was armed for.
LEMMA DrainTimer ==
  ASSUME NEW k \in Key, NEW p \in Proc
  PROVE  /\ cmdDrainGraceExpired(k, p) \in Timer
         /\ cmdDrainGraceExpired(k, p).cmd = "drainGraceExpired"
         /\ cmdDrainGraceExpired(k, p).key = k
         /\ cmdDrainGraceExpired(k, p).proc = p
<1>1. /\ cmdDrainGraceExpired(k, p).cmd = "drainGraceExpired"
      /\ cmdDrainGraceExpired(k, p).key = k
      /\ cmdDrainGraceExpired(k, p).proc = p
  BY SMTT(30) DEF cmdDrainGraceExpired, NoCmd
<1> QED BY <1>1, SMT DEF Timer

\* What a command of each kind carries, whoever posted it.
LEMMA CommandFields ==
  ASSUME NEW m \in Command \cup Timer
  PROVE  /\ m.cmd = "apply" => m.doc \in Doc
         /\ m.cmd \in {"ensure", "release", "cancelEnsure", "waiterTimeout"} => m.caller \in Caller
         /\ m.cmd \in {"stop", "ensure", "release", "childExited", "startResult", "waiterTimeout",
                       "backoffFire", "drainGraceExpired", "killGraceExpired"} => m.key \in Key
         /\ m.cmd \in {"release", "childExited", "startResult", "drainGraceExpired",
                       "killGraceExpired"} => m.proc \in Proc
         /\ m.flag \in BOOLEAN
<1> USE DEF NoCmd
<1>1. CASE \E d \in Doc : m = cmdApply(d)
  BY <1>1 DEF cmdApply
<1>2. CASE m = cmdClose
  BY <1>2 DEF cmdClose
<1>3. CASE \E k \in Key : m = cmdStop(k)
  BY <1>3 DEF cmdStop
<1>4. CASE \E k \in Key, c \in Caller, f \in BOOLEAN : m = cmdEnsure(k, c, f)
  BY <1>4 DEF cmdEnsure
<1>5. CASE \E c \in Caller : m = cmdCancelEnsure(c)
  BY <1>5 DEF cmdCancelEnsure
<1>6. CASE \E k \in Key, p \in Proc, c \in Caller : m = cmdRelease(k, p, c)
  BY <1>6 DEF cmdRelease
<1>7. CASE \E k \in Key, p \in Proc, f \in BOOLEAN : m = cmdChildExited(k, p, f)
  BY <1>7 DEF cmdChildExited
<1>8. CASE \E k \in Key, p \in Proc, f \in BOOLEAN : m = cmdStartResult(k, p, f)
  BY <1>8 DEF cmdStartResult
<1>9. CASE \E k \in Key, c \in Caller : m = cmdWaiterTimeout(k, c)
  BY <1>9 DEF cmdWaiterTimeout
<1>10. CASE \E k \in Key, n \in BackoffTimer : m = cmdBackoffFire(k, n)
  BY <1>10 DEF cmdBackoffFire
<1>11. CASE \E k \in Key, p \in Proc : m = cmdDrainGraceExpired(k, p)
  BY <1>11 DEF cmdDrainGraceExpired
<1>12. CASE \E k \in Key, p \in Proc : m = cmdKillGraceExpired(k, p)
  BY <1>12 DEF cmdKillGraceExpired
<1> QED
  BY <1>1, <1>2, <1>3, <1>4, <1>5, <1>6, <1>7, <1>8, <1>9, <1>10, <1>11, <1>12, SMTT(30)
  DEF Command, Timer

\* A record's field may be given any value of its type.
LEMMA FieldTypes ==
  ASSUME NEW b \in OwnerType
  PROVE  /\ \A A \in SUBSET Timer : [b EXCEPT !.armed = A] \in OwnerType
         /\ \A D \in SUBSET Key : [b EXCEPT !.decided = D] \in OwnerType
         /\ \A w \in Work : [b EXCEPT !.work = w] \in OwnerType
         /\ \A R \in SUBSET (Key \X Key) : [b EXCEPT !.older = R] \in OwnerType
         /\ \A f \in [Key -> SpecState] : [b EXCEPT !.specs = f] \in OwnerType
BY SMT DEF OwnerType

\* Every update of a spec's state that a handler makes keeps its type.
LEMMA SpecUpdates ==
  ASSUME NEW st \in SpecState
  PROVE  /\ \A P \in SUBSET Caller : [st EXCEPT !.pending = P] \in SpecState
         /\ \A n \in Nat : [st EXCEPT !.inFlight = n] \in SpecState
         /\ \A s \in State : [st EXCEPT !.state = s] \in SpecState
         /\ \A f \in BOOLEAN : [st EXCEPT !.waitingOnSibling = f] \in SpecState
         /\ \A f \in BOOLEAN : [st EXCEPT !.everHealthy = f] \in SpecState
         /\ \A f \in BOOLEAN : [st EXCEPT !.backoffOnExit = f] \in SpecState
         /\ \A f \in BOOLEAN : [st EXCEPT !.intentionalStop = f] \in SpecState
         /\ \A n \in Nat : [st EXCEPT !.ramBootstrapRetries = n] \in SpecState
         /\ \A q \in Seq(Key) : [st EXCEPT !.drainedFor = q] \in SpecState
         /\ \A t \in BackoffTimer \cup {Nil} : [st EXCEPT !.backoffTimer = t] \in SpecState
         /\ \A p \in Proc \cup {Nil} : [st EXCEPT !.proc = p] \in SpecState
BY SMTT(30) DEF SpecState

\* A caller that was not served holds no lease.
LEMMA NoLeaseType == NoLease \in Lease
BY DEF Lease

\* A key that the owner does not have has the type of one that it has.
LEMMA AbsentType == absent \in SpecState
<1>1. NoSpec \in SpecType /\ "absent" \in State /\ <<>> \in Seq(Key) BY SMT DEF SpecType, State
<1> QED BY <1>1 DEF absent, SpecState

\* A new spec is at rest.
LEMMA FreshType ==
  ASSUME NEW spec \in SpecType
  PROVE  fresh(spec) \in SpecState /\ Settled(fresh(spec)) /\ Gone(fresh(spec))
<1>1. "stopped" \in State BY DEF State
<1>2. fresh(spec) \in SpecState BY <1>1, AbsentType DEF fresh, SpecState
<1>3. fresh(spec).state = "stopped" /\ fresh(spec).proc = Nil /\ ~fresh(spec).intentionalStop
  BY DEF fresh, absent
<1> QED BY <1>2, <1>3 DEF Settled, Gone

\* There is always a name for a new backoff timer.
LEMMA NewTimerType ==
  ASSUME NEW b, NEW k
  PROVE  newTimer(b, k) \in BackoffTimer
<1> DEFINE unused == {n \in BackoffTimer : cmdBackoffFire(k, n) \notin b.armed \cup cmds}
<1>1. 1 \in BackoffTimer BY ManagerAssumption, SMT DEF BackoffTimer
<1>2. unused \subseteq BackoffTimer OBVIOUS
<1> HIDE DEF unused
<1>3. \E n \in BackoffTimer : unused # {} => n \in unused BY <1>1, <1>2
<1>4. (CHOOSE n \in BackoffTimer : unused # {} => n \in unused) \in BackoffTimer BY <1>3, SMTT(30)
<1> QED BY <1>4 DEF newTimer, unused

\* The settings of a configured spec.
LEMMA ConfiguredType ==
  ASSUME NEW d \in Doc \cup {NoDoc}, NEW s \in SpecID
  PROVE  d.specs[s] \in SpecType
<1>1. CASE d \in Doc BY <1>1, SMT DEF SpecType
<1>2. CASE d = NoDoc BY <1>2, SMT DEF SpecType, NoDoc
<1> QED BY <1>1, <1>2

\* The lists of asks that handlers leave behind.
LEMMA WorkTypes ==
  /\ [NoWork EXCEPT !.wake = "all"] \in Work
  /\ [NoWork EXCEPT !.wake = "afterStart"] \in Work
  /\ \A k \in Key : [NoWork EXCEPT !.self = k] \in Work
  /\ \A S \in SUBSET Key : [NoWork EXCEPT !.first = S, !.wake = "all"] \in Work
  /\ \A s \in Seq(Key), k \in Key :
       [NoWork EXCEPT !.claims = s, !.self = k, !.wake = "all"] \in Work
<1>1. <<>> \in Seq(Key) BY SMTT(30)
<1> QED BY <1>1 DEF NoWork, Work
=============================================================================
