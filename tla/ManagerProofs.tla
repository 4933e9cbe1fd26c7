---------------------------- MODULE ManagerProofs ----------------------------
(***************************************************************************)
(* The invariant IInv of ManagerInvariants holds initially and every action *)
(* keeps it: first what each of the owner's operators does to it, then the *)
(* handlers and the goroutines around the owner.                           *)
(***************************************************************************)
EXTENDS ManagerLemmas

\* Most leaves are first-order; the ones that count or compare numbers name SMT.
USE Zenon

(***************************************************************************)
(* The ways in which a handler changes the owner's record.                 *)
(***************************************************************************)

\* The outstanding drain timers of OK name keys.
LEMMA DrainKeys ==
  ASSUME NEW b, NEW X, NEW q, OK(b, X, q), NEW m \in b.armed \cup q.cmds, m.cmd = "drainGraceExpired"
  PROVE  m.key \in Key /\ m.proc \in Proc
<1>1. m \in Command \cup Timer
  BY DEF OK, OwnerType
<1> QED BY <1>1, CommandFields

\* Nothing but replies, leases, queue order, use order, decisions and timers other than
\* those of drains changes.
LEMMA Frame ==
  ASSUME NEW b, NEW X, NEW q, OK(b, X, q), NEW c \in OwnerType, c.specs = b.specs,
         c.closing = b.closing, c.work = b.work,
         \A m \in c.armed : m.cmd = "drainGraceExpired" => m \in b.armed
  PROVE  OK(c, X, q)
<1>1. SpecsOK(c, X) BY DEF OK, SpecsOK
<1>2. ClosingOK(c) BY DEF OK, ClosingOK
<1>3. DrainTimersOK(c, q) BY DEF OK, DrainTimersOK
<1>4. ProbesOK(c, q) BY SMTT(30) DEF OK, ProbesOK
<1> QED BY <1>1, <1>2, <1>3, <1>4 DEF OK

\* Timers may be armed, but for those of drains.
LEMMA ArmedOK ==
  ASSUME NEW b, NEW X, NEW q, OK(b, X, q), NEW A \in SUBSET Timer,
         \A m \in A : m.cmd = "drainGraceExpired" => m \in b.armed
  PROVE  OK([b EXCEPT !.armed = A], X, q)
<1> DEFINE c == [b EXCEPT !.armed = A]
<1>1. b \in OwnerType BY DEF OK
<1>2. c \in OwnerType BY <1>1, FieldTypes
<1>3. c.specs = b.specs /\ c.closing = b.closing /\ c.work = b.work /\ c.armed = A
  BY <1>1 DEF OwnerType
<1> QED BY <1>2, <1>3, Frame

\* Timers are stopped.
LEMMA UnarmOK ==
  ASSUME NEW b, NEW X, NEW q, OK(b, X, q), NEW S
  PROVE  OK([b EXCEPT !.armed = @ \ S], X, q)
<1>1. b.armed \in SUBSET Timer BY DEF OK, OwnerType
<1>2. b.armed \ S \in SUBSET Timer BY <1>1
<1>3. OK([b EXCEPT !.armed = b.armed \ S], X, q) BY <1>2, ArmedOK
<1> QED BY <1>3

\* The state of one key is replaced.
LEMMA Replace ==
  ASSUME NEW b, NEW X, NEW q, OK(b, X, q), NEW k \in Key, NEW st \in SpecState, NEW Y,
         \A j \in Key \ {k} : j \in X <=> j \in Y,
         IF k \in Y THEN Gone(st) ELSE Settled(st),
         st.proc # Nil =>
           /\ b.closing => st.state = "draining"
           /\ \A m \in b.armed \cup q.cmds :
                m.cmd = "drainGraceExpired" /\ m.key = k /\ m.proc = st.proc
                  => st.state = "draining"
           /\ Probed(q, st.proc) => st.state \in {"starting", "draining"}
  PROVE  OK([b EXCEPT !.specs[k] = st], Y, q)
<1> DEFINE c == [b EXCEPT !.specs[k] = st]
<1>1. b \in OwnerType /\ b.specs \in [Key -> SpecState] BY DEF OK, OwnerType
<1>2. c = [b EXCEPT !.specs = [b.specs EXCEPT ![k] = st]]
  OBVIOUS
<1>3. c.specs = [b.specs EXCEPT ![k] = st] /\ c.closing = b.closing /\ c.work = b.work
      /\ c.armed = b.armed
  BY <1>1 DEF OwnerType
<1>4. c \in OwnerType
  BY <1>1, <1>2, FieldTypes
<1> HIDE DEF c
<1>5. c.specs[k] = st /\ \A j \in Key \ {k} : c.specs[j] = b.specs[j]
  BY <1>1, <1>3
<1>6. SpecsOK(c, Y)
  BY <1>5 DEF OK, SpecsOK
<1>7. ClosingOK(c)
  BY <1>3, <1>5, SMT DEF OK, ClosingOK
<1>8. DrainTimersOK(c, q)
  <2> SUFFICES ASSUME NEW m \in b.armed \cup q.cmds, m.cmd = "drainGraceExpired",
                      c.specs[m.key].proc = m.proc
               PROVE  c.specs[m.key].state = "draining"
    BY <1>3 DEF DrainTimersOK
  <2>1. m.key \in Key /\ m.proc \in Proc
    BY DrainKeys
  <2>2. m.proc # Nil
    BY <2>1, ManagerAssumption
  <2> QED BY <1>5, <2>1, <2>2 DEF OK, DrainTimersOK
<1>9. ProbesOK(c, q)
  BY <1>5 DEF OK, ProbesOK
<1> QED BY <1>4, <1>6, <1>7, <1>8, <1>9 DEF OK, c

\* A key's state, process and intentionalStop stay as they are.
LEMMA Calm ==
  ASSUME NEW b, NEW X, NEW q, OK(b, X, q), NEW k \in Key, NEW st \in SpecState,
         st.state = b.specs[k].state, st.proc = b.specs[k].proc,
         st.intentionalStop = b.specs[k].intentionalStop
  PROVE  OK([b EXCEPT !.specs[k] = st], X, q)
<1>1. IF k \in X THEN Gone(st) ELSE Settled(st)
  BY DEF OK, SpecsOK, Gone, Settled
<1>2. b.closing /\ st.proc # Nil => st.state = "draining"
  BY DEF OK, ClosingOK
<1>3. \A m \in b.armed \cup q.cmds :
        m.cmd = "drainGraceExpired" /\ m.key = k /\ m.proc = st.proc => st.state = "draining"
  BY DEF OK, DrainTimersOK
<1>4. st.proc # Nil /\ Probed(q, st.proc) => st.state \in {"starting", "draining"}
  BY DEF OK, ProbesOK
<1> QED BY <1>1, <1>2, <1>3, <1>4, Replace

\* Every key's state may be replaced by one with the same process, or by one at rest.
LEMMA ReplaceAll ==
  ASSUME NEW b, NEW X, NEW q, OK(b, X, q), NEW f \in [Key -> SpecState],
         \A k \in Key : \/ /\ f[k].state = b.specs[k].state
                           /\ f[k].proc = b.specs[k].proc
                           /\ f[k].intentionalStop = b.specs[k].intentionalStop
                        \/ Settled(f[k]) /\ Gone(f[k])
  PROVE  /\ OK([b EXCEPT !.specs = f], X, q)
         /\ [b EXCEPT !.specs = f].specs = f /\ [b EXCEPT !.specs = f].closing = b.closing
<1> DEFINE c == [b EXCEPT !.specs = f]
<1>1. b \in OwnerType BY DEF OK
<1>2. c \in OwnerType BY <1>1, FieldTypes
<1>3. c.specs = f /\ c.closing = b.closing /\ c.work = b.work /\ c.armed = b.armed
  BY <1>1, SMTT(30) DEF OwnerType
<1> HIDE DEF c
<1>4. SpecsOK(c, X) BY <1>3 DEF OK, SpecsOK, Settled, Gone
<1>5. ClosingOK(c) BY <1>3 DEF OK, ClosingOK, Gone
<1>6. DrainTimersOK(c, q)
  <2> SUFFICES ASSUME NEW m \in b.armed \cup q.cmds, m.cmd = "drainGraceExpired",
                      f[m.key].proc = m.proc
               PROVE  f[m.key].state = "draining"
    BY <1>3 DEF DrainTimersOK
  <2>1. m.key \in Key /\ m.proc # Nil BY DrainKeys, ManagerAssumption, SMT
  <2> QED BY <2>1 DEF OK, DrainTimersOK, Gone
<1>7. ProbesOK(c, q) BY <1>3 DEF OK, ProbesOK, Gone
<1>8. OK(c, X, q) BY <1>2, <1>4, <1>5, <1>6, <1>7 DEF OK
<1> QED BY <1>3, <1>8 DEF c

\* Commands come and go around the owner: none that signals a process, unless its
\* timer was armed, and no new probe.
LEMMA Surroundings ==
  ASSUME NEW b, NEW X, NEW q, OK(b, X, q), NEW c \in OwnerType, NEW r,
         c.specs = b.specs, c.closing = b.closing, c.work = b.work,
         r.cmds \subseteq Command \cup Timer,
         \A m \in c.armed \cup r.cmds : m.cmd = "drainGraceExpired" => m \in b.armed \cup q.cmds,
         \A p \in Proc : Probed(r, p) => Probed(q, p)
  PROVE  OK(c, X, r)
<1>1. SpecsOK(c, X) BY DEF OK, SpecsOK
<1>2. ClosingOK(c) BY DEF OK, ClosingOK
<1>3. DrainTimersOK(c, r) BY DEF OK, DrainTimersOK
<1>4. \A k \in Key : b.specs[k].proc # Nil => b.specs[k].proc \in Proc
  BY DEF OK, OwnerType, SpecState
<1>5. ProbesOK(c, r) BY <1>4 DEF OK, ProbesOK
<1> QED BY <1>1, <1>2, <1>3, <1>5 DEF OK

\* Answering callers changes no spec's state.
LEMMA AnswerOK ==
  ASSUME NEW b, NEW X, NEW q, OK(b, X, q), NEW C \in SUBSET Caller, NEW out \in Reply, NEW l \in Lease
  PROVE  OK(answer(b, C, out, l), X, q) /\ answer(b, C, out, l).specs = b.specs
         /\ answer(b, C, out, l).armed = b.armed /\ answer(b, C, out, l).closing = b.closing
<1> DEFINE c == answer(b, C, out, l)
<1>1. b \in OwnerType BY SMTT(30) DEF OK
<1>2. c \in OwnerType /\ c.specs = b.specs /\ c.closing = b.closing /\ c.work = b.work
      /\ c.armed = b.armed
  BY <1>1 DEF answer, OwnerType
<1> QED BY <1>2, Frame

\* A single field of a spec's state is replaced.
LEMMA PendingOK ==
  ASSUME NEW b, NEW X, NEW q, OK(b, X, q), NEW k \in Key, NEW P \in SUBSET Caller
  PROVE  OK([b EXCEPT !.specs[k].pending = P], X, q)
<1>1. b.specs[k] \in SpecState BY DEF OK, OwnerType
<1> DEFINE st == [b.specs[k] EXCEPT !.pending = P]
<1>2. st \in SpecState BY <1>1, SpecUpdates
<1>3. st.state = b.specs[k].state /\ st.proc = b.specs[k].proc
      /\ st.intentionalStop = b.specs[k].intentionalStop
  BY <1>1 DEF SpecState
<1>4. OK([b EXCEPT !.specs[k] = st], X, q) BY <1>2, <1>3, Calm
<1> QED BY <1>4

\* Answering everyone queued on some keys changes no spec's state.
LEMMA AnswerPendingOK ==
  ASSUME NEW b, NEW X, NEW q, OK(b, X, q), NEW S \in SUBSET Key, NEW err \in Reply
  PROVE  /\ OK(answerPending(b, S, err), X, q)
         /\ answerPending(b, S, err).specs = b.specs
         /\ answerPending(b, S, err).closing = b.closing
<1> DEFINE C == UNION {b.specs[k].pending : k \in S}
           c == answer(b, C, err, NoLease)
<1>1. C \in SUBSET Caller BY SMT DEF OK, OwnerType, SpecState
<1> HIDE DEF C
<1>2. OK(c, X, q) /\ c.specs = b.specs /\ c.closing = b.closing
  BY <1>1, AnswerOK, NoLeaseType, SMT
<1> DEFINE T == {cmdWaiterTimeout(k, d) : k \in S, d \in C}
<1> HIDE DEF c, T
<1>3. OK([c EXCEPT !.armed = @ \ T], X, q)
  BY <1>2, UnarmOK
<1>4. c \in OwnerType BY <1>2 DEF OK
<1>5. answerPending(b, S, err) = [c EXCEPT !.armed = @ \ T]
  BY SMT DEF answerPending, c, C, T
<1> QED BY <1>2, <1>3, <1>4, <1>5 DEF OwnerType

\* failPending keeps the invariant.
LEMMA FailPendingOK ==
  ASSUME NEW b, NEW X, NEW q, OK(b, X, q), NEW k \in Key, NEW err \in Reply
  PROVE  OK(failPending(b, k, err), X, q)
<1>1. OK(answerPending(b, {k}, err), X, q) BY AnswerPendingOK
<1> QED BY <1>1, PendingOK DEF failPending

\* A waiter that is cancelled or times out leaves its queue.
LEMMA DequeueOK ==
  ASSUME NEW b, NEW X, NEW q, OK(b, X, q), NEW k \in Key, NEW c \in Caller, NEW err \in Reply
  PROVE  OK(dequeue(b, k, c, err), X, q)
<1> DEFINE a == answer(b, {c}, err, NoLease)
<1>1. OK(a, X, q) BY AnswerOK, NoLeaseType
<1>2. a.specs[k].pending \ {c} \in SUBSET Caller BY <1>1 DEF OK, OwnerType, SpecState
<1> HIDE DEF a
<1>3. OK([a EXCEPT !.specs[k].pending = @ \ {c}], X, q) BY <1>1, <1>2, PendingOK
<1> QED BY <1>3 DEF dequeue, a

\* touch keeps the invariant.
LEMMA TouchOK ==
  ASSUME NEW b, NEW X, NEW q, OK(b, X, q), NEW k \in Key
  PROVE  OK(touch(b, k), X, q)
<1> DEFINE R == {e \in b.older : k \notin {e[1], e[2]}} \cup ((Key \ {k}) \X {k})
           c == [b EXCEPT !.older = R]
<1>1. b \in OwnerType BY DEF OK
<1>2. R \in SUBSET (Key \X Key) BY <1>1 DEF OwnerType
<1> HIDE DEF R
<1>3. c \in OwnerType BY <1>1, <1>2, FieldTypes
<1>4. c.specs = b.specs /\ c.closing = b.closing /\ c.work = b.work /\ c.armed = b.armed
  BY <1>1 DEF OwnerType
<1>5. OK(c, X, q) BY <1>3, <1>4, Frame
<1> QED BY <1>5 DEF touch, R

\* A caller joins a queue, with its wait timer.
LEMMA EnqueueOK ==
  ASSUME NEW b, NEW X, NEW q, OK(b, X, q), NEW k \in Key, NEW c \in Caller
  PROVE  OK(enqueue(b, k, c), X, q)
<1> DEFINE T == IF b.specs[k].spec.waitTimeout THEN b.armed \cup {cmdWaiterTimeout(k, c)} ELSE b.armed
           Q == b.ahead \cup ((UNION {b.specs[j].pending : j \in Key}) \X {c})
           d == [b EXCEPT !.armed = T, !.ahead = Q]
           P == b.specs[k].pending \cup {c}
<1>1. b \in OwnerType /\ b.specs[k] \in SpecState /\ b.armed \in SUBSET Timer
  BY DEF OK, OwnerType
<1>2. cmdWaiterTimeout(k, c) \in Timer /\ cmdWaiterTimeout(k, c).cmd = "waiterTimeout"
  BY WaiterTimer
<1>3. T \in SUBSET Timer /\ \A m \in T : m.cmd = "drainGraceExpired" => m \in b.armed
  BY <1>1, <1>2
<1>4. Q \in SUBSET (Caller \X Caller) /\ P \in SUBSET Caller
  BY <1>1, SMT DEF OwnerType, SpecState
<1>5. enqueue(b, k, c) = [d EXCEPT !.specs[k].pending = P]
  BY <1>1 DEF enqueue, OwnerType
<1> HIDE DEF T, Q, P
<1>6. d \in OwnerType /\ d.specs = b.specs /\ d.closing = b.closing /\ d.work = b.work /\ d.armed = T
  BY <1>1, <1>3, <1>4 DEF OwnerType
<1> HIDE DEF d
<1>7. OK(d, X, q) BY <1>3, <1>6, Frame
<1> QED BY <1>4, <1>5, <1>7, PendingOK, SMTT(30)

\* Everyone queued on a process that is healthy is served.
LEMMA SucceedPendingOK ==
  ASSUME Counting, NEW b, NEW X, NEW q, OK(b, X, q), NEW k \in Key, b.specs[k].proc # Nil
  PROVE  OK(succeedPending(b, k), X, q)
<1> DEFINE C == b.specs[k].pending
           a == answer(b, C, "ok", leaseOf(b, k))
           T == {cmdWaiterTimeout(k, c) : c \in C}
           d == [a EXCEPT !.armed = @ \ T]
           n == b.specs[k].inFlight + Cardinality(C)
           su == [b.specs[k] EXCEPT !.pending = {}]
           st == [su EXCEPT !.inFlight = n]
<1>1. b \in OwnerType /\ b.specs[k] \in SpecState BY DEF OK, OwnerType
<1>2. C \in SUBSET Caller /\ leaseOf(b, k) \in Lease
  BY <1>1 DEF SpecState, leaseOf, Lease
<1>3. Cardinality(C) \in Nat BY <1>2 DEF Counting
<1> HIDE DEF C
<1>4. OK(a, X, q) /\ a.specs = b.specs
  <2>1. "ok" \in Reply BY DEF Reply
  <2> QED BY <1>2, <2>1, AnswerOK, SMT
<1>5. st \in SpecState /\ st.state = b.specs[k].state /\ st.proc = b.specs[k].proc
      /\ st.intentionalStop = b.specs[k].intentionalStop
  <2>1. n \in Nat BY <1>1, <1>3, SMT DEF SpecState
  <2>2. su \in SpecState BY <1>1, SpecUpdates
  <2> HIDE DEF n
  <2>3. st \in SpecState BY <2>1, <2>2, SpecUpdates
  <2> QED BY <1>1, <2>3 DEF SpecState
<1>6. a \in OwnerType BY <1>4 DEF OK
<1> HIDE DEF a, T
<1>7. OK(d, X, q) /\ d.specs = b.specs
  BY <1>4, <1>6, UnarmOK, SMTT(30) DEF OwnerType
<1> DEFINE e == [d EXCEPT !.specs[k] = st]
<1>8. succeedPending(b, k) = touch(e, k)
  <2>1. e = [a EXCEPT !.specs[k].pending = {}, !.specs[k].inFlight = @ + Cardinality(C),
                      !.armed = @ \ T]
    BY <1>4, <1>6, <1>1, ZenonT(30) DEF OwnerType, SpecState
  <2> QED BY <2>1 DEF succeedPending, a, T, C
<1> HIDE DEF d, st, su
<1>9. OK(e, X, q) BY <1>5, <1>7, Calm
<1> QED BY <1>8, <1>9, TouchOK, SMTT(30)

(***************************************************************************)
(* States of one key.                                                      *)
(***************************************************************************)

\* A key without a process may be given any state but starting and running.
LEMMA SetStateOK ==
  ASSUME NEW b, NEW X, NEW q, OK(b, X, q), NEW k \in Key, NEW s \in State,
         b.specs[k].proc = Nil, s \notin {"starting", "running"}
  PROVE  OK(setState(b, k, s), X \ {k}, q) /\ setState(b, k, s).specs[k].proc = Nil
         /\ setState(b, k, s).closing = b.closing
<1> DEFINE st == [b.specs[k] EXCEPT !.state = s]
<1>1. b \in OwnerType /\ b.specs \in [Key -> SpecState] /\ b.specs[k] \in SpecState
  BY DEF OK, OwnerType
<1>2. st \in SpecState /\ st.proc = Nil /\ st.intentionalStop = b.specs[k].intentionalStop
      /\ st.state = s
  <2>1. st \in SpecState BY <1>1, SpecUpdates
  <2> QED BY <1>1, <2>1 DEF SpecState
<1>3. ~b.specs[k].intentionalStop
  BY DEF OK, SpecsOK, Gone, Settled
<1>4. Settled(st)
  BY <1>2, <1>3 DEF Settled
<1>5. setState(b, k, s) = [b EXCEPT !.specs[k] = st]
  BY DEF setState
<1> HIDE DEF st
<1>6. OK([b EXCEPT !.specs[k] = st], X \ {k}, q)
  BY <1>2, <1>4, Replace
<1>7. [b EXCEPT !.specs[k] = st].specs[k] = st /\ [b EXCEPT !.specs[k] = st].closing = b.closing
  BY <1>1 DEF OwnerType
<1> QED BY <1>2, <1>5, <1>6, <1>7

\* A process whose result came in is running or has failed to start.
LEMMA SetStateLiveOK ==
  ASSUME NEW b, NEW q, OK(b, {}, q), NEW k \in Key, NEW s \in {"running", "start_failed"},
         b.specs[k].proc # Nil, b.specs[k].state # "draining",
         ~b.specs[k].intentionalStop, ~Probed(q, b.specs[k].proc)
  PROVE  OK(setState(b, k, s), {}, q) /\ setState(b, k, s).specs[k].proc = b.specs[k].proc
         /\ setState(b, k, s).specs[k].state = s /\ setState(b, k, s).closing = b.closing
<1> DEFINE st == [b.specs[k] EXCEPT !.state = s]
<1>1. b \in OwnerType /\ b.specs \in [Key -> SpecState] /\ b.specs[k] \in SpecState /\ s \in State
  BY DEF OK, OwnerType, State
<1>2. st \in SpecState /\ st.proc = b.specs[k].proc
      /\ st.intentionalStop = b.specs[k].intentionalStop /\ st.state = s
  <2>1. st \in SpecState BY <1>1, SpecUpdates
  <2> QED BY <1>1, <2>1 DEF SpecState
<1>3. Settled(st)
  BY <1>2 DEF Settled
<1>4. setState(b, k, s) = [b EXCEPT !.specs[k] = st]
  BY DEF setState
<1> HIDE DEF st
<1>5. ~b.closing
  BY DEF OK, ClosingOK
<1>6. \A m \in b.armed \cup q.cmds :
        m.cmd = "drainGraceExpired" /\ m.key = k => m.proc # st.proc
  BY <1>2 DEF OK, DrainTimersOK
<1>7. OK([b EXCEPT !.specs[k] = st], {}, q)
  BY <1>2, <1>3, <1>5, <1>6, Replace, SMT
<1>8. [b EXCEPT !.specs[k] = st].specs[k] = st /\ [b EXCEPT !.specs[k] = st].closing = b.closing
  BY <1>1 DEF OwnerType
<1> QED BY <1>2, <1>4, <1>7, <1>8, SMTT(30)

\* A key that the owner does not have is at rest.
LEMMA AbsentOK == Settled(absent) /\ Gone(absent) /\ absent.proc = Nil
BY DEF absent, Settled, Gone

\* deleteState leaves the key at rest, whatever it was.
LEMMA DeleteStateOK ==
  ASSUME NEW b, NEW X, NEW q, OK(b, X, q), NEW k \in Key
  PROVE  OK(deleteState(b, k), X \ {k}, q)
<1> DEFINE c == [b EXCEPT !.specs[k] = absent]
<1>1. OK(c, X \ {k}, q)
  BY AbsentType, AbsentOK, Replace
<1>2. b \in OwnerType /\ c \in OwnerType BY <1>1 DEF OK
<1>3. deleteState(b, k) = [c EXCEPT !.decided = b.decided \ {k}]
  BY <1>2 DEF deleteState, OwnerType
<1>4. c.decided = b.decided /\ b.decided \in SUBSET Key BY <1>2 DEF OwnerType
<1> HIDE DEF c
<1> DEFINE d == [c EXCEPT !.decided = b.decided \ {k}]
<1>5. d \in OwnerType BY <1>2, <1>4, FieldTypes
<1>6. d.specs = c.specs /\ d.closing = c.closing /\ d.work = c.work /\ d.armed = c.armed
  BY <1>2 DEF OwnerType
<1> HIDE DEF d
<1>7. OK(d, X \ {k}, q) BY <1>1, <1>5, <1>6, Frame
<1> QED BY <1>3, <1>7 DEF d

\* retire leaves the key at rest, whatever it was.
LEMMA RetireOK ==
  ASSUME NEW b, NEW X, NEW q, OK(b, X, q), NEW k \in Key
  PROVE  OK(retire(b, k), X \ {k}, q)
<1>1. OK([b EXCEPT !.armed = @ \ backoffTimers(b, {k})], X, q)
  BY UnarmOK
<1> QED BY <1>1, DeleteStateOK DEF retire

\* retireIfSpent keeps the invariant.
LEMMA RetireIfSpentOK ==
  ASSUME NEW b, NEW q, OK(b, {}, q), NEW k \in Key
  PROVE  OK(retireIfSpent(b, k), {}, q)
<1>1. OK(retire(b, k), {} \ {k}, q) BY RetireOK
<1>2. {} \ {k} = {} OBVIOUS
<1> QED BY <1>1, <1>2 DEF retireIfSpent

\* Failing the queue changes no state and no process.
LEMMA FailPendingSame ==
  ASSUME NEW b, NEW X, NEW q, OK(b, X, q), NEW k \in Key, NEW err \in Reply
  PROVE  /\ failPending(b, k, err).closing = b.closing
         /\ \A j \in Key : /\ failPending(b, k, err).specs[j].proc = b.specs[j].proc
                           /\ failPending(b, k, err).specs[j].state = b.specs[j].state
                           /\ failPending(b, k, err).specs[j].intentionalStop
                                = b.specs[j].intentionalStop
<1> DEFINE a == answerPending(b, {k}, err)
           st == [a.specs[k] EXCEPT !.pending = {}]
<1>1. OK(a, X, q) /\ a.specs = b.specs /\ a.closing = b.closing
  BY AnswerPendingOK, SMT
<1>2. a \in OwnerType /\ b.specs \in [Key -> SpecState] /\ b.specs[k] \in SpecState
  BY <1>1 DEF OK, OwnerType
<1>3. st.proc = b.specs[k].proc /\ st.state = b.specs[k].state
      /\ st.intentionalStop = b.specs[k].intentionalStop
  BY <1>1, <1>2 DEF SpecState
<1>4. failPending(b, k, err) = [a EXCEPT !.specs[k] = st]
  BY DEF failPending
<1> HIDE DEF a, st
<1>5. [a EXCEPT !.specs[k] = st].specs = [b.specs EXCEPT ![k] = st]
      /\ [a EXCEPT !.specs[k] = st].closing = b.closing
  BY <1>1, <1>2, SMTT(30) DEF OwnerType
<1> QED BY <1>2, <1>3, <1>4, <1>5, SMTT(30)

(***************************************************************************)
(* Stopping a process.                                                     *)
(***************************************************************************)

\* terminateNow marks a process that drains or failed to start as stopped on purpose.
LEMMA TerminateNowOK ==
  ASSUME NEW b, NEW q, OK(b, {}, q), NEW k \in Key,
         b.specs[k].proc # Nil, b.specs[k].state \in {"draining", "start_failed"}
  PROVE  /\ OK(terminateNow(b, k), {}, q)
         /\ terminateNow(b, k).specs[k].proc = b.specs[k].proc
         /\ terminateNow(b, k).closing = b.closing
<1> DEFINE p == b.specs[k].proc
           A == (b.armed \ {cmdDrainGraceExpired(k, p)}) \cup {cmdKillGraceExpired(k, p)}
           a == [b EXCEPT !.armed = A]
           st == [b.specs[k] EXCEPT !.intentionalStop = TRUE]
<1>1. CASE ~signallable(b, k, p)
  BY <1>1 DEF terminateNow
<1>2. CASE signallable(b, k, p)
  <2>1. b \in OwnerType /\ b.specs \in [Key -> SpecState] /\ b.specs[k] \in SpecState
        /\ b.armed \in SUBSET Timer
    BY DEF OK, OwnerType
  <2>2. p \in Proc BY <2>1 DEF SpecState
  <2>3. A \in SUBSET Timer /\ \A m \in A : m.cmd = "drainGraceExpired" => m \in b.armed
    BY <2>1, <2>2, KillTimer
  <2>4. terminateNow(b, k) = [a EXCEPT !.specs[k] = st]
    BY <1>2, <2>1 DEF terminateNow, OwnerType
  <2> HIDE DEF A
  <2>5. OK(a, {}, q) BY <2>3, ArmedOK
  <2>6. a \in OwnerType /\ a.specs = b.specs /\ a.closing = b.closing
    BY <2>1, <2>5 DEF OK, OwnerType
  <2> HIDE DEF a
  <2>7. st \in SpecState BY <2>1, SpecUpdates
  <2>8. st.proc = p /\ st.state = b.specs[k].state BY <2>1 DEF SpecState
  <2> HIDE DEF st
  <2>9. Settled(st) BY <2>8, SMTT(30) DEF Settled
  <2>10. /\ a.closing => st.state = "draining"
         /\ \A m \in a.armed \cup q.cmds :
              m.cmd = "drainGraceExpired" /\ m.key = k /\ m.proc = st.proc => st.state = "draining"
         /\ Probed(q, st.proc) => st.state \in {"starting", "draining"}
    BY <2>5, <2>6, <2>8 DEF OK, ClosingOK, DrainTimersOK, ProbesOK
  <2>11. OK([a EXCEPT !.specs[k] = st], {}, q)
    BY <2>5, <2>7, <2>9, <2>10, Replace, SMTT(30)
  <2>12. [a EXCEPT !.specs[k] = st].specs[k] = st /\ [a EXCEPT !.specs[k] = st].closing = b.closing
    BY <2>1, <2>6, SMTT(30) DEF OwnerType
  <2> QED BY <2>4, <2>8, <2>11, <2>12, SMTT(30)
<1> QED BY <1>1, <1>2

\* beginDrain leaves every live key of S draining and changes no process.
LEMMA BeginDrainOK ==
  ASSUME NEW b, NEW X, NEW q, OK(b, X, q), NEW S
  PROVE  /\ OK(beginDrain(b, S), X, q)
         /\ beginDrain(b, S).closing = b.closing /\ beginDrain(b, S).work = b.work
         /\ \A k \in Key :
              /\ beginDrain(b, S).specs[k].proc = b.specs[k].proc
              /\ k \in S /\ b.specs[k].proc # Nil => beginDrain(b, S).specs[k].state = "draining"
<1> DEFINE D == {k \in S \cap live(b) : b.specs[k].state # "draining"}
           idle == {k \in D : b.specs[k].inFlight = 0}
           now == {k \in idle : signallable(b, k, b.specs[k].proc)}
           f == [k \in Key |-> IF k \in D
                               THEN [b.specs[k] EXCEPT !.state = "draining",
                                                       !.intentionalStop =
                                                         b.specs[k].intentionalStop \/ k \in now]
                               ELSE b.specs[k]]
           A == b.armed \cup {cmdKillGraceExpired(k, b.specs[k].proc) : k \in now}
                        \cup {cmdDrainGraceExpired(k, b.specs[k].proc) : k \in D \ idle}
           c == [b EXCEPT !.specs = f, !.armed = A]
<1>1. b \in OwnerType /\ b.specs \in [Key -> SpecState] /\ b.armed \in SUBSET Timer
  BY DEF OK, OwnerType
<1>2. \A k \in D : k \in Key /\ b.specs[k].proc \in Proc /\ k \notin X
  BY <1>1 DEF live, SpecState, OK, SpecsOK, Gone
<1>3. beginDrain(b, S) = c
  BY DEF beginDrain
<1>4. \A k \in Key : /\ f[k].proc = b.specs[k].proc
                     /\ k \in D => f[k].state = "draining" /\ f[k].proc # Nil
                     /\ k \notin D => f[k] = b.specs[k]
                     /\ k \in S /\ b.specs[k].proc # Nil => f[k].state = "draining"
  BY <1>1, <1>2, ManagerAssumption, SMTT(30) DEF SpecState, live
<1>5. \A k \in Key : f[k] \in SpecState
  <2> SUFFICES ASSUME NEW k \in D PROVE f[k] \in SpecState
    BY <1>1
  <2>1. k \in Key /\ b.specs[k] \in SpecState BY <1>1, <1>2
  <2>2. "draining" \in State /\ (b.specs[k].intentionalStop \/ k \in now) \in BOOLEAN
    BY DEF State
  <2>3. [[b.specs[k] EXCEPT !.state = "draining"]
           EXCEPT !.intentionalStop = b.specs[k].intentionalStop \/ k \in now] \in SpecState
    BY <2>1, <2>2, SpecUpdates
  <2> QED BY <2>1, <2>3, SMTT(30) DEF SpecState
<1>6. f \in [Key -> SpecState] BY <1>5
<1>7. A \in SUBSET Timer BY <1>1, <1>2, KillTimer, DrainTimer, SMTT(30)
<1>8. \A m \in A : m.cmd = "drainGraceExpired" =>
        m \in b.armed \/ \E k \in D : m.key = k
  BY <1>2, KillTimer, DrainTimer, SMT
<1> HIDE DEF D, now, idle, f, A
<1>9. c \in OwnerType /\ c.specs = f /\ c.armed = A /\ c.closing = b.closing /\ c.work = b.work
  BY <1>1, <1>6, <1>7, ZenonT(30) DEF OwnerType
<1> HIDE DEF c
<1>10. SpecsOK(c, X)
  BY <1>2, <1>4, <1>9, SMTT(30) DEF OK, SpecsOK, Settled
<1>11. ClosingOK(c)
  BY <1>4, <1>9, SMTT(30) DEF OK, ClosingOK
<1>12. DrainTimersOK(c, q)
  <2> SUFFICES ASSUME NEW m \in A \cup q.cmds, m.cmd = "drainGraceExpired",
                      f[m.key].proc = m.proc
               PROVE  f[m.key].state = "draining"
    BY <1>9 DEF DrainTimersOK
  <2>1. m \in b.armed \cup q.cmds => m.key \in Key BY DrainKeys
  <2>2. m.key \in Key BY <1>2, <1>8, <2>1, SMTT(30)
  <2> QED BY <1>4, <1>8, <2>2, SMTT(30) DEF OK, DrainTimersOK
<1>13. ProbesOK(c, q)
  BY <1>4, <1>9, SMTT(30) DEF OK, ProbesOK
<1>14. OK(c, X, q) BY <1>9, <1>10, <1>11, <1>12, <1>13, SMTT(30) DEF OK
<1> QED BY <1>3, <1>4, <1>9, <1>14, SMTT(30)

(***************************************************************************)
(* The crash-loop backoff and the protected floor.                         *)
(***************************************************************************)

\* A key with a process enters no backoff yet, and one that closes has none.
LEMMA EnterBackoffOK ==
  ASSUME NEW b, NEW q, OK(b, {}, q), NEW k \in Key, b.closing => b.specs[k].proc = Nil
  PROVE  OK(enterBackoff(b, k), {}, q) /\ enterBackoff(b, k).closing = b.closing
<1> DEFINE st == b.specs[k]
           n == newTimer(b, k)
<1>0. b \in OwnerType /\ b.specs \in [Key -> SpecState] /\ b.specs[k] \in SpecState
      /\ b.armed \in SUBSET Timer
  BY DEF OK, OwnerType
<1>1. CASE b.closing
  <2>1. "stopped" \in State BY DEF State
  <2>2. OK(setState(b, k, "stopped"), {} \ {k}, q) /\ setState(b, k, "stopped").closing = b.closing
    BY <1>1, <2>1, SetStateOK
  <2>3. enterBackoff(b, k) = setState(b, k, "stopped") BY <1>1 DEF enterBackoff, setState
  <2>4. {} \ {k} = {} OBVIOUS
  <2> QED BY <2>2, <2>3, <2>4
<1>2. CASE ~b.closing /\ burst(st, k)
  <2>1. "start_failed" \in Reply BY DEF Reply
  <2>2. enterBackoff(b, k) = failPending(b, k, "start_failed") BY <1>2 DEF enterBackoff
  <2> QED BY <2>1, <2>2, FailPendingOK, FailPendingSame, SMTT(30)
<1>3. CASE ~b.closing /\ ~burst(st, k) /\ st.proc # Nil
  <2> DEFINE su == [b.specs[k] EXCEPT !.backoffOnExit = TRUE]
  <2>1. su \in SpecState BY <1>0, SpecUpdates
  <2>2. su.state = b.specs[k].state /\ su.proc = b.specs[k].proc
        /\ su.intentionalStop = b.specs[k].intentionalStop
    BY <1>0 DEF SpecState
  <2>3. enterBackoff(b, k) = [b EXCEPT !.specs[k] = su] BY <1>3 DEF enterBackoff
  <2> HIDE DEF su
  <2>4. OK([b EXCEPT !.specs[k] = su], {}, q) BY <2>1, <2>2, Calm
  <2>5. [b EXCEPT !.specs[k] = su].closing = b.closing BY <1>0 DEF OwnerType
  <2> QED BY <2>3, <2>4, <2>5
<1>4. CASE ~b.closing /\ ~burst(st, k) /\ ~(st.proc # Nil)
  <2> DEFINE A == b.armed \cup {cmdBackoffFire(k, n)}
             a == [b EXCEPT !.armed = A]
             su == [b.specs[k] EXCEPT !.state = "backoff"]
             sv == [su EXCEPT !.backoffTimer = n]
  <2>1. n \in BackoffTimer BY NewTimerType
  <2>2. A \in SUBSET Timer /\ \A m \in A : m.cmd = "drainGraceExpired" => m \in b.armed
    BY <1>0, <2>1, BackoffTimerFields
  <2>3. enterBackoff(b, k) = [a EXCEPT !.specs[k] = sv]
    BY <1>0, <1>4, ZenonT(30) DEF enterBackoff, OwnerType, SpecState
  <2> HIDE DEF A, n
  <2>4. OK(a, {}, q) BY <2>2, ArmedOK
  <2>5. a.specs = b.specs /\ a.closing = b.closing /\ a \in OwnerType
    BY <1>0, <2>4 DEF OK, OwnerType
  <2> HIDE DEF a
  <2>6. "backoff" \in State BY DEF State
  <2>7. su \in SpecState BY <1>0, <2>6, SpecUpdates
  <2>8. sv \in SpecState BY <2>1, <2>7, SpecUpdates
  <2>9. sv.state = "backoff" /\ sv.proc = Nil /\ sv.intentionalStop = b.specs[k].intentionalStop
    BY <1>0, <1>4, SMTT(30) DEF SpecState
  <2> HIDE DEF su, sv
  <2>10. ~b.specs[k].intentionalStop BY <1>4 DEF OK, SpecsOK, Settled
  <2>11. Settled(sv) BY <2>9, <2>10 DEF Settled
  <2>12. OK([a EXCEPT !.specs[k] = sv], {}, q) BY <2>4, <2>8, <2>9, <2>11, Replace, SMTT(30)
  <2>13. [a EXCEPT !.specs[k] = sv].closing = b.closing BY <2>5 DEF OwnerType
  <2> QED BY <2>3, <2>12, <2>13
<1> QED BY <1>1, <1>2, <1>3, <1>4, SMTT(30)

\* A start that failed, with no process (any more).
LEMMA FailStartOK ==
  ASSUME NEW b, NEW X, NEW q, OK(b, X, q), NEW k \in Key, X \subseteq {k},
         b.specs[k].proc = Nil, NEW err \in Reply
  PROVE  OK(failStart(b, k, err), {}, q) /\ failStart(b, k, err).closing = b.closing
<1> DEFINE c == setState(b, k, "start_failed")
           d == failPending(c, k, err)
<1>1. "start_failed" \in State BY DEF State
<1>2. OK(c, X \ {k}, q) /\ c.specs[k].proc = Nil /\ c.closing = b.closing
  BY <1>1, SetStateOK
<1>3. X \ {k} = {} OBVIOUS
<1> HIDE DEF c
<1>4. OK(c, {}, q) BY <1>2, <1>3, SMTT(30)
<1>5. OK(d, {}, q) /\ d.specs[k].proc = Nil /\ d.closing = b.closing
  BY <1>2, <1>4, FailPendingOK, FailPendingSame, SMTT(30)
<1> HIDE DEF d
<1>6. OK(enterBackoff(d, k), {}, q) /\ enterBackoff(d, k).closing = b.closing
  BY <1>5, EnterBackoffOK
<1> QED BY <1>6 DEF failStart, c, d

\* Instances that the owner does not have are created.
LEMMA EnsureProtectedFloorOK ==
  ASSUME NEW b, NEW q, OK(b, {}, q)
  PROVE  OK(ensureProtectedFloor(b), {}, q)
<1> DEFINE missing == {k \in Key : /\ k[1] \in b.cfg.ids
                                   /\ k[2] > 0
                                   /\ k[2] < ProtectedCount(b.cfg.specs[k[1]])
                                   /\ InstanceAllowed(b.cfg.specs[k[1]], k[2])
                                   /\ ~exists(b, k)}
           f == [k \in Key |-> IF k \in missing THEN fresh(b.cfg.specs[k[1]]) ELSE b.specs[k]]
           c == [b EXCEPT !.specs = f]
<1>0. b \in OwnerType /\ b.specs \in [Key -> SpecState] /\ b.cfg \in Doc \cup {NoDoc}
  BY DEF OK, OwnerType
<1>1. ensureProtectedFloor(b) = c BY DEF ensureProtectedFloor
<1>2. missing \subseteq Key OBVIOUS
<1> HIDE DEF missing
<1>3. \A k \in missing : f[k] \in SpecState /\ Settled(f[k]) /\ Gone(f[k])
  <2> SUFFICES ASSUME NEW k \in missing
               PROVE  f[k] \in SpecState /\ Settled(f[k]) /\ Gone(f[k])
    OBVIOUS
  <2>1. k[1] \in SpecID BY <1>2 DEF Key
  <2>2. b.cfg.specs[k[1]] \in SpecType BY <1>0, <2>1, ConfiguredType, SMTT(30)
  <2>3. f[k] = fresh(b.cfg.specs[k[1]]) BY <1>2
  <2> QED BY <2>2, <2>3, FreshType, SMTT(30)
<1>4. \A k \in Key \ missing : f[k] = b.specs[k] OBVIOUS
<1>5. f \in [Key -> SpecState] BY <1>0, <1>3, <1>4
<1> HIDE DEF f
<1>6. OK(c, {}, q) BY <1>3, <1>4, <1>5, ReplaceAll, SMTT(30)
<1> QED BY <1>1, <1>6, SMTT(30)

(***************************************************************************)
(* The rest of a turn.                                                     *)
(***************************************************************************)

\* The list of asks may change, but for a closing owner's, which is empty.
LEMMA WorkOK ==
  ASSUME NEW b, NEW X, NEW q, OK(b, X, q), NEW w \in Work, b.closing => w = NoWork
  PROVE  OK([b EXCEPT !.work = w], X, q) /\ [b EXCEPT !.work = w].work = w
         /\ [b EXCEPT !.work = w].closing = b.closing /\ [b EXCEPT !.work = w].specs = b.specs
<1> DEFINE c == [b EXCEPT !.work = w]
<1>1. b \in OwnerType BY DEF OK
<1>2. c \in OwnerType BY <1>1, FieldTypes
<1>3. c.specs = b.specs /\ c.closing = b.closing /\ c.work = w /\ c.armed = b.armed
  BY <1>1 DEF OwnerType
<1> HIDE DEF c
<1>4. SpecsOK(c, X) BY <1>3 DEF OK, SpecsOK
<1>5. ClosingOK(c) BY <1>3, SMTT(30) DEF OK, ClosingOK
<1>6. DrainTimersOK(c, q) BY <1>3, SMTT(30) DEF OK, DrainTimersOK
<1>7. ProbesOK(c, q) BY <1>3 DEF OK, ProbesOK
<1>8. OK(c, X, q) BY <1>2, <1>4, <1>5, <1>6, <1>7, SMTT(30) DEF OK
<1> QED BY <1>3, <1>8 DEF c

\* advance keeps the invariant: a closing owner collects no candidate.
LEMMA AdvanceOK ==
  ASSUME NEW b, NEW q, OK(b, {}, q)
  PROVE  OK(advance(b), {}, q)
<1> DEFINE w == [b.work EXCEPT !.woken = b.work.woken \cup wakeAdmission(b), !.wake = "none"]
           c == IF b.work = [NoWork EXCEPT !.wake = b.work.wake, !.woken = b.work.woken]
                THEN [b EXCEPT !.work = w] ELSE b
           d == [c EXCEPT !.decided = {}, !.stopped = @ \/ (c.closing /\ live(c) = {})]
<1>1. b \in OwnerType /\ b.work \in Work BY DEF OK, OwnerType
<1>2. wakeAdmission(b) \subseteq Key BY DEF wakeAdmission
<1>3. w \in Work BY <1>1, <1>2 DEF Work
<1>4. b.closing => w = NoWork
  <2> SUFFICES ASSUME b.closing PROVE w = NoWork OBVIOUS
  <2>1. b.work = NoWork BY DEF OK, ClosingOK
  <2>2. b.work.wake = "none" /\ b.work.woken = {} BY <2>1, SMT DEF NoWork
  <2>3. wakeAdmission(b) = {} BY <2>2 DEF wakeAdmission
  <2>4. /\ w.woken = NoWork.woken /\ w.wake = NoWork.wake /\ w.self = NoWork.self
        /\ w.siblings = NoWork.siblings /\ w.first = NoWork.first /\ w.claims = NoWork.claims
    BY <1>1, <2>1, <2>2, <2>3 DEF Work
  <2>5. NoWork \in Work BY <1>1, <2>1
  <2> HIDE DEF w
  <2> QED BY <1>3, <2>4, <2>5, SMT DEF Work
<1>5. advance(b) = IF c.work = NoWork THEN d ELSE c
  <2> DEFINE W == wakeAdmission(b)
  <2> HIDE DEF W
  <2>1. [b EXCEPT !.work.woken = @ \cup W, !.work.wake = "none"]
          = [b EXCEPT !.work = [b.work EXCEPT !.woken = b.work.woken \cup W, !.wake = "none"]]
    BY <1>1 DEF OwnerType, Work
  <2> QED BY <2>1 DEF advance, W
<1> HIDE DEF w
<1>6. OK(c, {}, q)
  BY <1>3, <1>4, WorkOK
<1> HIDE DEF c
<1>7. c \in OwnerType BY <1>6, SMTT(30) DEF OK
<1>8. d \in OwnerType /\ d.specs = c.specs /\ d.closing = c.closing /\ d.work = c.work
      /\ d.armed = c.armed
  <2>1. (c.stopped \/ (c.closing /\ live(c) = {})) \in BOOLEAN OBVIOUS
  <2>2. {} \in SUBSET Key OBVIOUS
  <2> QED BY <1>7, <2>1, <2>2 DEF OwnerType
<1> HIDE DEF d
<1>9. OK(d, {}, q) BY <1>6, <1>8, Frame
<1> QED BY <1>5, <1>6, <1>9, SMTT(30)

\* schedule keeps the invariant: a closing owner asks for nothing.
LEMMA ScheduleOK ==
  ASSUME NEW b, NEW q, OK(b, {}, q), NEW w \in Work
  PROVE  OK(schedule(b, w), {}, q)
<1>1. CASE b.closing
  BY <1>1, AdvanceOK DEF schedule
<1>2. CASE ~b.closing
  <2>1. OK([b EXCEPT !.work = w], {}, q) BY <1>2, WorkOK, SMTT(30)
  <2> HIDE DEF OK
  <2> QED BY <1>2, <2>1, AdvanceOK DEF schedule
<1> QED BY <1>1, <1>2

\* wakeAdmissionCandidates keeps the invariant.
LEMMA WakeAdmissionCandidatesOK ==
  ASSUME NEW b, NEW q, OK(b, {}, q)
  PROVE  OK(wakeAdmissionCandidates(b), {}, q)
BY ScheduleOK, WorkTypes DEF wakeAdmissionCandidates

\* wakeSiblingsWaitingFor keeps the invariant.
LEMMA WakeSiblingsOK ==
  ASSUME NEW b, NEW X, NEW q, OK(b, X, q), NEW k \in Key, ~b.closing
  PROVE  OK(wakeSiblingsWaitingFor(b, k), X, q)
         /\ wakeSiblingsWaitingFor(b, k).closing = b.closing
<1> DEFINE S == {j \in Key : /\ b.specs[j].waitingOnSibling
                             /\ j[1] = k[1]
                             /\ j[2] > k[2]}
           w == [b.work EXCEPT !.siblings = b.work.siblings \cup S]
<1>1. b \in OwnerType /\ b.work \in Work BY DEF OK, OwnerType
<1>2. S \subseteq Key OBVIOUS
<1>3. wakeSiblingsWaitingFor(b, k) = [b EXCEPT !.work = w]
  BY <1>1 DEF wakeSiblingsWaitingFor
<1> HIDE DEF S
<1>4. w \in Work BY <1>1, <1>2 DEF Work
<1> HIDE DEF w
<1> QED BY <1>3, <1>4, WorkOK, SMTT(30)

\* The end of an ask keeps the invariant.
LEMMA SettleOK ==
  ASSUME NEW b, NEW q, OK(b, {}, q), NEW k \in Key
  PROVE  OK(settle(b, k), {}, q)
BY RetireIfSpentOK, AdvanceOK DEF settle

(***************************************************************************)
(* The outcomes of an ask.                                                 *)
(***************************************************************************)

\* Whether a key waits for a sibling is free.
LEMMA WaitingOnSiblingOK ==
  ASSUME NEW b, NEW X, NEW q, OK(b, X, q), NEW k \in Key, NEW f \in BOOLEAN
  PROVE  LET c == [b EXCEPT !.specs[k].waitingOnSibling = f]
         IN  /\ OK(c, X, q) /\ c.closing = b.closing /\ c.decided = b.decided
             /\ c.armed = b.armed
             /\ \A j \in Key : c.specs[j].proc = b.specs[j].proc
<1> DEFINE st == [b.specs[k] EXCEPT !.waitingOnSibling = f]
           c == [b EXCEPT !.specs[k] = st]
<1>1. b \in OwnerType /\ b.specs \in [Key -> SpecState] /\ b.specs[k] \in SpecState
  BY DEF OK, OwnerType
<1>2. st \in SpecState BY <1>1, SpecUpdates
<1>3. st.state = b.specs[k].state /\ st.proc = b.specs[k].proc
      /\ st.intentionalStop = b.specs[k].intentionalStop
  BY <1>1 DEF SpecState
<1>4. c = [b EXCEPT !.specs[k].waitingOnSibling = f] OBVIOUS
<1> HIDE DEF st
<1>5. OK(c, X, q) BY <1>2, <1>3, Calm
<1>6. /\ c.closing = b.closing /\ c.decided = b.decided /\ c.armed = b.armed
      /\ c.specs = [b.specs EXCEPT ![k] = st]
  BY <1>1, SMTT(30) DEF OwnerType
<1> HIDE DEF c
<1>7. \A j \in Key : c.specs[j].proc = b.specs[j].proc BY <1>1, <1>3, <1>6
<1> QED BY <1>4, <1>5, <1>6, <1>7, SMTT(30)

\* Which keys were decided this turn is free.
LEMMA DecidedSetOK ==
  ASSUME NEW b, NEW X, NEW q, OK(b, X, q), NEW D \in SUBSET Key
  PROVE  LET c == [b EXCEPT !.decided = D]
         IN  /\ OK(c, X, q) /\ c.closing = b.closing /\ c.specs = b.specs /\ c.armed = b.armed
<1> DEFINE c == [b EXCEPT !.decided = D]
<1>1. b \in OwnerType BY DEF OK
<1>2. c \in OwnerType BY <1>1, FieldTypes
<1>3. c.specs = b.specs /\ c.closing = b.closing /\ c.work = b.work /\ c.armed = b.armed
  BY <1>1 DEF OwnerType
<1> HIDE DEF c
<1>4. OK(c, X, q) BY <1>2, <1>3, Frame, SMTT(30)
<1> QED BY <1>3, <1>4 DEF c

\* What an ask that reaches the policy notes first.
LEMMA NotedOK ==
  ASSUME NEW b, NEW X, NEW q, OK(b, X, q), NEW k \in Key
  PROVE  LET d == [b EXCEPT !.specs[k].waitingOnSibling = FALSE, !.decided = @ \cup {k}]
         IN  /\ OK(d, X, q) /\ d.closing = b.closing /\ d.armed = b.armed
             /\ \A j \in Key : d.specs[j].proc = b.specs[j].proc
<1> DEFINE c == [b EXCEPT !.specs[k].waitingOnSibling = FALSE]
           D == b.decided \cup {k}
           d == [c EXCEPT !.decided = D]
<1>1. b \in OwnerType /\ D \in SUBSET Key BY DEF OK, OwnerType
<1>2. d = [b EXCEPT !.specs[k].waitingOnSibling = FALSE, !.decided = @ \cup {k}]
  BY <1>1 DEF OwnerType
<1>3. /\ OK(c, X, q) /\ c.closing = b.closing /\ c.armed = b.armed
      /\ \A j \in Key : c.specs[j].proc = b.specs[j].proc
  BY WaitingOnSiblingOK, ZenonT(30)
<1> HIDE DEF c, D
<1>4. OK(d, X, q) /\ d.closing = c.closing /\ d.specs = c.specs /\ d.armed = c.armed
  BY <1>1, <1>3, DecidedSetOK
<1> HIDE DEF d
<1> QED BY <1>2, <1>3, <1>4, SMTT(30)

\* A verdict of the policy is set on a key without a process.
LEMMA RefusedOK ==
  ASSUME NEW b, NEW q, OK(b, {}, q), NEW k \in Key, b.specs[k].proc = Nil, ~b.closing
  PROVE  OK(setNotPermitted(b, k), {}, q) /\ OK(setPendingVRAMUnknown(b, k), {}, q)
<1>1. /\ "not_permitted" \in State /\ "pending_vram_unknown" \in State
      /\ "not_permitted" \in Reply /\ "admission_blocked" \in Reply
  BY DEF State, Reply
<1>2. {} \ {k} = {} OBVIOUS
<1>3. ASSUME NEW s \in State, s \notin {"starting", "running"}, NEW err \in Reply
      PROVE  OK(wakeSiblingsWaitingFor(failPending(setState(b, k, s), k, err), k), {}, q)
  <2> DEFINE c == setState(b, k, s)
             d == failPending(c, k, err)
  <2>1. OK(c, {}, q) /\ c.closing = b.closing BY <1>2, <1>3, SetStateOK, SMTT(30)
  <2> HIDE DEF c
  <2>2. OK(d, {}, q) /\ d.closing = b.closing BY <2>1, FailPendingOK, FailPendingSame
  <2> HIDE DEF d
  <2>3. OK(wakeSiblingsWaitingFor(d, k), {}, q) BY <2>2, WakeSiblingsOK, SMTT(30)
  <2> QED BY <2>3 DEF c, d
<1> QED BY <1>1, <1>3 DEF setNotPermitted, setPendingVRAMUnknown

\* evict notes whom the victims leave for and drains them.
LEMMA EvictOK ==
  ASSUME NEW b, NEW X, NEW q, OK(b, X, q), NEW k \in Key, NEW V
  PROVE  OK(evict(b, k, V), X, q) /\ evict(b, k, V).closing = b.closing
         /\ \A j \in Key : evict(b, k, V).specs[j].proc = b.specs[j].proc
<1> DEFINE f == [j \in Key |->
                   IF j \in V
                   THEN [b.specs[j] EXCEPT !.drainedFor = appendUnique(b.specs[j].drainedFor, k)]
                   ELSE b.specs[j]]
           c == [b EXCEPT !.specs = f]
<1>1. b.specs \in [Key -> SpecState] BY SMTT(30) DEF OK, OwnerType
<1>2. \A j \in Key : /\ f[j] \in SpecState
                     /\ f[j].state = b.specs[j].state
                     /\ f[j].proc = b.specs[j].proc
                     /\ f[j].intentionalStop = b.specs[j].intentionalStop
  <2> SUFFICES ASSUME NEW j \in Key
               PROVE  /\ f[j] \in SpecState
                      /\ f[j].state = b.specs[j].state
                      /\ f[j].proc = b.specs[j].proc
                      /\ f[j].intentionalStop = b.specs[j].intentionalStop
    OBVIOUS
  <2>1. b.specs[j] \in SpecState /\ b.specs[j].drainedFor \in Seq(Key) BY <1>1 DEF SpecState
  <2> DEFINE s == appendUnique(b.specs[j].drainedFor, k)
             st == [b.specs[j] EXCEPT !.drainedFor = s]
  <2>2. s \in Seq(Key) BY <2>1, SMT DEF appendUnique
  <2>3. f[j] = IF j \in V THEN st ELSE b.specs[j] OBVIOUS
  <2> HIDE DEF s
  <2>4. st \in SpecState BY <2>1, <2>2, SpecUpdates, SMTT(30)
  <2>5. st.state = b.specs[j].state /\ st.proc = b.specs[j].proc
        /\ st.intentionalStop = b.specs[j].intentionalStop
    BY <2>1 DEF SpecState
  <2> HIDE DEF st, f
  <2> QED BY <2>1, <2>3, <2>4, <2>5, SMTT(30)
<1>3. evict(b, k, V) = beginDrain(c, V) BY DEF evict
<1>4. f \in [Key -> SpecState] BY <1>2
<1> HIDE DEF f
<1>5. OK(c, X, q) /\ c.specs = f /\ c.closing = b.closing BY <1>2, <1>4, ReplaceAll, SMTT(30)
<1> HIDE DEF c
<1> QED BY <1>2, <1>3, <1>5, BeginDrainOK, SMTT(30)

\* An ask that the policy does not grant keeps the invariant.
LEMMA DecidedOK ==
  ASSUME NEW b, NEW q, OK(b, {}, q), NEW k \in Key, b.specs[k].proc = Nil, ~b.closing
  PROVE  OK(decided(b, k), {}, q)
<1> DEFINE d == [b EXCEPT !.specs[k].waitingOnSibling = FALSE, !.decided = @ \cup {k}]
           dec == decision(b, k)
<1>1. OK(d, {}, q) /\ ~d.closing /\ d.specs[k].proc = Nil BY NotedOK
<1>2. "demand_unknown" \in Reply /\ "no_capacity" \in Reply BY DEF Reply
<1>3. decided(b, k) \in {failPending(d, k, "demand_unknown"), d, failPending(d, k, "no_capacity"),
                         setNotPermitted(d, k), setPendingVRAMUnknown(d, k), evict(d, k, dec.evict)}
  BY DEF decided, decidedAs
<1> HIDE DEF d, dec
<1> QED BY <1>1, <1>2, <1>3, FailPendingOK, RefusedOK, EvictOK, SMTT(30)

\* An ask that ends before the policy keeps the invariant.
LEMMA UndecidedOK ==
  ASSUME NEW b, NEW q, OK(b, {}, q), NEW k \in Key, ~b.closing
  PROVE  OK(undecided(b, k), {}, q)
<1> DEFINE d == [b EXCEPT !.specs[k].waitingOnSibling = FALSE]
           e == [d EXCEPT !.specs[k].waitingOnSibling = TRUE]
           D == b.decided \ {k}
           g == [e EXCEPT !.decided = D]
<1>1. OK(d, {}, q) /\ ~d.closing /\ d.specs[k].proc = b.specs[k].proc /\ d.decided = b.decided
  BY WaitingOnSiblingOK, ZenonT(30)
<1>2. "admission_blocked" \in Reply BY DEF Reply
<1>3. \/ undecided(b, k) \in {b, d, failPending(d, k, "admission_blocked")}
      \/ b.specs[k].proc = Nil /\ undecided(b, k) = setNotPermitted(d, k)
      \/ undecided(b, k) = [d EXCEPT !.specs[k].waitingOnSibling = TRUE, !.decided = @ \ {k}]
  BY DEF undecided, askable
<1> HIDE DEF d
<1>4. d \in OwnerType BY <1>1 DEF OK
<1>5. [d EXCEPT !.specs[k].waitingOnSibling = TRUE, !.decided = @ \ {k}] = g
  BY <1>1, <1>4 DEF OwnerType
<1>6. OK(e, {}, q) BY <1>1, WaitingOnSiblingOK
<1>7. D \in SUBSET Key BY <1>1, <1>4 DEF OwnerType
<1> HIDE DEF e, D
<1>8. OK(g, {}, q) BY <1>6, <1>7, DecidedSetOK
<1> HIDE DEF g
<1> QED BY <1>1, <1>2, <1>3, <1>5, <1>8, FailPendingOK, RefusedOK, SMTT(30)

(***************************************************************************)
(* The asks of a turn.                                                     *)
(***************************************************************************)

\* A process that nothing refers to is started.
LEMMA StartedOK ==
  ASSUME NEW b, NEW q, OK(b, {}, q), NEW k \in Key, NEW p \in Proc,
         ~b.closing, b.specs[k].proc = Nil,
         q.poll \in [Proc -> Key \cup {Nil}],
         \A j \in Key : b.specs[j].proc # p,
         \A m \in b.armed \cup q.cmds : m.proc # p,
         NEW T
  PROVE  LET c == [b EXCEPT !.specs[k].proc = p, !.specs[k].state = "starting",
                            !.specs[k].everHealthy = FALSE, !.armed = @ \ T]
         IN  OK(c, {}, [cmds |-> q.cmds, poll |-> [q.poll EXCEPT ![p] = k]]) /\ ~c.closing
<1> DEFINE r == [cmds |-> q.cmds, poll |-> [q.poll EXCEPT ![p] = k]]
           su == [b.specs[k] EXCEPT !.proc = p]
           sv == [su EXCEPT !.state = "starting"]
           st == [sv EXCEPT !.everHealthy = FALSE]
           c == [b EXCEPT !.specs[k] = st]
           d == [c EXCEPT !.armed = @ \ T]
<1>0. b \in OwnerType /\ b.specs \in [Key -> SpecState] /\ b.specs[k] \in SpecState
  BY DEF OK, OwnerType
<1>1. OK(b, {}, r)
  <2>1. r.cmds = q.cmds /\ \A j \in Proc \ {p} : r.poll[j] = q.poll[j] OBVIOUS
  <2>2. \A j \in Key : b.specs[j].proc # Nil => b.specs[j].proc \in Proc \ {p}
    BY <1>0 DEF SpecState
  <2> HIDE DEF r
  <2>3. ProbesOK(b, r) BY <2>1, <2>2 DEF OK, ProbesOK, Probed
  <2>4. DrainTimersOK(b, r) BY <2>1 DEF OK, DrainTimersOK
  <2> QED BY <2>1, <2>3, <2>4 DEF OK
<1>2. st \in SpecState
  <2>1. su \in SpecState BY <1>0, SpecUpdates
  <2>2. "starting" \in State BY DEF State
  <2>3. sv \in SpecState BY <2>1, <2>2, SpecUpdates
  <2> QED BY <2>3, SpecUpdates
<1>3. st.proc = p /\ st.state = "starting" /\ st.intentionalStop = b.specs[k].intentionalStop
  BY <1>0 DEF SpecState
<1>4. d = [b EXCEPT !.specs[k].proc = p, !.specs[k].state = "starting",
                    !.specs[k].everHealthy = FALSE, !.armed = @ \ T]
  BY <1>0 DEF OwnerType, SpecState
<1>5. p # Nil BY ManagerAssumption
<1>6. ~b.specs[k].intentionalStop BY DEF OK, SpecsOK, Settled
<1> HIDE DEF su, sv, st
<1>7. Settled(st) BY <1>3, <1>5, <1>6 DEF Settled
<1>8. \A m \in b.armed \cup r.cmds : m.proc # st.proc BY <1>3
<1> HIDE DEF r
<1>9. OK(c, {}, r) BY <1>1, <1>2, <1>3, <1>7, <1>8, Replace, SMT
<1>10. c.closing = b.closing /\ c \in OwnerType BY <1>0, <1>9 DEF OK, OwnerType
<1> HIDE DEF c
<1>11. OK(d, {}, r) BY <1>9, UnarmOK
<1>12. d.closing = c.closing BY <1>10 DEF OwnerType
<1> QED BY <1>4, <1>10, <1>11, <1>12 DEF r

\* An ask that starts nothing.
LEMMA QuietAsk ==
  ASSUME IInv, cmds' = cmds, UNCHANGED <<life, poll>>, OK(o', {}, Env)
  PROVE  Asked
<1>1. Env' = Env BY DEF Env
<1>2. OneResult' BY DEF IInv, OneResult
<1> QED BY <1>1, <1>2 DEF Asked, IInv, TypeOK

\* admitAndStart keeps the invariant, whether or not a process starts.
LEMMA AdmitAndStartOK ==
  ASSUME IInv, cmds' = cmds, NEW b, OK(b, {}, Env), ~b.closing, b.specs = o.specs,
         b.armed = o.armed, NEW k \in Key, admitAndStart(b, k)
  PROVE  Asked
<1> DEFINE d == [b EXCEPT !.specs[k].waitingOnSibling = FALSE, !.decided = @ \cup {k}]
           T == {cmdWaiterTimeout(k, c) : c \in b.specs[k].pending}
           p == CHOOSE p \in unusedProcs : TRUE
<1>1. CASE ~reachesPolicy(b, k) /\ o' = settle(undecided(b, k), k) /\ UNCHANGED <<life, poll>>
  <2>1. OK(undecided(b, k), {}, Env) BY UndecidedOK
  <2> QED BY <1>1, <2>1, SettleOK, QuietAsk
<1>2. CASE reachesPolicy(b, k) /\ o' = settle(decided(b, k), k) /\ UNCHANGED <<life, poll>>
  <2>1. b.specs[k].proc = Nil BY <1>2 DEF reachesPolicy, askable
  <2>2. OK(decided(b, k), {}, Env) BY <2>1, DecidedOK
  <2> QED BY <1>2, <2>2, SettleOK, QuietAsk
<1>3. CASE mayStart(b, k) /\ startProcess(b, k)
  <2>1. b.specs[k].proc = Nil BY <1>3, SMTT(30) DEF mayStart, reachesPolicy, askable
  <2>2. /\ OK(d, {}, Env) /\ ~d.closing /\ d.armed = b.armed
        /\ \A j \in Key : d.specs[j].proc = b.specs[j].proc
    BY NotedOK
  <2>3. \/ o' = settle(setNotPermitted(d, k), k) /\ UNCHANGED <<life, poll>>
        \/ o' = settle(failStart(d, k, "start_failed"), k) /\ UNCHANGED <<life, poll>>
        \/ /\ unusedProcs # {}
           /\ o' = settle(wakeSiblingsWaitingFor(
                     [d EXCEPT !.specs[k].proc = p,
                               !.specs[k].state = "starting",
                               !.specs[k].everHealthy = FALSE,
                               !.armed = @ \ T], k), k)
           /\ life' = [life EXCEPT ![p] = "alive"]
           /\ poll' = [poll EXCEPT ![p] = k]
    BY <1>3 DEF startProcess
  <2> HIDE DEF d, T, p
  <2>4. CASE o' = settle(setNotPermitted(d, k), k) /\ UNCHANGED <<life, poll>>
    <3>1. OK(setNotPermitted(d, k), {}, Env) BY <2>1, <2>2, RefusedOK
    <3> QED BY <2>4, <3>1, SettleOK, QuietAsk
  <2>5. CASE o' = settle(failStart(d, k, "start_failed"), k) /\ UNCHANGED <<life, poll>>
    <3>1. "start_failed" \in Reply BY DEF Reply
    <3>2. OK(failStart(d, k, "start_failed"), {}, Env) BY <2>1, <2>2, <3>1, FailStartOK, SMT
    <3> QED BY <2>5, <3>2, SettleOK, QuietAsk
  <2>6. CASE /\ unusedProcs # {}
             /\ o' = settle(wakeSiblingsWaitingFor(
                       [d EXCEPT !.specs[k].proc = p,
                                 !.specs[k].state = "starting",
                                 !.specs[k].everHealthy = FALSE,
                                 !.armed = @ \ T], k), k)
             /\ life' = [life EXCEPT ![p] = "alive"]
             /\ poll' = [poll EXCEPT ![p] = k]
    <3> DEFINE c == [d EXCEPT !.specs[k].proc = p,
                              !.specs[k].state = "starting",
                              !.specs[k].everHealthy = FALSE,
                              !.armed = @ \ T]
    <3>1. p \in unusedProcs BY <2>6 DEF p
    <3>2. /\ p \in Proc /\ poll[p] = Nil
          /\ \A j \in Key : o.specs[j].proc # p
          /\ \A m \in cmds \cup o.armed : m.proc # p
      BY <3>1 DEF unusedProcs
    <3>3. Env.cmds = cmds /\ Env.poll = poll BY DEF Env
    <3>4. poll \in [Proc -> Key \cup {Nil}] /\ life \in [Proc -> {"alive", "killed", "exited"}]
      BY DEF IInv, TypeOK
    <3>5. /\ \A j \in Key : d.specs[j].proc # p
          /\ \A m \in d.armed \cup Env.cmds : m.proc # p
      BY <2>2, <3>2, <3>3
    <3>6. d.specs[k].proc = Nil BY <2>1, <2>2, SMTT(30)
    <3>7. OK(c, {}, [cmds |-> Env.cmds, poll |-> [Env.poll EXCEPT ![p] = k]]) /\ ~c.closing
      BY <2>2, <3>2, <3>3, <3>4, <3>5, <3>6, StartedOK
    <3>8. Env' = [cmds |-> Env.cmds, poll |-> [Env.poll EXCEPT ![p] = k]]
      BY <2>6, <3>3 DEF Env
    <3> HIDE DEF c
    <3>9. OK(c, {}, Env') BY <3>7, <3>8
    <3>10. OK(wakeSiblingsWaitingFor(c, k), {}, Env') BY <3>7, <3>9, WakeSiblingsOK
    <3>11. OK(settle(wakeSiblingsWaitingFor(c, k), k), {}, Env') BY <3>10, SettleOK
    <3>12. OK(o', {}, Env') BY <2>6, <3>11 DEF c
    <3>13. OneResult'
      <4>1. \A m \in cmds : m.cmd = "startResult" => m.proc \in Proc
        <5>1. cmds \subseteq Command \cup Timer BY DEF IInv, TypeOK
        <5> QED BY <5>1, CommandFields
      <4> QED BY <2>6, <3>2, <3>4, <4>1 DEF IInv, OneResult
    <3>14. life' \in [Proc -> {"alive", "killed", "exited"}] /\ poll' \in [Proc -> Key \cup {Nil}]
      BY <2>6, <3>2, <3>4
    <3> QED BY <3>12, <3>13, <3>14 DEF Asked
  <2> QED BY <2>3, <2>4, <2>5, <2>6
<1> QED BY <1>1, <1>2, <1>3 DEF admitAndStart

\* reask keeps the invariant.
LEMMA ReaskOK ==
  ASSUME IInv, cmds' = cmds, NEW b, OK(b, {}, Env), ~b.closing, b.specs = o.specs,
         b.armed = o.armed, NEW k \in Key, reask(b, k)
  PROVE  Asked
<1>1. OK(advance(b), {}, Env) BY AdvanceOK
<1> QED BY <1>1, AdmitAndStartOK, QuietAsk DEF reask

\* A key is taken off the list of asks.
LEMMA TakenOff ==
  ASSUME IInv, NEW w \in Work, o.work # NoWork
  PROVE  LET b == [o EXCEPT !.work = w]
         IN  OK(b, {}, Env) /\ ~b.closing /\ b.specs = o.specs /\ b.armed = o.armed
<1>1. o \in OwnerType /\ OK(o, {}, Env) BY DEF IInv, TypeOK
<1>2. ~o.closing BY <1>1 DEF OK, ClosingOK
<1>3. [o EXCEPT !.work = w].armed = o.armed BY <1>1 DEF OwnerType
<1> QED BY <1>1, <1>2, <1>3, WorkOK, SMT

\* Each ask of a turn keeps the invariant.
LEMMA FinishTurnOK ==
  ASSUME IInv, FinishTurn
  PROVE  Asked
<1> USE DEF FinishTurn
<1>0. o \in OwnerType /\ o.work \in Work /\ cmds' = cmds BY DEF IInv, TypeOK, OwnerType
<1>1. CASE AskSibling
  <2>1. PICK k \in o.work.siblings :
          LET b == [o EXCEPT !.work.siblings = @ \ {k}]
          IN  \/ admitAndStart(b, k)
              \/ o' = advance(b) /\ UNCHANGED <<life, poll>>
    BY <1>1 DEF AskSibling
  <2> DEFINE w == [o.work EXCEPT !.siblings = @ \ {k}]
             b == [o EXCEPT !.work = w]
  <2>2. k \in Key /\ w \in Work /\ o.work # NoWork BY <1>0, SMT DEF Work, NoWork
  <2>3. b = [o EXCEPT !.work.siblings = @ \ {k}] OBVIOUS
  <2> HIDE DEF w
  <2>4. OK(b, {}, Env) /\ ~b.closing /\ b.specs = o.specs /\ b.armed = o.armed
    BY <2>2, TakenOff
  <2>5. admitAndStart(b, k) \/ (o' = advance(b) /\ UNCHANGED <<life, poll>>) BY <2>1, <2>3
  <2> HIDE DEF b
  <2>6. OK(advance(b), {}, Env) BY <2>4, AdvanceOK
  <2> QED BY <1>0, <2>2, <2>4, <2>5, <2>6, AdmitAndStartOK, QuietAsk
<1>2. CASE AskFirst
  <2>1. PICK k \in o.work.first : reask([o EXCEPT !.work.first = @ \ {k}], k)
    BY <1>2 DEF AskFirst
  <2> DEFINE w == [o.work EXCEPT !.first = @ \ {k}]
             b == [o EXCEPT !.work = w]
  <2>2. k \in Key /\ w \in Work /\ o.work # NoWork BY <1>0, SMT DEF Work, NoWork
  <2>3. b = [o EXCEPT !.work.first = @ \ {k}] OBVIOUS
  <2> HIDE DEF w
  <2>4. OK(b, {}, Env) /\ ~b.closing /\ b.specs = o.specs /\ b.armed = o.armed
    BY <2>2, TakenOff
  <2>5. reask(b, k) BY <2>1, <2>3
  <2> HIDE DEF b
  <2> QED BY <1>0, <2>2, <2>4, <2>5, ReaskOK
<1>3. CASE AskClaim
  <2> DEFINE k == Head(o.work.claims)
             w == [o.work EXCEPT !.claims = Tail(@)]
             b == [o EXCEPT !.work = w]
  <2>1. o.work.claims # <<>> /\ reask([o EXCEPT !.work.claims = Tail(@)], k)
    BY <1>3 DEF AskClaim
  <2>2. k \in Key /\ Tail(o.work.claims) \in Seq(Key) BY <1>0, <2>1, SMT DEF Work
  <2>3. w \in Work /\ o.work # NoWork
    <3> DEFINE t == Tail(o.work.claims)
    <3>1. t \in Seq(Key) BY <2>2
    <3> HIDE DEF t
    <3>2. [o.work EXCEPT !.claims = t] \in Work BY <1>0, <3>1 DEF Work
    <3>3. NoWork.claims = <<>> BY DEF NoWork
    <3> QED BY <2>1, <3>2, <3>3 DEF t
  <2>4. b = [o EXCEPT !.work.claims = Tail(@)] OBVIOUS
  <2> HIDE DEF w
  <2>5. OK(b, {}, Env) /\ ~b.closing /\ b.specs = o.specs /\ b.armed = o.armed
    BY <2>3, TakenOff
  <2>6. reask(b, k) BY <2>1, <2>4
  <2> HIDE DEF b, k
  <2> QED BY <1>0, <2>2, <2>5, <2>6, ReaskOK
<1>4. CASE AskSelf
  <2> DEFINE k == o.work.self
             w == [o.work EXCEPT !.self = Nil]
             b == [o EXCEPT !.work = w]
  <2>1. k # Nil /\ admitAndStart([o EXCEPT !.work.self = Nil], k) BY <1>4 DEF AskSelf
  <2>2. k \in Key /\ w \in Work /\ o.work # NoWork BY <1>0, <2>1, SMT DEF Work, NoWork
  <2>3. b = [o EXCEPT !.work.self = Nil] OBVIOUS
  <2> HIDE DEF w
  <2>4. OK(b, {}, Env) /\ ~b.closing /\ b.specs = o.specs /\ b.armed = o.armed
    BY <2>2, TakenOff
  <2>5. admitAndStart(b, k) BY <2>1, <2>3
  <2> HIDE DEF b, k
  <2> QED BY <1>0, <2>2, <2>4, <2>5, AdmitAndStartOK
<1>5. CASE AskWoken
  <2>1. PICK k \in o.work.woken : reask([o EXCEPT !.work.woken = @ \ {k}], k)
    BY <1>5 DEF AskWoken
  <2> DEFINE w == [o.work EXCEPT !.woken = @ \ {k}]
             b == [o EXCEPT !.work = w]
  <2>2. k \in Key /\ w \in Work /\ o.work # NoWork BY <1>0, SMT DEF Work, NoWork
  <2>3. b = [o EXCEPT !.work.woken = @ \ {k}] OBVIOUS
  <2> HIDE DEF w
  <2>4. OK(b, {}, Env) /\ ~b.closing /\ b.specs = o.specs /\ b.armed = o.armed
    BY <2>2, TakenOff
  <2>5. reask(b, k) BY <2>1, <2>3
  <2> HIDE DEF b
  <2> QED BY <1>0, <2>2, <2>4, <2>5, ReaskOK
<1> QED BY <1>1, <1>2, <1>3, <1>4, <1>5

(***************************************************************************)
(* The command handlers.  q is what is around the owner once the command   *)
(* has been taken.                                                         *)
(***************************************************************************)

\* How many leases a process has is free.
LEMMA InFlightOK ==
  ASSUME NEW b, NEW q, OK(b, {}, q), NEW k \in Key, NEW n \in Nat
  PROVE  LET c == [b EXCEPT !.specs[k].inFlight = n]
         IN  /\ OK(c, {}, q) /\ c.closing = b.closing
             /\ c.specs[k].proc = b.specs[k].proc /\ c.specs[k].state = b.specs[k].state
<1> DEFINE st == [b.specs[k] EXCEPT !.inFlight = n]
           c == [b EXCEPT !.specs[k] = st]
<1>1. b \in OwnerType /\ b.specs \in [Key -> SpecState] /\ b.specs[k] \in SpecState
  BY DEF OK, OwnerType
<1>2. st \in SpecState BY <1>1, SpecUpdates
<1>3. st.state = b.specs[k].state /\ st.proc = b.specs[k].proc
      /\ st.intentionalStop = b.specs[k].intentionalStop
  BY <1>1 DEF SpecState
<1>4. c = [b EXCEPT !.specs[k].inFlight = n] OBVIOUS
<1> HIDE DEF st
<1>5. OK(c, {}, q) BY <1>2, <1>3, Calm
<1>6. c.closing = b.closing /\ c.specs[k] = st BY <1>1 DEF OwnerType
<1> QED BY <1>3, <1>4, <1>5, <1>6

\* A refused request keeps the invariant.
LEMMA EnsureRefusedOK ==
  ASSUME NEW m, m.key \in Key, m.caller \in Caller, NEW q, OK(o, {}, q), EnsureRefused(m)
  PROVE  OK(o', {}, q)
<1> DEFINE err == ensureRefusal(m.key, m.flag)
           spent == burstLeftNothing(o.specs[m.key], m.key) /\ restsAtFailure(o.specs[m.key])
           b == IF err = "no_capacity" /\ spent THEN retire(o, m.key) ELSE o
<1>1. o' = advance(answer(b, {m.caller}, err, NoLease)) BY DEF EnsureRefused
<1>2. err \in Reply BY DEF ensureRefusal, Reply
<1>3. OK(b, {}, q)
  <2>1. OK(retire(o, m.key), {} \ {m.key}, q) BY RetireOK
  <2>2. {} \ {m.key} = {} OBVIOUS
  <2> QED BY <2>1, <2>2
<1> HIDE DEF b, err
<1>4. OK(answer(b, {m.caller}, err, NoLease), {}, q) BY <1>2, <1>3, AnswerOK, NoLeaseType
<1> QED BY <1>1, <1>4, AdvanceOK

\* A request served at once keeps the invariant.
LEMMA EnsureServedOK ==
  ASSUME NEW m, m.key \in Key, m.caller \in Caller, NEW q, OK(o, {}, q), EnsureServed(m)
  PROVE  OK(o', {}, q)
<1> DEFINE k == m.key
           a == answer(o, {m.caller}, "ok", leaseOf(o, k))
           n == a.specs[k].inFlight + 1
           c == [a EXCEPT !.specs[k].inFlight = n]
<1>1. o' = advance(touch(c, k)) BY DEF EnsureServed
<1>2. "ok" \in Reply BY SMTT(30) DEF Reply
<1>3. leaseOf(o, k) \in Lease
  BY DEF EnsureServed, OK, OwnerType, SpecState, leaseOf, Lease
<1>4. OK(a, {}, q) BY <1>2, <1>3, AnswerOK
<1> HIDE DEF a
<1>5. n \in Nat BY <1>4, SMT DEF OK, OwnerType, SpecState
<1> HIDE DEF n
<1>6. OK(c, {}, q) BY <1>4, <1>5, InFlightOK
<1> HIDE DEF c
<1>7. OK(touch(c, k), {}, q) BY <1>6, TouchOK
<1> QED BY <1>1, <1>7, AdvanceOK

\* The two handlers that only answer.
LEMMA EnsureAnsweredOK ==
  ASSUME NEW m, m.key \in Key, m.caller \in Caller, NEW q, OK(o, {}, q),
         EnsureRepeatsVerdict(m) \/ EnsureBurstBusy(m)
  PROVE  OK(o', {}, q)
<1>1. PICK err \in Reply : o' = advance(answer(o, {m.caller}, err, NoLease))
  <2>1. "not_permitted" \in Reply /\ "admission_blocked" \in Reply /\ "no_capacity" \in Reply
    BY DEF Reply
  <2> QED BY <2>1 DEF EnsureRepeatsVerdict, EnsureBurstBusy
<1>2. OK(answer(o, {m.caller}, err, NoLease), {}, q) BY AnswerOK, NoLeaseType
<1> QED BY <1>1, <1>2, AdvanceOK

\* instanceForRequest creates an instance at rest.
LEMMA InstanceForRequestOK ==
  ASSUME NEW b, NEW q, OK(b, {}, q), NEW k \in Key
  PROVE  OK(instanceForRequest(b, k), {}, q)
<1> DEFINE spec == b.specs[<<k[1], 0>>].spec
<1>1. <<k[1], 0>> \in Key BY ManagerAssumption DEF Key
<1>2. spec \in SpecType BY <1>1 DEF OK, OwnerType, SpecState
<1>3. OK(retire(b, k), {}, q)
  <2>1. OK(retire(b, k), {} \ {k}, q) BY RetireOK
  <2>2. {} \ {k} = {} OBVIOUS
  <2> QED BY <2>1, <2>2
<1>4. PICK c \in {retire(b, k), b} :
        instanceForRequest(b, k) = b
          \/ instanceForRequest(b, k) = [c EXCEPT !.specs[k] = fresh(spec)]
  BY DEF instanceForRequest
<1> HIDE DEF spec
<1>5. OK(c, {}, q) BY <1>3
<1>6. fresh(spec) \in SpecState /\ Settled(fresh(spec)) /\ Gone(fresh(spec)) BY <1>2, FreshType
<1>7. OK([c EXCEPT !.specs[k] = fresh(spec)], {}, q) BY <1>5, <1>6, Replace, SMT DEF Gone
<1> QED BY <1>4, <1>7

\* A request that is queued keeps the invariant.
LEMMA EnsureQueuedOK ==
  ASSUME NEW m, m.key \in Key, m.caller \in Caller, NEW q, OK(o, {}, q), EnsureQueued(m)
  PROVE  OK(o', {}, q)
<1> DEFINE b == instanceForRequest(o, m.key)
           c == enqueue(b, m.key, m.caller)
<1>1. o' = schedule(c, [NoWork EXCEPT !.self = m.key]) BY DEF EnsureQueued
<1>2. OK(b, {}, q) BY InstanceForRequestOK
<1> HIDE DEF b
<1>3. OK(c, {}, q) BY <1>2, EnqueueOK
<1> HIDE DEF c
<1> QED BY <1>1, <1>3, ScheduleOK, WorkTypes

\* handleCancelEnsure keeps the invariant.
LEMMA CancelEnsureOK ==
  ASSUME NEW m, m.caller \in Caller, NEW q, OK(o, {}, q), CancelEnsure(m)
  PROVE  OK(o', {}, q)
<1>1. ASSUME NEW k \in Key
      PROVE  OK([dequeue(o, k, m.caller, "canceled")
                   EXCEPT !.armed = @ \ {cmdWaiterTimeout(k, m.caller)}], {}, q)
  <2> DEFINE c == dequeue(o, k, m.caller, "canceled")
             T == {cmdWaiterTimeout(k, m.caller)}
  <2>1. "canceled" \in Reply BY DEF Reply
  <2>2. OK(c, {}, q) BY <2>1, DequeueOK
  <2> HIDE DEF c, T
  <2>3. OK([c EXCEPT !.armed = @ \ T], {}, q) BY <2>2, UnarmOK
  <2> QED BY <2>3 DEF c, T
<1>2. CASE o' = advance(o) BY <1>2, AdvanceOK
<1>3. CASE \E k \in Key : o' = advance([dequeue(o, k, m.caller, "canceled")
                                          EXCEPT !.armed = @ \ {cmdWaiterTimeout(k, m.caller)}])
  <2>1. PICK k \in Key : o' = advance([dequeue(o, k, m.caller, "canceled")
                                         EXCEPT !.armed = @ \ {cmdWaiterTimeout(k, m.caller)}])
    BY <1>3
  <2> DEFINE c == [dequeue(o, k, m.caller, "canceled")
                     EXCEPT !.armed = @ \ {cmdWaiterTimeout(k, m.caller)}]
  <2>2. OK(c, {}, q) BY <1>1
  <2>3. o' = advance(c) BY <2>1
  <2> HIDE DEF c
  <2> QED BY <2>2, <2>3, AdvanceOK
<1> QED BY <1>2, <1>3 DEF CancelEnsure

\* handleWaiterTimeout keeps the invariant.
LEMMA WaiterTimeoutOK ==
  ASSUME NEW m, m.key \in Key, m.caller \in Caller, NEW q, OK(o, {}, q), WaiterTimeout(m)
  PROVE  OK(o', {}, q)
<1> DEFINE c == dequeue(o, m.key, m.caller, "admission_blocked")
<1>1. "admission_blocked" \in Reply BY DEF Reply
<1>2. OK(c, {}, q) BY <1>1, DequeueOK
<1>3. o' = advance(c) \/ o' = advance(o) BY DEF WaiterTimeout
<1> HIDE DEF c
<1> QED BY <1>2, <1>3, AdvanceOK

\* handleRelease keeps the invariant: it signals a draining process only.
LEMMA ReleaseOK ==
  ASSUME NEW m, m.key \in Key, m.caller \in Caller, m.proc \in Proc, NEW q, OK(o, {}, q), Release(m)
  PROVE  OK(o', {}, q)
<1> DEFINE k == m.key
           b == [o EXCEPT !.lease[m.caller] = NoLease]
           n == IF b.specs[k].inFlight > 0 THEN b.specs[k].inFlight - 1 ELSE b.specs[k].inFlight
           c == [b EXCEPT !.specs[k].inFlight = n]
           d == IF c.specs[k].state = "draining" /\ c.specs[k].inFlight = 0
                THEN terminateNow(c, k) ELSE c
<1>1. o' = IF o.specs[k].proc # m.proc THEN advance(b) ELSE wakeAdmissionCandidates(touch(d, k))
  BY DEF Release
<1>2. OK(b, {}, q) /\ b.specs = o.specs
  <2>1. o \in OwnerType BY DEF OK
  <2>2. b \in OwnerType /\ b.specs = o.specs /\ b.closing = o.closing /\ b.work = o.work
        /\ b.armed = o.armed
    BY <2>1, NoLeaseType DEF OwnerType
  <2> HIDE DEF b
  <2> QED BY <2>2, Frame
<1> HIDE DEF b
<1>3. n \in Nat BY <1>2, SMTT(30) DEF OK, OwnerType, SpecState
<1> HIDE DEF n
<1>4. OK(c, {}, q) /\ c.specs[k].proc = b.specs[k].proc BY <1>2, <1>3, InFlightOK
<1> HIDE DEF c
<1>5. CASE o.specs[k].proc # m.proc
  BY <1>1, <1>2, <1>5, AdvanceOK
<1>6. CASE ~(o.specs[k].proc # m.proc)
  <2>1. c.specs[k].proc # Nil BY <1>2, <1>4, <1>6, ManagerAssumption
  <2>2. OK(d, {}, q) BY <1>4, <2>1, TerminateNowOK
  <2> HIDE DEF d
  <2>3. OK(touch(d, k), {}, q) BY <2>2, TouchOK
  <2> QED BY <1>1, <1>6, <2>3, WakeAdmissionCandidatesOK
<1> QED BY <1>5, <1>6

\* stopInstance keeps the invariant.
LEMMA StopOK ==
  ASSUME NEW m, m.key \in Key, NEW q, OK(o, {}, q), Stop(m)
  PROVE  OK(o', {}, q)
<1>1. PICK err \in Reply : \E b \in {failPending(o, m.key, err), o} :
        o' = advance(o) \/ o' = advance(beginDrain(b, {m.key}))
  <2>1. "no_capacity" \in Reply /\ "admission_blocked" \in Reply BY DEF Reply
  <2> QED BY <2>1 DEF Stop
<1>2. PICK b \in {failPending(o, m.key, err), o} :
        o' = advance(o) \/ o' = advance(beginDrain(b, {m.key}))
  BY <1>1
<1>3. OK(b, {}, q) BY FailPendingOK
<1>4. OK(beginDrain(b, {m.key}), {}, q) BY <1>3, BeginDrainOK
<1> QED BY <1>2, <1>4, AdvanceOK, SMTT(30)

\* The first and only result of a start comes while it starts, or drains by now.
LEMMA StartResultOK ==
  ASSUME Counting, NEW m, m.key \in Key, m.proc \in Proc, m.flag \in BOOLEAN, NEW q, OK(o, {}, q),
         o.specs[m.key].proc = m.proc => o.specs[m.key].state \in {"starting", "draining"},
         ~Probed(q, m.proc), StartResult(m)
  PROVE  OK(o', {}, q)
<1> DEFINE k == m.key
           st == [o.specs[k] EXCEPT !.everHealthy = TRUE]
           b == IF m.flag THEN [o EXCEPT !.specs[k] = st] ELSE o
           c == setState(b, k, "running")
           s == setState(o, k, "start_failed")
           f == failPending(s, k, "start_timeout")
           t == terminateNow(f, k)
<1>0. o \in OwnerType /\ o.specs \in [Key -> SpecState] /\ o.specs[k] \in SpecState
  BY SMTT(30) DEF OK, OwnerType
<1>1. \/ o' = advance(o)
      \/ o' = advance(b)
      \/ /\ o.specs[k].proc = m.proc /\ o.specs[k].state # "draining"
         /\ \/ o' = schedule(succeedPending(c, k), [NoWork EXCEPT !.wake = "afterStart"])
            \/ o' = advance(enterBackoff(t, k))
  BY DEF StartResult
<1>2. OK(b, {}, q) /\ b.specs[k].proc = o.specs[k].proc /\ b.specs[k].state = o.specs[k].state
      /\ b.specs[k].intentionalStop = o.specs[k].intentionalStop
  <2>1. st \in SpecState BY <1>0, SpecUpdates
  <2>2. st.state = o.specs[k].state /\ st.proc = o.specs[k].proc
        /\ st.intentionalStop = o.specs[k].intentionalStop
    BY <1>0 DEF SpecState
  <2> HIDE DEF st
  <2>3. OK([o EXCEPT !.specs[k] = st], {}, q) BY <2>1, <2>2, Calm
  <2>4. [o EXCEPT !.specs[k] = st].specs[k] = st BY <1>0 DEF OwnerType
  <2> QED BY <2>2, <2>3, <2>4
<1> HIDE DEF b
<1>3. CASE o' = advance(o) \/ o' = advance(b)
  BY <1>2, <1>3, AdvanceOK
<1>4. CASE o.specs[k].proc = m.proc /\ o.specs[k].state # "draining"
  <2>1. o.specs[k].proc # Nil /\ ~Probed(q, o.specs[k].proc) /\ o.specs[k].state = "starting"
    BY <1>4, ManagerAssumption
  <2>2. ~o.specs[k].intentionalStop BY <2>1 DEF OK, SpecsOK, Settled
  <2>3. ~o.closing BY <2>1, SMT DEF OK, ClosingOK
  <2>4. OK(c, {}, q) /\ c.specs[k].proc # Nil
    BY <1>2, <2>1, <2>2, SetStateLiveOK, SMTT(30)
  <2> HIDE DEF c
  <2>5. OK(succeedPending(c, k), {}, q) BY <2>4, SucceedPendingOK, SMTT(30)
  <2>6. OK(schedule(succeedPending(c, k), [NoWork EXCEPT !.wake = "afterStart"]), {}, q)
    BY <2>5, ScheduleOK, WorkTypes
  <2>7. OK(s, {}, q) /\ s.specs[k].proc = o.specs[k].proc
        /\ s.specs[k].state = "start_failed" /\ s.closing = o.closing
    BY <2>1, <2>2, SetStateLiveOK
  <2> HIDE DEF s
  <2>8. "start_timeout" \in Reply BY DEF Reply
  <2>9. OK(f, {}, q) /\ f.specs[k].proc = o.specs[k].proc
        /\ f.specs[k].state = "start_failed" /\ f.closing = o.closing
    BY <2>7, <2>8, FailPendingOK, FailPendingSame, SMT
  <2> HIDE DEF f
  <2>10. OK(t, {}, q) /\ t.closing = o.closing BY <2>1, <2>9, TerminateNowOK
  <2> HIDE DEF t
  <2>11. OK(enterBackoff(t, k), {}, q) BY <2>3, <2>10, EnterBackoffOK
  <2>12. OK(advance(enterBackoff(t, k)), {}, q) BY <2>11, AdvanceOK
  <2> QED BY <1>1, <1>3, <2>6, <2>12
<1> QED BY <1>1, <1>3, <1>4

\* After an exit the key has no process; its state is still that of one if it was
\* starting or running.
LEMMA ExitedOK ==
  ASSUME NEW b, NEW q, OK(b, {}, q), NEW k \in Key
  PROVE  /\ OK(exited(b, k), {k}, q)
         /\ b.specs[k].state \notin {"starting", "running"} => OK(exited(b, k), {}, q)
         /\ exited(b, k).specs[k].proc = Nil
         /\ exited(b, k).closing = b.closing
<1> DEFINE st == [b.specs[k] EXCEPT !.proc = Nil, !.inFlight = 0, !.intentionalStop = FALSE,
                                    !.backoffOnExit = FALSE, !.drainedFor = <<>>,
                                    !.everHealthy = FALSE]
           c == [b EXCEPT !.specs[k] = st]
           T == {cmdKillGraceExpired(k, b.specs[k].proc), cmdDrainGraceExpired(k, b.specs[k].proc)}
           d == [c EXCEPT !.armed = @ \ T]
<1>0. b \in OwnerType /\ b.specs \in [Key -> SpecState] /\ b.specs[k] \in SpecState
  BY DEF OK, OwnerType
<1>1. st \in SpecState
  <2>1. <<>> \in Seq(Key) BY SMT
  <2> QED BY <1>0, <2>1 DEF SpecState
<1>2. st.proc = Nil /\ ~st.intentionalStop /\ st.state = b.specs[k].state
  BY <1>0 DEF SpecState
<1>3. exited(b, k) = d BY <1>0 DEF exited, OwnerType
<1> HIDE DEF st, T
<1>4. Gone(st) /\ (b.specs[k].state \notin {"starting", "running"} => Settled(st))
  BY <1>2 DEF Gone, Settled
<1>5. \A j \in Key \ {k} : j \in {} <=> j \in {k} OBVIOUS
<1>6. OK(c, {k}, q) BY <1>1, <1>2, <1>4, <1>5, Replace, SMT
<1>7. b.specs[k].state \notin {"starting", "running"} => OK(c, {}, q)
  BY <1>1, <1>2, <1>4, Replace, SMT
<1>8. c \in OwnerType /\ c.closing = b.closing /\ c.specs[k] = st
  BY <1>0, <1>6, SMTT(30) DEF OK, OwnerType
<1> HIDE DEF c
<1>9. OK(d, {k}, q) /\ (b.specs[k].state \notin {"starting", "running"} => OK(d, {}, q))
  BY <1>6, <1>7, UnarmOK
<1>10. d.specs = c.specs /\ d.closing = c.closing BY <1>8 DEF OwnerType
<1> QED BY <1>2, <1>3, <1>8, <1>9, <1>10

\* The exit of a removed instance deletes its state.
LEMMA RemovedExitOK ==
  ASSUME NEW b, NEW q, NEW k \in Key, OK(b, {k}, q)
  PROVE  OK(removedExit(b, k), {}, q)
<1> DEFINE c == failPending(b, k, "model_not_managed")
           d == deleteState(c, k)
           e == IF b.closing THEN d ELSE ensureProtectedFloor(d)
<1>1. "model_not_managed" \in Reply BY DEF Reply
<1>2. OK(c, {k}, q) BY <1>1, FailPendingOK
<1> HIDE DEF c
<1>3. {k} \ {k} = {} OBVIOUS
<1>4. OK(d, {}, q) BY <1>2, <1>3, DeleteStateOK, SMT
<1> HIDE DEF d
<1>5. OK(e, {}, q) BY <1>4, EnsureProtectedFloorOK
<1>6. removedExit(b, k) = wakeAdmissionCandidates(e) BY DEF removedExit, c, d
<1> HIDE DEF e
<1> QED BY <1>5, <1>6, WakeAdmissionCandidatesOK

\* The exit of a process that was told to stop.
LEMMA IntentionalExitOK ==
  ASSUME NEW b, NEW q, NEW k \in Key, OK(b, {}, q), b.specs[k].proc = Nil, NEW st \in SpecState
  PROVE  OK(intentionalExit(st, b, k), {}, q)
<1> DEFINE c == IF st.state = "draining" THEN setState(b, k, "stopped") ELSE b
<1>1. "stopped" \in State /\ st.drainedFor \in Seq(Key) BY DEF State, SpecState
<1>2. {} \ {k} = {} OBVIOUS
<1>3. OK(c, {}, q) BY <1>1, <1>2, SetStateOK, SMT
<1>4. OK(enterBackoff(b, k), {}, q) BY EnterBackoffOK
<1>5. OK(wakeAdmissionCandidates(enterBackoff(b, k)), {}, q)
  BY <1>4, WakeAdmissionCandidatesOK
<1>6. \/ intentionalExit(st, b, k) = wakeAdmissionCandidates(enterBackoff(b, k))
      \/ \E w \in {[NoWork EXCEPT !.claims = st.drainedFor, !.self = k, !.wake = "all"],
                   [NoWork EXCEPT !.wake = "all"]} : intentionalExit(st, b, k) = schedule(c, w)
  BY SMTT(30) DEF intentionalExit
<1>7. /\ [NoWork EXCEPT !.claims = st.drainedFor, !.self = k, !.wake = "all"] \in Work
      /\ [NoWork EXCEPT !.wake = "all"] \in Work
  BY <1>1, WorkTypes
<1> HIDE DEF c
<1> QED BY <1>3, <1>5, <1>6, <1>7, ScheduleOK, SMT

\* handleBootstrapMemoryPressure gives the key a state at rest.
LEMMA HandleBootstrapMemoryPressureOK ==
  ASSUME NEW b, NEW q, NEW k \in Key, OK(b, {k}, q), b.specs[k].proc = Nil
  PROVE  OK(handleBootstrapMemoryPressure(b, k), {}, q)
<1> DEFINE n == b.specs[k].ramBootstrapRetries + 1
           st == [b.specs[k] EXCEPT !.ramBootstrapRetries = n]
           c == [b EXCEPT !.specs[k] = st]
           e == evictOneIdleForBootstrap(c, k)
           s == setState(e, k, "start_failed")
<1>0. b \in OwnerType /\ b.specs \in [Key -> SpecState] /\ b.specs[k] \in SpecState
  BY DEF OK, OwnerType
<1>1. "start_failed" \in State /\ "start_failed" \in Reply BY DEF State, Reply
<1>2. OK(failStart(b, k, "start_failed"), {}, q) BY <1>1, FailStartOK
<1>3. handleBootstrapMemoryPressure(b, k) \in {failStart(b, k, "start_failed"), enterBackoff(s, k)}
  BY DEF handleBootstrapMemoryPressure
<1>4. n \in Nat BY <1>0, SMT DEF SpecState
<1> HIDE DEF n
<1>5. st \in SpecState BY <1>0, <1>4, SpecUpdates
<1>6. st.state = b.specs[k].state /\ st.proc = Nil
      /\ st.intentionalStop = b.specs[k].intentionalStop
  BY <1>0 DEF SpecState
<1> HIDE DEF st
<1>7. OK(c, {k}, q) BY <1>5, <1>6, Calm
<1>8. c.specs[k].proc = Nil BY <1>0, <1>6 DEF OwnerType
<1> HIDE DEF c
<1>9. OK(e, {k}, q) /\ e.specs[k].proc = Nil
  <2> DEFINE L == {j \in live(c) : /\ j[1] # k[1]
                                   /\ c.specs[j].state = "running"
                                   /\ ~higherSiblingRuns(c, j)
                                   /\ ~pinnedForAdmission(c.specs[j], j)
                                   /\ c.specs[j].inFlight = 0}
             V == {j \in L : \A i \in L \ {j} : betterBootstrapVictim(c, j, i)}
  <2>1. e = evict(c, k, V) BY DEF evictOneIdleForBootstrap
  <2> HIDE DEF V, e
  <2> QED BY <1>7, <1>8, <2>1, EvictOK, SMT
<1> HIDE DEF e
<1>10. {k} \ {k} = {} OBVIOUS
<1>11. OK(s, {}, q) /\ s.specs[k].proc = Nil BY <1>1, <1>9, <1>10, SetStateOK, SMT
<1> HIDE DEF s
<1>12. OK(enterBackoff(s, k), {}, q) BY <1>11, EnterBackoffOK
<1> QED BY <1>2, <1>3, <1>12

\* The exit of a process that was not told to stop gives the key a state at rest.
LEMMA UnexpectedExitOK ==
  ASSUME NEW b, NEW q, NEW k \in Key, OK(b, {k}, q), b.specs[k].proc = Nil, NEW st, NEW sigkill
  PROVE  OK(unexpectedExit(st, b, k, sigkill), {}, q)
<1> DEFINE s == setState(b, k, "crashed")
<1>1. "crashed" \in State /\ "start_failed" \in Reply BY DEF State, Reply
<1>2. {k} \ {k} = {} OBVIOUS
<1>3. OK(s, {}, q) /\ s.specs[k].proc = Nil BY <1>1, <1>2, SetStateOK, SMT
<1> HIDE DEF s
<1>4. OK(enterBackoff(s, k), {}, q) BY <1>3, EnterBackoffOK
<1>5. OK(failStart(b, k, "start_failed"), {}, q) BY <1>1, FailStartOK
<1>6. OK(handleBootstrapMemoryPressure(b, k), {}, q) BY HandleBootstrapMemoryPressureOK
<1>7. PICK c \in {enterBackoff(s, k), failStart(b, k, "start_failed"),
                  handleBootstrapMemoryPressure(b, k)} :
        unexpectedExit(st, b, k, sigkill) = wakeAdmissionCandidates(c)
  BY DEF unexpectedExit, s
<1> QED BY <1>4, <1>5, <1>6, <1>7, WakeAdmissionCandidatesOK

\* onProcExited keeps the invariant.
LEMMA ChildExitedOK ==
  ASSUME NEW m, m.key \in Key, m.proc \in Proc, NEW q, OK(o, {}, q), ChildExited(m)
  PROVE  OK(o', {}, q)
<1> DEFINE k == m.key
           st == o.specs[k]
           b == exited(o, k)
<1>1. /\ OK(b, {k}, q) /\ b.specs[k].proc = Nil
      /\ st.state \notin {"starting", "running"} => OK(b, {}, q)
  BY ExitedOK
<1>2. st \in SpecState BY DEF OK, OwnerType
<1>3. st.intentionalStop => st.state \notin {"starting", "running"}
  BY SMTT(30) DEF OK, SpecsOK, Settled
<1>4. \/ o' = advance(o)
      \/ o' = removedExit(b, k)
      \/ st.intentionalStop /\ o' = intentionalExit(st, b, k)
      \/ o' = unexpectedExit(st, b, k, m.flag)
  BY ZenonT(30) DEF ChildExited
<1> HIDE DEF b, st
<1> QED BY <1>1, <1>2, <1>3, <1>4, AdvanceOK, RemovedExitOK, IntentionalExitOK, UnexpectedExitOK

\* handleBackoffFire keeps the invariant: only a key in backoff is set to stopped.
LEMMA BackoffFireOK ==
  ASSUME NEW m, m.key \in Key, NEW q, OK(o, {}, q), BackoffFire(m)
  PROVE  OK(o', {}, q)
<1> DEFINE k == m.key
           s == IF o.specs[k].state = "backoff" THEN "stopped" ELSE o.specs[k].state
           su == [o.specs[k] EXCEPT !.backoffTimer = Nil]
           st == [su EXCEPT !.state = s]
           b == [o EXCEPT !.specs[k] = st]
<1>0. o \in OwnerType /\ o.specs \in [Key -> SpecState] /\ o.specs[k] \in SpecState
  BY DEF OK, OwnerType
<1>1. b = [o EXCEPT !.specs[k].backoffTimer = Nil,
                    !.specs[k].state = IF @ = "backoff" THEN "stopped" ELSE @]
  BY <1>0 DEF OwnerType, SpecState
<1>2. o' = advance(o) \/ o' = schedule(b, [NoWork EXCEPT !.self = k])
  BY <1>1 DEF BackoffFire
<1>3. s \in State BY <1>0 DEF State, SpecState
<1>4. o.specs[k].state = "backoff" => o.specs[k].proc = Nil /\ ~o.specs[k].intentionalStop
  BY DEF OK, SpecsOK, Settled
<1>5. s = o.specs[k].state \/ (s = "stopped" /\ o.specs[k].proc = Nil /\ ~o.specs[k].intentionalStop)
  BY <1>4
<1> HIDE DEF s
<1>6. su \in SpecState BY <1>0, SpecUpdates
<1>7. st \in SpecState BY <1>3, <1>6, SpecUpdates
<1>8. st.state = s /\ st.proc = o.specs[k].proc /\ st.intentionalStop = o.specs[k].intentionalStop
  BY <1>0 DEF SpecState
<1> HIDE DEF su, st
<1>9. OK(b, {}, q)
  <2>1. CASE s = o.specs[k].state BY <1>7, <1>8, <2>1, Calm
  <2>2. CASE s = "stopped" /\ o.specs[k].proc = Nil /\ ~o.specs[k].intentionalStop
    <3>1. Settled(st) BY <1>8, <2>2 DEF Settled
    <3> QED BY <1>7, <1>8, <2>2, <3>1, Replace, SMT
  <2> QED BY <1>5, <2>1, <2>2
<1> HIDE DEF b
<1> QED BY <1>2, <1>9, AdvanceOK, ScheduleOK, WorkTypes

\* The timers of a drain and of a kill keep the invariant.
LEMMA GraceExpiredOK ==
  ASSUME NEW m, m.key \in Key, m.proc \in Proc, NEW q, OK(o, {}, q),
         \/ KillGraceExpired(m)
         \/ /\ DrainGraceExpired(m)
            /\ o.specs[m.key].proc = m.proc => o.specs[m.key].state = "draining"
  PROVE  OK(o', {}, q)
<1>1. CASE o' = advance(o) BY <1>1, AdvanceOK
<1>2. CASE /\ o' = advance(terminateNow(o, m.key))
           /\ o.specs[m.key].proc = m.proc /\ o.specs[m.key].state = "draining"
  <2>1. o.specs[m.key].proc # Nil BY <1>2, ManagerAssumption
  <2>2. OK(terminateNow(o, m.key), {}, q) BY <1>2, <2>1, TerminateNowOK
  <2> QED BY <1>2, <2>2, AdvanceOK
<1> QED BY <1>1, <1>2 DEF KillGraceExpired, DrainGraceExpired

\* An owner that closes drains every process it has.
LEMMA CloseOK ==
  ASSUME NEW m, NEW q, OK(o, {}, q), Close(m)
  PROVE  OK(o', {}, q)
<1> DEFINE waiting == {k \in Key : o.specs[k].state = "backoff"}
           a == answerPending(o, Key, "manager_closed")
           f == [k \in Key |->
                  IF k \in waiting
                  THEN [o.specs[k] EXCEPT !.pending = {}, !.state = "stopped", !.backoffTimer = Nil]
                  ELSE [o.specs[k] EXCEPT !.pending = {}]]
           T == backoffTimers(o, waiting)
           c == [a EXCEPT !.specs = f]
           d == [c EXCEPT !.armed = @ \ T]
           e == beginDrain(d, Key)
           g == [e EXCEPT !.closing = TRUE]
           b == [a EXCEPT !.closing = TRUE, !.armed = @ \ T, !.specs = f]
<1>0. o \in OwnerType /\ o.specs \in [Key -> SpecState] /\ o.work = NoWork
  BY DEF OK, OwnerType, Close, Take
<1>1. o' = advance(beginDrain(b, Key)) BY DEF Close
<1>2. OK(a, {}, q) /\ a.specs = o.specs
  <2>1. "manager_closed" \in Reply BY DEF Reply
  <2> QED BY <2>1, AnswerPendingOK, SMT
<1>3. a.work = NoWork
  BY <1>0, SMT DEF answerPending, answer, OwnerType
<1>4. f \in [Key -> SpecState] /\ \A k \in Key :
        \/ /\ f[k].state = a.specs[k].state
           /\ f[k].proc = a.specs[k].proc
           /\ f[k].intentionalStop = a.specs[k].intentionalStop
        \/ Settled(f[k]) /\ Gone(f[k])
  <2> SUFFICES ASSUME NEW k \in Key
               PROVE  /\ f[k] \in SpecState
                      /\ \/ /\ f[k].state = a.specs[k].state
                            /\ f[k].proc = a.specs[k].proc
                            /\ f[k].intentionalStop = a.specs[k].intentionalStop
                         \/ Settled(f[k]) /\ Gone(f[k])
    OBVIOUS
  <2>1. o.specs[k] \in SpecState BY <1>0
  <2>2. CASE k \in waiting
    <3>1. o.specs[k].proc = Nil /\ ~o.specs[k].intentionalStop
      BY <2>2 DEF OK, SpecsOK, Settled
    <3>2. "stopped" \in State BY DEF State
    <3>3. f[k] = [o.specs[k] EXCEPT !.pending = {}, !.state = "stopped", !.backoffTimer = Nil]
      BY <2>2
    <3>4. f[k] \in SpecState BY <2>1, <3>2, <3>3 DEF SpecState
    <3>5. f[k].state = "stopped" /\ f[k].proc = Nil /\ ~f[k].intentionalStop
      BY <2>1, <3>1, <3>3 DEF SpecState
    <3> QED BY <3>4, <3>5 DEF Settled, Gone
  <2>3. CASE k \notin waiting
    <3>1. f[k] = [o.specs[k] EXCEPT !.pending = {}] BY <2>3
    <3>2. f[k] \in SpecState BY <2>1, <3>1, SpecUpdates
    <3> QED BY <1>2, <2>1, <3>1, <3>2 DEF SpecState
  <2> QED BY <2>2, <2>3, SMTT(30)
<1>5. a \in OwnerType BY <1>2 DEF OK
<1> HIDE DEF a, f, T
<1>6. OK(c, {}, q) BY <1>2, <1>4, ReplaceAll
<1>7. c \in OwnerType BY <1>6 DEF OK
<1>8. OK(d, {}, q) BY <1>6, UnarmOK
<1>9. d \in OwnerType BY <1>8 DEF OK
<1>10. b = [d EXCEPT !.closing = TRUE] /\ d.work = NoWork
  BY <1>3, <1>5 DEF OwnerType
<1> HIDE DEF b, c, d
<1>11. beginDrain(b, Key) = g
  <2>1. b.specs = d.specs /\ b.armed = d.armed BY <1>9, <1>10 DEF OwnerType
  <2>2. live(b) = live(d) BY <2>1 DEF live
  <2>3. \A k, p : signallable(b, k, p) = signallable(d, k, p) BY <2>1 DEF signallable
  <2> DEFINE D == {k \in Key \cap live(d) : d.specs[k].state # "draining"}
             idle == {k \in D : d.specs[k].inFlight = 0}
             now == {k \in idle : signallable(d, k, d.specs[k].proc)}
             h == [k \in Key |-> IF k \in D
                                 THEN [d.specs[k] EXCEPT
                                         !.state = "draining",
                                         !.intentionalStop = d.specs[k].intentionalStop \/ k \in now]
                                 ELSE d.specs[k]]
             A == d.armed \cup {cmdKillGraceExpired(k, d.specs[k].proc) : k \in now}
                          \cup {cmdDrainGraceExpired(k, d.specs[k].proc) : k \in D \ idle}
  <2>4. e = [d EXCEPT !.specs = h, !.armed = A] BY DEF beginDrain
  <2>5. now = {k \in idle : signallable(b, k, d.specs[k].proc)} BY <2>3
  <2>6. beginDrain(b, Key) = [b EXCEPT !.specs = h, !.armed = A]
    BY <2>1, <2>2, <2>5 DEF beginDrain
  <2> HIDE DEF h, A, e
  <2> QED BY <1>9, <1>10, <2>4, <2>6 DEF OwnerType
<1>12. /\ OK(e, {}, q) /\ e.work = NoWork
       /\ \A k \in Key : e.specs[k].proc # Nil => e.specs[k].state = "draining"
  BY <1>8, <1>10, BeginDrainOK, SMT
<1> HIDE DEF e
<1>13. e \in OwnerType BY <1>12 DEF OK
<1>14. g \in OwnerType /\ g.specs = e.specs /\ g.work = e.work /\ g.armed = e.armed
  BY <1>13, ZenonT(30) DEF OwnerType
<1> HIDE DEF g
<1>15. SpecsOK(g, {}) BY <1>12, <1>14 DEF OK, SpecsOK
<1>16. ClosingOK(g) BY <1>12, <1>14 DEF ClosingOK
<1>17. DrainTimersOK(g, q) BY <1>12, <1>14 DEF OK, DrainTimersOK
<1>18. ProbesOK(g, q) BY <1>12, <1>14 DEF OK, ProbesOK
<1>19. OK(g, {}, q) BY <1>12, <1>14, <1>15, <1>16, <1>17, <1>18 DEF OK
<1> QED BY <1>1, <1>11, <1>19, AdvanceOK

\* A push gives each key a new state at rest, or keeps the state and the process.
LEMMA ApplyOK ==
  ASSUME NEW m, m.doc \in Doc, NEW q, OK(o, {}, q), Apply(m)
  PROVE  OK(o', {}, q)
<1> DEFINE b == o
           d == m.doc
           had == {k \in Key : exists(b, k)}
           removed == {k \in had : ~desired(d, k)}
           spare == {k \in had \ (removed \cup live(b)) : k[2] > 0 /\ IsBurst(d.specs[k[1]], k[2])}
           retired == {k \in spare : b.specs[k].pending = {}}
           deleted == (removed \ live(b)) \cup retired
           kept == had \ (removed \cup retired)
           changed == {k \in kept : b.specs[k].spec # d.specs[k[1]]}
           rested == {k \in changed \ live(b) : b.specs[k].state \in {"start_failed", "crashed", "backoff"}}
                       \cup {k \in spare : b.specs[k].state = "backoff"}
           unarmed == deleted \cup spare \cup {k \in rested : b.specs[k].state = "backoff"}
           relaunched == {k \in changed : /\ d.specs[k[1]].admin # "force_stopped"
                                          /\ d.specs[k[1]].launch # b.specs[k].spec.launch}
           halted == {k \in kept : d.specs[k[1]].admin = "force_stopped"}
           reconciled(k) ==
             [b.specs[k] EXCEPT !.spec = d.specs[k[1]],
                                !.removed = FALSE,
                                !.state = IF k \in rested THEN "stopped" ELSE @,
                                !.backoffTimer = IF k \in unarmed THEN Nil ELSE @]
           f == [k \in Key |->
                  CASE k \in deleted -> absent
                    [] k \in removed \ deleted -> [b.specs[k] EXCEPT !.removed = TRUE]
                    [] k \in kept -> reconciled(k)
                    [] k \notin had /\ floor(d, k) -> fresh(d.specs[k[1]])
                    [] OTHER -> absent]
           a == answerPending(b, removed \ live(b), "model_not_managed")
           c == [a EXCEPT !.cfg = d,
                          !.specs = f,
                          !.decided = @ \ deleted,
                          !.armed = @ \ backoffTimers(b, unarmed)]
           start == {k \in Key : /\ f[k].state \notin {"absent", "backoff"}
                                 /\ f[k].proc = Nil
                                 /\ f[k].spec.admin # "force_stopped"
                                 /\ protected(f[k], k)}
           S == removed \cup relaunched \cup halted
<1>0. o \in OwnerType /\ o.specs \in [Key -> SpecState] BY SMTT(30) DEF OK, OwnerType
<1>1. \/ o' = advance(o)
      \/ o' = schedule(beginDrain(c, S), [NoWork EXCEPT !.first = start, !.wake = "all"])
  BY ZenonT(30) DEF Apply, applyConfig
<1>2. /\ removed \ live(b) \in SUBSET Key /\ start \in SUBSET Key
      /\ \A k \in rested : k \in Key /\ o.specs[k].proc = Nil
  BY DEF live
<1> HIDE DEF start, S, had, removed, spare, retired, deleted, kept, changed, rested, unarmed
<1>3. f \in [Key -> SpecState] /\ \A k \in Key :
        \/ /\ f[k].state = o.specs[k].state
           /\ f[k].proc = o.specs[k].proc
           /\ f[k].intentionalStop = o.specs[k].intentionalStop
        \/ Settled(f[k]) /\ Gone(f[k])
  <2> SUFFICES ASSUME NEW k \in Key
               PROVE  /\ f[k] \in SpecState
                      /\ \/ /\ f[k].state = o.specs[k].state
                            /\ f[k].proc = o.specs[k].proc
                            /\ f[k].intentionalStop = o.specs[k].intentionalStop
                         \/ Settled(f[k]) /\ Gone(f[k])
    OBVIOUS
  <2>1. o.specs[k] \in SpecState BY <1>0
  <2>2. d.specs[k[1]] \in SpecType BY ConfiguredType DEF Key
  <2>3. f[k] \in {absent, fresh(d.specs[k[1]]), [o.specs[k] EXCEPT !.removed = TRUE], reconciled(k)}
    OBVIOUS
  <2>4. CASE f[k] = absent BY <2>4, AbsentType, AbsentOK
  <2>5. CASE f[k] = fresh(d.specs[k[1]]) BY <2>2, <2>5, FreshType
  <2>6. CASE f[k] = [o.specs[k] EXCEPT !.removed = TRUE]
    <3> DEFINE st == [o.specs[k] EXCEPT !.removed = TRUE]
    <3>1. st \in SpecState BY <2>1 DEF SpecState
    <3>2. st.state = o.specs[k].state /\ st.proc = o.specs[k].proc
          /\ st.intentionalStop = o.specs[k].intentionalStop
      BY <2>1 DEF SpecState
    <3>3. f[k] = st BY <2>6
    <3> HIDE DEF f, st
    <3> QED BY <3>1, <3>2, <3>3
  <2>7. CASE f[k] = reconciled(k)
    <3> DEFINE s == IF k \in rested THEN "stopped" ELSE o.specs[k].state
               t == IF k \in unarmed THEN Nil ELSE o.specs[k].backoffTimer
    <3>1. f[k] = [o.specs[k] EXCEPT !.spec = d.specs[k[1]], !.removed = FALSE,
                                    !.state = s, !.backoffTimer = t]
      BY <2>1, <2>7 DEF SpecState
    <3>2. s \in State /\ t \in BackoffTimer \cup {Nil}
      BY <2>1 DEF State, SpecState
    <3>3. k \in rested => ~o.specs[k].intentionalStop /\ o.specs[k].proc = Nil
      BY <1>2 DEF OK, SpecsOK, Settled
    <3>4. \/ s = o.specs[k].state
          \/ s = "stopped" /\ o.specs[k].proc = Nil /\ ~o.specs[k].intentionalStop
      BY <3>3
    <3> HIDE DEF s, t, f
    <3>5. f[k] \in SpecState BY <2>1, <2>2, <3>1, <3>2 DEF SpecState
    <3>6. f[k].state = s /\ f[k].proc = o.specs[k].proc
          /\ f[k].intentionalStop = o.specs[k].intentionalStop
      BY <2>1, <3>1 DEF SpecState
    <3> QED BY <3>4, <3>5, <3>6 DEF Settled, Gone
  <2> HIDE DEF f
  <2> QED BY <2>3, <2>4, <2>5, <2>6, <2>7
<1>4. OK(a, {}, q) /\ a.specs = o.specs
  <2>1. "model_not_managed" \in Reply BY DEF Reply
  <2> QED BY <1>2, <2>1, AnswerPendingOK
<1> DEFINE T == backoffTimers(b, unarmed)
           e == [a EXCEPT !.specs = f]
<1>5. c = [a EXCEPT !.cfg = d, !.specs = f, !.decided = @ \ deleted, !.armed = @ \ T]
  OBVIOUS
<1> HIDE DEF f, a, T, c
<1>6. OK(e, {}, q) BY <1>3, <1>4, ReplaceAll
<1>7. a \in OwnerType /\ e \in OwnerType BY <1>4, <1>6 DEF OK
<1>8. c \in OwnerType /\ c.specs = e.specs /\ c.closing = e.closing /\ c.work = e.work
      /\ \A n \in c.armed : n \in e.armed
  BY <1>3, <1>5, <1>7, ZenonT(30) DEF OwnerType
<1> HIDE DEF e
<1>9. OK(c, {}, q) BY <1>6, <1>8, Frame
<1>10. OK(beginDrain(c, S), {}, q) BY <1>9, BeginDrainOK
<1>11. [NoWork EXCEPT !.first = start, !.wake = "all"] \in Work BY <1>2, WorkTypes
<1> QED BY <1>1, <1>10, <1>11, AdvanceOK, ScheduleOK, SMTT(30)

\* scanIdle keeps the invariant.
LEMMA ScanIdleOK ==
  ASSUME NEW q, OK(o, {}, q), scanIdle
  PROVE  OK(o', {}, q)
<1>1. PICK S : o' = advance(beginDrain(o, S)) BY DEF scanIdle
<1>2. OK(beginDrain(o, S), {}, q) BY BeginDrainOK
<1> QED BY <1>1, <1>2, AdvanceOK

\* A command has been taken off the channel.
LEMMA Taken ==
  ASSUME IInv, NEW m \in cmds, cmds' = cmds \ {m}, poll' = poll
  PROVE  /\ OK(o, {}, Env') /\ OneResult'
         /\ m \in Command \cup Timer /\ cmds' \subseteq Command \cup Timer
         /\ m.cmd = "startResult" => ~Probed(Env', m.proc)
<1>1. /\ o \in OwnerType /\ cmds \subseteq Command \cup Timer
      /\ OK(o, {}, Env) /\ OneResult
  BY DEF IInv, TypeOK
<1>2. Env.cmds = cmds /\ Env.poll = poll /\ Env'.cmds = cmds \ {m} /\ Env'.poll = poll
  BY DEF Env
<1>3. \A p \in Proc : Probed(Env', p) => Probed(Env, p) BY <1>2 DEF Probed
<1>4. m.cmd = "startResult" => ~Probed(Env', m.proc) BY <1>1, <1>2 DEF Probed, OneResult
<1>5. OneResult' BY <1>1 DEF OneResult
<1> DEFINE r == Env'
<1>6. r.cmds \subseteq Command \cup Timer /\ \A p \in Proc : Probed(r, p) => Probed(Env, p)
  BY <1>1, <1>2, <1>3
<1>7. \A n \in o.armed \cup r.cmds : n.cmd = "drainGraceExpired" => n \in o.armed \cup Env.cmds
  BY <1>2
<1> HIDE DEF r
<1>8. OK(o, {}, r) BY <1>1, <1>6, <1>7, Surroundings
<1> QED BY <1>1, <1>4, <1>5, <1>8 DEF r

\* Every command handler keeps the invariant.
LEMMA HandleOK ==
  ASSUME Counting, IInv, NEW m \in cmds, handle(m)
  PROVE  IInv'
<1>1. cmds' = cmds \ {m} /\ poll' = poll /\ UNCHANGED <<phase, pushes, stops>>
  BY DEF handle, Ensure, Take, Apply, EnsureRefused, EnsureServed, EnsureRepeatsVerdict,
         EnsureBurstBusy, EnsureQueued, CancelEnsure, WaiterTimeout, Release, Stop, StartResult,
         ChildExited, BackoffFire, DrainGraceExpired, KillGraceExpired, Close
<1>2. /\ OK(o, {}, Env') /\ OneResult'
      /\ m \in Command \cup Timer /\ cmds' \subseteq Command \cup Timer
      /\ m.cmd = "startResult" => ~Probed(Env', m.proc)
  BY <1>1, Taken
<1>3. life' \in [Proc -> {"alive", "killed", "exited"}]
  <2>1. life \in [Proc -> {"alive", "killed", "exited"}] BY SMTT(30) DEF IInv, TypeOK
  <2>2. life' = life \/ life' = [life EXCEPT ![m.proc] = "killed"]
    BY DEF handle, Ensure, Apply, EnsureRefused, EnsureServed, EnsureRepeatsVerdict,
           EnsureBurstBusy, EnsureQueued, CancelEnsure, WaiterTimeout, Release, Stop, StartResult,
           ChildExited, BackoffFire, DrainGraceExpired, KillGraceExpired, Close
  <2> QED BY <2>1, <2>2
<1>4. /\ m.cmd = "apply" => m.doc \in Doc
      /\ m.cmd \in {"ensure", "release", "cancelEnsure", "waiterTimeout"} => m.caller \in Caller
      /\ m.cmd \in {"stop", "ensure", "release", "childExited", "startResult", "waiterTimeout",
                    "backoffFire", "drainGraceExpired", "killGraceExpired"} => m.key \in Key
      /\ m.cmd \in {"release", "childExited", "startResult", "drainGraceExpired",
                    "killGraceExpired"} => m.proc \in Proc
      /\ m.flag \in BOOLEAN
  BY <1>2, CommandFields
<1> DEFINE q == Env'
<1>5. OK(o, {}, q) BY <1>2
<1>6. OK(o, {}, Env) /\ Env.cmds = cmds /\ Env.poll = poll BY DEF IInv, Env
<1>7. m.cmd = "startResult" => ~Probed(q, m.proc) BY <1>2
<1> HIDE DEF q
<1>8. OK(o', {}, q)
  <2>1. CASE Apply(m)
    <3>1. m.doc \in Doc BY <1>4, <2>1 DEF Apply, Take
    <3> QED BY <1>5, <2>1, <3>1, ApplyOK
  <2>2. CASE Ensure(m)
    <3>1. m.key \in Key /\ m.caller \in Caller
      BY <1>4, <2>2 DEF Ensure, EnsureRefused, EnsureServed, EnsureRepeatsVerdict,
                        EnsureBurstBusy, EnsureQueued, Take
    <3> QED BY <1>5, <2>2, <3>1, EnsureRefusedOK, EnsureServedOK, EnsureAnsweredOK, EnsureQueuedOK, SMTT(30)
            DEF Ensure
  <2>3. CASE CancelEnsure(m)
    <3>1. m.caller \in Caller BY <1>4, <2>3 DEF CancelEnsure, Take
    <3> QED BY <1>5, <2>3, <3>1, CancelEnsureOK
  <2>4. CASE WaiterTimeout(m)
    <3>1. m.caller \in Caller /\ m.key \in Key BY <1>4, <2>4 DEF WaiterTimeout, Take
    <3> QED BY <1>5, <2>4, <3>1, WaiterTimeoutOK
  <2>5. CASE Release(m)
    <3>1. m.caller \in Caller /\ m.key \in Key /\ m.proc \in Proc BY <1>4, <2>5 DEF Release, Take
    <3> QED BY <1>5, <2>5, <3>1, ReleaseOK
  <2>6. CASE Stop(m)
    <3>1. m.key \in Key BY <1>4, <2>6, SMTT(30) DEF Stop, Take
    <3> QED BY <1>5, <2>6, <3>1, StopOK, SMTT(30)
  <2>7. CASE StartResult(m)
    <3>1. m.cmd = "startResult" BY <2>7 DEF StartResult, Take
    <3>2. m.key \in Key /\ m.proc \in Proc /\ m.flag \in BOOLEAN /\ ~Probed(q, m.proc)
      BY <1>4, <1>7, <3>1
    <3>3. Probed(Env, m.proc) BY <1>6, <3>1 DEF Probed
    <3>4. o.specs[m.key].proc = m.proc => o.specs[m.key].state \in {"starting", "draining"}
      BY <1>6, <3>2, <3>3, ManagerAssumption DEF OK, ProbesOK
    <3> QED BY <1>5, <2>7, <3>2, <3>4, StartResultOK
  <2>8. CASE ChildExited(m)
    <3>1. m.key \in Key /\ m.proc \in Proc BY <1>4, <2>8 DEF ChildExited, Take
    <3> QED BY <1>5, <2>8, <3>1, ChildExitedOK
  <2>9. CASE BackoffFire(m)
    <3>1. m.key \in Key BY <1>4, <2>9 DEF BackoffFire, Take
    <3> QED BY <1>5, <2>9, <3>1, BackoffFireOK
  <2>10. CASE DrainGraceExpired(m)
    <3>1. m.cmd = "drainGraceExpired" BY <2>10 DEF DrainGraceExpired, Take
    <3>2. m.key \in Key /\ m.proc \in Proc BY <1>4, <3>1
    <3>3. o.specs[m.key].proc = m.proc => o.specs[m.key].state = "draining"
      BY <1>6, <3>1 DEF OK, DrainTimersOK
    <3> QED BY <1>5, <2>10, <3>2, <3>3, GraceExpiredOK
  <2>11. CASE KillGraceExpired(m)
    <3>1. m.key \in Key /\ m.proc \in Proc BY <1>4, <2>11 DEF KillGraceExpired, Take
    <3> QED BY <1>5, <2>11, <3>1, GraceExpiredOK
  <2>12. CASE Close(m)
    BY <1>5, <2>12, CloseOK
  <2> QED BY <2>1, <2>2, <2>3, <2>4, <2>5, <2>6, <2>7, <2>8, <2>9, <2>10, <2>11, <2>12 DEF handle
<1>9. o' \in OwnerType BY <1>8 DEF OK
<1>10. TypeOK' BY <1>1, <1>2, <1>3, <1>9 DEF IInv, TypeOK
<1>11. OK(o', {}, Env') BY <1>8 DEF q
<1> QED BY <1>2, <1>10, <1>11, SMTT(30) DEF IInv

(***************************************************************************)
(* The goroutines around the owner.                                        *)
(***************************************************************************)

\* A command other than a probe's result is posted.
LEMMA Posted ==
  ASSUME IInv, NEW m \in Command \cup Timer, cmds' = cmds \cup {m}, poll' = poll,
         m.cmd # "startResult", NEW A \in SUBSET o.armed, o' = [o EXCEPT !.armed = A],
         m.cmd = "drainGraceExpired" => m \in o.armed
  PROVE  o' \in OwnerType /\ cmds' \subseteq Command \cup Timer /\ OneResult' /\ OK(o', {}, Env')
<1>1. /\ o \in OwnerType /\ cmds \subseteq Command \cup Timer
      /\ OK(o, {}, Env) /\ OneResult
  BY DEF IInv, TypeOK
<1>2. Env.cmds = cmds /\ Env.poll = poll /\ Env'.cmds = cmds \cup {m} /\ Env'.poll = poll
  BY DEF Env
<1> DEFINE r == Env'
           c == o'
<1>3. /\ c \in OwnerType /\ c.specs = o.specs /\ c.closing = o.closing /\ c.work = o.work
      /\ c.armed = A
  BY <1>1 DEF OwnerType
<1>4. /\ r.cmds \subseteq Command \cup Timer
      /\ \A p \in Proc : Probed(r, p) => Probed(Env, p)
      /\ \A n \in c.armed \cup r.cmds : n.cmd = "drainGraceExpired" => n \in o.armed \cup Env.cmds
  BY <1>1, <1>2, <1>3 DEF Probed
<1>5. OneResult' BY <1>1 DEF OneResult
<1> HIDE DEF r, c
<1>6. OK(c, {}, r) BY <1>1, <1>3, <1>4, Surroundings
<1> QED BY <1>1, <1>3, <1>5, <1>6 DEF r, c

\* A probe ends, with its one result or with none.
LEMMA PollHealthOK ==
  ASSUME IInv, NEW p \in Proc, pollHealthOK(p) \/ pollHealthTimeout(p) \/ pollHealthExited(p)
  PROVE  IInv'
<1>1. /\ o \in OwnerType /\ cmds \subseteq Command \cup Timer /\ poll \in [Proc -> Key \cup {Nil}]
      /\ OK(o, {}, Env) /\ OneResult
  BY DEF IInv, TypeOK
<1>2. /\ poll[p] # Nil /\ poll' = [poll EXCEPT ![p] = Nil]
      /\ UNCHANGED <<o, life, phase, pushes, stops>>
      /\ \/ cmds' = cmds
         \/ \E f \in BOOLEAN : cmds' = cmds \cup {cmdStartResult(poll[p], p, f)}
  BY DEF pollHealthOK, pollHealthTimeout, pollHealthExited, post
<1>3. \A f : /\ cmdStartResult(poll[p], p, f).proc = p
             /\ cmdStartResult(poll[p], p, f).cmd = "startResult"
  BY DEF cmdStartResult, NoCmd
<1>4. \A f \in BOOLEAN : cmdStartResult(poll[p], p, f) \in Command
  BY <1>1, <1>2, SMT DEF Command
<1>5. \A n \in cmds' : n \in cmds \/ (n.cmd = "startResult" /\ n.proc = p)
  BY <1>2, <1>3
<1>6. cmds' \subseteq Command \cup Timer /\ poll' \in [Proc -> Key \cup {Nil}]
  BY <1>1, <1>2, <1>4
<1>7. OneResult'
  <2>1. \A n \in cmds : n.cmd = "startResult" => n.proc # p
    BY <1>1, <1>2 DEF OneResult
  <2>2. poll'[p] = Nil /\ \A s \in Proc : poll[s] = Nil => poll'[s] = Nil
    BY <1>1, <1>2
  <2>3. \A n \in cmds : n.cmd = "startResult" => n.proc \in Proc
    BY <1>1, CommandFields
  <2>4. \A m, n \in cmds' : n \notin cmds /\ m \notin cmds => n = m
    BY <1>2
  <2> SUFFICES ASSUME NEW m \in cmds', m.cmd = "startResult"
               PROVE  /\ poll'[m.proc] = Nil
                      /\ \A n \in cmds' : n.cmd = "startResult" /\ n.proc = m.proc => n = m
    BY DEF OneResult
  <2>5. CASE m \in cmds
    BY <1>1, <1>5, <2>1, <2>2, <2>3, <2>5 DEF OneResult
  <2>6. CASE m \notin cmds
    BY <1>5, <2>1, <2>2, <2>4, <2>6
  <2> QED BY <2>5, <2>6
<1>8. Env.cmds = cmds /\ Env.poll = poll /\ Env'.cmds = cmds' /\ Env'.poll = poll'
  BY DEF Env
<1> DEFINE r == Env'
<1>9. /\ r.cmds \subseteq Command \cup Timer
      /\ \A n \in o.armed \cup r.cmds : n.cmd = "drainGraceExpired" => n \in o.armed \cup Env.cmds
  BY <1>5, <1>6, <1>8
<1>10. \A s \in Proc : Probed(r, s) => Probed(Env, s)
  BY <1>1, <1>2, <1>5, <1>8, SMTT(30) DEF Probed
<1> HIDE DEF r
<1>11. OK(o, {}, r) BY <1>1, <1>9, <1>10, Surroundings
<1>12. OK(o', {}, Env') BY <1>2, <1>11 DEF r
<1>13. TypeOK' BY <1>2, <1>6 DEF IInv, TypeOK
<1> QED BY <1>7, <1>12, <1>13 DEF IInv

\* What a goroutine other than a probe and a timer posts.
LEMMA PostedTypes ==
  ASSUME NEW m,
         \/ \E d \in Doc : m = cmdApply(d)
         \/ m = cmdClose
         \/ \E k \in Key : m = cmdStop(k)
         \/ \E k \in Key, c \in Caller, f \in BOOLEAN : m = cmdEnsure(k, c, f)
         \/ \E c \in Caller : m = cmdCancelEnsure(c)
         \/ \E k \in Key, p \in Proc, c \in Caller : m = cmdRelease(k, p, c)
         \/ \E k \in Key, p \in Proc, f \in BOOLEAN : m = cmdChildExited(k, p, f)
  PROVE  /\ m \in Command \cup Timer
         /\ m.cmd # "startResult" /\ m.cmd # "drainGraceExpired"
<1>1. m \in Command BY SMTT(30) DEF Command
<1>2. m.cmd \in {"apply", "close", "stop", "ensure", "cancelEnsure", "release", "childExited"}
  BY ZenonT(30) DEF cmdApply, cmdClose, cmdStop, cmdEnsure, cmdCancelEnsure, cmdRelease, cmdChildExited, NoCmd
<1> QED BY <1>1, <1>2

\* The owner goes on where it was.
LEMMA Quiet ==
  ASSUME IInv, UNCHANGED <<o, poll>>, NEW m, cmds' = cmds \cup {m},
         m \in Command \cup Timer, m.cmd # "startResult", m.cmd # "drainGraceExpired"
  PROVE  o' \in OwnerType /\ cmds' \subseteq Command \cup Timer /\ OneResult' /\ OK(o', {}, Env')
<1>1. o \in OwnerType BY DEF IInv, TypeOK
<1>2. o' = [o EXCEPT !.armed = o.armed] BY <1>1, SMTT(30) DEF OwnerType
<1> QED BY <1>2, Posted

\* Every step of a goroutine around the owner keeps the invariant.
LEMMA GoroutineOK ==
  ASSUME IInv, Goroutine
  PROVE  IInv'
<1> USE DEF post
<1>0. /\ o \in OwnerType /\ life \in [Proc -> {"alive", "killed", "exited"}]
      /\ phase \in [Caller -> {"idle", "asked", "cancelled", "done"}]
      /\ pushes \in 0 .. MaxPushes /\ stops \in 0 .. MaxStops
      /\ poll \in [Proc -> Key \cup {Nil}]
  BY DEF IInv, TypeOK
<1>1. ASSUME NEW c \in Caller, NEW k \in Key, NEW serving \in BOOLEAN, CallEnsure(c, k, serving)
      PROVE  IInv'
  <2>1. o' \in OwnerType /\ cmds' \subseteq Command \cup Timer /\ OneResult' /\ OK(o', {}, Env')
    BY <1>1, PostedTypes, Quiet DEF CallEnsure
  <2>2. TypeOK' BY <1>0, <1>1, <2>1 DEF CallEnsure, TypeOK
  <2> QED BY <2>1, <2>2 DEF IInv
<1>2. ASSUME NEW c \in Caller, CallCancel(c)
      PROVE  IInv'
  <2>1. o' \in OwnerType /\ cmds' \subseteq Command \cup Timer /\ OneResult' /\ OK(o', {}, Env')
    BY <1>2, PostedTypes, Quiet DEF CallCancel
  <2>2. TypeOK' BY <1>0, <1>2, <2>1 DEF CallCancel, TypeOK
  <2> QED BY <2>1, <2>2, SMTT(30) DEF IInv
<1>3. ASSUME NEW c \in Caller, CallRelease(c)
      PROVE  IInv'
  <2> DEFINE l == o.lease[c]
  <2>1. l \in Lease /\ l # NoLease BY <1>0, <1>3 DEF CallRelease, OwnerType
  <2>2. l.key \in Key /\ l.proc \in Proc BY <2>1 DEF Lease
  <2>3. cmds' = cmds \cup {cmdRelease(l.key, l.proc, c)} /\ UNCHANGED <<o, poll>>
    BY <1>3 DEF CallRelease
  <2> HIDE DEF l
  <2>4. o' \in OwnerType /\ cmds' \subseteq Command \cup Timer /\ OneResult' /\ OK(o', {}, Env')
    BY <2>2, <2>3, PostedTypes, Quiet
  <2>5. TypeOK' BY <1>0, <1>3, <2>4 DEF CallRelease, TypeOK
  <2> QED BY <2>4, <2>5 DEF IInv
<1>4. ASSUME NEW m \in cmds, Abandon(m)
      PROVE  IInv'
  <2>1. /\ OK(o, {}, Env') /\ OneResult' /\ cmds' \subseteq Command \cup Timer
        /\ m \in Command \cup Timer
    BY <1>4, Taken DEF Abandon
  <2>2. m.caller \in Caller BY <1>4, <2>1, CommandFields DEF Abandon
  <2>3. TypeOK' BY <1>0, <1>4, <2>1, <2>2 DEF Abandon, TypeOK
  <2>4. o' = o BY <1>4 DEF Abandon
  <2> QED BY <2>1, <2>3, <2>4 DEF IInv
<1>5. ASSUME NEW d \in Doc, CallApply(d)
      PROVE  IInv'
  <2>1. o' \in OwnerType /\ cmds' \subseteq Command \cup Timer /\ OneResult' /\ OK(o', {}, Env')
    BY <1>5, PostedTypes, Quiet DEF CallApply
  <2>2. pushes' \in 0 .. MaxPushes BY <1>0, <1>5, ManagerAssumption, SMT DEF CallApply
  <2>3. TypeOK' BY <1>0, <1>5, <2>1, <2>2 DEF CallApply, TypeOK
  <2> QED BY <2>1, <2>3 DEF IInv
<1>6. ASSUME NEW k \in Key, CallStop(k)
      PROVE  IInv'
  <2>1. o' \in OwnerType /\ cmds' \subseteq Command \cup Timer /\ OneResult' /\ OK(o', {}, Env')
    BY <1>6, PostedTypes, Quiet DEF CallStop
  <2>2. stops' \in 0 .. MaxStops BY <1>0, <1>6, ManagerAssumption, SMT DEF CallStop
  <2>3. TypeOK' BY <1>0, <1>6, <2>1, <2>2 DEF CallStop, TypeOK
  <2> QED BY <2>1, <2>3 DEF IInv
<1>7. ASSUME CallClose
      PROVE  IInv'
  <2>1. o' \in OwnerType /\ cmds' \subseteq Command \cup Timer /\ OneResult' /\ OK(o', {}, Env')
    BY <1>7, PostedTypes, Quiet DEF CallClose
  <2>2. TypeOK' BY <1>0, <1>7, <2>1 DEF CallClose, TypeOK
  <2> QED BY <2>1, <2>2 DEF IInv
<1>8. ASSUME NEW m \in o.armed, TimerFires(m)
      PROVE  IInv'
  <2> DEFINE A == o.armed \ {m}
  <2>1. m \in Timer BY <1>0 DEF OwnerType
  <2>2. m.cmd # "startResult"
    BY <2>1, WaiterTimer, BackoffTimerFields, DrainTimer, KillTimer, SMT DEF Timer
  <2>3. A \in SUBSET o.armed /\ o' = [o EXCEPT !.armed = A] BY <1>8 DEF TimerFires
  <2> HIDE DEF A
  <2>4. o' \in OwnerType /\ cmds' \subseteq Command \cup Timer /\ OneResult' /\ OK(o', {}, Env')
    BY <1>8, <2>1, <2>2, <2>3, Posted DEF TimerFires
  <2>5. TypeOK' BY <1>0, <1>8, <2>4 DEF TimerFires, TypeOK
  <2> QED BY <2>4, <2>5 DEF IInv
<1>9. ASSUME NEW p \in Proc, NEW k \in Key, NEW sigkill \in BOOLEAN, ChildExits(k, p, sigkill)
      PROVE  IInv'
  <2>1. o' \in OwnerType /\ cmds' \subseteq Command \cup Timer /\ OneResult' /\ OK(o', {}, Env')
    BY <1>9, PostedTypes, Quiet DEF ChildExits
  <2>2. TypeOK' BY <1>0, <1>9, <2>1 DEF ChildExits, TypeOK
  <2> QED BY <2>1, <2>2, SMTT(30) DEF IInv
<1> QED BY <1>1, <1>2, <1>3, <1>4, <1>5, <1>6, <1>7, <1>8, <1>9, PollHealthOK DEF Goroutine, Others

(***************************************************************************)
(* The invariant.                                                          *)
(***************************************************************************)

\* The invariant holds before the first command.
LEMMA InitIInv == Init => IInv
<1> SUFFICES ASSUME Init PROVE IInv
  OBVIOUS
<1>1. [k \in Key |-> absent] \in [Key -> SpecState] BY AbsentType
<1>2. NoWork \in Work
  <2>1. <<>> \in Seq(Key) BY SMT
  <2> QED BY <2>1 DEF NoWork, Work
<1>3. [c \in Caller |-> "none"] \in [Caller -> Reply] BY DEF Reply
<1>4. [c \in Caller |-> NoLease] \in [Caller -> Lease] BY NoLeaseType, SMTT(30)
<1>5. o \in OwnerType BY <1>1, <1>2, <1>3, <1>4 DEF Init, OwnerType
<1>6. TypeOK
  <2>1. /\ cmds = {} /\ life = [p \in Proc |-> "exited"] /\ poll = [p \in Proc |-> Nil]
        /\ phase = [c \in Caller |-> "idle"] /\ pushes = 0 /\ stops = 0
    BY DEF Init
  <2>2. pushes \in 0 .. MaxPushes /\ stops \in 0 .. MaxStops
    BY <2>1, ManagerAssumption, SMT
  <2> QED BY <1>5, <2>1, <2>2 DEF TypeOK
<1>7. OneResult BY DEF Init, OneResult
<1>8. /\ o.specs = [k \in Key |-> absent] /\ o.armed = {} /\ o.closing = FALSE /\ cmds = {}
  BY DEF Init
<1>9. \A k \in Key : o.specs[k] = absent BY <1>8
<1>10. Env.cmds = {} BY <1>8 DEF Env
<1>11. SpecsOK(o, {}) /\ ClosingOK(o) /\ DrainTimersOK(o, Env) /\ ProbesOK(o, Env)
  BY <1>8, <1>9, <1>10, AbsentOK DEF SpecsOK, ClosingOK, DrainTimersOK, ProbesOK
<1>12. OK(o, {}, Env) BY <1>5, <1>10, <1>11 DEF OK
<1> QED BY <1>6, <1>7, <1>12 DEF IInv

\* Every step of the owner and of the goroutines around it keeps the invariant.
LEMMA NextIInv ==
  ASSUME Counting, IInv, [Next]_vars
  PROVE  IInv'
<1>1. CASE UNCHANGED vars
  <2>1. UNCHANGED <<o, cmds, life, poll, phase, pushes, stops>> BY <1>1 DEF vars
  <2>2. Env' = Env BY <2>1 DEF Env
  <2>3. OneResult' BY <2>1 DEF IInv, OneResult
  <2>4. TypeOK' BY <2>1 DEF IInv, TypeOK
  <2>5. OK(o', {}, Env') BY <2>1, <2>2 DEF IInv
  <2> QED BY <2>3, <2>4, <2>5 DEF IInv
<1>2. CASE FinishTurn
  <2>1. Asked BY <1>2, FinishTurnOK
  <2>2. o' \in OwnerType BY <2>1 DEF Asked, OK
  <2>3. TypeOK' BY <1>2, <2>1, <2>2 DEF FinishTurn, Asked, IInv, TypeOK
  <2> QED BY <2>1, <2>3 DEF Asked, IInv
<1>3. CASE scanIdle
  <2>1. UNCHANGED <<cmds, life, poll, phase, pushes, stops>> BY <1>3 DEF scanIdle
  <2>2. Env' = Env BY <2>1 DEF Env
  <2>3. OK(o', {}, Env) BY <1>3, ScanIdleOK DEF IInv
  <2>4. o' \in OwnerType BY <2>3 DEF OK
  <2>5. OneResult' BY <2>1 DEF IInv, OneResult
  <2>6. TypeOK' BY <2>1, <2>4 DEF IInv, TypeOK
  <2> QED BY <2>2, <2>3, <2>5, <2>6, SMTT(30) DEF IInv
<1>4. CASE \E m \in cmds : handle(m)
  BY <1>4, HandleOK
<1>5. CASE Around
  BY <1>5, GoroutineOK DEF Around
<1> QED BY <1>1, <1>2, <1>3, <1>4, <1>5 DEF Next, Owner, Done
=============================================================================
