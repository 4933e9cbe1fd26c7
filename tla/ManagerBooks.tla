---------------------------- MODULE ManagerBooks -----------------------------
(***************************************************************************)
(* What each of the owner's operators does to the books (Good and Mid of   *)
(* ManagerInvariants).                                                     *)
(***************************************************************************)
EXTENDS ManagerLemmas

\* Most leaves are first-order; the ones that count or compare numbers name SMT.
USE Zenon

(***************************************************************************)
(* How an operator changes the owner's record.                             *)
(***************************************************************************)

\* Several changes in a row.
LEMMA Twice ==
  ASSUME NEW b, NEW c, NEW d, NEW W
  PROVE  /\ Kept(b, c, W) /\ Kept(c, d, W) => Kept(b, d, W)
         /\ Steady(b, c) /\ Steady(c, d) => Steady(b, d)
         /\ SameTurn(b, c) /\ SameTurn(c, d) => SameTurn(b, d)
         /\ Kept(b, b, W) /\ Steady(b, b) /\ SameTurn(b, b)
<1>1. Kept(b, c, W) /\ Kept(c, d, W) => Kept(b, d, W) BY DEF Kept
<1>2. Steady(b, c) /\ Steady(c, d) => Steady(b, d) BY DEF Steady
<1> QED BY <1>1, <1>2 DEF Kept, Steady, SameTurn

\* The books stay in order when callers are answered.
LEMMA ChangeGood ==
  ASSUME NEW b, NEW c, NEW W, NEW L, NEW M, NEW C, Good(b, W, L, M), Change(b, c, C),
         Armed(c, L, M)
  PROVE  Good(c, W \cup C, L, M) /\ Kept(b, c, W \cup C)
<1>0. b \in OwnerType /\ c \in OwnerType BY DEF Good, Change
<1>1. Waiting(c, W \cup C)
  <2>1. \A k \in Key : c.specs[k].pending \subseteq Caller BY <1>0 DEF OwnerType, SpecState
  <2>2. ASSUME NEW k \in Key, NEW x \in c.specs[k].pending
        PROVE  x \in W \cup C /\ c.reply[x] = "none"
    <3>1. x \in Caller /\ x \in b.specs[k].pending /\ x \notin C BY <2>1, SMT DEF Change
    <3> QED BY <3>1, SMT DEF Change, Good, Waiting
  <2>3. ASSUME NEW x \in W \cup C, c.reply[x] = "none"
        PROVE  \E k \in Key : x \in c.specs[k].pending
    <3>1. CASE x \in C BY <2>3, <3>1 DEF Change
    <3>2. CASE x \notin C
      <4>1. x \in W /\ x \in Caller BY <3>2 DEF Good, Waiting
      <4>2. b.reply[x] = "none" BY <2>3, <3>2, <4>1 DEF Change
      <4>3. PICK k \in Key : x \in b.specs[k].pending BY <4>1, <4>2 DEF Good, Waiting
      <4> QED BY <3>2, <4>3, SMT DEF Change
    <3> QED BY <3>1, <3>2
  <2>4. \A j, k \in Key : \A x \in c.specs[j].pending : x \in c.specs[k].pending => j = k
    BY SMT DEF Change, Good, Waiting
  <2>5. W \cup C \subseteq Caller BY DEF Change, Good, Waiting
  <2> QED BY <2>2, <2>3, <2>4, <2>5 DEF Waiting
<1>2. Leases(c)
  <2>1. \A x \in Caller : c.lease[x] = b.lease[x] BY SMT DEF Change, Good, Leases
  <2>2. \A k \in Key : leaseOf(c, k) = leaseOf(b, k) BY DEF Change, leaseOf
  <2>3. \A k \in Key : {x \in Caller : c.lease[x] = leaseOf(c, k)}
                         = {x \in Caller : b.lease[x] = leaseOf(b, k)}
    BY <2>1, <2>2
  <2>4. \A k \in Key : c.specs[k].state = "starting" => c.specs[k].inFlight = 0
    BY DEF Change, Good, Leases
  <2>5. \A x \in Caller : c.reply[x] = "none" => c.lease[x] = NoLease
    BY <2>1 DEF Change, Good, Leases
  <2>6. \A k \in Key : c.specs[k].inFlight =
                        IF c.specs[k].proc = Nil THEN 0
                        ELSE Cardinality({x \in Caller : c.lease[x] = leaseOf(c, k)})
    <3> SUFFICES ASSUME NEW k \in Key
                 PROVE  c.specs[k].inFlight =
                          IF c.specs[k].proc = Nil THEN 0
                          ELSE Cardinality({x \in Caller : c.lease[x] = leaseOf(c, k)})
      OBVIOUS
    <3>1. b.specs[k].inFlight =
            IF b.specs[k].proc = Nil THEN 0
            ELSE Cardinality({x \in Caller : b.lease[x] = leaseOf(b, k)})
      BY DEF Good, Leases
    <3>2. c.specs[k].inFlight = b.specs[k].inFlight /\ c.specs[k].proc = b.specs[k].proc
      BY DEF Change
    <3> QED BY <2>3, <3>1, <3>2
  <2> QED BY <2>4, <2>5, <2>6 DEF Leases
<1>3. Empties(c) BY DEF Good, Empties, Change
<1>4. Homes(c, L) BY SMT DEF Good, Homes, Change
<1>5. Kept(b, c, W \cup C) BY DEF Kept, Change
<1> QED BY <1>0, <1>1, <1>2, <1>3, <1>4, <1>5 DEF Good

\* The same in the middle of a turn.  A key of U need not be excepted any more once
\* nobody waits on it.
LEMMA ChangeFine ==
  ASSUME NEW b, NEW c, NEW W, NEW L, NEW M, NEW U, NEW V, NEW C, Fine(b, W, L, M, U),
         Change(b, c, C), BurstsKept(b, c), SameTurn(b, c), Armed(c, L, M),
         \A k \in Key : k \in U => k \in V \/ c.specs[k].pending = {}
  PROVE  Fine(c, W \cup C, L, M, V) /\ Kept(b, c, W \cup C)
<1>1. Good(c, W \cup C, L, M) /\ Kept(b, c, W \cup C) BY ChangeGood DEF Fine
<1>2. ASSUME NEW k \in Key, k[2] > 0, burst(c.specs[k], k)
      PROVE  c.specs[k].state # "backoff"
  BY <1>2 DEF BurstsKept, Fine, Mid, burst
<1>3. ASSUME NEW k \in Unasked(c) \ V
      PROVE  k \notin c.decided /\ toAsk(c, k)
  <2>1. /\ k \in Key /\ k[2] > 0 /\ burst(c.specs[k], k)
        /\ c.specs[k].proc = Nil /\ c.specs[k].pending # {}
    BY DEF Unasked
  <2>2. c.specs[k].spec = b.specs[k].spec BY <2>1 DEF BurstsKept
  <2>3. b.specs[k].proc = Nil /\ b.specs[k].pending # {} BY <2>1 DEF Change
  <2>4. k \in Unasked(b) BY <2>1, <2>2, <2>3 DEF Unasked, burst
  <2>5. k \notin U BY <1>3, <2>1
  <2>6. k \notin b.decided /\ toAsk(b, k) BY <2>4, <2>5 DEF Fine, Mid
  <2> QED BY <2>6 DEF SameTurn, toAsk
<1>4. c.closing => \A k \in Key : c.specs[k].pending = {}
  BY DEF BurstsKept, Fine, Mid, Change
<1>5. ~c.stopped BY DEF SameTurn, Fine, Mid
<1>6. Mid(c, V) BY <1>2, <1>3, <1>4, <1>5 DEF Mid
<1> QED BY <1>1, <1>6 DEF Fine

\* The timers are those of before.
LEMMA ArmedKept ==
  ASSUME NEW b \in OwnerType, NEW c, NEW L, NEW M, Armed(b, L, M), TimersKept(b, c),
         \A k \in Key : c.specs[k].proc = b.specs[k].proc
  PROVE  Armed(c, L, M)
<1> SUFFICES ASSUME NEW k \in Key
             PROVE  LET p == c.specs[k].proc
                    IN  /\ c.specs[k].state = "draining" /\ p # Nil =>
                             \/ L[p] # "alive"
                             \/ cmdDrainGraceExpired(k, p) \in M \cup c.armed
                             \/ cmdKillGraceExpired(k, p) \in M \cup c.armed
                        /\ c.specs[k].state = "backoff" =>
                             \E m \in M \cup c.armed : m.cmd = "backoffFire" /\ m.key = k
  BY DEF Armed
<1> DEFINE p == b.specs[k].proc
<1>1. p # Nil => p \in Proc BY DEF OwnerType, SpecState
<1>2. p # Nil => /\ cmdDrainGraceExpired(k, p).cmd = "drainGraceExpired"
                 /\ cmdKillGraceExpired(k, p).cmd = "killGraceExpired"
  BY <1>1, DrainTimer, KillTimer, SMT
<1>3. \A m \in M \cup b.armed : m.cmd \in {"drainGraceExpired", "killGraceExpired"}
        => m \in M \cup c.armed
  BY DEF TimersKept
<1>4. \A m \in M \cup b.armed : m.cmd = "backoffFire" /\ m.key = k /\ c.specs[k].state = "backoff"
        => m \in M \cup c.armed
  BY DEF TimersKept
<1>5. /\ b.specs[k].state = "draining" /\ p # Nil =>
           \/ L[p] # "alive"
           \/ cmdDrainGraceExpired(k, p) \in M \cup b.armed
           \/ cmdKillGraceExpired(k, p) \in M \cup b.armed
      /\ b.specs[k].state = "backoff" =>
           \E m \in M \cup b.armed : m.cmd = "backoffFire" /\ m.key = k
  BY DEF Armed
<1>6. c.specs[k].state \in {"draining", "backoff"} => c.specs[k].state = b.specs[k].state
  BY DEF TimersKept
<1> HIDE DEF p
<1>7. c.specs[k].state = "draining" /\ p # Nil =>
        \/ L[p] # "alive"
        \/ cmdDrainGraceExpired(k, p) \in M \cup c.armed
        \/ cmdKillGraceExpired(k, p) \in M \cup c.armed
  BY <1>2, <1>3, <1>5, <1>6
<1>8. c.specs[k].state = "backoff" => \E m \in M \cup c.armed : m.cmd = "backoffFire" /\ m.key = k
  BY <1>4, <1>5, <1>6
<1> QED BY <1>7, <1>8 DEF p

\* What changing one key's state leaves as it is.
LEMMA SpecAt ==
  ASSUME NEW b \in OwnerType, NEW k \in Key, NEW st \in SpecState
  PROVE  LET c == [b EXCEPT !.specs[k] = st]
         IN  /\ c \in OwnerType
             /\ c.specs[k] = st /\ \A j \in Key \ {k} : c.specs[j] = b.specs[j]
             /\ c.reply = b.reply /\ c.lease = b.lease /\ c.armed = b.armed
             /\ c.work = b.work /\ c.decided = b.decided /\ c.stopped = b.stopped
             /\ c.closing = b.closing /\ c.cfg = b.cfg
<1> DEFINE c == [b EXCEPT !.specs[k] = st]
           f == [b.specs EXCEPT ![k] = st]
<1>1. b.specs \in [Key -> SpecState] BY DEF OwnerType
<1>2. c = [b EXCEPT !.specs = f] OBVIOUS
<1>3. f \in [Key -> SpecState] /\ f[k] = st /\ \A j \in Key \ {k} : f[j] = b.specs[j]
  BY <1>1
<1> HIDE DEF f
<1>4. c \in OwnerType BY <1>2, <1>3, FieldTypes
<1>5. /\ c.specs = f /\ c.reply = b.reply /\ c.lease = b.lease /\ c.armed = b.armed
      /\ c.work = b.work /\ c.decided = b.decided /\ c.stopped = b.stopped
      /\ c.closing = b.closing /\ c.cfg = b.cfg
  BY <1>2 DEF OwnerType
<1> QED BY <1>3, <1>4, <1>5

\* A key's settings, queue, process and leases stay, and its state becomes one that
\* neither a process nor a timer goes with.
LEMMA SpecFine ==
  ASSUME NEW b, NEW W, NEW L, NEW M, NEW U, Fine(b, W, L, M, U), NEW k \in Key,
         NEW st \in SpecState, st.pending = b.specs[k].pending, st.proc = b.specs[k].proc,
         st.inFlight = b.specs[k].inFlight, st.spec = b.specs[k].spec,
         st.intentionalStop => b.specs[k].intentionalStop,
         \/ st.state = b.specs[k].state
         \/ st.state \notin {"absent", "starting", "draining", "backoff"}
  PROVE  LET c == [b EXCEPT !.specs[k] = st]
         IN  /\ Fine(c, W, L, M, U) /\ Kept(b, c, W) /\ Steady(b, c) /\ SameTurn(b, c)
             /\ c.specs[k] = st /\ \A j \in Key \ {k} : c.specs[j] = b.specs[j]
             /\ c.closing = b.closing /\ c.armed = b.armed /\ c.decided = b.decided
<1> DEFINE c == [b EXCEPT !.specs[k] = st]
<1>0. b \in OwnerType BY DEF Fine, Good
<1>1. /\ c \in OwnerType
      /\ c.specs[k] = st /\ \A j \in Key \ {k} : c.specs[j] = b.specs[j]
      /\ c.reply = b.reply /\ c.lease = b.lease /\ c.armed = b.armed
      /\ c.work = b.work /\ c.decided = b.decided /\ c.stopped = b.stopped
      /\ c.closing = b.closing
  BY <1>0, SpecAt, SMT
<1> HIDE DEF c
<1>2. Change(b, c, {})
  <2>1. \A j \in Key : b.specs[j].pending \ {} = b.specs[j].pending OBVIOUS
  <2>2. b.specs[k].state = "absent" => b.specs[k].pending = {} /\ b.specs[k].proc = Nil
    BY DEF Fine, Good, Empties
  <2> QED BY <1>1, <2>1, <2>2, SMT DEF Change
<1>3. BurstsKept(b, c) BY <1>1 DEF BurstsKept
<1>4. SameTurn(b, c) /\ Steady(b, c) BY <1>1 DEF SameTurn, Steady
<1>5. TimersKept(b, c) BY <1>1 DEF TimersKept
<1>6. \A j \in Key : c.specs[j].proc = b.specs[j].proc BY <1>2 DEF Change
<1>7. Armed(c, L, M) BY <1>0, <1>5, <1>6, ArmedKept DEF Fine, Good
<1>8. W \cup {} = W OBVIOUS
<1>9. Fine(c, W, L, M, U) /\ Kept(b, c, W) BY <1>2, <1>3, <1>4, <1>7, <1>8, ChangeFine, SMT
<1> QED BY <1>1, <1>4, <1>9 DEF c

(***************************************************************************)
(* Answering callers.                                                      *)
(***************************************************************************)

\* What answering callers changes.
LEMMA Answered ==
  ASSUME NEW b \in OwnerType, NEW C \in SUBSET Caller, NEW out \in Reply, NEW l \in Lease
  PROVE  LET a == answer(b, C, out, l)
         IN  /\ a \in OwnerType
             /\ \A x \in Caller : /\ a.reply[x] = IF x \in C THEN out ELSE b.reply[x]
                                  /\ a.lease[x] = IF x \in C THEN l ELSE b.lease[x]
             /\ a.specs = b.specs /\ a.armed = b.armed /\ a.work = b.work
             /\ a.decided = b.decided /\ a.stopped = b.stopped /\ a.closing = b.closing
             /\ a.cfg = b.cfg
<1> DEFINE f == [x \in Caller |-> IF x \in C THEN out ELSE b.reply[x]]
           g == [x \in Caller |-> IF x \in C THEN l ELSE b.lease[x]]
           h == {q \in b.ahead : q[1] \notin C /\ q[2] \notin C}
           a == [b EXCEPT !.reply = f, !.lease = g, !.ahead = h]
<1>1. answer(b, C, out, l) = a BY DEF answer
<1>2. f \in [Caller -> Reply] /\ \A x \in Caller : f[x] = IF x \in C THEN out ELSE b.reply[x]
  BY DEF OwnerType
<1>3. g \in [Caller -> Lease] /\ \A x \in Caller : g[x] = IF x \in C THEN l ELSE b.lease[x]
  BY DEF OwnerType
<1>4. h \in SUBSET (Caller \X Caller) BY DEF OwnerType
<1> HIDE DEF f, g, h
<1>5. a \in OwnerType BY <1>2, <1>3, <1>4 DEF OwnerType
<1>6. /\ a.reply = f /\ a.lease = g /\ a.specs = b.specs /\ a.armed = b.armed /\ a.work = b.work
      /\ a.decided = b.decided /\ a.stopped = b.stopped /\ a.closing = b.closing
      /\ a.cfg = b.cfg
  BY DEF OwnerType
<1> HIDE DEF a
<1> QED BY <1>1, <1>2, <1>3, <1>5, <1>6

\* lastUsed is nobody's book.
LEMMA TouchFine ==
  ASSUME NEW b, NEW W, NEW L, NEW M, NEW U, Fine(b, W, L, M, U), NEW k \in Key
  PROVE  LET c == touch(b, k)
         IN  /\ Fine(c, W, L, M, U) /\ Kept(b, c, W) /\ Steady(b, c) /\ SameTurn(b, c)
             /\ c.specs = b.specs /\ c.closing = b.closing
<1> DEFINE R == {q \in b.older : k \notin {q[1], q[2]}} \cup ((Key \ {k}) \X {k})
           c == [b EXCEPT !.older = R]
<1>0. b \in OwnerType BY DEF Fine, Good
<1>1. touch(b, k) = c BY DEF touch
<1>2. R \in SUBSET (Key \X Key)
  <2>1. b.older \in SUBSET (Key \X Key) BY <1>0 DEF OwnerType
  <2>2. (Key \ {k}) \X {k} \subseteq Key \X Key OBVIOUS
  <2> QED BY <2>1, <2>2
<1> HIDE DEF R
<1>3. c \in OwnerType BY <1>0, <1>2, FieldTypes
<1>4. /\ c.specs = b.specs /\ c.reply = b.reply /\ c.lease = b.lease /\ c.armed = b.armed
      /\ c.work = b.work /\ c.decided = b.decided /\ c.stopped = b.stopped
      /\ c.closing = b.closing
  BY <1>0 DEF OwnerType
<1> HIDE DEF c
<1>5. Change(b, c, {})
  <2>1. \A j \in Key : b.specs[j].pending \ {} = b.specs[j].pending OBVIOUS
  <2> QED BY <1>3, <1>4, <2>1 DEF Change
<1>6. BurstsKept(b, c) BY <1>4 DEF BurstsKept
<1>7. SameTurn(b, c) /\ Steady(b, c) BY <1>4 DEF SameTurn, Steady
<1>8. Armed(c, L, M) BY <1>4, SMT DEF Fine, Good, Armed
<1>9. W \cup {} = W OBVIOUS
<1>10. Fine(c, W, L, M, U) /\ Kept(b, c, W) BY <1>5, <1>6, <1>7, <1>8, <1>9, ChangeFine, SMT
<1> QED BY <1>1, <1>4, <1>7, <1>10

\* A caller that is not accepted yet gets a refusal.
LEMMA RefuseFine ==
  ASSUME NEW b, NEW W, NEW L, NEW M, NEW U, Fine(b, W, L, M, U), NEW x \in Caller \ W,
         b.reply[x] = "none", NEW out \in Reply \ {"none"}
  PROVE  LET c == answer(b, {x}, out, NoLease)
         IN  /\ Fine(c, W \cup {x}, L, M, U) /\ Kept(b, c, W \cup {x}) /\ Steady(b, c)
             /\ SameTurn(b, c)
<1> DEFINE c == answer(b, {x}, out, NoLease)
<1>0. b \in OwnerType BY DEF Fine, Good
<1>1. /\ c \in OwnerType
      /\ \A y \in Caller : /\ c.reply[y] = IF y \in {x} THEN out ELSE b.reply[y]
                           /\ c.lease[y] = IF y \in {x} THEN NoLease ELSE b.lease[y]
      /\ c.specs = b.specs /\ c.armed = b.armed /\ c.work = b.work
      /\ c.decided = b.decided /\ c.stopped = b.stopped /\ c.closing = b.closing
  BY <1>0, Answered, NoLeaseType, SMT
<1> HIDE DEF c
<1>2. Change(b, c, {x})
  <2>1. \A j \in Key : b.specs[j].pending \ {x} = b.specs[j].pending
    BY SMT DEF Fine, Good, Waiting
  <2> QED BY <1>1, <2>1 DEF Change
<1>3. BurstsKept(b, c) BY <1>1 DEF BurstsKept
<1>4. SameTurn(b, c) /\ Steady(b, c) BY <1>1 DEF SameTurn, Steady
<1>5. Armed(c, L, M) BY <1>1, SMT DEF Fine, Good, Armed
<1>6. Fine(c, W \cup {x}, L, M, U) /\ Kept(b, c, W \cup {x})
  BY <1>2, <1>3, <1>4, <1>5, ChangeFine
<1> QED BY <1>4, <1>6 DEF c

\* Being answered keeps the books in order; who had been asked about leaves U with an empty queue.
LEMMA OffQueueFine ==
  ASSUME NEW b, NEW W, NEW L, NEW M, NEW U, NEW V, Fine(b, W, L, M, U), NEW k \in Key,
         NEW C, NEW out \in Reply \ {"none"}, NEW A, NEW c, OffQueue(b, c, k, C, out, A),
         \A j \in U : j \in V \/ (j = k /\ C = b.specs[k].pending)
  PROVE  /\ Fine(c, W, L, M, V) /\ Kept(b, c, W) /\ Steady(b, c) /\ SameTurn(b, c)
         /\ OnlyQueues(b, c, C)
<1> DEFINE a == answer(b, C, out, NoLease)
           st == [a.specs[k] EXCEPT !.pending = @ \ C]
           d == [a EXCEPT !.specs[k] = st]
<1> USE DEF OffQueue
<1>0. b \in OwnerType /\ b.specs[k] \in SpecState /\ b.armed \subseteq Timer
  BY DEF Fine, Good, OwnerType
<1>1. C \in SUBSET Caller BY <1>0 DEF SpecState
<1>2. /\ a \in OwnerType
      /\ \A y \in Caller : /\ a.reply[y] = IF y \in C THEN out ELSE b.reply[y]
                           /\ a.lease[y] = IF y \in C THEN NoLease ELSE b.lease[y]
      /\ a.specs = b.specs /\ a.armed = b.armed /\ a.work = b.work
      /\ a.decided = b.decided /\ a.stopped = b.stopped /\ a.closing = b.closing
  BY <1>0, <1>1, Answered, NoLeaseType, SMT
<1> HIDE DEF a
<1>3. st \in SpecState
  <2>1. b.specs[k].pending \ C \in SUBSET Caller BY <1>0 DEF SpecState
  <2> QED BY <1>0, <1>2, <2>1, SpecUpdates
<1>4. /\ st.pending = b.specs[k].pending \ C /\ st.state = b.specs[k].state
      /\ st.proc = b.specs[k].proc /\ st.inFlight = b.specs[k].inFlight
      /\ st.spec = b.specs[k].spec /\ st.intentionalStop = b.specs[k].intentionalStop
      /\ st.removed = b.specs[k].removed
  BY <1>0, <1>2 DEF SpecState
<1> HIDE DEF st
<1>5. /\ d \in OwnerType
      /\ d.specs[k] = st /\ \A j \in Key \ {k} : d.specs[j] = b.specs[j]
      /\ d.reply = a.reply /\ d.lease = a.lease
      /\ d.work = b.work /\ d.decided = b.decided /\ d.stopped = b.stopped
      /\ d.closing = b.closing
  BY <1>2, <1>3, SpecAt, SMT
<1>6. c = [d EXCEPT !.armed = A]
  <2>1. c = [a EXCEPT !.specs[k].pending = @ \ C, !.armed = A] BY DEF a
  <2> QED BY <1>2, <2>1, ZenonT(30) DEF st, OwnerType
<1> HIDE DEF d
<1>7. /\ c \in OwnerType /\ c.specs = d.specs /\ c.reply = d.reply /\ c.lease = d.lease
      /\ c.armed = A /\ c.work = d.work /\ c.decided = d.decided /\ c.stopped = d.stopped
      /\ c.closing = d.closing
  <2>1. A \in SUBSET Timer BY <1>0
  <2>2. c \in OwnerType BY <1>5, <1>6, <2>1, FieldTypes, ZenonT(40)
  <2> QED BY <1>5, <1>6, <2>2 DEF OwnerType
<1>8. \A j \in Key : /\ c.specs[j].pending = b.specs[j].pending \ C
                     /\ c.specs[j].state = b.specs[j].state
                     /\ c.specs[j].proc = b.specs[j].proc
                     /\ c.specs[j].inFlight = b.specs[j].inFlight
                     /\ c.specs[j].spec = b.specs[j].spec
                     /\ c.specs[j].intentionalStop = b.specs[j].intentionalStop
                     /\ c.specs[j].removed = b.specs[j].removed
  <2>1. \A j \in Key \ {k} : b.specs[j].pending \ C = b.specs[j].pending
    BY DEF Fine, Good, Waiting
  <2>2. c.specs[k] = st /\ \A j \in Key \ {k} : c.specs[j] = b.specs[j] BY <1>5, <1>7
  <2> SUFFICES ASSUME NEW j \in Key
               PROVE  /\ c.specs[j].pending = b.specs[j].pending \ C
                      /\ c.specs[j].state = b.specs[j].state
                      /\ c.specs[j].proc = b.specs[j].proc
                      /\ c.specs[j].inFlight = b.specs[j].inFlight
                      /\ c.specs[j].spec = b.specs[j].spec
                      /\ c.specs[j].intentionalStop = b.specs[j].intentionalStop
                      /\ c.specs[j].removed = b.specs[j].removed
    OBVIOUS
  <2>3. CASE j = k BY <1>4, <2>2, <2>3
  <2>4. CASE j # k
    <3>1. c.specs[j] = b.specs[j] /\ b.specs[j].pending \ C = b.specs[j].pending
      BY <2>1, <2>2, <2>4
    <3> QED BY <3>1
  <2> QED BY <2>3, <2>4
<1>9. Change(b, c, C)
  <2>1. \A x \in C : b.reply[x] = "none" BY DEF Fine, Good, Waiting
  <2>2. \A j \in Key : b.specs[j].state = "absent" => b.specs[j].pending = {} /\ b.specs[j].proc = Nil
    BY DEF Fine, Good, Empties
  <2>3. \A x \in Caller : IF x \in C
          THEN b.reply[x] = "none" /\ c.reply[x] # "none" /\ c.lease[x] = NoLease
          ELSE c.reply[x] = b.reply[x] /\ c.lease[x] = b.lease[x]
    BY <1>2, <1>5, <1>7, <2>1, SMT
  <2>4. \A j \in Key :
          /\ c.specs[j].pending = b.specs[j].pending \ C
          /\ c.specs[j].proc = b.specs[j].proc
          /\ c.specs[j].inFlight = b.specs[j].inFlight
          /\ c.specs[j].state = "starting" => b.specs[j].state = "starting"
          /\ c.specs[j].state = "absent" =>
               b.specs[j].state = "absent" \/ (c.specs[j].pending = {} /\ c.specs[j].proc = Nil)
    BY <1>8
  <2> QED BY <1>1, <1>7, <2>3, <2>4 DEF Change
<1>10. BurstsKept(b, c) BY <1>5, <1>7, <1>8 DEF BurstsKept
<1>11. SameTurn(b, c) /\ Steady(b, c) BY <1>5, <1>7, <1>8 DEF SameTurn, Steady
<1>12. TimersKept(b, c) BY <1>7, <1>8 DEF TimersKept
<1>13. Armed(c, L, M) BY <1>0, <1>8, <1>12, ArmedKept, ZenonT(40) DEF Fine, Good
<1>14. W \cup C = W BY DEF Fine, Good, Waiting
<1>15. \A j \in Key : j \in U => j \in V \/ c.specs[j].pending = {} BY <1>8
<1>16. Fine(c, W, L, M, V) /\ Kept(b, c, W)
  <2>1. Fine(c, W \cup C, L, M, V) /\ Kept(b, c, W \cup C)
    BY <1>9, <1>10, <1>11, <1>13, <1>15, ChangeFine, ZenonT(30)
  <2> QED BY <1>14, <2>1
<1>17. OnlyQueues(b, c, C)
  <2> HIDE DEF OffQueue
  <2> QED BY <1>5, <1>7, <1>8 DEF OnlyQueues
<1> QED BY <1>11, <1>16, <1>17

\* failPending answers everybody who waits on k.
LEMMA FailPendingFine ==
  ASSUME NEW b, NEW W, NEW L, NEW M, NEW U, Fine(b, W, L, M, U), NEW k \in Key,
         NEW err \in Reply \ {"none"}
  PROVE  LET c == failPending(b, k, err)
         IN  /\ Fine(c, W, L, M, U \ {k}) /\ Kept(b, c, W) /\ Steady(b, c) /\ SameTurn(b, c)
             /\ \A j \in Key : /\ c.specs[j].state = b.specs[j].state
                               /\ c.specs[j].spec = b.specs[j].spec
                               /\ c.specs[j].removed = b.specs[j].removed
             /\ c.specs[k].pending = {} /\ c.closing = b.closing /\ c.decided = b.decided
<1> DEFINE C == b.specs[k].pending
           T == {cmdWaiterTimeout(j, x) : j \in {k}, x \in C}
           A == b.armed \ T
           a == answer(b, C, err, NoLease)
           c == [a EXCEPT !.specs[k].pending = @ \ C, !.armed = A]
<1>0. b \in OwnerType /\ b.specs[k] \in SpecState /\ C \in SUBSET Caller
  BY DEF Fine, Good, OwnerType, SpecState
<1>1. a \in OwnerType /\ a.specs = b.specs /\ a.armed = b.armed
  <2> HIDE DEF C
  <2> QED BY <1>0, Answered, NoLeaseType, SMT
<1>2. UNION {b.specs[j].pending : j \in {k}} = C OBVIOUS
<1>3. failPending(b, k, err) = c
  <2>1. answerPending(b, {k}, err) = [a EXCEPT !.armed = A]
    <3>1. answerPending(b, {k}, err) =
            [answer(b, UNION {b.specs[j].pending : j \in {k}}, err, NoLease) EXCEPT
               !.armed = @ \ {cmdWaiterTimeout(j, x) : j \in {k},
                                                     x \in UNION {b.specs[i].pending : i \in {k}}}]
      BY SMT DEF answerPending
    <3> HIDE DEF C
    <3>2. answerPending(b, {k}, err) = [a EXCEPT !.armed = @ \ T] BY <1>2, <3>1, SMT
    <3> HIDE DEF a, T
    <3> QED BY <1>1, <3>2
  <2>2. failPending(b, k, err) = [[a EXCEPT !.armed = A] EXCEPT !.specs[k].pending = {}]
    <3> HIDE DEF a, A
    <3> QED BY <2>1 DEF failPending
  <2>3. C \ C = {} OBVIOUS
  <2>4. a.specs[k].pending = C BY <1>1
  <2> HIDE DEF a, C, A
  <2> QED BY <1>1, <2>2, <2>3, <2>4 DEF OwnerType
<1>4. \A m \in T : m.cmd = "waiterTimeout" BY <1>0, WaiterTimer, SMT
<1> HIDE DEF T
<1>5. A \subseteq b.armed /\ \A m \in b.armed : m.cmd # "waiterTimeout" => m \in A BY <1>4
<1>6. \A j \in U : j \in U \ {k} \/ (j = k /\ C = b.specs[k].pending) OBVIOUS
<1>7. OffQueue(b, c, k, C, err, A)
  <2>1. C \subseteq b.specs[k].pending OBVIOUS
  <2> HIDE DEF A, C
  <2> QED BY <1>5, <2>1 DEF OffQueue
<1>8. b.specs[k].pending \ C = {} OBVIOUS
<1> HIDE DEF A, C, c
<1>9. /\ Fine(c, W, L, M, U \ {k}) /\ Kept(b, c, W) /\ Steady(b, c) /\ SameTurn(b, c)
      /\ OnlyQueues(b, c, C)
  BY <1>6, <1>7, OffQueueFine
<1> QED BY <1>3, <1>8, <1>9 DEF OnlyQueues

\* A caller gives up, or has waited too long.
LEMMA DequeueFine ==
  ASSUME NEW b, NEW W, NEW L, NEW M, NEW U, Fine(b, W, L, M, U), NEW k \in Key,
         NEW x \in b.specs[k].pending, NEW out \in Reply \ {"none"},
         NEW c \in Dequeued(b, k, x, out)
  PROVE  Fine(c, W, L, M, U) /\ Kept(b, c, W) /\ Steady(b, c) /\ SameTurn(b, c)
<1> DEFINE a == answer(b, {x}, out, NoLease)
           t == cmdWaiterTimeout(k, x)
           B == b.armed \ {t}
<1>0. b \in OwnerType /\ b.specs[k] \in SpecState /\ x \in Caller
  BY DEF Fine, Good, OwnerType, SpecState
<1>1. a \in OwnerType /\ a.specs = b.specs /\ a.armed = b.armed BY <1>0, Answered, NoLeaseType, SMT
<1>2. t.cmd = "waiterTimeout" BY <1>0, WaiterTimer
<1>3. dequeue(b, k, x, out) = [a EXCEPT !.specs[k].pending = @ \ {x}] BY DEF dequeue
<1> HIDE DEF a, t
<1>4. [a EXCEPT !.specs[k].pending = @ \ {x}]
        = [a EXCEPT !.specs[k].pending = @ \ {x}, !.armed = b.armed]
  BY <1>1 DEF OwnerType
<1>5. [[a EXCEPT !.specs[k].pending = @ \ {x}] EXCEPT !.armed = @ \ {t}]
        = [a EXCEPT !.specs[k].pending = @ \ {x}, !.armed = B]
  BY <1>1 DEF OwnerType
<1>6. ASSUME NEW A, A \in {b.armed, B}, NEW d, d = [a EXCEPT !.specs[k].pending = @ \ {x}, !.armed = A]
      PROVE  Fine(d, W, L, M, U) /\ Kept(b, d, W) /\ Steady(b, d) /\ SameTurn(b, d)
  <2>1. A \subseteq b.armed /\ \A m \in b.armed : m.cmd # "waiterTimeout" => m \in A BY <1>2, <1>6
  <2>2. {x} \subseteq b.specs[k].pending OBVIOUS
  <2>3. \A j \in U : j \in U \/ (j = k /\ {x} = b.specs[k].pending) OBVIOUS
  <2>4. OffQueue(b, d, k, {x}, out, A) BY <1>6, <2>1, <2>2 DEF OffQueue, a
  <2> QED BY <2>3, <2>4, OffQueueFine
<1> HIDE DEF B
<1>7. ASSUME NEW d, d = dequeue(b, k, x, out) \/ d = [dequeue(b, k, x, out) EXCEPT !.armed = @ \ {t}]
      PROVE  Fine(d, W, L, M, U) /\ Kept(b, d, W) /\ Steady(b, d) /\ SameTurn(b, d)
  BY <1>3, <1>4, <1>5, <1>6, <1>7
<1>8. c = dequeue(b, k, x, out) \/ c = [dequeue(b, k, x, out) EXCEPT !.armed = @ \ {t}]
  BY DEF t, Dequeued
<1> QED BY <1>7, <1>8

(***************************************************************************)
(* Stopping a process.  The commands of M are those around the owner but   *)
(* for the one that is being handled.                                      *)
(***************************************************************************)

\* A process is told to stop.
LEMMA TerminateNowFine ==
  ASSUME NEW b, NEW W, NEW M, NEW U, NEW k \in Key,
         b \in OwnerType, Waiting(b, W), Leases(b), Empties(b), Homes(b, life), Mid(b, U),
         b.specs[k].proc # Nil,
         \A m \in cmds : m.cmd = "killGraceExpired" => m \in M,
         \/ Armed(b, life, M)
         \/ Armed(b, life, M \cup {cmdDrainGraceExpired(k, b.specs[k].proc)})
  PROVE  LET c == terminateNow(b, k)
         IN  /\ Fine(c, W, life, M, U) /\ Kept(b, c, W) /\ SameTurn(b, c)
             /\ b.specs[k].inFlight = 0 => Steady(b, c)
             /\ \A j \in Key \ {k} : c.specs[j] = b.specs[j]
             /\ c.specs[k].state = b.specs[k].state /\ c.specs[k].proc = b.specs[k].proc
             /\ c.specs[k].inFlight = b.specs[k].inFlight
             /\ c.specs[k].spec = b.specs[k].spec /\ c.specs[k].pending = b.specs[k].pending
             /\ c.closing = b.closing
<1> DEFINE p == b.specs[k].proc
           kill == cmdKillGraceExpired(k, p)
           drain == cmdDrainGraceExpired(k, p)
           A == (b.armed \ {drain}) \cup {kill}
           st == [b.specs[k] EXCEPT !.intentionalStop = TRUE]
           d == [b EXCEPT !.specs[k] = st]
           c == [d EXCEPT !.armed = A]
<1>0. b.specs[k] \in SpecState /\ b.armed \subseteq Timer BY DEF OwnerType
<1>1. p \in Proc BY <1>0 DEF SpecState
<1>2. /\ kill \in Timer /\ kill.cmd = "killGraceExpired"
      /\ drain.cmd = "drainGraceExpired" /\ drain.key = k /\ drain.proc = p
  BY <1>1, KillTimer, DrainTimer, SMT
<1>3. st \in SpecState BY <1>0, SpecUpdates
<1>4. /\ st.pending = b.specs[k].pending /\ st.state = b.specs[k].state
      /\ st.proc = b.specs[k].proc /\ st.inFlight = b.specs[k].inFlight
      /\ st.spec = b.specs[k].spec
  BY <1>0 DEF SpecState
<1>5. CASE signallable(b, k, p)
  <2>1. terminateNow(b, k) = c
    BY <1>5 DEF terminateNow, OwnerType
  <2> HIDE DEF st, kill, drain
  <2>2. /\ d \in OwnerType
        /\ d.specs[k] = st /\ \A j \in Key \ {k} : d.specs[j] = b.specs[j]
        /\ d.reply = b.reply /\ d.lease = b.lease /\ d.armed = b.armed
        /\ d.work = b.work /\ d.decided = b.decided /\ d.stopped = b.stopped
        /\ d.closing = b.closing
    BY <1>3, SpecAt, SMT
  <2> HIDE DEF d
  <2>3. A \in SUBSET Timer BY <1>0, <1>2
  <2> HIDE DEF A
  <2>4. c \in OwnerType BY <2>2, <2>3, FieldTypes
  <2>5. /\ c.specs = d.specs /\ c.reply = b.reply /\ c.lease = b.lease /\ c.armed = A
        /\ c.work = b.work /\ c.decided = b.decided /\ c.stopped = b.stopped
        /\ c.closing = b.closing
    BY <2>2 DEF OwnerType
  <2> HIDE DEF c
  <2>6. /\ c.specs[k] = st /\ \A j \in Key \ {k} : c.specs[j] = b.specs[j]
    BY <2>2, <2>5
  <2>7. Armed(c, life, M)
    <3> SUFFICES ASSUME NEW j \in Key
                 PROVE  LET q == c.specs[j].proc
                        IN  /\ c.specs[j].state = "draining" /\ q # Nil =>
                                 \/ life[q] # "alive"
                                 \/ cmdDrainGraceExpired(j, q) \in M \cup c.armed
                                 \/ cmdKillGraceExpired(j, q) \in M \cup c.armed
                            /\ c.specs[j].state = "backoff" =>
                                 \E m \in M \cup c.armed : m.cmd = "backoffFire" /\ m.key = j
      BY DEF Armed
    <3> DEFINE q == b.specs[j].proc
    <3>1. c.specs[j].proc = q /\ c.specs[j].state = b.specs[j].state BY <1>4, <2>6
    <3>2. /\ b.specs[j].state = "draining" /\ q # Nil =>
               \/ life[q] # "alive"
               \/ cmdDrainGraceExpired(j, q) \in M \cup b.armed \cup {drain}
               \/ cmdKillGraceExpired(j, q) \in M \cup b.armed \cup {drain}
          /\ b.specs[j].state = "backoff" =>
               \E m \in M \cup b.armed \cup {drain} : m.cmd = "backoffFire" /\ m.key = j
      BY DEF Armed, drain
    <3>3. q # Nil => q \in Proc BY DEF OwnerType, SpecState
    <3>4. q # Nil => /\ cmdDrainGraceExpired(j, q).key = j
                     /\ cmdKillGraceExpired(j, q).cmd = "killGraceExpired"
      BY <3>3, DrainTimer, KillTimer, SMT
    <3>5. c.armed = (b.armed \ {drain}) \cup {kill} BY <2>5 DEF A
    <3>6. c.specs[j].state = "backoff" =>
            \E m \in M \cup c.armed : m.cmd = "backoffFire" /\ m.key = j
      BY <1>2, <3>1, <3>2, <3>5
    <3>7. CASE j = k
      <4>1. cmdKillGraceExpired(j, q) \in c.armed BY <3>5, <3>7 DEF kill
      <4> QED BY <3>1, <3>6, <4>1
    <3>8. CASE j # k
      <4> HIDE DEF q
      <4>1. c.specs[j].state = "draining" /\ q # Nil =>
              \/ life[q] # "alive"
              \/ cmdDrainGraceExpired(j, q) \in M \cup c.armed
              \/ cmdKillGraceExpired(j, q) \in M \cup c.armed
        BY <1>2, <3>1, <3>2, <3>4, <3>5, <3>8
      <4> QED BY <3>1, <3>6, <4>1
    <3> QED BY <3>7, <3>8
  <2>8. Change(b, c, {})
    <3>1. \A j \in Key : b.specs[j].pending \ {} = b.specs[j].pending OBVIOUS
    <3>2. \A j \in Key : c.specs[j].state = b.specs[j].state BY <1>4, <2>6
    <3> QED BY <1>4, <2>4, <2>5, <2>6, <3>1, <3>2 DEF Change
  <2>9. Good(c, W \cup {}, life, M) /\ Kept(b, c, W \cup {})
    <3>1. Armed(b, life, M \cup {drain}) \/ Armed(b, life, M) BY DEF drain
    <3>2. Good(b, W, life, M \cup {drain}) \/ Good(b, W, life, M) BY <3>1 DEF Good
    <3>3. Armed(c, life, M \cup {drain}) BY <2>7 DEF Armed
    <3>4. /\ Good(c, W \cup {}, life, M \cup {drain}) \/ Good(c, W \cup {}, life, M)
          /\ Kept(b, c, W \cup {})
      BY <2>7, <2>8, <3>2, <3>3, ChangeGood
    <3> QED BY <2>7, <3>4 DEF Good
  <2>10. W \cup {} = W OBVIOUS
  <2>11. Mid(c, U)
    <3>1. \A j \in Key : /\ c.specs[j].spec = b.specs[j].spec /\ c.specs[j].proc = b.specs[j].proc
                         /\ c.specs[j].pending = b.specs[j].pending
                         /\ c.specs[j].state = b.specs[j].state
      BY <1>4, <2>6
    <3>2. Unasked(c) = Unasked(b) BY <3>1 DEF Unasked, burst
    <3>3. \A j : toAsk(c, j) = toAsk(b, j) BY <2>5 DEF toAsk
    <3>4. \A j \in Key : burst(c.specs[j], j) = burst(b.specs[j], j) BY <3>1 DEF burst
    <3> QED BY <2>5, <3>1, <3>2, <3>3, <3>4 DEF Mid
  <2>12. SameTurn(b, c) BY <2>5 DEF SameTurn
  <2>13. b.specs[k].inFlight = 0 => Steady(b, c) BY <1>4, <2>6 DEF Steady
  <2> QED BY <1>4, <2>1, <2>5, <2>6, <2>9, <2>10, <2>11, <2>12, <2>13 DEF Fine
<1>6. CASE ~signallable(b, k, p)
  <2>1. terminateNow(b, k) = b BY <1>6 DEF terminateNow
  <2>2. life[p] # "alive" \/ kill \in M \cup b.armed
    BY <1>2, <1>6 DEF signallable
  <2>3. Armed(b, life, M)
    <3> SUFFICES ASSUME NEW j \in Key
                 PROVE  LET q == b.specs[j].proc
                        IN  /\ b.specs[j].state = "draining" /\ q # Nil =>
                                 \/ life[q] # "alive"
                                 \/ cmdDrainGraceExpired(j, q) \in M \cup b.armed
                                 \/ cmdKillGraceExpired(j, q) \in M \cup b.armed
                            /\ b.specs[j].state = "backoff" =>
                                 \E m \in M \cup b.armed : m.cmd = "backoffFire" /\ m.key = j
      BY DEF Armed
    <3> DEFINE q == b.specs[j].proc
    <3>1. /\ b.specs[j].state = "draining" /\ q # Nil =>
               \/ life[q] # "alive"
               \/ cmdDrainGraceExpired(j, q) \in M \cup b.armed \cup {drain}
               \/ cmdKillGraceExpired(j, q) \in M \cup b.armed \cup {drain}
          /\ b.specs[j].state = "backoff" =>
               \E m \in M \cup b.armed \cup {drain} : m.cmd = "backoffFire" /\ m.key = j
      BY DEF Armed, drain
    <3>2. q # Nil => q \in Proc BY DEF OwnerType, SpecState
    <3>3. q # Nil => /\ cmdDrainGraceExpired(j, q).key = j
                     /\ cmdKillGraceExpired(j, q).cmd = "killGraceExpired"
      BY <3>2, DrainTimer, KillTimer, SMT
    <3>4. j = k => q = p OBVIOUS
    <3>5. kill = cmdKillGraceExpired(k, p) OBVIOUS
    <3> HIDE DEF p, q, kill, drain
    <3> QED BY <1>2, <2>2, <3>1, <3>3, <3>4, <3>5 DEF q
  <2> QED BY <2>1, <2>3, Twice DEF Fine, Good
<1> QED BY <1>5, <1>6

\* A drain tells the idle ones to stop and gives the others their grace.
LEMMA BeginDrainFine ==
  ASSUME NEW b, NEW W, NEW M, NEW U, Fine(b, W, life, M, U), NEW S,
         \A m \in cmds : m.cmd = "killGraceExpired" => m \in M
  PROVE  LET c == beginDrain(b, S)
         IN  /\ Fine(c, W, life, M, U) /\ Kept(b, c, W) /\ Steady(b, c) /\ SameTurn(b, c)
             /\ \A k \in Key : /\ c.specs[k].spec = b.specs[k].spec
                               /\ c.specs[k].pending = b.specs[k].pending
                               /\ b.specs[k].proc = Nil => c.specs[k] = b.specs[k]
             /\ c.closing = b.closing /\ c.decided = b.decided
<1> DEFINE D == {k \in S \cap live(b) : b.specs[k].state # "draining"}
           idle == {k \in D : b.specs[k].inFlight = 0}
           now == {k \in idle : signallable(b, k, b.specs[k].proc)}
           f == [k \in Key |->
                   IF k \in D
                   THEN [b.specs[k] EXCEPT
                           !.state = "draining",
                           !.intentionalStop = b.specs[k].intentionalStop \/ k \in now]
                   ELSE b.specs[k]]
           A == b.armed \cup {cmdKillGraceExpired(k, b.specs[k].proc) : k \in now}
                  \cup {cmdDrainGraceExpired(k, b.specs[k].proc) : k \in D \ idle}
           d == [b EXCEPT !.specs = f]
           c == [d EXCEPT !.armed = A]
<1>0. /\ b \in OwnerType /\ b.specs \in [Key -> SpecState] /\ b.armed \in SUBSET Timer
  BY DEF Fine, Good, OwnerType
<1>1. \A k \in D : k \in Key /\ b.specs[k].proc \in Proc
  BY <1>0 DEF live, SpecState
<1>2. beginDrain(b, S) = c BY <1>0 DEF beginDrain, OwnerType
<1>3. \A k \in Key : /\ f[k] \in SpecState
                     /\ f[k].proc = b.specs[k].proc /\ f[k].inFlight = b.specs[k].inFlight
                     /\ f[k].spec = b.specs[k].spec /\ f[k].pending = b.specs[k].pending
                     /\ f[k].state = IF k \in D THEN "draining" ELSE b.specs[k].state
                     /\ f[k].intentionalStop =>
                          b.specs[k].intentionalStop \/ f[k].inFlight = 0
                     /\ b.specs[k].proc = Nil => f[k] = b.specs[k]
  <2> SUFFICES ASSUME NEW k \in Key
               PROVE  /\ f[k] \in SpecState
                      /\ f[k].proc = b.specs[k].proc /\ f[k].inFlight = b.specs[k].inFlight
                      /\ f[k].spec = b.specs[k].spec /\ f[k].pending = b.specs[k].pending
                      /\ f[k].state = IF k \in D THEN "draining" ELSE b.specs[k].state
                      /\ f[k].intentionalStop =>
                           b.specs[k].intentionalStop \/ f[k].inFlight = 0
                      /\ b.specs[k].proc = Nil => f[k] = b.specs[k]
    OBVIOUS
  <2>1. b.specs[k] \in SpecState BY <1>0
  <2>2. CASE k \notin D
    <3>1. f[k] = b.specs[k] BY <2>2
    <3> QED BY <2>1, <2>2, <3>1
  <2>3. CASE k \in D
    <3>1. PICK i \in BOOLEAN : i <=> (b.specs[k].intentionalStop \/ k \in now) OBVIOUS
    <3>2. (b.specs[k].intentionalStop \/ k \in now) = i BY <2>1, <3>1 DEF SpecState
    <3> DEFINE su == [b.specs[k] EXCEPT !.state = "draining"]
               sv == [su EXCEPT !.intentionalStop = i]
    <3>3. f[k] = sv BY <2>1, <2>3, <3>2 DEF SpecState
    <3>4. "draining" \in State BY DEF State
    <3>5. su \in SpecState BY <2>1, <3>4, SpecUpdates
    <3>6. /\ su.proc = b.specs[k].proc /\ su.inFlight = b.specs[k].inFlight
          /\ su.spec = b.specs[k].spec /\ su.pending = b.specs[k].pending
          /\ su.state = "draining"
      BY <2>1 DEF SpecState
    <3> HIDE DEF su
    <3>7. sv \in SpecState BY <3>5, SpecUpdates
    <3>8. /\ sv.proc = su.proc /\ sv.inFlight = su.inFlight /\ sv.spec = su.spec
          /\ sv.pending = su.pending /\ sv.state = su.state /\ sv.intentionalStop = i
      BY <3>5 DEF SpecState
    <3>9. k \in now => b.specs[k].inFlight = 0 OBVIOUS
    <3>10. b.specs[k].proc # Nil BY <2>3 DEF live
    <3> HIDE DEF sv, f, D, now
    <3> QED BY <2>3, <3>1, <3>3, <3>6, <3>7, <3>8, <3>9, <3>10
  <2> QED BY <2>2, <2>3
<1>4. f \in [Key -> SpecState] BY <1>3
<1>5. A \in SUBSET Timer BY <1>0, <1>1, KillTimer, DrainTimer, SMT
<1>6. b.armed \subseteq A OBVIOUS
<1>7. \A k \in D : \/ life[b.specs[k].proc] # "alive"
                   \/ cmdDrainGraceExpired(k, b.specs[k].proc) \in M \cup A
                   \/ cmdKillGraceExpired(k, b.specs[k].proc) \in M \cup A
  <2> SUFFICES ASSUME NEW k \in D
               PROVE  \/ life[b.specs[k].proc] # "alive"
                      \/ cmdDrainGraceExpired(k, b.specs[k].proc) \in M \cup A
                      \/ cmdKillGraceExpired(k, b.specs[k].proc) \in M \cup A
    OBVIOUS
  <2>1. CASE k \notin idle BY <2>1
  <2>2. CASE k \in now BY <2>2
  <2>3. CASE k \in idle /\ k \notin now
    <3>1. ~signallable(b, k, b.specs[k].proc) BY <2>3
    <3>2. cmdKillGraceExpired(k, b.specs[k].proc).cmd = "killGraceExpired" BY <1>1, KillTimer
    <3> HIDE DEF A
    <3> QED BY <1>6, <3>1, <3>2 DEF signallable
  <2> QED BY <2>1, <2>2, <2>3
<1>8. \A k \in D : k \in Key BY <1>1
<1> HIDE DEF D, idle, now, f, A
<1>9. d \in OwnerType /\ c \in OwnerType BY <1>0, <1>4, <1>5, FieldTypes
<1>10. /\ c.specs = f /\ c.reply = b.reply /\ c.lease = b.lease /\ c.armed = A
       /\ c.work = b.work /\ c.decided = b.decided /\ c.stopped = b.stopped
       /\ c.closing = b.closing
  BY <1>0 DEF OwnerType
<1> HIDE DEF c, d
<1>11. Change(b, c, {})
  <2>1. \A j \in Key : b.specs[j].pending \ {} = b.specs[j].pending OBVIOUS
  <2>2. \A k \in Key : c.specs[k].state \in {"starting", "absent"} =>
                         c.specs[k].state = b.specs[k].state
    BY <1>3, <1>10
  <2> QED BY <1>3, <1>9, <1>10, <2>1, <2>2 DEF Change
<1>12. BurstsKept(b, c) BY <1>3, <1>10 DEF BurstsKept
<1>13. SameTurn(b, c) /\ Steady(b, c) BY <1>3, <1>10 DEF SameTurn, Steady
<1>14. Armed(c, life, M)
  <2> SUFFICES ASSUME NEW k \in Key
               PROVE  LET p == c.specs[k].proc
                      IN  /\ c.specs[k].state = "draining" /\ p # Nil =>
                               \/ life[p] # "alive"
                               \/ cmdDrainGraceExpired(k, p) \in M \cup c.armed
                               \/ cmdKillGraceExpired(k, p) \in M \cup c.armed
                          /\ c.specs[k].state = "backoff" =>
                               \E m \in M \cup c.armed : m.cmd = "backoffFire" /\ m.key = k
    BY DEF Armed
  <2>1. c.specs[k].proc = b.specs[k].proc BY <1>3, <1>10
  <2>2. CASE k \in D
    <3>1. c.specs[k].state = "draining" BY <1>3, <1>10, <2>2
    <3> QED BY <1>7, <1>10, <2>1, <2>2, <3>1
  <2>3. CASE k \notin D
    <3>1. c.specs[k].state = b.specs[k].state BY <1>3, <1>10, <2>3
    <3>2. /\ b.specs[k].state = "draining" /\ b.specs[k].proc # Nil =>
               \/ life[b.specs[k].proc] # "alive"
               \/ cmdDrainGraceExpired(k, b.specs[k].proc) \in M \cup b.armed
               \/ cmdKillGraceExpired(k, b.specs[k].proc) \in M \cup b.armed
          /\ b.specs[k].state = "backoff" =>
               \E m \in M \cup b.armed : m.cmd = "backoffFire" /\ m.key = k
      BY DEF Fine, Good, Armed
    <3>3. M \cup b.armed \subseteq M \cup c.armed BY <1>6, <1>10
    <3> QED BY <2>1, <3>1, <3>2, <3>3
  <2> QED BY <2>2, <2>3
<1>15. W \cup {} = W OBVIOUS
<1>16. Fine(c, W, life, M, U) /\ Kept(b, c, W)
  BY <1>11, <1>12, <1>13, <1>14, <1>15, ChangeFine, SMT
<1> QED BY <1>2, <1>3, <1>10, <1>13, <1>16

\* Victims note whom they leave for and drain.
LEMMA EvictFine ==
  ASSUME NEW b, NEW W, NEW M, NEW U, Fine(b, W, life, M, U), NEW k \in Key, NEW V,
         \A m \in cmds : m.cmd = "killGraceExpired" => m \in M
  PROVE  LET c == evict(b, k, V)
         IN  /\ Fine(c, W, life, M, U) /\ Kept(b, c, W) /\ Steady(b, c) /\ SameTurn(b, c)
             /\ \A j \in Key : /\ c.specs[j].spec = b.specs[j].spec
                               /\ c.specs[j].pending = b.specs[j].pending
             /\ c.closing = b.closing
<1> DEFINE f == [j \in Key |->
                   IF j \in V
                   THEN [b.specs[j] EXCEPT !.drainedFor = appendUnique(b.specs[j].drainedFor, k)]
                   ELSE b.specs[j]]
           c == [b EXCEPT !.specs = f]
<1>0. b \in OwnerType /\ b.specs \in [Key -> SpecState] BY DEF Fine, Good, OwnerType
<1>1. \A j \in Key : /\ f[j] \in SpecState
                     /\ f[j].proc = b.specs[j].proc /\ f[j].inFlight = b.specs[j].inFlight
                     /\ f[j].spec = b.specs[j].spec /\ f[j].pending = b.specs[j].pending
                     /\ f[j].state = b.specs[j].state
                     /\ f[j].intentionalStop = b.specs[j].intentionalStop
  <2> SUFFICES ASSUME NEW j \in Key
               PROVE  /\ f[j] \in SpecState
                      /\ f[j].proc = b.specs[j].proc /\ f[j].inFlight = b.specs[j].inFlight
                      /\ f[j].spec = b.specs[j].spec /\ f[j].pending = b.specs[j].pending
                      /\ f[j].state = b.specs[j].state
                      /\ f[j].intentionalStop = b.specs[j].intentionalStop
    OBVIOUS
  <2>1. b.specs[j] \in SpecState /\ b.specs[j].drainedFor \in Seq(Key) BY <1>0 DEF SpecState
  <2> DEFINE s == appendUnique(b.specs[j].drainedFor, k)
             st == [b.specs[j] EXCEPT !.drainedFor = s]
  <2>2. s \in Seq(Key) BY <2>1, SMT DEF appendUnique
  <2>3. f[j] = IF j \in V THEN st ELSE b.specs[j] OBVIOUS
  <2> HIDE DEF s
  <2>4. st \in SpecState BY <2>1, <2>2, SpecUpdates
  <2>5. /\ st.proc = b.specs[j].proc /\ st.inFlight = b.specs[j].inFlight
        /\ st.spec = b.specs[j].spec /\ st.pending = b.specs[j].pending
        /\ st.state = b.specs[j].state /\ st.intentionalStop = b.specs[j].intentionalStop
    BY <2>1 DEF SpecState
  <2> HIDE DEF st, f
  <2> QED BY <2>1, <2>3, <2>4, <2>5
<1>2. evict(b, k, V) = beginDrain(c, V) BY DEF evict
<1>3. f \in [Key -> SpecState] BY <1>1
<1> HIDE DEF f
<1>4. c \in OwnerType BY <1>0, <1>3, FieldTypes
<1>5. /\ c.specs = f /\ c.reply = b.reply /\ c.lease = b.lease /\ c.armed = b.armed
      /\ c.work = b.work /\ c.decided = b.decided /\ c.stopped = b.stopped
      /\ c.closing = b.closing
  BY <1>0 DEF OwnerType
<1> HIDE DEF c
<1>6. Change(b, c, {})
  <2>1. \A j \in Key : b.specs[j].pending \ {} = b.specs[j].pending OBVIOUS
  <2> QED BY <1>1, <1>4, <1>5, <2>1 DEF Change
<1>7. BurstsKept(b, c) BY <1>1, <1>5 DEF BurstsKept
<1>8. SameTurn(b, c) /\ Steady(b, c) BY <1>1, <1>5 DEF SameTurn, Steady
<1>9. Armed(c, life, M)
  <2>1. Armed(b, life, M) BY DEF Fine, Good
  <2>2. \A j \in Key : c.specs[j].proc = b.specs[j].proc /\ c.specs[j].state = b.specs[j].state
    BY <1>1, <1>5
  <2> QED BY <1>5, <2>1, <2>2, SMT DEF Armed
<1>10. W \cup {} = W OBVIOUS
<1>11. Fine(c, W, life, M, U) /\ Kept(b, c, W)
  <2>1. Fine(c, W \cup {}, life, M, U) /\ Kept(b, c, W \cup {})
    BY <1>6, <1>7, <1>8, <1>9, ChangeFine, ZenonT(30)
  <2> QED BY <1>10, <2>1
<1> DEFINE d == beginDrain(c, V)
<1>12. /\ Fine(d, W, life, M, U) /\ Kept(c, d, W) /\ Steady(c, d) /\ SameTurn(c, d)
       /\ \A j \in Key : /\ d.specs[j].spec = c.specs[j].spec
                         /\ d.specs[j].pending = c.specs[j].pending
       /\ d.closing = c.closing
  BY <1>11, BeginDrainFine, SMT
<1> HIDE DEF d
<1> QED BY <1>1, <1>2, <1>5, <1>8, <1>11, <1>12, Twice, SMT DEF d

(***************************************************************************)
(* Leaving and entering the owner's map, and the crash-loop backoff.       *)
(***************************************************************************)

\* A backoff timer names its key, even one that does not exist.
LEMMA BackoffKey ==
  ASSUME NEW k, NEW n
  PROVE  cmdBackoffFire(k, n).cmd = "backoffFire" /\ cmdBackoffFire(k, n).key = k
BY DEF cmdBackoffFire, NoCmd

\* A key that nobody waits on and that has no process is deleted.
LEMMA DeleteFine ==
  ASSUME NEW b, NEW W, NEW L, NEW M, NEW U, Fine(b, W, L, M, U), NEW k \in Key,
         b.specs[k].proc = Nil, b.specs[k].pending = {}
  PROVE  \A c \in {deleteState(b, k), retire(b, k)} :
           /\ Fine(c, W, L, M, U \ {k}) /\ Kept(b, c, W) /\ Steady(b, c) /\ SameTurn(b, c)
           /\ c.specs[k] = absent /\ \A j \in Key \ {k} : c.specs[j] = b.specs[j]
           /\ c.closing = b.closing /\ c.cfg = b.cfg
<1> DEFINE T == backoffTimers(b, {k})
           e == [b EXCEPT !.specs[k] = absent]
           D == b.decided \ {k}
           d == [e EXCEPT !.decided = D]
<1>0. b \in OwnerType /\ b.specs[k] \in SpecState /\ b.armed \in SUBSET Timer
      /\ b.decided \in SUBSET Key
  BY DEF Fine, Good, OwnerType
<1>1. /\ absent \in SpecState /\ absent.pending = {} /\ absent.proc = Nil /\ absent.inFlight = 0
      /\ absent.state = "absent" /\ absent.intentionalStop = FALSE
  <2>1. absent \in SpecState BY AbsentType
  <2> QED BY <2>1 DEF absent
<1>2. \A m \in T : m.cmd = "backoffFire" /\ m.key = k BY BackoffKey, SMT DEF backoffTimers
<1>3. b.specs[k].inFlight = 0 BY DEF Fine, Good, Leases
<1> HIDE DEF T
<1>4. /\ e \in OwnerType
      /\ e.specs[k] = absent /\ \A j \in Key \ {k} : e.specs[j] = b.specs[j]
      /\ e.reply = b.reply /\ e.lease = b.lease /\ e.armed = b.armed
      /\ e.work = b.work /\ e.decided = b.decided /\ e.stopped = b.stopped
      /\ e.closing = b.closing /\ e.cfg = b.cfg
  BY <1>0, <1>1, SpecAt, SMT
<1>5. deleteState(b, k) = d BY <1>0 DEF deleteState, OwnerType
<1>6. retire(b, k) = [d EXCEPT !.armed = b.armed \ T]
  BY <1>0 DEF retire, deleteState, OwnerType, T
<1>7. D \in SUBSET Key /\ D \subseteq b.decided BY <1>0
<1> HIDE DEF e, D
<1>8. /\ d \in OwnerType /\ d.specs = e.specs
      /\ d.reply = b.reply /\ d.lease = b.lease /\ d.armed = b.armed
      /\ d.work = b.work /\ d.decided = D /\ d.stopped = b.stopped
      /\ d.closing = b.closing /\ d.cfg = b.cfg
  <2>1. d \in OwnerType BY <1>4, <1>7, FieldTypes
  <2> QED BY <1>4, <2>1 DEF OwnerType
<1>9. d = [d EXCEPT !.armed = b.armed] BY <1>8 DEF OwnerType
<1> HIDE DEF d
<1>10. ASSUME NEW A, A \in {b.armed, b.armed \ T}, NEW c, c = [d EXCEPT !.armed = A]
       PROVE  /\ Fine(c, W, L, M, U \ {k}) /\ Kept(b, c, W) /\ Steady(b, c) /\ SameTurn(b, c)
              /\ c.specs[k] = absent /\ \A j \in Key \ {k} : c.specs[j] = b.specs[j]
              /\ c.closing = b.closing /\ c.cfg = b.cfg
  <2>1. A \in SUBSET Timer BY <1>0, <1>10
  <2>2. c \in OwnerType BY <1>8, <1>10, <2>1, FieldTypes
  <2>3. /\ c.specs = e.specs /\ c.reply = b.reply /\ c.lease = b.lease /\ c.armed = A
        /\ c.work = b.work /\ c.decided = D /\ c.stopped = b.stopped
        /\ c.closing = b.closing /\ c.cfg = b.cfg
    BY <1>8, <1>10 DEF OwnerType
  <2>4. c.specs[k] = absent /\ \A j \in Key \ {k} : c.specs[j] = b.specs[j]
    BY <1>4, <2>3
  <2>5. Change(b, c, {})
    <3>1. \A j \in Key : b.specs[j].pending \ {} = b.specs[j].pending OBVIOUS
    <3> QED BY <1>1, <1>3, <2>2, <2>3, <2>4, <3>1 DEF Change
  <2>6. BurstsKept(b, c) BY <1>1, <2>3, <2>4 DEF BurstsKept
  <2>7. SameTurn(b, c) /\ Steady(b, c) BY <1>1, <1>3, <1>7, <2>3, <2>4 DEF SameTurn, Steady
  <2>8. TimersKept(b, c)
    <3>1. \A m \in b.armed : m \in A \/ (m.cmd = "backoffFire" /\ m.key = k) BY <1>2, <1>10
    <3>2. c.specs[k].state = "absent" BY <1>1, <2>4
    <3> QED BY <2>3, <2>4, <3>1, <3>2 DEF TimersKept
  <2>9. \A j \in Key : c.specs[j].proc = b.specs[j].proc BY <2>5 DEF Change
  <2>10. Armed(c, L, M) BY <1>0, <2>8, <2>9, ArmedKept DEF Fine, Good
  <2>11. W \cup {} = W OBVIOUS
  <2>12. \A j \in Key : j \in U => j \in U \ {k} \/ c.specs[j].pending = {} BY <1>1, <2>4
  <2>13. Fine(c, W, L, M, U \ {k}) /\ Kept(b, c, W)
    BY <2>5, <2>6, <2>7, <2>10, <2>11, <2>12, ChangeFine, SMT
  <2> QED BY <2>3, <2>4, <2>7, <2>13
<1> QED BY <1>5, <1>6, <1>9, <1>10

\* A burst instance that left nothing is retired.
LEMMA RetireIfSpentFine ==
  ASSUME NEW b, NEW W, NEW L, NEW M, NEW U, Fine(b, W, L, M, U), NEW k \in Key
  PROVE  LET c == retireIfSpent(b, k)
         IN  Fine(c, W, L, M, U) /\ Kept(b, c, W) /\ Steady(b, c) /\ SameTurn(b, c)
<1>1. CASE burstLeftNothing(b.specs[k], k) /\ ~restsAtFailure(b.specs[k])
  <2> DEFINE c == retire(b, k)
  <2>1. b.specs[k].proc = Nil /\ b.specs[k].pending = {} BY <1>1 DEF burstLeftNothing
  <2>2. Fine(c, W, L, M, U \ {k}) /\ Kept(b, c, W) /\ Steady(b, c) /\ SameTurn(b, c)
    BY <2>1, DeleteFine
  <2>3. retireIfSpent(b, k) = c BY <1>1 DEF retireIfSpent
  <2> HIDE DEF c
  <2>4. Fine(c, W, L, M, U) BY <2>2 DEF Fine, Mid
  <2> QED BY <2>2, <2>3, <2>4
<1>2. CASE ~(burstLeftNothing(b.specs[k], k) /\ ~restsAtFailure(b.specs[k]))
  BY <1>2, Twice DEF retireIfSpent
<1> QED BY <1>1, <1>2

\* A state of a key that no process, queue or timer depends on.
LEMMA SetStateFine ==
  ASSUME NEW b, NEW W, NEW L, NEW M, NEW U, Fine(b, W, L, M, U), NEW k \in Key, NEW s \in State,
         s \notin {"absent", "starting", "draining", "backoff"}
  PROVE  LET c == setState(b, k, s)
         IN  /\ Fine(c, W, L, M, U) /\ Kept(b, c, W) /\ Steady(b, c) /\ SameTurn(b, c)
             /\ c.specs[k].state = s /\ c.specs[k].spec = b.specs[k].spec
             /\ c.specs[k].pending = b.specs[k].pending
             /\ \A j \in Key \ {k} : c.specs[j] = b.specs[j]
             /\ c.closing = b.closing /\ c.armed = b.armed
<1> DEFINE st == [b.specs[k] EXCEPT !.state = s]
<1>0. b.specs[k] \in SpecState BY DEF Fine, Good, OwnerType
<1>1. st \in SpecState BY <1>0, SpecUpdates
<1>2. /\ st.pending = b.specs[k].pending /\ st.proc = b.specs[k].proc
      /\ st.inFlight = b.specs[k].inFlight /\ st.spec = b.specs[k].spec
      /\ st.intentionalStop = b.specs[k].intentionalStop /\ st.state = s
  BY <1>0 DEF SpecState
<1> HIDE DEF st
<1>3. PICK c : c = [b EXCEPT !.specs[k] = st] OBVIOUS
<1>4. setState(b, k, s) = c BY <1>3 DEF setState, st
<1>5. /\ Fine(c, W, L, M, U) /\ Kept(b, c, W) /\ Steady(b, c) /\ SameTurn(b, c)
      /\ c.specs[k] = st /\ \A j \in Key \ {k} : c.specs[j] = b.specs[j]
      /\ c.closing = b.closing /\ c.armed = b.armed
  BY <1>1, <1>2, <1>3, SpecFine, SMT
<1> QED BY <1>2, <1>4, <1>5

\* A key enters its crash-loop wait, at once or when its process has exited.
LEMMA EnterBackoffFine ==
  ASSUME NEW b, NEW W, NEW L, NEW M, NEW U, Fine(b, W, L, M, U), NEW k \in Key
  PROVE  LET c == enterBackoff(b, k)
         IN  Fine(c, W, L, M, U) /\ Kept(b, c, W) /\ Steady(b, c) /\ SameTurn(b, c)
<1> DEFINE st == b.specs[k]
           n == newTimer(b, k)
<1>0. b \in OwnerType /\ b.specs[k] \in SpecState /\ b.armed \in SUBSET Timer
  BY DEF Fine, Good, OwnerType
<1>1. CASE b.closing
  <2>1. "stopped" \in State BY DEF State
  <2>2. enterBackoff(b, k) = setState(b, k, "stopped") BY <1>1 DEF enterBackoff, setState
  <2> QED BY <2>1, <2>2, SetStateFine, SMT
<1>2. CASE ~b.closing /\ burst(st, k)
  <2> DEFINE c == failPending(b, k, "start_failed")
  <2>1. "start_failed" \in Reply \ {"none"} BY DEF Reply
  <2>2. enterBackoff(b, k) = c BY <1>2 DEF enterBackoff
  <2>3. Fine(c, W, L, M, U \ {k}) /\ Kept(b, c, W) /\ Steady(b, c) /\ SameTurn(b, c)
    BY <2>1, FailPendingFine
  <2> HIDE DEF c
  <2>4. Fine(c, W, L, M, U) BY <2>3 DEF Fine, Mid
  <2> QED BY <2>2, <2>3, <2>4
<1>3. CASE ~b.closing /\ ~burst(st, k) /\ st.proc # Nil
  <2> DEFINE su == [b.specs[k] EXCEPT !.backoffOnExit = TRUE]
  <2>1. su \in SpecState BY <1>0, SpecUpdates
  <2>2. /\ su.pending = b.specs[k].pending /\ su.proc = b.specs[k].proc
        /\ su.inFlight = b.specs[k].inFlight /\ su.spec = b.specs[k].spec
        /\ su.intentionalStop = b.specs[k].intentionalStop /\ su.state = b.specs[k].state
    BY <1>0 DEF SpecState
  <2>3. enterBackoff(b, k) = [b EXCEPT !.specs[k] = su] BY <1>3 DEF enterBackoff
  <2> HIDE DEF su
  <2> QED BY <2>1, <2>2, <2>3, SpecFine, SMT
<1>4. CASE ~b.closing /\ ~burst(st, k) /\ ~(st.proc # Nil)
  <2> DEFINE t == cmdBackoffFire(k, n)
             A == b.armed \cup {t}
             a == [b EXCEPT !.armed = A]
             su == [b.specs[k] EXCEPT !.state = "backoff"]
             sv == [su EXCEPT !.backoffTimer = n]
             c == [a EXCEPT !.specs[k] = sv]
  <2>1. n \in BackoffTimer BY NewTimerType
  <2>2. t \in Timer /\ t.cmd = "backoffFire" /\ t.key = k BY <2>1, BackoffTimerFields, BackoffKey
  <2>3. enterBackoff(b, k) = c
    BY <1>0, <1>4 DEF enterBackoff, OwnerType, SpecState
  <2> HIDE DEF n, t
  <2>4. A \in SUBSET Timer BY <1>0, <2>2
  <2>5. a \in OwnerType BY <1>0, <2>4, FieldTypes
  <2>6. /\ a.specs = b.specs /\ a.reply = b.reply /\ a.lease = b.lease /\ a.armed = A
        /\ a.work = b.work /\ a.decided = b.decided /\ a.stopped = b.stopped
        /\ a.closing = b.closing
    BY <1>0 DEF OwnerType
  <2> HIDE DEF a
  <2>7. "backoff" \in State BY DEF State
  <2>8. su \in SpecState BY <1>0, <2>7, SpecUpdates
  <2>9. sv \in SpecState BY <2>1, <2>8, SpecUpdates
  <2>10. /\ su.pending = b.specs[k].pending /\ su.proc = b.specs[k].proc
         /\ su.inFlight = b.specs[k].inFlight /\ su.spec = b.specs[k].spec
         /\ su.intentionalStop = b.specs[k].intentionalStop /\ su.state = "backoff"
    BY <1>0 DEF SpecState
  <2>11. /\ sv.pending = su.pending /\ sv.proc = su.proc
         /\ sv.inFlight = su.inFlight /\ sv.spec = su.spec
         /\ sv.intentionalStop = su.intentionalStop /\ sv.state = su.state
    BY <2>8 DEF SpecState
  <2> HIDE DEF su, sv
  <2>12. /\ c \in OwnerType
         /\ c.specs[k] = sv /\ \A j \in Key \ {k} : c.specs[j] = b.specs[j]
         /\ c.reply = b.reply /\ c.lease = b.lease /\ c.armed = A
         /\ c.work = b.work /\ c.decided = b.decided /\ c.stopped = b.stopped
         /\ c.closing = b.closing
    BY <2>5, <2>6, <2>9, SpecAt, SMT
  <2> HIDE DEF c
  <2>13. Change(b, c, {})
    <3>1. \A j \in Key : b.specs[j].pending \ {} = b.specs[j].pending OBVIOUS
    <3> QED BY <2>10, <2>11, <2>12, <3>1, SMT DEF Change
  <2>14. BurstsKept(b, c)
    <3>1. ~burst(sv, k) BY <1>4, <2>10, <2>11 DEF burst
    <3> QED BY <2>10, <2>11, <2>12, <3>1 DEF BurstsKept
  <2>15. SameTurn(b, c) /\ Steady(b, c) BY <2>10, <2>11, <2>12 DEF SameTurn, Steady
  <2>16. Armed(c, L, M)
    <3> SUFFICES ASSUME NEW j \in Key
                 PROVE  LET p == c.specs[j].proc
                        IN  /\ c.specs[j].state = "draining" /\ p # Nil =>
                                 \/ L[p] # "alive"
                                 \/ cmdDrainGraceExpired(j, p) \in M \cup c.armed
                                 \/ cmdKillGraceExpired(j, p) \in M \cup c.armed
                            /\ c.specs[j].state = "backoff" =>
                                 \E m \in M \cup c.armed : m.cmd = "backoffFire" /\ m.key = j
      BY DEF Armed
    <3>1. CASE j = k
      <4>1. c.specs[j].state = "backoff" BY <2>10, <2>11, <2>12, <3>1
      <4> QED BY <2>2, <2>12, <3>1, <4>1
    <3>2. CASE j # k
      <4>1. c.specs[j] = b.specs[j] BY <2>12, <3>2
      <4>2. M \cup b.armed \subseteq M \cup c.armed BY <2>12
      <4> QED BY <4>1, <4>2, SMT DEF Fine, Good, Armed
    <3> QED BY <3>1, <3>2
  <2>17. W \cup {} = W OBVIOUS
  <2>18. Fine(c, W, L, M, U) /\ Kept(b, c, W)
    BY <2>13, <2>14, <2>15, <2>16, <2>17, ChangeFine, SMT
  <2> QED BY <2>3, <2>15, <2>18
<1> QED BY <1>1, <1>2, <1>3, <1>4

\* A start that failed: nobody waits on k any more.
LEMMA FailStartFine ==
  ASSUME NEW b, NEW W, NEW L, NEW M, NEW U, Fine(b, W, L, M, U), NEW k \in Key,
         NEW err \in Reply \ {"none"}
  PROVE  LET c == failStart(b, k, err)
         IN  Fine(c, W, L, M, U \ {k}) /\ Kept(b, c, W) /\ Steady(b, c) /\ SameTurn(b, c)
<1> DEFINE c == setState(b, k, "start_failed")
           d == failPending(c, k, err)
           e == enterBackoff(d, k)
<1>1. "start_failed" \in State BY DEF State
<1>2. Fine(c, W, L, M, U) /\ Kept(b, c, W) /\ Steady(b, c) /\ SameTurn(b, c)
  BY <1>1, SetStateFine
<1> HIDE DEF c
<1>3. Fine(d, W, L, M, U \ {k}) /\ Kept(c, d, W) /\ Steady(c, d) /\ SameTurn(c, d)
  BY <1>2, FailPendingFine
<1> HIDE DEF d
<1>4. Fine(e, W, L, M, U \ {k}) /\ Kept(d, e, W) /\ Steady(d, e) /\ SameTurn(d, e)
  BY <1>3, EnterBackoffFine
<1>5. failStart(b, k, err) = e BY DEF failStart, c, d
<1> HIDE DEF e
<1>6. Kept(b, d, W) /\ Steady(b, d) /\ SameTurn(b, d) BY <1>2, <1>3, Twice
<1>7. Kept(b, e, W) /\ Steady(b, e) /\ SameTurn(b, e) BY <1>4, <1>6, Twice
<1> QED BY <1>4, <1>5, <1>7

\* The missing instances of the protected floor are created.
LEMMA FloorFine ==
  ASSUME NEW b, NEW W, NEW L, NEW M, NEW U, Fine(b, W, L, M, U)
  PROVE  LET c == ensureProtectedFloor(b)
         IN  Fine(c, W, L, M, U) /\ Kept(b, c, W) /\ Steady(b, c) /\ SameTurn(b, c)
<1> DEFINE missing == {k \in Key : /\ k[1] \in b.cfg.ids
                                   /\ k[2] > 0
                                   /\ k[2] < ProtectedCount(b.cfg.specs[k[1]])
                                   /\ InstanceAllowed(b.cfg.specs[k[1]], k[2])
                                   /\ ~exists(b, k)}
           f == [k \in Key |-> IF k \in missing THEN fresh(b.cfg.specs[k[1]]) ELSE b.specs[k]]
           c == [b EXCEPT !.specs = f]
<1>0. b \in OwnerType /\ b.specs \in [Key -> SpecState] /\ b.cfg \in Doc \cup {NoDoc}
  BY DEF Fine, Good, OwnerType
<1>1. ensureProtectedFloor(b) = c BY DEF ensureProtectedFloor
<1>2. missing \subseteq Key /\ \A k \in missing : b.specs[k].state = "absent"
  BY DEF exists
<1>3. \A k \in missing : b.specs[k].pending = {} /\ b.specs[k].proc = Nil /\ b.specs[k].inFlight = 0
  BY <1>2 DEF Fine, Good, Empties, Leases
<1> HIDE DEF missing
<1>4. \A k \in missing : /\ f[k] \in SpecState /\ f[k].pending = {} /\ f[k].proc = Nil
                         /\ f[k].inFlight = 0 /\ f[k].state = "stopped" /\ ~f[k].intentionalStop
  <2> SUFFICES ASSUME NEW k \in missing
               PROVE  /\ f[k] \in SpecState /\ f[k].pending = {} /\ f[k].proc = Nil
                      /\ f[k].inFlight = 0 /\ f[k].state = "stopped" /\ ~f[k].intentionalStop
    OBVIOUS
  <2>1. k[1] \in SpecID BY <1>2 DEF Key
  <2>2. b.cfg.specs[k[1]] \in SpecType BY <1>0, <2>1, ConfiguredType
  <2>3. f[k] = fresh(b.cfg.specs[k[1]]) BY <1>2
  <2>4. f[k] \in SpecState BY <2>2, <2>3, FreshType
  <2> HIDE DEF f
  <2> QED BY <2>3, <2>4 DEF fresh, absent
<1>5. \A k \in Key \ missing : f[k] = b.specs[k] OBVIOUS
<1>6. f \in [Key -> SpecState] BY <1>0, <1>4, <1>5
<1> HIDE DEF f
<1>7. c \in OwnerType BY <1>0, <1>6, FieldTypes
<1>8. /\ c.specs = f /\ c.reply = b.reply /\ c.lease = b.lease /\ c.armed = b.armed
      /\ c.work = b.work /\ c.decided = b.decided /\ c.stopped = b.stopped
      /\ c.closing = b.closing
  BY <1>0 DEF OwnerType
<1> HIDE DEF c
<1>9. Change(b, c, {})
  <2>1. \A j \in Key : b.specs[j].pending \ {} = b.specs[j].pending OBVIOUS
  <2>2. \A j \in Key :
          /\ c.specs[j].pending = b.specs[j].pending /\ c.specs[j].proc = b.specs[j].proc
          /\ c.specs[j].inFlight = b.specs[j].inFlight
          /\ c.specs[j].state = b.specs[j].state \/ c.specs[j].state = "stopped"
    BY <1>3, <1>4, <1>5, <1>8, ZenonT(40)
  <2> QED BY <1>7, <1>8, <2>1, <2>2 DEF Change
<1>10. BurstsKept(b, c) BY <1>4, <1>5, <1>8 DEF BurstsKept
<1>11. SameTurn(b, c) /\ Steady(b, c) BY <1>3, <1>4, <1>5, <1>8, SMT DEF SameTurn, Steady
<1>12. TimersKept(b, c) BY <1>4, <1>5, <1>8 DEF TimersKept
<1>13. \A j \in Key : c.specs[j].proc = b.specs[j].proc BY <1>9 DEF Change
<1>14. Armed(c, L, M) BY <1>0, <1>12, <1>13, ArmedKept DEF Fine, Good
<1>15. W \cup {} = W OBVIOUS
<1>16. Fine(c, W, L, M, U) /\ Kept(b, c, W)
  BY <1>9, <1>10, <1>11, <1>14, <1>15, ChangeFine, SMT
<1> QED BY <1>1, <1>11, <1>16

(***************************************************************************)
(* The rest of a turn.                                                     *)
(***************************************************************************)

\* Another list of asks.
LEMMA WorkFine ==
  ASSUME NEW b, NEW W, NEW L, NEW M, NEW U, NEW V, Fine(b, W, L, M, U), NEW w \in Work,
         NEW c, c = [b EXCEPT !.work = w],
         \A k \in Unasked(b) \ V : k \notin b.decided /\ toAsk(c, k)
  PROVE  /\ Fine(c, W, L, M, V) /\ Kept(b, c, W) /\ Steady(b, c)
         /\ c.specs = b.specs /\ c.closing = b.closing /\ c.decided = b.decided /\ c.work = w
         /\ c.armed = b.armed /\ c.stopped = b.stopped
<1>0. b \in OwnerType BY DEF Fine, Good
<1>1. c \in OwnerType BY <1>0, FieldTypes
<1>2. /\ c.specs = b.specs /\ c.closing = b.closing /\ c.decided = b.decided /\ c.work = w
      /\ c.armed = b.armed /\ c.stopped = b.stopped /\ c.reply = b.reply /\ c.lease = b.lease
  BY <1>0 DEF OwnerType
<1>3. Change(b, c, {})
  <2>1. \A j \in Key : b.specs[j].pending \ {} = b.specs[j].pending OBVIOUS
  <2> QED BY <1>1, <1>2, <2>1 DEF Change
<1>4. Armed(c, L, M) BY <1>2, SMT DEF Fine, Good, Armed
<1>5. W \cup {} = W OBVIOUS
<1>6. Good(c, W, L, M) /\ Kept(b, c, W) BY <1>3, <1>4, <1>5, ChangeGood, SMT DEF Fine
<1>7. Unasked(c) = Unasked(b) BY <1>2 DEF Unasked
<1>8. Mid(c, V) BY <1>2, <1>7 DEF Fine, Mid
<1>9. Steady(b, c) BY <1>2 DEF Steady
<1> QED BY <1>2, <1>6, <1>8, <1>9 DEF Fine

\* Another set of keys that were decided on in this turn.
LEMMA DecidedSetFine ==
  ASSUME NEW b, NEW W, NEW L, NEW M, NEW U, Fine(b, W, L, M, U), NEW D \in SUBSET Key,
         NEW c, c = [b EXCEPT !.decided = D], \A k \in Unasked(b) \ U : k \notin D
  PROVE  /\ Fine(c, W, L, M, U) /\ Kept(b, c, W) /\ Steady(b, c)
         /\ c.specs = b.specs /\ c.closing = b.closing /\ c.work = b.work
<1>0. b \in OwnerType BY DEF Fine, Good
<1>1. c \in OwnerType BY <1>0, FieldTypes
<1>2. /\ c.specs = b.specs /\ c.closing = b.closing /\ c.decided = D /\ c.work = b.work
      /\ c.armed = b.armed /\ c.stopped = b.stopped /\ c.reply = b.reply /\ c.lease = b.lease
  BY <1>0 DEF OwnerType
<1>3. Change(b, c, {})
  <2>1. \A j \in Key : b.specs[j].pending \ {} = b.specs[j].pending OBVIOUS
  <2> QED BY <1>1, <1>2, <2>1 DEF Change
<1>4. Armed(c, L, M) BY <1>2, SMT DEF Fine, Good, Armed
<1>5. W \cup {} = W OBVIOUS
<1>6. Good(c, W, L, M) /\ Kept(b, c, W) BY <1>3, <1>4, <1>5, ChangeGood, SMT DEF Fine
<1>7. Unasked(c) = Unasked(b) BY <1>2 DEF Unasked
<1>8. \A k \in Key : toAsk(c, k) <=> toAsk(b, k) BY <1>2 DEF toAsk
<1>9. Mid(c, U) BY <1>2, <1>7, <1>8 DEF Fine, Mid, Unasked
<1>10. Steady(b, c) BY <1>2 DEF Steady
<1> QED BY <1>2, <1>6, <1>9, <1>10 DEF Fine

\* The siblings of k that wait for it are asked again.
LEMMA WakeSiblingsFine ==
  ASSUME NEW b, NEW W, NEW L, NEW M, NEW U, Fine(b, W, L, M, U), NEW k \in Key
  PROVE  LET c == wakeSiblingsWaitingFor(b, k)
         IN  Fine(c, W, L, M, U) /\ Kept(b, c, W) /\ Steady(b, c) /\ c.specs = b.specs
<1> DEFINE S == {j \in Key : /\ b.specs[j].waitingOnSibling
                             /\ j[1] = k[1]
                             /\ j[2] > k[2]}
           w == [b.work EXCEPT !.siblings = b.work.siblings \cup S]
           c == [b EXCEPT !.work = w]
<1>1. b \in OwnerType /\ b.work \in Work BY DEF Fine, Good, OwnerType
<1>2. S \subseteq Key OBVIOUS
<1>3. wakeSiblingsWaitingFor(b, k) = c BY DEF wakeSiblingsWaitingFor
<1> HIDE DEF S
<1>4. w \in Work BY <1>1, <1>2 DEF Work
<1>5. /\ w.first = b.work.first /\ w.claims = b.work.claims /\ w.self = b.work.self
      /\ w.wake = b.work.wake /\ w.woken = b.work.woken
  BY <1>1 DEF Work
<1> HIDE DEF w
<1>6. c.work = w BY <1>1 DEF OwnerType
<1> HIDE DEF c
<1>7. \A j \in Key : toAsk(b, j) => toAsk(c, j) BY <1>5, <1>6 DEF toAsk
<1>8. \A j \in Unasked(b) \ U : j \notin b.decided /\ toAsk(c, j)
  BY <1>7 DEF Fine, Mid, Unasked
<1> QED BY <1>3, <1>4, <1>8, WorkFine, SMT DEF c

\* With nothing left to ask, nobody waits on a burst instance without a process.
LEMMA NothingUnasked ==
  ASSUME NEW b, NEW U, Mid(b, U), b.work = NoWork
  PROVE  Unasked(b) \subseteq U
<1> SUFFICES ASSUME NEW k \in Unasked(b) \ U PROVE FALSE OBVIOUS
<1>1. toAsk(b, k) /\ k \in Key BY DEF Mid, Unasked
<1>2. /\ b.work.first = {} /\ b.work.claims = <<>> /\ b.work.self = Nil
      /\ b.work.wake = "none" /\ b.work.woken = {}
  BY SMT DEF NoWork
<1>3. k # Nil BY <1>1, ManagerAssumption
<1> QED BY <1>1, <1>2, <1>3, SMT DEF toAsk

\* The candidates of a wake include everyone who has to be asked.
LEMMA AdvanceFine ==
  ASSUME NEW b, NEW W, NEW L, NEW M, Fine(b, W, L, M, {})
  PROVE  Ended(advance(b), W, L, M) /\ Kept(b, advance(b), W) /\ Steady(b, advance(b))
<1> DEFINE C == wakeAdmission(b)
           w == [b.work EXCEPT !.woken = b.work.woken \cup C, !.wake = "none"]
           last == b.work = [NoWork EXCEPT !.wake = b.work.wake, !.woken = b.work.woken]
           c == IF last THEN [b EXCEPT !.work = w] ELSE b
           d == [c EXCEPT !.decided = {}]
           e == [d EXCEPT !.stopped = c.stopped \/ (c.closing /\ live(c) = {})]
<1>1. b \in OwnerType /\ b.work \in Work BY DEF Fine, Good, OwnerType
<1>2. C \subseteq Key BY DEF wakeAdmission
<1>3. \A k \in Unasked(b) : b.work.wake # "none" => k \in C
  <2> SUFFICES ASSUME NEW k \in Unasked(b), b.work.wake # "none" PROVE k \in C OBVIOUS
  <2>1. /\ k \in Key /\ k[2] > 0 /\ burst(b.specs[k], k) /\ b.specs[k].proc = Nil
        /\ b.specs[k].pending # {}
    BY DEF Unasked
  <2>2. b.specs[k].state # "absent" BY <2>1 DEF Fine, Good, Empties
  <2>3. b.specs[k].state # "backoff" BY <2>1 DEF Fine, Mid
  <2>4. b.work.wake \in {"all", "afterStart"} BY <1>1 DEF Work
  <2>5. wantsWake(b.specs[k], k) /\ wantsWakeAfterStart(b.specs[k], k)
    BY <2>1, <2>2, <2>3 DEF wantsWake, wantsWakeAfterStart, wantsUp
  <2> QED BY <2>1, <2>4, <2>5 DEF wakeAdmission
<1>4. advance(b) = IF c.work = NoWork THEN e ELSE c
  <2> HIDE DEF C
  <2>1. [b EXCEPT !.work.woken = @ \cup C, !.work.wake = "none"] = [b EXCEPT !.work = w]
    BY <1>1 DEF OwnerType, Work
  <2>2. c \in OwnerType
    <3>1. w \in Work BY <1>1, <1>2 DEF Work
    <3> HIDE DEF w
    <3> QED BY <1>1, <3>1, FieldTypes
  <2>3. advance(b) = IF c.work = NoWork
                     THEN [c EXCEPT !.decided = {}, !.stopped = @ \/ (c.closing /\ live(c) = {})]
                     ELSE c
    BY <2>1 DEF advance, C
  <2> HIDE DEF c
  <2>4. [c EXCEPT !.decided = {}, !.stopped = @ \/ (c.closing /\ live(c) = {})] = e
    BY <2>2 DEF OwnerType
  <2> QED BY <2>3, <2>4
<1> HIDE DEF C
<1>5. /\ Fine(c, W, L, M, {}) /\ Kept(b, c, W) /\ Steady(b, c)
  <2>1. CASE last
    <3>1. w \in Work BY <1>1, <1>2 DEF Work
    <3>2. w.woken = b.work.woken \cup C BY <1>1 DEF Work
    <3>3. [b EXCEPT !.work = w].work = w BY <1>1 DEF OwnerType
    <3>4. b.work.first = {} /\ b.work.claims = <<>> /\ b.work.self = Nil
      BY <2>1 DEF NoWork
    <3> HIDE DEF w
    <3>5. \A k \in Unasked(b) \ {} : k \notin b.decided /\ toAsk([b EXCEPT !.work = w], k)
      <4> SUFFICES ASSUME NEW k \in Unasked(b)
                   PROVE  k \notin b.decided /\ toAsk([b EXCEPT !.work = w], k)
        OBVIOUS
      <4>1. k \in Key /\ k # Nil BY ManagerAssumption DEF Unasked
      <4>2. k \notin b.decided /\ toAsk(b, k) BY DEF Fine, Mid
      <4>3. k \in b.work.woken \/ b.work.wake # "none" BY <3>4, <4>1, <4>2, SMT DEF toAsk
      <4>4. k \in w.woken BY <1>3, <3>2, <4>3
      <4> QED BY <3>3, <4>2, <4>4 DEF toAsk
    <3> HIDE DEF last
    <3>6. c = [b EXCEPT !.work = w] BY <2>1
    <3> HIDE DEF c
    <3> QED BY <3>1, <3>5, <3>6, WorkFine
  <2>2. CASE ~last BY <2>2, Twice
  <2> QED BY <2>1, <2>2
<1> HIDE DEF c
<1>6. CASE c.work # NoWork
  <2>1. advance(b) = c BY <1>4, <1>6
  <2>2. TurnOK(c) BY <1>5, <1>6 DEF TurnOK, Fine, Mid
  <2>3. Ended(c, W, L, M) BY <1>5, <2>2 DEF Ended, Fine
  <2> QED BY <1>5, <2>1, <2>3
<1>7. CASE c.work = NoWork
  <2>1. Unasked(c) = {} BY <1>5, <1>7, NothingUnasked DEF Fine
  <2>2. /\ Fine(d, W, L, M, {}) /\ Kept(c, d, W) /\ Steady(c, d)
        /\ d.specs = c.specs /\ d.closing = c.closing /\ d.work = c.work
    BY <1>5, <2>1, DecidedSetFine, SMT
  <2>3. d.decided = {} /\ d.stopped = c.stopped /\ ~c.stopped BY <1>5 DEF Fine, Good, OwnerType, Mid
  <2> HIDE DEF d
  <2>4. d \in OwnerType BY <2>2 DEF Fine, Good
  <2>5. PICK s \in BOOLEAN : s = (c.stopped \/ (c.closing /\ live(c) = {})) OBVIOUS
  <2>6. e = [d EXCEPT !.stopped = s] BY <2>5
  <2>7. e \in OwnerType BY <2>4, <2>6 DEF OwnerType
  <2>8. /\ e.specs = d.specs /\ e.closing = d.closing /\ e.work = d.work /\ e.decided = d.decided
        /\ e.reply = d.reply /\ e.lease = d.lease /\ e.armed = d.armed /\ e.stopped = s
    BY <2>4, <2>6 DEF OwnerType
  <2> HIDE DEF e
  <2>9. Change(d, e, {})
    <3>1. \A j \in Key : d.specs[j].pending \ {} = d.specs[j].pending OBVIOUS
    <3> QED BY <2>7, <2>8, <3>1 DEF Change
  <2>10. Armed(e, L, M) BY <2>2, <2>8, SMT DEF Fine, Good, Armed
  <2>11. W \cup {} = W OBVIOUS
  <2>12. Good(e, W, L, M) /\ Kept(d, e, W) BY <2>2, <2>9, <2>10, <2>11, ChangeGood DEF Fine
  <2>13. Steady(d, e) BY <2>8 DEF Steady
  <2>14. ~e.stopped => Mid(e, {})
    <3>1. Unasked(e) = {} BY <2>1, <2>2, <2>8 DEF Unasked
    <3> QED BY <2>2, <2>8, <3>1 DEF Fine, Mid
  <2>15. e.stopped => live(e) = {}
    <3>1. live(e) = live(c) BY <2>2, <2>8 DEF live
    <3> QED BY <2>3, <2>5, <2>8, <3>1
  <2>16. TurnOK(e) BY <1>7, <2>2, <2>3, <2>8, <2>15 DEF TurnOK
  <2>17. Ended(e, W, L, M) BY <2>12, <2>14, <2>16 DEF Ended
  <2>18. Kept(b, d, W) /\ Steady(b, d) BY <1>5, <2>2, Twice
  <2>19. Kept(b, e, W) /\ Steady(b, e) BY <2>12, <2>13, <2>18, Twice
  <2>20. advance(b) = e BY <1>4, <1>7
  <2> QED BY <2>17, <2>19, <2>20
<1> QED BY <1>6, <1>7

\* A handler lists its asks.  A key that the handler leaves to be asked is on the list, or
\* everyone is woken.
LEMMA ScheduleFine ==
  ASSUME NEW b, NEW W, NEW L, NEW M, NEW U, Fine(b, W, L, M, U), b.work = NoWork, b.decided = {},
         NEW w \in Work, w.wake # "none" \/ U \subseteq {w.self}
  PROVE  LET c == schedule(b, w)
         IN  Ended(c, W, L, M) /\ Kept(b, c, W) /\ Steady(b, c)
<1> DEFINE c == IF b.closing THEN b ELSE [b EXCEPT !.work = w]
<1>1. schedule(b, w) = advance(c) BY DEF schedule
<1>2. Fine(c, W, L, M, {}) /\ Kept(b, c, W) /\ Steady(b, c)
  <2>1. CASE b.closing
    <3>1. Unasked(b) = {} BY <2>1 DEF Fine, Mid, Unasked
    <3>2. Fine(b, W, L, M, {}) BY <3>1 DEF Fine, Mid
    <3> QED BY <2>1, <3>2, Twice
  <2>2. CASE ~b.closing
    <3> DEFINE e == [b EXCEPT !.work = w]
    <3>1. e.work = w BY DEF Fine, Good, OwnerType
    <3> HIDE DEF e
    <3>2. Unasked(b) \subseteq U BY NothingUnasked DEF Fine
    <3>3. \A k \in Unasked(b) \ {} : k \notin b.decided /\ toAsk(e, k)
      BY <3>1, <3>2 DEF toAsk
    <3>4. Fine(e, W, L, M, {}) /\ Kept(b, e, W) /\ Steady(b, e) BY <3>3, WorkFine, SMT DEF e
    <3>5. c = e BY <2>2 DEF e
    <3> QED BY <3>4, <3>5
  <2> QED BY <2>1, <2>2
<1> HIDE DEF c
<1>3. Ended(advance(c), W, L, M) /\ Kept(c, advance(c), W) /\ Steady(c, advance(c))
  BY <1>2, AdvanceFine
<1>4. Kept(b, advance(c), W) /\ Steady(b, advance(c)) BY <1>2, <1>3, Twice
<1> QED BY <1>1, <1>3, <1>4

\* The same when everyone is woken.
LEMMA WakeFine ==
  ASSUME NEW b, NEW W, NEW L, NEW M, NEW U, Fine(b, W, L, M, U), b.work = NoWork, b.decided = {}
  PROVE  LET c == wakeAdmissionCandidates(b)
         IN  Ended(c, W, L, M) /\ Kept(b, c, W) /\ Steady(b, c)
<1> DEFINE w == [NoWork EXCEPT !.wake = "all"]
<1>1. w \in Work BY WorkTypes
<1>2. w.wake # "none" BY DEF NoWork
<1>3. wakeAdmissionCandidates(b) = schedule(b, w) BY DEF wakeAdmissionCandidates
<1> HIDE DEF w
<1> QED BY <1>1, <1>2, <1>3, ScheduleFine
=============================================================================
