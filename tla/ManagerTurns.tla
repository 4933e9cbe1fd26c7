---------------------------- MODULE ManagerTurns -----------------------------
(***************************************************************************)
(* What each step of the owner, an ask or a command handled, does to the   *)
(* books.  ManagerTheorems puts the steps together.                        *)
(***************************************************************************)
EXTENDS ManagerBooks

\* Most leaves are first-order; the ones that count or compare numbers name SMT.
USE Zenon

(***************************************************************************)
(* The asks.                                                               *)
(***************************************************************************)

\* The larger of two numbers.
LEMMA TwoMax ==
  ASSUME NEW x \in Int, NEW y \in Int
  PROVE  Max({x, y}) \in {x, y} /\ Max({x, y}) >= x /\ Max({x, y}) >= y
<1>1. \E z \in {x, y} : \A u \in {x, y} : z >= u
  <2>1. CASE x >= y BY <2>1, SMT
  <2>2. CASE ~(x >= y) BY <2>2, SMT
  <2> QED BY <2>1, <2>2
<1> DEFINE z == CHOOSE z \in {x, y} : \A u \in {x, y} : z >= u
<1>2. z \in {x, y} /\ \A u \in {x, y} : z >= u BY <1>1
<1>3. Max({x, y}) = z BY DEF Max
<1> HIDE DEF z
<1> QED BY <1>2, <1>3

\* An instance of the protected floor is no burst instance.
LEMMA ProtectedNotBurst ==
  ASSUME NEW st \in SpecState, NEW k \in Key, protected(st, k)
  PROVE  ~burst(st, k)
<1> DEFINE spec == st.spec
           x == IF spec.replicable THEN spec.min ELSE 0
           y == IF spec.pinned \/ spec.admin = "force_running" THEN 1 ELSE 0
           c == ProtectedCount(spec)
<1>1. spec \in SpecType BY DEF SpecState
<1>2. spec.min \in Int
  <2>1. CASE spec = NoSpec
    <3>1. NoSpec.min = 0 BY DEF NoSpec
    <3> QED BY <2>1, <3>1, SMT
  <2>2. CASE spec # NoSpec
    <3>1. PICK d \in Doc, s \in SpecID : spec = d.specs[s] BY <1>1, <2>2, SMT DEF SpecType
    <3>2. d.specs[s].min \in Int BY ManagerAssumption
    <3> QED BY <3>1, <3>2
  <2> QED BY <2>1, <2>2
<1>3. x \in Int /\ y \in Int BY <1>2, SMT
<1>4. c = Max({x, y}) BY DEF ProtectedCount
<1> HIDE DEF x, y
<1>5. c \in Int BY <1>3, <1>4, TwoMax
<1>6. k[2] \in Nat BY ManagerAssumption DEF Key
<1>7. k[2] < c BY DEF protected
<1>8. burst(st, k) <=> k[2] >= Max({c, 1}) BY DEF burst, IsBurst
<1> HIDE DEF c
<1>9. Max({c, 1}) \in {c, 1} /\ Max({c, 1}) >= c BY <1>5, TwoMax, SMT
<1> QED BY <1>5, <1>6, <1>7, <1>8, <1>9, SMT

\* Nobody waits on a burst instance k without a process: nothing is excepted.
LEMMA NoException ==
  ASSUME NEW b, NEW W, NEW L, NEW M, NEW k, Fine(b, W, L, M, {k}), k \notin Unasked(b)
  PROVE  Fine(b, W, L, M, {})
<1>1. Unasked(b) \ {} = Unasked(b) \ {k} OBVIOUS
<1> QED BY <1>1 DEF Fine, Mid

\* Such a record keeps the books in order.
LEMMA AlikeFine ==
  ASSUME NEW b, NEW W, NEW L, NEW M, NEW U, Fine(b, W, L, M, U), NEW k \in Key,
         NEW st, Alike(b, k, st)
  PROVE  LET c == At(b, k, st)
         IN  Fine(c, W, L, M, U) /\ Kept(b, c, W) /\ Steady(b, c) /\ SameTurn(b, c)
BY SpecFine, SMT DEF Alike, At

\* No process comes or goes with it, and none is told to stop.
LEMMA AlikeSilent ==
  ASSUME NEW b \in OwnerType, NEW k \in Key, NEW st, Alike(b, k, st)
  PROVE  Silent(b, At(b, k, st))
<1> DEFINE c == At(b, k, st)
<1>1. c.specs[k] = st /\ \A j \in Key \ {k} : c.specs[j] = b.specs[j] BY SpecAt, ZenonT(40) DEF Alike, At
<1> HIDE DEF c
<1>2. Silent(b, c)
  <2> SUFFICES ASSUME NEW j \in Key
               PROVE  /\ c.specs[j].proc = b.specs[j].proc
                      /\ c.specs[j].intentionalStop => b.specs[j].intentionalStop
    BY DEF Silent
  <2>1. CASE j = k BY <1>1, <2>1 DEF Alike
  <2>2. CASE j # k
    <3>1. c.specs[j] = b.specs[j] BY <1>1, <2>2
    <3> QED BY <3>1
  <2> QED BY <2>1, <2>2
<1> QED BY <1>2 DEF c

\* It is k's record then, and nothing else of the owner's state changes.
LEMMA AlikeAt ==
  ASSUME NEW b \in OwnerType, NEW k \in Key, NEW st, Alike(b, k, st)
  PROVE  LET c == At(b, k, st)
         IN  /\ c.specs[k] = st /\ c.closing = b.closing /\ c.armed = b.armed
             /\ c.decided = b.decided /\ c.work = b.work
BY SpecAt DEF Alike, At

\* What admitAndStart notes about k before anything else.
LEMMA FlagFine ==
  ASSUME NEW b, NEW W, NEW L, NEW M, NEW U, Fine(b, W, L, M, U), NEW k \in Key, NEW f \in BOOLEAN
  PROVE  LET c == Flagged(b, k, f)
         IN  /\ Fine(c, W, L, M, U) /\ Kept(b, c, W) /\ Steady(b, c) /\ Silent(b, c)
             /\ c.specs[k].spec = b.specs[k].spec /\ c.specs[k].pending = b.specs[k].pending
             /\ c.closing = b.closing /\ c.armed = b.armed /\ c.decided = b.decided
             /\ c.work = b.work
<1> DEFINE st == [b.specs[k] EXCEPT !.waitingOnSibling = f]
           c == At(b, k, st)
<1>0. b.specs[k] \in SpecState BY DEF Fine, Good, OwnerType
<1>1. st \in SpecState BY <1>0, SpecUpdates
<1>2. /\ st.pending = b.specs[k].pending /\ st.proc = b.specs[k].proc
      /\ st.inFlight = b.specs[k].inFlight /\ st.spec = b.specs[k].spec
      /\ st.intentionalStop = b.specs[k].intentionalStop /\ st.state = b.specs[k].state
  BY <1>0 DEF SpecState
<1>3. Flagged(b, k, f) = c BY DEF Flagged, At
<1> HIDE DEF st
<1>4. Alike(b, k, st) BY <1>1, <1>2 DEF Alike
<1>5. Fine(c, W, L, M, U) /\ Kept(b, c, W) /\ Steady(b, c) BY <1>4, AlikeFine
<1>6. b \in OwnerType BY DEF Fine, Good
<1>7. /\ c.specs[k] = st /\ c.closing = b.closing /\ c.armed = b.armed
      /\ c.decided = b.decided /\ c.work = b.work
  BY <1>4, <1>6, AlikeAt, SMT
<1>8. Silent(b, c) BY <1>4, <1>6, AlikeSilent
<1> HIDE DEF c
<1> QED BY <1>2, <1>3, <1>5, <1>7, <1>8

\* The books are in order after that note.
LEMMA NotedFine ==
  ASSUME NEW b, NEW W, NEW L, NEW M, NEW k \in Key, Fine(b, W, L, M, {k})
  PROVE  LET d == Noted(b, k)
         IN  /\ Fine(d, W, L, M, {k}) /\ Kept(b, d, W) /\ Steady(b, d) /\ Silent(b, d)
             /\ d.specs[k].spec = b.specs[k].spec /\ d.specs[k].pending = b.specs[k].pending
             /\ d.closing = b.closing /\ d.armed = b.armed
<1> DEFINE D == b.decided \cup {k}
           c == Flagged(b, k, FALSE)
           d == [c EXCEPT !.decided = D]
<1>0. b \in OwnerType /\ b.decided \in SUBSET Key BY DEF Fine, Good, OwnerType
<1>1. Noted(b, k) = d BY DEF Noted, Flagged
<1>2. /\ Fine(c, W, L, M, {k}) /\ Kept(b, c, W) /\ Steady(b, c) /\ Silent(b, c)
      /\ c.specs[k].spec = b.specs[k].spec /\ c.specs[k].pending = b.specs[k].pending
      /\ c.closing = b.closing /\ c.armed = b.armed /\ c.decided = b.decided
      /\ c.work = b.work
  <2>1. FALSE \in BOOLEAN OBVIOUS
  <2> QED BY <2>1, FlagFine, ZenonT(30)
<1>3. D \in SUBSET Key BY <1>0
<1> HIDE DEF c
<1>4. \A j \in Unasked(c) \ {k} : j \notin D BY <1>2 DEF Fine, Mid
<1>5. d.armed = c.armed BY <1>2 DEF Fine, Good, OwnerType
<1> HIDE DEF D
<1>6. /\ Fine(d, W, L, M, {k}) /\ Kept(c, d, W) /\ Steady(c, d)
      /\ d.specs = c.specs /\ d.closing = c.closing
  BY <1>2, <1>3, <1>4, DecidedSetFine, SMT
<1> HIDE DEF d
<1>7. Kept(b, d, W) /\ Steady(b, d) BY <1>2, <1>6, Twice
<1>8. Silent(b, d) BY <1>2, <1>6 DEF Silent
<1> QED BY <1>1, <1>2, <1>5, <1>6, <1>7, <1>8

\* FailPendingFine, for the one key that is excepted.
LEMMA FailedFine ==
  ASSUME NEW b, NEW W, NEW L, NEW M, NEW k \in Key, Fine(b, W, L, M, {k}),
         NEW err \in Reply \ {"none"}, NEW c, c = failPending(b, k, err)
  PROVE  Fine(c, W, L, M, {}) /\ Kept(b, c, W) /\ Steady(b, c)
<1>1. {k} \ {k} = {} OBVIOUS
<1>2. Fine(c, W, L, M, {k} \ {k}) /\ Kept(b, c, W) /\ Steady(b, c) BY FailPendingFine
<1> QED BY <1>1, <1>2

\* A verdict that rests: k gets the state s, those who wait on it are answered, and the
\* siblings that wait for k are asked.
LEMMA VerdictFine ==
  ASSUME NEW b, NEW W, NEW L, NEW M, NEW k \in Key, Fine(b, W, L, M, {k})
  PROVE  \A c \in {setNotPermitted(b, k), setPendingVRAMUnknown(b, k)} :
           Fine(c, W, L, M, {}) /\ Kept(b, c, W) /\ Steady(b, c)
<1>1. ASSUME NEW s \in {"not_permitted", "pending_vram_unknown"},
             NEW err \in {"not_permitted", "admission_blocked"}
      PROVE  LET c == wakeSiblingsWaitingFor(failPending(setState(b, k, s), k, err), k)
             IN  Fine(c, W, L, M, {}) /\ Kept(b, c, W) /\ Steady(b, c)
  <2> DEFINE x == setState(b, k, s)
             y == failPending(x, k, err)
             z == wakeSiblingsWaitingFor(y, k)
  <2>1. /\ s \in State /\ s \notin {"absent", "starting", "draining", "backoff"}
        /\ err \in Reply \ {"none"}
    BY DEF State, Reply
  <2>2. Fine(x, W, L, M, {k}) /\ Kept(b, x, W) /\ Steady(b, x) BY <2>1, SetStateFine, SMT
  <2> HIDE DEF x
  <2>3. y = failPending(x, k, err) OBVIOUS
  <2> HIDE DEF y
  <2>4. Fine(y, W, L, M, {}) /\ Kept(x, y, W) /\ Steady(x, y) BY <2>1, <2>2, <2>3, FailedFine
  <2>5. Fine(z, W, L, M, {}) /\ Kept(y, z, W) /\ Steady(y, z) BY <2>4, WakeSiblingsFine
  <2> HIDE DEF z
  <2>6. Kept(b, y, W) /\ Steady(b, y) BY <2>2, <2>4, Twice
  <2>7. Kept(b, z, W) /\ Steady(b, z) BY <2>5, <2>6, Twice
  <2> QED BY <2>5, <2>7 DEF x, y, z
<1> QED BY <1>1 DEF setNotPermitted, setPendingVRAMUnknown

\* An ask that ends before the policy is consulted answers or asks nobody in vain.
LEMMA UndecidedFine ==
  ASSUME NEW b, NEW W, NEW L, NEW M, NEW k \in Key, Fine(b, W, L, M, {k}), ~reachesPolicy(b, k)
  PROVE  LET c == undecided(b, k)
         IN  Fine(c, W, L, M, {}) /\ Kept(b, c, W) /\ Steady(b, c)
<1> DEFINE st == b.specs[k]
           d == Flagged(b, k, FALSE)
<1>0. b \in OwnerType /\ st \in SpecState /\ b.decided \in SUBSET Key
  BY DEF Fine, Good, OwnerType
<1>1. /\ Fine(d, W, L, M, {k}) /\ Kept(b, d, W) /\ Steady(b, d)
      /\ d.specs[k].spec = st.spec /\ d.specs[k].pending = st.pending /\ d.decided = b.decided
  BY FlagFine, ZenonT(40)
<1>2. CASE ~askable(b, k)
  <2>1. undecided(b, k) = b BY <1>2 DEF undecided
  <2>2. k \notin Unasked(b)
    BY <1>2 DEF askable, exists, Unasked, Fine, Good, Empties, Mid
  <2> QED BY <2>1, <2>2, NoException, Twice
<1>3. CASE askable(b, k) /\ ~wantsUp(st, k)
  <2>1. undecided(b, k) = d BY <1>3 DEF undecided, Flagged
  <2>2. k \notin Unasked(d) BY <1>1, <1>3 DEF Unasked, wantsUp
  <2> HIDE DEF d
  <2> QED BY <1>1, <2>1, <2>2, NoException
<1>4. CASE askable(b, k) /\ wantsUp(st, k) /\ st.spec.admin = "force_stopped"
  <2> DEFINE e == failPending(d, k, "admission_blocked")
  <2>1. undecided(b, k) = e BY <1>4 DEF undecided, Flagged
  <2>2. "admission_blocked" \in Reply \ {"none"} BY DEF Reply
  <2> HIDE DEF d
  <2>3. e = failPending(d, k, "admission_blocked") OBVIOUS
  <2> HIDE DEF e
  <2>4. Fine(e, W, L, M, {}) /\ Kept(d, e, W) /\ Steady(d, e) BY <1>1, <2>2, <2>3, FailedFine
  <2> QED BY <1>1, <2>1, <2>4, Twice
<1>5. CASE /\ askable(b, k) /\ wantsUp(st, k) /\ st.spec.admin # "force_stopped"
           /\ ~st.spec.permitted
  <2> DEFINE e == setNotPermitted(d, k)
  <2>1. undecided(b, k) = e BY <1>5 DEF undecided, Flagged
  <2> HIDE DEF d
  <2>2. Fine(e, W, L, M, {}) /\ Kept(d, e, W) /\ Steady(d, e) BY <1>1, VerdictFine
  <2> HIDE DEF e
  <2> QED BY <1>1, <2>1, <2>2, Twice
<1>6. CASE /\ askable(b, k) /\ wantsUp(st, k) /\ st.spec.admin # "force_stopped"
           /\ ~(~st.spec.permitted)
  <2> DEFINE c == Flagged(d, k, TRUE)
             D == b.decided \ {k}
             e == [c EXCEPT !.decided = D]
  <2>1. lowerSiblingWaiting(b, k) BY <1>6 DEF reachesPolicy
  <2>2. ~burst(st, k) BY <1>0, <2>1, ProtectedNotBurst DEF lowerSiblingWaiting
  <2>3. undecided(b, k) = [d EXCEPT !.specs[k].waitingOnSibling = TRUE, !.decided = @ \ {k}]
    BY <1>6 DEF undecided, Flagged
  <2>4. d \in OwnerType BY <1>1 DEF Fine, Good
  <2> HIDE DEF d
  <2>5. [d EXCEPT !.specs[k].waitingOnSibling = TRUE, !.decided = @ \ {k}] = e
    BY <1>1 DEF Flagged
  <2>6. k \notin Unasked(d) BY <1>1, <2>2 DEF Unasked, burst
  <2>7. Fine(d, W, L, M, {}) BY <1>1, <2>6, NoException
  <2>8. Fine(c, W, L, M, {}) /\ Kept(d, c, W) /\ Steady(d, c) /\ c.decided = d.decided
    BY <2>7, FlagFine
  <2> HIDE DEF c
  <2>9. \A j \in Unasked(c) \ {} : j \notin D BY <1>1, <2>8 DEF Fine, Mid
  <2>10. D \in SUBSET Key BY <1>0
  <2>11. Fine(e, W, L, M, {}) /\ Kept(c, e, W) /\ Steady(c, e) BY <2>8, <2>9, <2>10, DecidedSetFine, SMT
  <2> HIDE DEF e
  <2>12. Kept(b, c, W) /\ Steady(b, c) BY <1>1, <2>8, Twice
  <2>13. Kept(b, e, W) /\ Steady(b, e) BY <2>11, <2>12, Twice
  <2> QED BY <2>3, <2>5, <2>11, <2>13
<1> QED BY <1>2, <1>3, <1>4, <1>5, <1>6

\* The policy never keeps a burst instance waiting: it is admitted, or its requests are
\* refused.
LEMMA BurstIsDecided ==
  ASSUME NEW b, NEW k, burst(b.specs[k], k)
  PROVE  decision(b, k).kind \in {"ok", "no_capacity"}
<1> DEFINE snap == buildSnapshot(b, k)
<1>1. snap.noEvict = burst(b.specs[k], k) BY DEF buildSnapshot
<1>2. PICK cand : decision(b, k) = noEvictGate(snap, admitSteps(snap, cand))
  BY DEF decision, Admit
<1> HIDE DEF snap
<1> QED BY <1>1, <1>2 DEF noEvictGate, NoDecision

\* An ask that the policy answers with anything but OK.
LEMMA DecidedFine ==
  ASSUME NEW b, NEW W, NEW k \in Key, Fine(b, W, life, cmds, {k}), reachesPolicy(b, k),
         ~mayStart(b, k)
  PROVE  LET c == decided(b, k)
         IN  Fine(c, W, life, cmds, {}) /\ Kept(b, c, W) /\ Steady(b, c)
<1> DEFINE dec == decision(b, k)
           d == Noted(b, k)
<1>1. /\ Fine(d, W, life, cmds, {k}) /\ Kept(b, d, W) /\ Steady(b, d)
      /\ d.specs[k].spec = b.specs[k].spec
  BY NotedFine
<1>2. decided(b, k) = decidedAs(b, k, dec) BY DEF decided
<1>3. ~burst(b.specs[k], k) => Fine(d, W, life, cmds, {})
  <2> HIDE DEF d
  <2>1. ~burst(b.specs[k], k) => k \notin Unasked(d) BY <1>1 DEF Unasked, burst
  <2> QED BY <1>1, <2>1, NoException
<1>4. ~demandMissing(b, k) /\ dec.kind # "no_capacity" => ~burst(b.specs[k], k)
  BY BurstIsDecided DEF mayStart
<1> HIDE DEF d
<1>5. ASSUME NEW err \in {"demand_unknown", "no_capacity"}
      PROVE  LET c == failPending(d, k, err)
             IN  Fine(c, W, life, cmds, {}) /\ Kept(b, c, W) /\ Steady(b, c)
  <2> DEFINE e == failPending(d, k, err)
  <2>1. err \in Reply \ {"none"} BY DEF Reply
  <2>2. e = failPending(d, k, err) OBVIOUS
  <2> HIDE DEF e
  <2>3. Fine(e, W, life, cmds, {}) /\ Kept(d, e, W) /\ Steady(d, e)
    BY <1>1, <2>1, <2>2, FailedFine
  <2>4. Kept(b, e, W) /\ Steady(b, e) BY <1>1, <2>3, Twice
  <2> QED BY <2>3, <2>4 DEF e
<1>6. \A c \in {setNotPermitted(d, k), setPendingVRAMUnknown(d, k)} :
         Fine(c, W, life, cmds, {}) /\ Kept(b, c, W) /\ Steady(b, c)
  <2> SUFFICES ASSUME NEW c \in {setNotPermitted(d, k), setPendingVRAMUnknown(d, k)}
               PROVE  Fine(c, W, life, cmds, {}) /\ Kept(b, c, W) /\ Steady(b, c)
    OBVIOUS
  <2>1. Fine(c, W, life, cmds, {}) /\ Kept(d, c, W) /\ Steady(d, c) BY <1>1, VerdictFine
  <2> QED BY <1>1, <2>1, Twice
<1>7. ~burst(b.specs[k], k) =>
        LET c == evict(d, k, dec.evict)
        IN  Fine(c, W, life, cmds, {}) /\ Kept(b, c, W) /\ Steady(b, c)
  <2> SUFFICES ASSUME ~burst(b.specs[k], k)
               PROVE  LET c == evict(d, k, dec.evict)
                      IN  Fine(c, W, life, cmds, {}) /\ Kept(b, c, W) /\ Steady(b, c)
    OBVIOUS
  <2> DEFINE e == evict(d, k, dec.evict)
  <2>1. Fine(e, W, life, cmds, {}) /\ Kept(d, e, W) /\ Steady(d, e) BY <1>3, EvictFine
  <2> HIDE DEF e
  <2>2. Kept(b, e, W) /\ Steady(b, e) BY <1>1, <2>1, Twice
  <2> QED BY <2>1, <2>2 DEF e
<1> HIDE DEF dec
<1>8. \/ decided(b, k) = failPending(d, k, "demand_unknown")
      \/ decided(b, k) = failPending(d, k, "no_capacity")
      \/ decided(b, k) \in {setNotPermitted(d, k), setPendingVRAMUnknown(d, k)}
      \/ ~burst(b.specs[k], k) /\ decided(b, k) = evict(d, k, dec.evict)
      \/ ~burst(b.specs[k], k) /\ decided(b, k) = d
  BY <1>2, <1>4 DEF decidedAs, d, Noted
<1> QED BY <1>1, <1>3, <1>5, <1>6, <1>7, <1>8

\* How steps that tell only idle processes to stop compose.
LEMMA UnhurriedSteps ==
  ASSUME NEW b, NEW c, NEW d
  PROVE  /\ Steady(b, c) => Unhurried(b, c)
         /\ Silent(b, c) /\ Unhurried(c, d) => Unhurried(b, d)
         /\ Unhurried(b, c) /\ Steady(c, d) => Unhurried(b, d)
<1>1. Steady(b, c) => Unhurried(b, c) BY DEF Steady, Unhurried
<1>2. Silent(b, c) /\ Unhurried(c, d) => Unhurried(b, d)
  <2> SUFFICES ASSUME Silent(b, c), Unhurried(c, d), NEW k \in Key,
                      d.specs[k].proc = b.specs[k].proc, d.specs[k].intentionalStop,
                      d.specs[k].inFlight # 0
               PROVE  b.specs[k].intentionalStop
    BY DEF Unhurried
  <2>1. d.specs[k].proc = c.specs[k].proc BY DEF Silent
  <2>2. c.specs[k].intentionalStop BY <2>1 DEF Unhurried
  <2> QED BY <2>2 DEF Silent
<1>3. Unhurried(b, c) /\ Steady(c, d) => Unhurried(b, d)
  <2> SUFFICES ASSUME Unhurried(b, c), Steady(c, d), NEW k \in Key,
                      d.specs[k].proc = b.specs[k].proc, d.specs[k].intentionalStop,
                      d.specs[k].inFlight # 0
               PROVE  b.specs[k].intentionalStop
    BY DEF Unhurried
  <2>1. c.specs[k].proc = b.specs[k].proc /\ c.specs[k].inFlight # 0 BY DEF Steady
  <2>2. c.specs[k].intentionalStop BY <2>1 DEF Steady
  <2> QED BY <2>1, <2>2 DEF Unhurried
<1> QED BY <1>1, <1>2, <1>3

\* Two records of k in a row.
LEMMA AtAt ==
  ASSUME NEW b \in OwnerType, NEW k \in Key, NEW s, NEW t
  PROVE  At(b, k, s).specs[k] = s /\ At(At(b, k, s), k, t) = At(b, k, t)
BY ZenonT(30) DEF At, OwnerType

\* A process starts: a generation that nothing refers to becomes k's.
LEMMA StartedFine ==
  ASSUME Counting, NEW b, NEW W, NEW M, NEW k \in Key, Fine(b, W, life, M, {k}), NEW p \in Proc,
         life \in [Proc -> {"alive", "killed", "exited"}],
         b.specs[k].proc = Nil,
         \A j \in Key : b.specs[j].proc # p,
         \A x \in Caller : b.lease[x].proc # p,
         NEW T, \A m \in T : m.cmd = "waiterTimeout"
  PROVE  LET c == Started(b, k, p, T)
         IN  Fine(c, W, [life EXCEPT ![p] = "alive"], M, {}) /\ Kept(b, c, W) /\ Unhurried(b, c)
<1> DEFINE N == [life EXCEPT ![p] = "alive"]
           su == [b.specs[k] EXCEPT !.proc = p]
           sv == [su EXCEPT !.state = "starting"]
           sw == [sv EXCEPT !.everHealthy = FALSE]
           A == b.armed \ T
           a == At(b, k, sw)
           c == [a EXCEPT !.armed = A]
<1>0. /\ b \in OwnerType /\ b.specs[k] \in SpecState /\ b.armed \in SUBSET Timer
      /\ b.specs \in [Key -> SpecState]
  BY DEF Fine, Good, OwnerType
<1>1. Started(b, k, p, T) = c
  <2> DEFINE bu == At(b, k, su)
             bv == At(bu, k, [bu.specs[k] EXCEPT !.state = "starting"])
             bw == At(bv, k, [bv.specs[k] EXCEPT !.everHealthy = FALSE])
  <2>1. Started(b, k, p, T) = [bw EXCEPT !.armed = A] BY DEF Started, At
  <2>2. \A s, t : At(b, k, s).specs[k] = s /\ At(At(b, k, s), k, t) = At(b, k, t)
    BY <1>0, AtAt
  <2> HIDE DEF su
  <2>3. bu.specs[k] = su /\ bv = At(b, k, sv) BY <2>2
  <2> HIDE DEF bu, bv
  <2>4. bv.specs[k] = sv BY <2>2, <2>3
  <2>5. bw = At(At(b, k, sv), k, sw) BY <2>3, <2>4
  <2> HIDE DEF sv, sw, bw
  <2>6. bw = a BY <2>2, <2>5
  <2> QED BY <2>1, <2>6
<1>2. sw \in SpecState
  <2>1. su \in SpecState BY <1>0, SpecUpdates
  <2>2. "starting" \in State BY DEF State
  <2> HIDE DEF su
  <2>3. sv \in SpecState BY <2>1, <2>2, SpecUpdates
  <2> HIDE DEF sv
  <2> QED BY <2>3, SpecUpdates
<1>3. /\ sw.proc = p /\ sw.state = "starting" /\ sw.spec = b.specs[k].spec
      /\ sw.pending = b.specs[k].pending /\ sw.inFlight = b.specs[k].inFlight
  BY <1>0 DEF SpecState
<1> HIDE DEF sw
<1>4. A \in SUBSET Timer BY <1>0
<1>5. /\ a \in OwnerType
      /\ a.specs[k] = sw /\ \A j \in Key \ {k} : a.specs[j] = b.specs[j]
      /\ a.reply = b.reply /\ a.lease = b.lease
      /\ a.work = b.work /\ a.decided = b.decided /\ a.stopped = b.stopped
      /\ a.closing = b.closing
  BY <1>0, <1>2, SpecAt, SMT DEF At
<1> HIDE DEF a, A
<1>6. /\ c \in OwnerType /\ c.armed = A
      /\ c.specs = a.specs /\ c.reply = a.reply /\ c.lease = a.lease
      /\ c.work = a.work /\ c.decided = a.decided /\ c.stopped = a.stopped
      /\ c.closing = a.closing
  <2>1. c \in OwnerType BY <1>4, <1>5, FieldTypes
  <2> QED BY <1>5, <2>1 DEF OwnerType
<1>7. /\ c \in OwnerType
      /\ c.specs[k] = sw /\ \A j \in Key \ {k} : c.specs[j] = b.specs[j]
      /\ c.reply = b.reply /\ c.lease = b.lease /\ c.armed = A
      /\ c.work = b.work /\ c.decided = b.decided /\ c.stopped = b.stopped
      /\ c.closing = b.closing
  BY <1>5, <1>6
<1> HIDE DEF c
<1>8. p # Nil BY ManagerAssumption
<1>9. Waiting(c, W)
  <2>1. \A j \in Key : c.specs[j].pending = b.specs[j].pending BY <1>3, <1>7
  <2> QED BY <1>7, <2>1, SMT DEF Waiting, Fine, Good
<1>10. Leases(c)
  <2>1. \A x \in Caller : c.reply[x] = "none" => c.lease[x] = NoLease
    BY <1>7 DEF Fine, Good, Leases
  <2>2. b.specs[k].inFlight = 0 BY DEF Fine, Good, Leases
  <2>3. ASSUME NEW j \in Key
        PROVE  c.specs[j].inFlight =
                 IF c.specs[j].proc = Nil THEN 0
                 ELSE Cardinality({x \in Caller : c.lease[x] = leaseOf(c, j)})
    <3>1. CASE j = k
      <4>1. \A x \in Caller : c.lease[x] # leaseOf(c, k)
        <5>1. leaseOf(c, k).proc = p BY <1>3, <1>7 DEF leaseOf
        <5> QED BY <1>7, <5>1
      <4>2. {x \in Caller : c.lease[x] = leaseOf(c, k)} = {} BY <4>1
      <4>3. Cardinality({}) = 0 BY DEF Counting
      <4> QED BY <1>3, <1>7, <1>8, <2>2, <3>1, <4>2, <4>3, ZenonT(40)
    <3>2. CASE j # k
      <4>1. leaseOf(c, j) = leaseOf(b, j) BY <1>7, <3>2 DEF leaseOf
      <4>2. c.specs[j] = b.specs[j] BY <1>7, <3>2
      <4>3. {x \in Caller : c.lease[x] = leaseOf(c, j)} = {x \in Caller : b.lease[x] = leaseOf(b, j)}
        BY <1>7, <4>1
      <4> QED BY <4>2, <4>3 DEF Fine, Good, Leases
    <3> QED BY <3>1, <3>2
  <2>4. \A j \in Key : c.specs[j].state = "starting" => c.specs[j].inFlight = 0
    BY <1>3, <1>7, <2>2, SMT DEF Fine, Good, Leases
  <2> QED BY <2>1, <2>3, <2>4 DEF Leases
<1>11. Empties(c) BY <1>3, <1>7, SMT DEF Fine, Good, Empties
<1>12. Homes(c, N)
  <2>1. \A q \in Proc : N[q] # "exited" => q = p \/ life[q] # "exited" OBVIOUS
  <2>2. \A q \in Proc : N[q] # "exited" => \E j \in Key : c.specs[j].proc = q
    <3> SUFFICES ASSUME NEW q \in Proc, N[q] # "exited"
                 PROVE  \E j \in Key : c.specs[j].proc = q
      OBVIOUS
    <3>1. CASE q = p BY <1>3, <1>7, <3>1
    <3>2. CASE q # p
      <4>1. life[q] # "exited" BY <2>1, <3>2
      <4>2. PICK j \in Key : b.specs[j].proc = q BY <4>1 DEF Fine, Good, Homes
      <4>3. j # k BY <1>8, <4>2, ManagerAssumption
      <4> QED BY <1>7, <4>2, <4>3
    <3> QED BY <3>1, <3>2
  <2>3. ASSUME NEW i \in Key, NEW j \in Key, c.specs[i].proc = c.specs[j].proc, c.specs[j].proc # Nil
        PROVE  i = j
    <3>1. CASE i # k /\ j # k BY <1>7, <2>3, <3>1, SMT DEF Fine, Good, Homes
    <3>2. CASE i = k /\ j # k BY <1>3, <1>7, <2>3, <3>2
    <3>3. CASE i # k /\ j = k BY <1>3, <1>7, <2>3, <3>3
    <3> QED BY <3>1, <3>2, <3>3
  <2> HIDE DEF N
  <2> QED BY <2>2, <2>3 DEF Homes
<1>13. Armed(c, N, M)
  <2> SUFFICES ASSUME NEW j \in Key
               PROVE  LET q == c.specs[j].proc
                      IN  /\ c.specs[j].state = "draining" /\ q # Nil =>
                               \/ N[q] # "alive"
                               \/ cmdDrainGraceExpired(j, q) \in M \cup c.armed
                               \/ cmdKillGraceExpired(j, q) \in M \cup c.armed
                          /\ c.specs[j].state = "backoff" =>
                               \E m \in M \cup c.armed : m.cmd = "backoffFire" /\ m.key = j
    BY DEF Armed
  <2>1. CASE j = k BY <1>3, <1>7, <2>1
  <2>2. CASE j # k
    <3> DEFINE q == b.specs[j].proc
    <3>1. c.specs[j] = b.specs[j] BY <1>7, <2>2
    <3>2. q # Nil => q \in Proc BY <1>0 DEF SpecState
    <3>3. q # Nil => N[q] = life[q] BY <3>2
    <3>4. q # Nil => /\ cmdDrainGraceExpired(j, q).cmd = "drainGraceExpired"
                     /\ cmdKillGraceExpired(j, q).cmd = "killGraceExpired"
      BY <3>2, DrainTimer, KillTimer, SMT
    <3>5. \A m \in M \cup b.armed : m.cmd # "waiterTimeout" => m \in M \cup c.armed BY <1>7 DEF A
    <3>6. /\ b.specs[j].state = "draining" /\ q # Nil =>
               \/ life[q] # "alive"
               \/ cmdDrainGraceExpired(j, q) \in M \cup b.armed
               \/ cmdKillGraceExpired(j, q) \in M \cup b.armed
          /\ b.specs[j].state = "backoff" =>
               \E m \in M \cup b.armed : m.cmd = "backoffFire" /\ m.key = j
      BY DEF Fine, Good, Armed
    <3> HIDE DEF q, N
    <3>7. c.specs[j].state = "draining" /\ q # Nil =>
            \/ N[q] # "alive"
            \/ cmdDrainGraceExpired(j, q) \in M \cup c.armed
            \/ cmdKillGraceExpired(j, q) \in M \cup c.armed
      BY <3>1, <3>3, <3>4, <3>5, <3>6
    <3>8. c.specs[j].state = "backoff" => \E m \in M \cup c.armed : m.cmd = "backoffFire" /\ m.key = j
      BY <3>1, <3>5, <3>6
    <3> QED BY <3>1, <3>7, <3>8 DEF q
  <2> QED BY <2>1, <2>2
<1> HIDE DEF N
<1>14. Mid(c, {})
  <2>1. \A j \in Key : j[2] > 0 /\ burst(c.specs[j], j) => c.specs[j].state # "backoff"
    BY <1>3, <1>7, SMT DEF Fine, Mid
  <2>2. Unasked(c) \subseteq Unasked(b) \ {k} BY <1>3, <1>7, <1>8, SMT DEF Unasked
  <2>3. \A j \in Key : toAsk(b, j) => toAsk(c, j) BY <1>7 DEF toAsk
  <2>4. \A j \in Unasked(c) : j \notin c.decided /\ toAsk(c, j)
    BY <1>7, <2>2, <2>3 DEF Fine, Mid, Unasked
  <2>5. c.closing => \A j \in Key : c.specs[j].pending = {} BY <1>3, <1>7, SMT DEF Fine, Mid
  <2> QED BY <1>7, <2>1, <2>4, <2>5 DEF Fine, Mid
<1>15. Kept(b, c, W) BY <1>7 DEF Kept
<1>16. Unhurried(b, c) BY <1>3, <1>7, <1>8 DEF Unhurried
<1>17. Fine(c, W, N, M, {}) BY <1>7, <1>9, <1>10, <1>11, <1>12, <1>13, <1>14 DEF Fine, Good
<1> QED BY <1>1, <1>15, <1>16, <1>17 DEF N

\* The end of every ask.
LEMMA SettleFine ==
  ASSUME NEW b, NEW W, NEW L, NEW M, Fine(b, W, L, M, {}), NEW k \in Key
  PROVE  LET c == settle(b, k)
         IN  Ended(c, W, L, M) /\ Kept(b, c, W) /\ Steady(b, c)
<1> DEFINE c == retireIfSpent(b, k)
<1>1. Fine(c, W, L, M, {}) /\ Kept(b, c, W) /\ Steady(b, c) BY RetireIfSpentFine
<1> HIDE DEF c
<1>2. Ended(advance(c), W, L, M) /\ Kept(c, advance(c), W) /\ Steady(c, advance(c))
  BY <1>1, AdvanceFine
<1>3. Kept(b, advance(c), W) /\ Steady(b, advance(c)) BY <1>1, <1>2, Twice
<1>4. settle(b, k) = advance(c) BY DEF settle, c
<1> QED BY <1>2, <1>3, <1>4

\* admitAndStart, whether or not a process starts.
LEMMA AdmitAndStartFine ==
  ASSUME Counting, TypeOK, cmds' = cmds, NEW b, NEW W, NEW k \in Key, Fine(b, W, life, cmds, {k}),
         b.specs = o.specs, b.lease = o.lease, admitAndStart(b, k)
  PROVE  Ended(o', W, life', cmds') /\ Kept(b, o', W) /\ Unhurried(b, o')
<1> DEFINE d == Noted(b, k)
           T == {cmdWaiterTimeout(k, c) : c \in b.specs[k].pending}
           p == CHOOSE p \in unusedProcs : TRUE
           e == Started(d, k, p, T)
           z == wakeSiblingsWaitingFor(e, k)
<1>0. b \in OwnerType /\ b.specs[k] \in SpecState BY DEF Fine, Good, OwnerType
<1>1. ASSUME NEW c, Fine(c, W, life, cmds, {}), Kept(b, c, W), Steady(b, c), o' = settle(c, k),
             UNCHANGED <<life, poll>>
      PROVE  Ended(o', W, life', cmds') /\ Kept(b, o', W) /\ Unhurried(b, o')
  <2>1. Ended(o', W, life, cmds) /\ Kept(c, o', W) /\ Steady(c, o') BY <1>1, SettleFine
  <2>2. Kept(b, o', W) /\ Steady(b, o') BY <1>1, <2>1, Twice
  <2>3. Unhurried(b, o') BY <2>2, UnhurriedSteps
  <2>4. life' = life BY <1>1
  <2> QED BY <2>1, <2>2, <2>3, <2>4
<1>2. CASE ~reachesPolicy(b, k) /\ o' = settle(undecided(b, k), k) /\ UNCHANGED <<life, poll>>
  <2> DEFINE c == undecided(b, k)
  <2>1. Fine(c, W, life, cmds, {}) /\ Kept(b, c, W) /\ Steady(b, c) BY <1>2, UndecidedFine
  <2>2. o' = settle(c, k) /\ UNCHANGED <<life, poll>> BY <1>2
  <2> HIDE DEF c
  <2> QED BY <1>1, <2>1, <2>2
<1>3. CASE /\ reachesPolicy(b, k) /\ ~mayStart(b, k)
           /\ o' = settle(decided(b, k), k) /\ UNCHANGED <<life, poll>>
  <2> DEFINE c == decided(b, k)
  <2>1. Fine(c, W, life, cmds, {}) /\ Kept(b, c, W) /\ Steady(b, c) BY <1>3, DecidedFine
  <2>2. o' = settle(c, k) /\ UNCHANGED <<life, poll>> BY <1>3
  <2> HIDE DEF c
  <2> QED BY <1>1, <2>1, <2>2
<1>4. Fine(d, W, life, cmds, {k}) /\ Kept(b, d, W) /\ Steady(b, d) /\ Silent(b, d)
  BY NotedFine
<1>5. CASE o' = settle(setNotPermitted(d, k), k) /\ UNCHANGED <<life, poll>>
  <2> DEFINE c == setNotPermitted(d, k)
  <2> HIDE DEF d
  <2>1. Fine(c, W, life, cmds, {}) /\ Kept(d, c, W) /\ Steady(d, c) BY <1>4, VerdictFine
  <2>2. o' = settle(c, k) /\ UNCHANGED <<life, poll>> BY <1>5 DEF d
  <2> HIDE DEF c
  <2>3. Kept(b, c, W) /\ Steady(b, c) BY <1>4, <2>1, Twice
  <2> QED BY <1>1, <2>1, <2>2, <2>3
<1>6. CASE o' = settle(failStart(d, k, "start_failed"), k) /\ UNCHANGED <<life, poll>>
  <2> DEFINE c == failStart(d, k, "start_failed")
  <2> HIDE DEF d
  <2>1. "start_failed" \in Reply \ {"none"} /\ {k} \ {k} = {} BY DEF Reply
  <2>2. Fine(c, W, life, cmds, {}) /\ Kept(d, c, W) /\ Steady(d, c) BY <1>4, <2>1, FailStartFine, SMT
  <2>3. o' = settle(c, k) /\ UNCHANGED <<life, poll>> BY <1>6 DEF d
  <2> HIDE DEF c
  <2>4. Kept(b, c, W) /\ Steady(b, c) BY <1>4, <2>2, Twice
  <2> QED BY <1>1, <2>2, <2>3, <2>4
<1>7. CASE /\ mayStart(b, k) /\ unusedProcs # {}
           /\ o' = settle(z, k) /\ life' = [life EXCEPT ![p] = "alive"]
  <2> DEFINE N == [life EXCEPT ![p] = "alive"]
  <2>1. p \in unusedProcs BY <1>7
  <2>2. /\ p \in Proc /\ \A j \in Key : o.specs[j].proc # p
        /\ \A x \in Caller : o.lease[x].proc # p
    BY <2>1 DEF unusedProcs
  <2>3. b.specs[k].proc = Nil BY <1>7 DEF mayStart, reachesPolicy, askable
  <2>4. \A m \in T : m.cmd = "waiterTimeout" BY <1>0, WaiterTimer, SMT DEF SpecState
  <2>5. d.lease = b.lease BY <1>0 DEF OwnerType, Noted
  <2>6. \A j \in Key : d.specs[j].proc = b.specs[j].proc BY <1>4 DEF Steady
  <2>7. life \in [Proc -> {"alive", "killed", "exited"}] BY DEF TypeOK
  <2>8. o' = settle(z, k) /\ life' = N BY <1>7
  <2> HIDE DEF d, T, p
  <2>9. Fine(e, W, N, cmds, {}) /\ Kept(d, e, W) /\ Unhurried(d, e)
    BY <1>4, <2>2, <2>3, <2>4, <2>5, <2>6, <2>7, StartedFine, ZenonT(40)
  <2> HIDE DEF e, N
  <2>10. Fine(z, W, N, cmds, {}) /\ Kept(e, z, W) /\ Steady(e, z) BY <2>9, WakeSiblingsFine
  <2> HIDE DEF z
  <2>11. Ended(o', W, N, cmds) /\ Kept(z, o', W) /\ Steady(z, o') BY <2>8, <2>10, SettleFine
  <2>12. Kept(b, e, W) BY <1>4, <2>9, Twice
  <2>13. Kept(b, z, W) BY <2>10, <2>12, Twice
  <2>14. Kept(b, o', W) BY <2>11, <2>13, Twice
  <2>15. Unhurried(b, e) BY <1>4, <2>9, UnhurriedSteps
  <2>16. Unhurried(b, z) BY <2>10, <2>15, UnhurriedSteps
  <2>17. Unhurried(b, o') BY <2>11, <2>16, UnhurriedSteps
  <2> QED BY <2>8, <2>11, <2>14, <2>17
<1> HIDE DEF z, e, d
<1>8. startProcess(b, k) =>
        \/ o' = settle(setNotPermitted(d, k), k) /\ UNCHANGED <<life, poll>>
        \/ o' = settle(failStart(d, k, "start_failed"), k) /\ UNCHANGED <<life, poll>>
        \/ /\ unusedProcs # {} /\ o' = settle(z, k) /\ life' = [life EXCEPT ![p] = "alive"]
  BY DEF startProcess, z, e, d, T, p, Noted, Started
<1> HIDE DEF p, T
<1> QED BY <1>2, <1>3, <1>5, <1>6, <1>7, <1>8 DEF admitAndStart

\* What is not excepted need not be.
LEMMA Excepting ==
  ASSUME NEW b, NEW W, NEW L, NEW M, NEW U, Fine(b, W, L, M, {})
  PROVE  Fine(b, W, L, M, U)
BY DEF Fine, Mid

\* A key of the list is asked, unless it was decided on before in this turn.
LEMMA ReaskFine ==
  ASSUME Counting, TypeOK, cmds' = cmds, NEW b, NEW W, NEW k \in Key, Fine(b, W, life, cmds, {k}),
         k \in b.decided => k \notin Unasked(b),
         b.specs = o.specs, b.lease = o.lease, reask(b, k)
  PROVE  Ended(o', W, life', cmds') /\ Kept(b, o', W) /\ Unhurried(b, o')
<1>1. CASE k \in b.decided /\ o' = advance(b) /\ UNCHANGED <<life, poll>>
  <2>1. Fine(b, W, life, cmds, {}) BY <1>1, NoException
  <2>2. Ended(o', W, life, cmds) /\ Kept(b, o', W) /\ Steady(b, o') BY <1>1, <2>1, AdvanceFine
  <2>3. life' = life BY <1>1
  <2> QED BY <2>2, <2>3, UnhurriedSteps
<1>2. CASE admitAndStart(b, k) BY <1>2, AdmitAndStartFine
<1> QED BY <1>1, <1>2 DEF reask

\* A key is taken off the list of asks.
LEMMA TakenOffFine ==
  ASSUME NEW W, NEW L, NEW M, Fine(o, W, L, M, {}), NEW w \in Work, NEW k,
         NEW b, b = [o EXCEPT !.work = w],
         \A j \in Key \ {k} : toAsk(o, j) => toAsk(b, j)
  PROVE  /\ Fine(b, W, L, M, {k}) /\ Kept(o, b, W) /\ Steady(o, b)
         /\ b.specs = o.specs /\ b.lease = o.lease
         /\ k \in b.decided => k \notin Unasked(b)
<1>1. \A j \in Unasked(o) \ {k} : j \notin o.decided /\ toAsk(b, j) BY DEF Fine, Mid, Unasked
<1>2. /\ Fine(b, W, L, M, {k}) /\ Kept(o, b, W) /\ Steady(o, b) /\ b.specs = o.specs
      /\ b.decided = o.decided
  BY <1>1, WorkFine, SMT
<1>3. b.lease = o.lease BY DEF Fine, Good, OwnerType
<1>4. Unasked(b) = Unasked(o) BY <1>2 DEF Unasked
<1>5. \A j \in Unasked(o) : j \notin o.decided BY DEF Fine, Mid
<1> QED BY <1>2, <1>3, <1>4, <1>5

\* The claims but the first.
LEMMA TailClaims ==
  ASSUME NEW s \in Seq(Key), s # <<>>, NEW i \in DOMAIN s, s[i] # Head(s)
  PROVE  \E j \in DOMAIN Tail(s) : Tail(s)[j] = s[i]
<1>1. i \in 1 .. Len(s) /\ Len(s) \in Nat BY SMT
<1>2. i # 1 BY SMT
<1>3. i - 1 \in 1 .. (Len(s) - 1) BY <1>1, <1>2, SMT
<1>4. DOMAIN Tail(s) = 1 .. (Len(s) - 1) BY <1>1, SMT
<1>5. Tail(s)[i - 1] = s[(i - 1) + 1] BY <1>3, SMT
<1>6. (i - 1) + 1 = i BY <1>1, SMT
<1> QED BY <1>3, <1>4, <1>5, <1>6

\* Each ask of a turn.
LEMMA FinishTurnFine ==
  ASSUME Counting, TypeOK, NEW W, Fine(o, W, life, cmds, {}), FinishTurn
  PROVE  Stepped(W)
<1> USE DEF FinishTurn
<1>0. o \in OwnerType /\ o.work \in Work /\ cmds' = cmds BY DEF TypeOK, OwnerType
<1>1. ASSUME NEW b, Kept(o, b, W), b.specs = o.specs,
             Ended(o', W, life', cmds') /\ Kept(b, o', W) /\ Unhurried(b, o')
      PROVE  Stepped(W)
  <2>1. Kept(o, o', W) BY <1>1, Twice
  <2>2. Unhurried(o, o') BY <1>1 DEF Unhurried
  <2> QED BY <1>1, <2>1, <2>2 DEF Stepped
<1>2. CASE AskSibling
  <2>1. PICK k \in o.work.siblings :
          LET b == [o EXCEPT !.work.siblings = @ \ {k}]
          IN  \/ admitAndStart(b, k)
              \/ o' = advance(b) /\ UNCHANGED <<life, poll>>
    BY <1>2 DEF AskSibling
  <2> DEFINE w == [o.work EXCEPT !.siblings = @ \ {k}]
             b == [o EXCEPT !.work = w]
  <2>2. k \in Key BY <1>0 DEF Work
  <2>3. w \in Work BY <1>0 DEF Work
  <2>4. admitAndStart(b, k) \/ (o' = advance(b) /\ UNCHANGED <<life, poll>>) BY <2>1
  <2>5. /\ w.first = o.work.first /\ w.claims = o.work.claims /\ w.self = o.work.self
        /\ w.wake = o.work.wake /\ w.woken = o.work.woken
    BY <1>0 DEF Work
  <2> HIDE DEF w
  <2>6. b.work = w BY <1>0 DEF OwnerType
  <2> HIDE DEF b
  <2>7. \A j \in Key : toAsk(o, j) => toAsk(b, j) BY <2>5, <2>6 DEF toAsk
  <2>8. /\ Fine(b, W, life, cmds, {k}) /\ Kept(o, b, W) /\ Steady(o, b)
        /\ b.specs = o.specs /\ b.lease = o.lease
    <3>1. \A j \in Key \ {k} : toAsk(o, j) => toAsk(b, j) BY <2>7
    <3> QED BY <2>3, <3>1, TakenOffFine, SMT DEF b
  <2>9. CASE admitAndStart(b, k)
    BY <1>0, <1>1, <2>2, <2>8, <2>9, AdmitAndStartFine
  <2>10. CASE o' = advance(b) /\ UNCHANGED <<life, poll>>
    <3>1. \A j \in Unasked(o) \ {} : j \notin o.decided /\ toAsk(b, j)
      BY <2>7 DEF Fine, Mid, Unasked
    <3>2. Fine(b, W, life, cmds, {}) BY <2>3, <3>1, WorkFine DEF b
    <3>3. Ended(o', W, life, cmds) /\ Kept(b, o', W) /\ Steady(b, o') BY <2>10, <3>2, AdvanceFine
    <3>4. Unhurried(b, o') BY <3>3, UnhurriedSteps
    <3>5. life' = life BY <2>10
    <3> QED BY <1>0, <1>1, <2>8, <3>3, <3>4, <3>5
  <2> QED BY <2>4, <2>9, <2>10
<1>3. CASE AskFirst
  <2>1. PICK k \in o.work.first : reask([o EXCEPT !.work.first = @ \ {k}], k)
    BY <1>3 DEF AskFirst
  <2> DEFINE w == [o.work EXCEPT !.first = @ \ {k}]
             b == [o EXCEPT !.work = w]
  <2>2. k \in Key BY <1>0 DEF Work
  <2>3. w \in Work BY <1>0 DEF Work
  <2>4. reask(b, k) BY <2>1
  <2>5. /\ w.first = o.work.first \ {k} /\ w.claims = o.work.claims /\ w.self = o.work.self
        /\ w.wake = o.work.wake /\ w.woken = o.work.woken
    BY <1>0 DEF Work
  <2> HIDE DEF w
  <2>6. b.work = w BY <1>0 DEF OwnerType
  <2> HIDE DEF b
  <2>7. \A j \in Key \ {k} : toAsk(o, j) => toAsk(b, j) BY <2>5, <2>6 DEF toAsk
  <2>8. /\ Fine(b, W, life, cmds, {k}) /\ Kept(o, b, W) /\ Steady(o, b)
        /\ b.specs = o.specs /\ b.lease = o.lease /\ (k \in b.decided => k \notin Unasked(b))
    BY <2>3, <2>7, TakenOffFine DEF b
  <2> QED BY <1>0, <1>1, <2>2, <2>4, <2>8, ReaskFine
<1>4. CASE AskClaim
  <2> DEFINE s == o.work.claims
             k == Head(s)
             w == [o.work EXCEPT !.claims = Tail(s)]
             b == [o EXCEPT !.work = w]
  <2>1. s \in Seq(Key) /\ s # <<>> BY <1>0, <1>4 DEF Work, AskClaim
  <2>2. k \in Key /\ Tail(s) \in Seq(Key) BY <2>1, SMT
  <2>3. w \in Work BY <1>0, <2>2 DEF Work
  <2>4. reask(b, k) BY <1>4 DEF AskClaim
  <2>5. /\ w.first = o.work.first /\ w.claims = Tail(s) /\ w.self = o.work.self
        /\ w.wake = o.work.wake /\ w.woken = o.work.woken
    BY <1>0 DEF Work
  <2> HIDE DEF w
  <2>6. b.work = w BY <1>0 DEF OwnerType
  <2> HIDE DEF b, k
  <2>7. \A j \in Key \ {k} : toAsk(o, j) => toAsk(b, j)
    <3>1. \A i \in DOMAIN s : s[i] # k => \E j \in DOMAIN Tail(s) : Tail(s)[j] = s[i]
      BY <2>1, TailClaims DEF k
    <3> QED BY <2>5, <2>6, <3>1, ZenonT(40) DEF toAsk
  <2>8. /\ Fine(b, W, life, cmds, {k}) /\ Kept(o, b, W) /\ Steady(o, b)
        /\ b.specs = o.specs /\ b.lease = o.lease /\ (k \in b.decided => k \notin Unasked(b))
    BY <2>3, <2>7, TakenOffFine DEF b
  <2> QED BY <1>0, <1>1, <2>2, <2>4, <2>8, ReaskFine
<1>5. CASE AskSelf
  <2> DEFINE k == o.work.self
             w == [o.work EXCEPT !.self = Nil]
             b == [o EXCEPT !.work = w]
  <2>1. k \in Key BY <1>0, <1>5 DEF Work, AskSelf
  <2>2. w \in Work BY <1>0 DEF Work
  <2>3. admitAndStart(b, k) BY <1>5 DEF AskSelf
  <2>4. /\ w.first = o.work.first /\ w.claims = o.work.claims
        /\ w.wake = o.work.wake /\ w.woken = o.work.woken
    BY <1>0 DEF Work
  <2> HIDE DEF w
  <2>5. b.work = w BY <1>0 DEF OwnerType
  <2> HIDE DEF b
  <2>6. \A j \in Key \ {k} : toAsk(o, j) => toAsk(b, j) BY <2>4, <2>5 DEF toAsk
  <2>7. /\ Fine(b, W, life, cmds, {k}) /\ Kept(o, b, W) /\ Steady(o, b)
        /\ b.specs = o.specs /\ b.lease = o.lease
    BY <2>2, <2>6, TakenOffFine, SMT DEF b
  <2> QED BY <1>0, <1>1, <2>1, <2>3, <2>7, AdmitAndStartFine
<1>6. CASE AskWoken
  <2>1. PICK k \in o.work.woken : reask([o EXCEPT !.work.woken = @ \ {k}], k)
    BY <1>6 DEF AskWoken
  <2> DEFINE w == [o.work EXCEPT !.woken = @ \ {k}]
             b == [o EXCEPT !.work = w]
  <2>2. k \in Key BY <1>0 DEF Work
  <2>3. w \in Work BY <1>0 DEF Work
  <2>4. reask(b, k) BY <2>1
  <2>5. /\ w.first = o.work.first /\ w.claims = o.work.claims /\ w.self = o.work.self
        /\ w.wake = o.work.wake /\ w.woken = o.work.woken \ {k}
    BY <1>0 DEF Work
  <2> HIDE DEF w
  <2>6. b.work = w BY <1>0 DEF OwnerType
  <2> HIDE DEF b
  <2>7. \A j \in Key \ {k} : toAsk(o, j) => toAsk(b, j) BY <2>5, <2>6 DEF toAsk
  <2>8. /\ Fine(b, W, life, cmds, {k}) /\ Kept(o, b, W) /\ Steady(o, b)
        /\ b.specs = o.specs /\ b.lease = o.lease /\ (k \in b.decided => k \notin Unasked(b))
    BY <2>3, <2>7, TakenOffFine DEF b
  <2> QED BY <1>0, <1>1, <2>2, <2>4, <2>8, ReaskFine
<1> QED BY <1>2, <1>3, <1>4, <1>5, <1>6 DEF FinishTurn

(***************************************************************************)
(* The command handlers.                                                   *)
(***************************************************************************)

\* More callers are accepted, more commands are on the channel.
LEMMA KeptMore ==
  ASSUME NEW b, NEW c, NEW W, NEW V, W \subseteq V, Kept(b, c, W)
  PROVE  Kept(b, c, V)
BY DEF Kept

\* More commands on their way disarm no timer.
LEMMA ArmedMore ==
  ASSUME NEW b, NEW L, NEW M, NEW N, M \subseteq N, Armed(b, L, M)
  PROVE  Armed(b, L, N)
BY DEF Armed

\* What every handler ends with.
LEMMA Concluded ==
  ASSUME NEW W, NEW U, NEW c, Fine(c, W, life, cmds', U), Kept(o, c, W), Unhurried(o, c),
         life' = life,
         \/ U = {} /\ o' = advance(c)
         \/ /\ c.work = NoWork /\ c.decided = {}
            /\ \/ o' = wakeAdmissionCandidates(c)
               \/ \E w \in Work : o' = schedule(c, w) /\ (w.wake # "none" \/ U \subseteq {w.self})
  PROVE  Stepped(W)
<1>1. Ended(o', W, life, cmds') /\ Kept(c, o', W) /\ Steady(c, o')
  <2>1. CASE U = {} /\ o' = advance(c) BY <2>1, AdvanceFine
  <2>2. CASE c.work = NoWork /\ c.decided = {} /\ o' = wakeAdmissionCandidates(c)
    BY <2>2, WakeFine
  <2>3. CASE /\ c.work = NoWork /\ c.decided = {}
             /\ \E w \in Work : o' = schedule(c, w) /\ (w.wake # "none" \/ U \subseteq {w.self})
    BY <2>3, ScheduleFine, SMT
  <2> QED BY <2>1, <2>2, <2>3
<1>2. Kept(o, o', W) BY <1>1, Twice
<1>3. Unhurried(o, o') BY <1>1, UnhurriedSteps
<1> QED BY <1>1, <1>2, <1>3 DEF Stepped

\* A request that is refused at once.
LEMMA EnsureRefusedFine ==
  ASSUME NEW W, Ready(W), NEW m, m.caller \in Caller \ W, o.reply[m.caller] = "none",
         m.key \in Key, EnsureRefused(m)
  PROVE  Stepped(W \cup {m.caller})
<1> DEFINE x == m.caller
           k == m.key
           err == ensureRefusal(k, m.flag)
           spent == burstLeftNothing(o.specs[k], k) /\ restsAtFailure(o.specs[k])
           b == IF err = "no_capacity" /\ spent THEN retire(o, k) ELSE o
           c == answer(b, {x}, err, NoLease)
<1>1. o' = advance(c) /\ err # "none" BY DEF EnsureRefused
<1>2. err \in Reply \ {"none"} BY <1>1 DEF ensureRefusal, Reply
<1> HIDE DEF err
<1>3. Fine(b, W, life, cmds', {}) /\ Kept(o, b, W) /\ Steady(o, b)
  <2>1. CASE b = o BY <2>1, Twice, SMT DEF Ready
  <2>2. CASE spent /\ b = retire(o, k)
    <3>1. o.specs[k].proc = Nil /\ o.specs[k].pending = {} BY <2>2 DEF burstLeftNothing
    <3>2. {} \ {k} = {} OBVIOUS
    <3>3. /\ Fine(retire(o, k), W, life, cmds', {} \ {k}) /\ Kept(o, retire(o, k), W)
          /\ Steady(o, retire(o, k))
      BY <3>1, DeleteFine DEF Ready
    <3> QED BY <2>2, <3>2, <3>3
  <2> QED BY <2>1, <2>2
<1> HIDE DEF b
<1>4. b.reply[x] = "none" BY <1>3 DEF Kept
<1>5. Fine(c, W \cup {x}, life, cmds', {}) /\ Kept(b, c, W \cup {x}) /\ Steady(b, c)
  BY <1>2, <1>3, <1>4, RefuseFine
<1> HIDE DEF c
<1>6. Kept(o, b, W \cup {x}) BY <1>3, KeptMore
<1>7. Kept(o, c, W \cup {x}) /\ Steady(o, c) BY <1>3, <1>5, <1>6, Twice
<1>8. Unhurried(o, c) BY <1>7, UnhurriedSteps
<1> QED BY <1>1, <1>5, <1>7, <1>8, Concluded DEF Ready

\* A request that the instance's state answers.
LEMMA EnsureAnsweredFine ==
  ASSUME NEW W, Ready(W), NEW m, m.caller \in Caller \ W, o.reply[m.caller] = "none",
         EnsureRepeatsVerdict(m) \/ EnsureBurstBusy(m)
  PROVE  Stepped(W \cup {m.caller})
<1> DEFINE x == m.caller
<1>1. PICK err \in {"not_permitted", "admission_blocked", "no_capacity"} :
        o' = advance(answer(o, {x}, err, NoLease))
  BY DEF EnsureRepeatsVerdict, EnsureBurstBusy
<1>2. err \in Reply \ {"none"} BY DEF Reply
<1> DEFINE c == answer(o, {x}, err, NoLease)
<1>3. Fine(c, W \cup {x}, life, cmds', {}) /\ Kept(o, c, W \cup {x}) /\ Steady(o, c)
  BY <1>2, RefuseFine DEF Ready
<1>4. o' = advance(c) BY <1>1
<1> HIDE DEF c
<1>5. Unhurried(o, c) BY <1>3, UnhurriedSteps
<1> QED BY <1>3, <1>4, <1>5, Concluded DEF Ready

\* failPending, where nobody but k was left to ask about.
LEMMA FailPendingNone ==
  ASSUME NEW b, NEW W, NEW L, NEW M, NEW U, Fine(b, W, L, M, U), NEW k \in Key,
         U \subseteq {k}, NEW err \in Reply \ {"none"}
  PROVE  LET c == failPending(b, k, err)
         IN  /\ Fine(c, W, L, M, {}) /\ Kept(b, c, W) /\ Steady(b, c) /\ SameTurn(b, c)
             /\ c.specs[k].pending = {}
<1> DEFINE c == failPending(b, k, err)
<1>1. /\ Fine(c, W, L, M, U \ {k}) /\ Kept(b, c, W) /\ Steady(b, c) /\ SameTurn(b, c)
      /\ c.specs[k].pending = {}
  BY FailPendingFine, ZenonT(30)
<1>2. U \ {k} = {} OBVIOUS
<1> HIDE DEF c
<1>3. Fine(c, W, L, M, {}) BY <1>1, <1>2
<1> QED BY <1>1, <1>3 DEF c

\* terminateNow, of a process nobody uses.
LEMMA TerminateIdleFine ==
  ASSUME NEW b, NEW W, NEW M, NEW U, NEW k \in Key, Fine(b, W, life, M, U),
         b.specs[k].proc # Nil, b.specs[k].inFlight = 0,
         \A m \in cmds : m.cmd = "killGraceExpired" => m \in M
  PROVE  LET c == terminateNow(b, k)
         IN  Fine(c, W, life, M, U) /\ Kept(b, c, W) /\ Steady(b, c) /\ SameTurn(b, c)
<1> DEFINE c == terminateNow(b, k)
<1>1. /\ b \in OwnerType /\ Waiting(b, W) /\ Leases(b) /\ Empties(b) /\ Homes(b, life)
      /\ Mid(b, U) /\ Armed(b, life, M)
  BY DEF Fine, Good
<1>2. /\ Fine(c, W, life, M, U) /\ Kept(b, c, W) /\ SameTurn(b, c)
      /\ b.specs[k].inFlight = 0 => Steady(b, c)
  BY <1>1, TerminateNowFine, ZenonT(30)
<1> QED BY <1>2

\* setState signals nobody.
LEMMA SetStateSilent ==
  ASSUME NEW b \in OwnerType, NEW k \in Key, NEW s \in State
  PROVE  Silent(b, setState(b, k, s))
<1> DEFINE st == [b.specs[k] EXCEPT !.state = s]
           c == [b EXCEPT !.specs[k] = st]
<1>0. b.specs[k] \in SpecState BY DEF OwnerType
<1>1. st \in SpecState BY <1>0, SpecUpdates
<1>2. st.proc = b.specs[k].proc /\ st.intentionalStop = b.specs[k].intentionalStop
  BY <1>0 DEF SpecState
<1>3. setState(b, k, s) = c BY DEF setState
<1> HIDE DEF st
<1>4. c.specs[k] = st /\ \A j \in Key \ {k} : c.specs[j] = b.specs[j] BY <1>1, SpecAt, ZenonT(40)
<1> HIDE DEF c
<1>5. ASSUME NEW j \in Key
      PROVE  c.specs[j].proc = b.specs[j].proc
             /\ (c.specs[j].intentionalStop => b.specs[j].intentionalStop)
  <2>1. CASE j = k BY <1>2, <1>4, <2>1
  <2>2. CASE j # k
    <3>1. c.specs[j] = b.specs[j] BY <1>4, <2>2
    <3> QED BY <3>1
  <2> QED BY <2>1, <2>2
<1> QED BY <1>3, <1>5 DEF Silent

\* Leases and processes that stay are accounted for as before.
LEMMA LeasesKept ==
  ASSUME NEW b, NEW c, Leases(b), c.reply = b.reply, c.lease = b.lease,
         \A j \in Key : /\ c.specs[j].proc = b.specs[j].proc
                        /\ c.specs[j].inFlight = b.specs[j].inFlight
                        /\ c.specs[j].state = "starting" => b.specs[j].state = "starting"
  PROVE  Leases(c)
<1>1. ASSUME NEW j \in Key
      PROVE  /\ c.specs[j].inFlight =
                  IF c.specs[j].proc = Nil THEN 0
                  ELSE Cardinality({y \in Caller : c.lease[y] = leaseOf(c, j)})
             /\ c.specs[j].state = "starting" => c.specs[j].inFlight = 0
  <2>1. leaseOf(c, j) = leaseOf(b, j) BY DEF leaseOf
  <2>2. {y \in Caller : c.lease[y] = leaseOf(c, j)} = {y \in Caller : b.lease[y] = leaseOf(b, j)}
    BY <2>1
  <2>3. /\ b.specs[j].inFlight =
             IF b.specs[j].proc = Nil THEN 0
             ELSE Cardinality({y \in Caller : b.lease[y] = leaseOf(b, j)})
        /\ b.specs[j].state = "starting" => b.specs[j].inFlight = 0
    BY DEF Leases
  <2> QED BY <2>2, <2>3
<1>2. \A y \in Caller : c.reply[y] = "none" => c.lease[y] = NoLease BY DEF Leases
<1> QED BY <1>1, <1>2 DEF Leases

\* A process keeps its home.
LEMMA HomesKept ==
  ASSUME NEW b, NEW c, NEW L, Homes(b, L), \A j \in Key : c.specs[j].proc = b.specs[j].proc
  PROVE  Homes(c, L)
<1>1. \A p \in Proc : L[p] # "exited" => \E k \in Key : c.specs[k].proc = p BY DEF Homes
<1>2. ASSUME NEW j \in Key, NEW k \in Key, c.specs[j].proc = c.specs[k].proc, c.specs[k].proc # Nil
      PROVE  j = k
  BY <1>2 DEF Homes
<1> QED BY <1>1, <1>2 DEF Homes

\* The lease of a process is one that nobody has who is not served.
LEMMA LeaseTypes ==
  ASSUME NEW b \in OwnerType, NEW k \in Key, b.specs[k].proc # Nil
  PROVE  leaseOf(b, k) \in Lease /\ leaseOf(b, k) # NoLease /\ leaseOf(b, k).key = k
<1> DEFINE p == b.specs[k].proc
<1>1. p \in Proc BY DEF OwnerType, SpecState
<1>2. leaseOf(b, k) = [key |-> k, proc |-> p] BY DEF leaseOf
<1> HIDE DEF p
<1>3. leaseOf(b, k) \in Lease BY <1>1, <1>2, SMT DEF Lease
<1>4. leaseOf(b, k).key = k BY <1>2, SMT
<1>5. NoLease.key = Nil /\ k # Nil BY ManagerAssumption DEF NoLease
<1> QED BY <1>3, <1>4, <1>5

\* answer answers the callers of C, and nothing else of the owner's state changes.
LEMMA AnsweredIs ==
  ASSUME NEW b \in OwnerType, NEW C \in SUBSET Caller, NEW out \in Reply, NEW l \in Lease
  PROVE  AnswerIs(b, answer(b, C, out, l), C, out, l)
BY Answered, SMT DEF AnswerIs

\* Those who are served with a lease of k are counted in, and the books stay in order.
LEMMA ServedFine ==
  ASSUME Counting, NEW b, NEW W, NEW L, NEW M, NEW U, Fine(b, W, L, M, U), NEW k \in Key,
         NEW c, NEW C, NEW A, NEW st, Served(b, c, k, C, A, st)
  PROVE  /\ Fine(c, W \cup C, L, M, U) /\ Kept(b, c, W \cup C) /\ Unhurried(b, c)
         /\ SameTurn(b, c)
<1> DEFINE l == leaseOf(b, k)
           a == answer(b, C, "ok", l)
           d == At(a, k, st)
<1>0. /\ b \in OwnerType /\ b.specs \in [Key -> SpecState] /\ b.armed \in SUBSET Timer
      /\ \A j \in Key : b.specs[j].pending \subseteq Caller
  BY DEF Fine, Good, OwnerType, SpecState
<1>h. /\ b.specs[k].proc # Nil /\ b.specs[k].state # "starting"
      /\ C \in SUBSET Caller /\ \A x \in C : b.reply[x] = "none"
      /\ \A j \in Key \ {k} : b.specs[j].pending \ C = b.specs[j].pending
      /\ A \subseteq b.armed /\ \A m \in b.armed : m.cmd # "waiterTimeout" => m \in A
      /\ st \in SpecState
  BY DEF Served
<1>i. /\ st.pending = b.specs[k].pending \ C
      /\ st.proc = b.specs[k].proc /\ st.state = b.specs[k].state /\ st.spec = b.specs[k].spec
      /\ st.intentionalStop = b.specs[k].intentionalStop
      /\ st.inFlight = b.specs[k].inFlight + Cardinality(C)
  BY DEF Served
<1>1. l \in Lease /\ l # NoLease /\ l.key = k /\ "ok" \in Reply
  BY <1>0, <1>h, LeaseTypes DEF Reply
<1>2. /\ a \in OwnerType
      /\ \A x \in Caller : /\ a.reply[x] = IF x \in C THEN "ok" ELSE b.reply[x]
                           /\ a.lease[x] = IF x \in C THEN l ELSE b.lease[x]
      /\ a.specs = b.specs /\ a.armed = b.armed /\ a.work = b.work
      /\ a.decided = b.decided /\ a.stopped = b.stopped /\ a.closing = b.closing
  <2>1. b \in OwnerType /\ C \in SUBSET Caller /\ l \in Lease /\ "ok" \in Reply
    BY <1>0, <1>1, <1>h
  <2> HIDE DEF l
  <2>2. AnswerIs(b, a, C, "ok", l) BY <2>1, AnsweredIs
  <2> HIDE DEF a
  <2> QED BY <2>2 DEF AnswerIs
<1> HIDE DEF a
<1>3. /\ d \in OwnerType
      /\ d.specs[k] = st /\ \A j \in Key \ {k} : d.specs[j] = b.specs[j]
      /\ d.reply = a.reply /\ d.lease = a.lease
      /\ d.work = b.work /\ d.decided = b.decided /\ d.stopped = b.stopped
      /\ d.closing = b.closing
  BY <1>2, <1>h, SpecAt, SMT DEF At
<1>4. c = [d EXCEPT !.armed = A] BY DEF a, Served
<1> HIDE DEF d
<1>5. /\ c \in OwnerType /\ c.specs = d.specs /\ c.reply = d.reply /\ c.lease = d.lease
      /\ c.armed = A /\ c.work = d.work /\ c.decided = d.decided /\ c.stopped = d.stopped
      /\ c.closing = d.closing
  <2>1. A \in SUBSET Timer BY <1>0, <1>h
  <2>2. c \in OwnerType BY <1>3, <1>4, <2>1, FieldTypes
  <2> QED BY <1>3, <1>4, <2>2 DEF OwnerType
<1>6. \A j \in Key : /\ c.specs[j].pending = b.specs[j].pending \ C
                     /\ c.specs[j].state = b.specs[j].state
                     /\ c.specs[j].proc = b.specs[j].proc
                     /\ c.specs[j].spec = b.specs[j].spec
                     /\ c.specs[j].intentionalStop = b.specs[j].intentionalStop
  <2> SUFFICES ASSUME NEW j \in Key
               PROVE  /\ c.specs[j].pending = b.specs[j].pending \ C
                      /\ c.specs[j].state = b.specs[j].state
                      /\ c.specs[j].proc = b.specs[j].proc
                      /\ c.specs[j].spec = b.specs[j].spec
                      /\ c.specs[j].intentionalStop = b.specs[j].intentionalStop
    OBVIOUS
  <2>1. CASE j = k
    <3>1. c.specs[k] = st BY <1>3, <1>5
    <3> QED BY <1>i, <2>1, <3>1
  <2>2. CASE j # k
    <3>1. c.specs[j] = b.specs[j] BY <1>3, <1>5, <2>2
    <3>2. b.specs[j].pending \ C = b.specs[j].pending BY <1>h, <2>2
    <3> QED BY <3>1, <3>2
  <2> QED BY <2>1, <2>2
<1>7. \A x \in Caller : /\ c.reply[x] = IF x \in C THEN "ok" ELSE b.reply[x]
                        /\ c.lease[x] = IF x \in C THEN l ELSE b.lease[x]
  BY <1>2, <1>3, <1>5, SMT
<1>8. Waiting(c, W \cup C)
  <2>1. ASSUME NEW j \in Key, NEW x \in c.specs[j].pending
        PROVE  x \in W \cup C /\ c.reply[x] = "none"
    <3>1. x \in Caller /\ x \in b.specs[j].pending /\ x \notin C BY <1>0, <1>6
    <3> QED BY <1>7, <3>1 DEF Fine, Good, Waiting
  <2>2. ASSUME NEW x \in W \cup C, c.reply[x] = "none"
        PROVE  \E j \in Key : x \in c.specs[j].pending
    <3>1. W \subseteq Caller BY DEF Fine, Good, Waiting
    <3>2. x \notin C /\ x \in W /\ x \in Caller BY <1>7, <1>h, <2>2, <3>1
    <3>3. b.reply[x] = "none" BY <1>7, <2>2, <3>2
    <3>4. PICK j \in Key : x \in b.specs[j].pending BY <3>2, <3>3 DEF Fine, Good, Waiting
    <3> QED BY <1>6, <3>2, <3>4
  <2>3. \A i, j \in Key : \A x \in c.specs[i].pending : x \in c.specs[j].pending => i = j
    BY <1>6, SMT DEF Fine, Good, Waiting
  <2>4. W \cup C \subseteq Caller BY <1>h DEF Fine, Good, Waiting
  <2> QED BY <2>1, <2>2, <2>3, <2>4 DEF Waiting
<1>9. Leases(c)
  <2>1. \A x \in C : b.lease[x] = NoLease BY <1>h DEF Fine, Good, Leases
  <2>2. \A x \in Caller : c.reply[x] = "none" => c.lease[x] = NoLease
    BY <1>7, <2>1 DEF Fine, Good, Leases
  <2>3. ASSUME NEW j \in Key
        PROVE  c.specs[j].inFlight =
                 IF c.specs[j].proc = Nil THEN 0
                 ELSE Cardinality({x \in Caller : c.lease[x] = leaseOf(c, j)})
    <3> DEFINE S == {x \in Caller : b.lease[x] = leaseOf(b, j)}
               T == {x \in Caller : c.lease[x] = leaseOf(c, j)}
    <3>1. leaseOf(c, j) = leaseOf(b, j) BY <1>6 DEF leaseOf
    <3>2. b.specs[j].inFlight = IF b.specs[j].proc = Nil THEN 0 ELSE Cardinality(S)
      BY DEF Fine, Good, Leases
    <3>3. CASE j = k
      <4>1. T = S \cup C BY <1>7, <1>h, <3>1, <3>3
      <4>2. S \cap C = {} BY <1>1, <2>1, <3>3
      <4>3. S \in SUBSET Caller /\ C \in SUBSET Caller BY <1>h
      <4> HIDE DEF S, T
      <4>7. Cardinality(T) = Cardinality(S) + Cardinality(C) BY <4>1, <4>2, <4>3 DEF Counting
      <4>8. c.specs[k].inFlight = b.specs[k].inFlight + Cardinality(C) BY <1>3, <1>5, <1>i
      <4> QED BY <1>6, <1>h, <3>2, <3>3, <4>7, <4>8 DEF T
    <3>4. CASE j # k
      <4>1. c.specs[j].inFlight = b.specs[j].inFlight /\ c.specs[j].proc = b.specs[j].proc
        BY <1>3, <1>5, <3>4
      <4>2. b.specs[j].proc # Nil => l # leaseOf(b, j) /\ NoLease # leaseOf(b, j)
        BY <1>0, <1>1, <3>4, LeaseTypes
      <4>3. b.specs[j].proc # Nil => T = S
        <5> HIDE DEF l
        <5> QED BY <1>7, <2>1, <3>1, <4>2
      <4> QED BY <3>2, <4>1, <4>3
    <3> QED BY <3>3, <3>4
  <2>4. \A j \in Key : c.specs[j].state = "starting" => c.specs[j].inFlight = 0
    <3> SUFFICES ASSUME NEW j \in Key, c.specs[j].state = "starting"
                 PROVE  c.specs[j].inFlight = 0
      OBVIOUS
    <3>1. b.specs[j].state = "starting" /\ j # k BY <1>6, <1>h
    <3>2. c.specs[j] = b.specs[j] BY <1>3, <1>5, <3>1
    <3> QED BY <3>1, <3>2 DEF Fine, Good, Leases
  <2> QED BY <2>2, <2>3, <2>4 DEF Leases
<1>10. Empties(c) BY <1>6 DEF Fine, Good, Empties
<1>11. Homes(c, L) BY <1>6, HomesKept, SMT DEF Fine, Good
<1>12. Armed(c, L, M)
  <2>1. TimersKept(b, c) BY <1>5, <1>6, <1>h DEF TimersKept
  <2> QED BY <1>0, <1>6, <2>1, ArmedKept DEF Fine, Good
<1>13. Mid(c, U)
  <2>1. \A j \in Key : burst(c.specs[j], j) = burst(b.specs[j], j) BY <1>6 DEF burst
  <2>2. Unasked(c) \subseteq Unasked(b) BY <1>6, <2>1 DEF Unasked
  <2>3. \A j : toAsk(c, j) = toAsk(b, j) BY <1>3, <1>5, SMT DEF toAsk
  <2> QED BY <1>3, <1>5, <1>6, <2>1, <2>2, <2>3, SMT DEF Fine, Mid
<1>14. Kept(b, c, W \cup C)
  <2> SUFFICES ASSUME NEW x \in Caller, x \notin W \cup C \/ b.reply[x] # "none"
               PROVE  c.reply[x] = b.reply[x] /\ c.lease[x] = b.lease[x]
    BY DEF Kept
  <2>1. x \notin C BY <1>h
  <2> QED BY <1>7, <2>1
<1>15. Unhurried(b, c) BY <1>6 DEF Unhurried
<1>16. SameTurn(b, c) BY <1>3, <1>5 DEF SameTurn
<1> QED BY <1>5, <1>8, <1>9, <1>10, <1>11, <1>12, <1>13, <1>14, <1>15, <1>16 DEF Fine, Good

\* A request for a running instance gets its lease at once.
LEMMA EnsureServedFine ==
  ASSUME Counting, NEW W, Ready(W), NEW m, m.caller \in Caller \ W, o.reply[m.caller] = "none",
         m.key \in Key, EnsureServed(m)
  PROVE  Stepped(W \cup {m.caller})
<1> DEFINE x == m.caller
           k == m.key
           a == answer(o, {x}, "ok", leaseOf(o, k))
           st == [o.specs[k] EXCEPT !.inFlight = @ + 1]
           c == [a EXCEPT !.specs[k].inFlight = @ + 1]
           d == touch(c, k)
<1>1. /\ o' = advance(d) /\ o.specs[k].proc # Nil /\ o.specs[k].state = "running"
  BY DEF EnsureServed
<1>2. /\ o \in OwnerType /\ o.specs[k] \in SpecState /\ Fine(o, W, life, cmds', {})
      /\ o.specs[k].inFlight \in Nat
  BY DEF Ready, Fine, Good, OwnerType, SpecState
<1>3. st \in SpecState
  <2>1. o.specs[k].inFlight + 1 \in Nat BY <1>2, SMT
  <2> QED BY <1>2, <2>1, SpecUpdates
<1>4. /\ st.pending = o.specs[k].pending /\ st.proc = o.specs[k].proc
      /\ st.state = o.specs[k].state /\ st.spec = o.specs[k].spec
      /\ st.intentionalStop = o.specs[k].intentionalStop
      /\ st.inFlight = o.specs[k].inFlight + 1
  BY <1>2 DEF SpecState
<1>5. a \in OwnerType /\ a.specs = o.specs /\ a.armed = o.armed
  <2> DEFINE C == {x}
             l == leaseOf(o, k)
  <2>1. l \in Lease /\ "ok" \in Reply BY <1>1, <1>2, LeaseTypes DEF Reply
  <2>2. C \in SUBSET Caller OBVIOUS
  <2> HIDE DEF C, l
  <2>3. AnswerIs(o, answer(o, C, "ok", l), C, "ok", l) BY <1>2, <2>1, <2>2, AnsweredIs
  <2>4. a = answer(o, C, "ok", l) BY DEF C, l
  <2> HIDE DEF a
  <2> QED BY <2>3, <2>4 DEF AnswerIs
<1>6. c = [At(a, k, st) EXCEPT !.armed = o.armed]
  <2> HIDE DEF a
  <2>1. c = [a EXCEPT !.specs[k] = st] BY <1>5
  <2> HIDE DEF st, c
  <2> QED BY <1>5, <2>1 DEF OwnerType, At
<1>7. \A j \in Key : o.specs[j].pending \ {x} = o.specs[j].pending
  BY <1>2, SMT DEF Fine, Good, Waiting
<1>8. Cardinality({x}) = 1 BY DEF Counting
<1> HIDE DEF st, c
<1>9. /\ Fine(c, W \cup {x}, life, cmds', {}) /\ Kept(o, c, W \cup {x}) /\ Unhurried(o, c)
  <2>1. {x} \in SUBSET Caller /\ \A y \in {x} : o.reply[y] = "none" OBVIOUS
  <2>2. o.specs[k].state # "starting" BY <1>1
  <2>3. st.pending = o.specs[k].pending \ {x} /\ st.inFlight = o.specs[k].inFlight + Cardinality({x})
    BY <1>4, <1>7, <1>8
  <2>4. o.armed \subseteq o.armed /\ \A t \in o.armed : t.cmd # "waiterTimeout" => t \in o.armed
    OBVIOUS
  <2> HIDE DEF x, k
  <2>5. Served(o, c, k, {x}, o.armed, st)
    BY <1>1, <1>3, <1>4, <1>6, <1>7, <2>1, <2>2, <2>3, <2>4 DEF Served
  <2> QED BY <1>2, <2>5, ServedFine DEF k
<1>10. Fine(d, W \cup {x}, life, cmds', {}) /\ Kept(c, d, W \cup {x}) /\ Steady(c, d)
  BY <1>9, TouchFine
<1> HIDE DEF d
<1>11. Kept(o, d, W \cup {x}) BY <1>9, <1>10, Twice
<1>12. Unhurried(o, d) BY <1>9, <1>10, UnhurriedSteps
<1> QED BY <1>1, <1>10, <1>11, <1>12, Concluded DEF Ready

\* A state is made for an instance that has none.
LEMMA FreshFine ==
  ASSUME NEW b, NEW W, NEW L, NEW M, NEW U, Fine(b, W, L, M, U), NEW k \in Key,
         b.specs[k].state = "absent", NEW s \in SpecType
  PROVE  LET c == [b EXCEPT !.specs[k] = fresh(s)]
         IN  /\ Fine(c, W, L, M, U) /\ Kept(b, c, W) /\ Steady(b, c) /\ SameTurn(b, c)
             /\ c.specs[k].state = "stopped" /\ c.closing = b.closing
<1> DEFINE st == fresh(s)
           c == [b EXCEPT !.specs[k] = st]
<1>0. b \in OwnerType BY DEF Fine, Good
<1>1. st \in SpecState BY FreshType
<1>2. /\ st.pending = {} /\ st.proc = Nil /\ st.inFlight = 0 /\ st.state = "stopped"
      /\ ~st.intentionalStop
  BY DEF fresh, absent
<1>3. b.specs[k].pending = {} /\ b.specs[k].proc = Nil /\ b.specs[k].inFlight = 0
  BY DEF Fine, Good, Empties, Leases
<1> HIDE DEF st
<1>4. /\ c \in OwnerType
      /\ c.specs[k] = st /\ \A j \in Key \ {k} : c.specs[j] = b.specs[j]
      /\ c.reply = b.reply /\ c.lease = b.lease /\ c.armed = b.armed
      /\ c.work = b.work /\ c.decided = b.decided /\ c.stopped = b.stopped
      /\ c.closing = b.closing
  BY <1>0, <1>1, SpecAt, SMT
<1> HIDE DEF c
<1>5. Change(b, c, {})
  <2>1. \A j \in Key : b.specs[j].pending \ {} = b.specs[j].pending OBVIOUS
  <2> QED BY <1>2, <1>3, <1>4, <2>1, ZenonT(40) DEF Change
<1>6. BurstsKept(b, c) BY <1>2, <1>4 DEF BurstsKept
<1>7. SameTurn(b, c) /\ Steady(b, c) BY <1>2, <1>3, <1>4 DEF SameTurn, Steady
<1>8. TimersKept(b, c) BY <1>2, <1>4 DEF TimersKept
<1>9. \A j \in Key : c.specs[j].proc = b.specs[j].proc BY <1>5 DEF Change
<1>10. Armed(c, L, M) BY <1>0, <1>8, <1>9, ArmedKept DEF Fine, Good
<1>11. W \cup {} = W OBVIOUS
<1>12. Fine(c, W, L, M, U) /\ Kept(b, c, W)
  <2>1. Fine(c, W \cup {}, L, M, U) /\ Kept(b, c, W \cup {})
    BY <1>5, <1>6, <1>7, <1>10, ChangeFine, ZenonT(30)
  <2> QED BY <1>11, <2>1
<1> QED BY <1>2, <1>4, <1>7, <1>12 DEF c, st

\* A request makes the state of a burst instance anew when its last start failed.  Nobody
\* waited on it: between two turns nobody does.
LEMMA InstanceForRequestFine ==
  ASSUME NEW W, Ready(W), NEW k \in Key, exists(o, <<k[1], 0>>)
  PROVE  LET b == instanceForRequest(o, k)
         IN  /\ Fine(b, W, life, cmds', {}) /\ Kept(o, b, W) /\ Steady(o, b) /\ SameTurn(o, b)
             /\ b.specs[k].state # "absent" /\ b.closing = o.closing
<1> DEFINE st == o.specs[k]
           spent == /\ burst(st, k) /\ st.proc = Nil
                    /\ st.state \in {"crashed", "start_failed"}
           c == IF spent THEN retire(o, k) ELSE o
           s == o.specs[<<k[1], 0>>].spec
           d == [c EXCEPT !.specs[k] = fresh(s)]
<1>0. Fine(o, W, life, cmds', {}) /\ o.work = NoWork /\ o \in OwnerType BY DEF Ready, Fine, Good
<1>1. instanceForRequest(o, k) = IF k[2] = 0 \/ exists(c, k) THEN o ELSE d
  BY DEF instanceForRequest
<1>2. <<k[1], 0>> \in Key BY ManagerAssumption DEF Key
<1>3. s \in SpecType BY <1>0, <1>2 DEF OwnerType, SpecState
<1>4. CASE k[2] = 0
  <2>1. k = <<k[1], 0>> BY <1>4, SMT DEF Key
  <2>2. o.specs[k].state # "absent" BY <2>1 DEF exists
  <2> QED BY <1>0, <1>1, <1>4, <2>2, Twice, SMT
<1>5. CASE k[2] # 0 /\ ~spent
  <2>1. c = o BY <1>5
  <2>2. CASE exists(o, k)
    <3>1. instanceForRequest(o, k) = o BY <1>1, <2>1, <2>2
    <3>2. o.specs[k].state # "absent" BY <2>2 DEF exists
    <3> QED BY <1>0, <3>1, <3>2, Twice
  <2>3. CASE ~exists(o, k)
    <3>1. instanceForRequest(o, k) = [o EXCEPT !.specs[k] = fresh(s)]
      BY <1>1, <1>5, <2>1, <2>3
    <3>2. o.specs[k].state = "absent" BY <2>3 DEF exists
    <3> HIDE DEF s
    <3> QED BY <1>0, <1>3, <3>1, <3>2, FreshFine, SMT
  <2> QED BY <2>2, <2>3
<1>6. CASE k[2] # 0 /\ spent
  <2> DEFINE e == retire(o, k)
  <2>1. k[2] > 0
    <3>1. k[2] \in Nat BY ManagerAssumption DEF Key
    <3> QED BY <1>6, <3>1, SMT
  <2>2. Unasked(o) \subseteq {} BY <1>0, NothingUnasked DEF Fine
  <2>3. o.specs[k].pending = {} BY <1>6, <2>1, <2>2 DEF Unasked
  <2>4. {} \ {k} = {} OBVIOUS
  <2>5. /\ Fine(e, W, life, cmds', {}) /\ Kept(o, e, W) /\ Steady(o, e) /\ SameTurn(o, e)
        /\ e.specs[k] = absent /\ e.closing = o.closing
    BY <1>0, <1>6, <2>3, <2>4, DeleteFine, SMT
  <2>6. e.specs[k].state = "absent" BY <2>5, SMT DEF absent
  <2>7. c = e BY <1>6
  <2>8. instanceForRequest(o, k) = [e EXCEPT !.specs[k] = fresh(s)]
    BY <1>1, <1>6, <2>6, <2>7 DEF exists
  <2> DEFINE f == [e EXCEPT !.specs[k] = fresh(s)]
  <2> HIDE DEF e, s
  <2>9. /\ Fine(f, W, life, cmds', {}) /\ Kept(e, f, W) /\ Steady(e, f) /\ SameTurn(e, f)
        /\ f.specs[k].state = "stopped" /\ f.closing = e.closing
    BY <1>3, <2>5, <2>6, FreshFine, ZenonT(40)
  <2> HIDE DEF f
  <2>10. Kept(o, f, W) /\ Steady(o, f) /\ SameTurn(o, f) BY <2>5, <2>9, Twice
  <2> QED BY <2>5, <2>8, <2>9, <2>10 DEF f
<1> QED BY <1>4, <1>5, <1>6

\* An accepted caller is queued, and k has to be asked for.
LEMMA EnqueueFine ==
  ASSUME NEW b, NEW W, NEW L, NEW M, Fine(b, W, L, M, {}), NEW k \in Key, NEW x \in Caller \ W,
         b.reply[x] = "none", b.specs[k].state # "absent", ~b.closing
  PROVE  LET c == enqueue(b, k, x)
         IN  /\ Fine(c, W \cup {x}, L, M, {k}) /\ Kept(b, c, W \cup {x}) /\ Steady(b, c)
             /\ SameTurn(b, c)
<1> DEFINE t == cmdWaiterTimeout(k, x)
           A == IF b.specs[k].spec.waitTimeout THEN b.armed \cup {t} ELSE b.armed
           Q == b.ahead \cup ((UNION {b.specs[j].pending : j \in Key}) \X {x})
           P == b.specs[k].pending \cup {x}
           st == [b.specs[k] EXCEPT !.pending = P]
           d == [b EXCEPT !.specs[k] = st]
           e == [d EXCEPT !.ahead = Q]
           c == [e EXCEPT !.armed = A]
<1>0. /\ b \in OwnerType /\ b.specs \in [Key -> SpecState] /\ b.armed \in SUBSET Timer
      /\ b.specs[k] \in SpecState /\ b.ahead \in SUBSET (Caller \X Caller)
      /\ \A j \in Key : b.specs[j].pending \in SUBSET Caller
  BY DEF Fine, Good, OwnerType, SpecState
<1>1. enqueue(b, k, x) = c BY <1>0 DEF enqueue, OwnerType
<1>2. A \in SUBSET Timer /\ b.armed \subseteq A BY <1>0, WaiterTimer
<1>3. Q \in SUBSET (Caller \X Caller)
  <2>1. UNION {b.specs[j].pending : j \in Key} \subseteq Caller BY <1>0
  <2> QED BY <1>0, <2>1
<1>4. P \in SUBSET Caller BY <1>0
<1> HIDE DEF A, Q, P
<1>5. st \in SpecState BY <1>0, <1>4, SpecUpdates
<1>6. /\ st.pending = P /\ st.proc = b.specs[k].proc /\ st.inFlight = b.specs[k].inFlight
      /\ st.state = b.specs[k].state /\ st.spec = b.specs[k].spec
      /\ st.intentionalStop = b.specs[k].intentionalStop
  BY <1>0 DEF SpecState
<1> HIDE DEF st
<1>7. /\ d \in OwnerType
      /\ d.specs[k] = st /\ \A j \in Key \ {k} : d.specs[j] = b.specs[j]
      /\ d.reply = b.reply /\ d.lease = b.lease /\ d.armed = b.armed
      /\ d.work = b.work /\ d.decided = b.decided /\ d.stopped = b.stopped
      /\ d.closing = b.closing
  BY <1>0, <1>5, SpecAt, SMT
<1> HIDE DEF d
<1>8. e \in OwnerType BY <1>3, <1>7 DEF OwnerType
<1>9. /\ c \in OwnerType /\ c.specs = d.specs /\ c.reply = b.reply /\ c.lease = b.lease
      /\ c.armed = A /\ c.work = b.work /\ c.decided = b.decided /\ c.stopped = b.stopped
      /\ c.closing = b.closing
  <2>1. c \in OwnerType BY <1>2, <1>8, FieldTypes
  <2> QED BY <1>7, <1>8, <2>1 DEF OwnerType
<1> HIDE DEF c, e
<1>10. \A j \in Key : /\ c.specs[j].pending = IF j = k THEN b.specs[j].pending \cup {x}
                                              ELSE b.specs[j].pending
                      /\ c.specs[j].state = b.specs[j].state
                      /\ c.specs[j].proc = b.specs[j].proc
                      /\ c.specs[j].inFlight = b.specs[j].inFlight
                      /\ c.specs[j].spec = b.specs[j].spec
                      /\ c.specs[j].intentionalStop = b.specs[j].intentionalStop
  BY <1>6, <1>7, <1>9 DEF P
<1>11. Waiting(c, W \cup {x})
  <2>1. \A j \in Key : x \notin b.specs[j].pending BY DEF Fine, Good, Waiting
  <2>2. \A j \in Key : \A y \in c.specs[j].pending : y \in W \cup {x} /\ c.reply[y] = "none"
    <3> SUFFICES ASSUME NEW j \in Key, NEW y \in c.specs[j].pending
                 PROVE  y \in W \cup {x} /\ c.reply[y] = "none"
      OBVIOUS
    <3>1. y = x \/ y \in b.specs[j].pending BY <1>10
    <3>2. y \in b.specs[j].pending => y \in W /\ b.reply[y] = "none"
      BY DEF Fine, Good, Waiting
    <3> QED BY <1>9, <3>1, <3>2
  <2>3. \A y \in W \cup {x} : c.reply[y] = "none" => \E j \in Key : y \in c.specs[j].pending
    <3> SUFFICES ASSUME NEW y \in W \cup {x}, c.reply[y] = "none"
                 PROVE  \E j \in Key : y \in c.specs[j].pending
      OBVIOUS
    <3>1. CASE y = x BY <1>10, <3>1
    <3>2. CASE y \in W
      <4>1. PICK j \in Key : y \in b.specs[j].pending BY <1>9, <3>2 DEF Fine, Good, Waiting
      <4> QED BY <1>10, <4>1
    <3> QED BY <3>1, <3>2
  <2>4. \A i, j \in Key : \A y \in c.specs[i].pending : y \in c.specs[j].pending => i = j
    <3> SUFFICES ASSUME NEW i \in Key, NEW j \in Key,
                        NEW y \in c.specs[i].pending, y \in c.specs[j].pending
                 PROVE  i = j
      OBVIOUS
    <3>1. CASE y = x
      <4>1. i = k BY <1>10, <2>1, <3>1
      <4>2. j = k BY <1>10, <2>1, <3>1
      <4> QED BY <4>1, <4>2
    <3>2. CASE y # x
      <4>1. y \in b.specs[i].pending /\ y \in b.specs[j].pending BY <1>10, <3>2, ZenonT(40)
      <4> QED BY <4>1 DEF Fine, Good, Waiting
    <3> QED BY <3>1, <3>2
  <2>5. W \cup {x} \subseteq Caller BY DEF Fine, Good, Waiting
  <2> QED BY <2>2, <2>3, <2>4, <2>5 DEF Waiting
<1>12. Leases(c) BY <1>9, <1>10, LeasesKept, ZenonT(40) DEF Fine, Good
<1>13. Empties(c) BY <1>10, ZenonT(40) DEF Fine, Good, Empties
<1>14. Homes(c, L)
  <2>1. Homes(b, L) BY DEF Fine, Good
  <2>2. \A j \in Key : c.specs[j].proc = b.specs[j].proc BY <1>10
  <2> QED BY <2>1, <2>2, HomesKept
<1>15. Armed(c, L, M)
  <2>1. TimersKept(b, c) BY <1>2, <1>9, <1>10 DEF TimersKept
  <2> QED BY <1>0, <1>10, <2>1, ArmedKept DEF Fine, Good
<1>16. Mid(c, {k})
  <2>1. \A j \in Key : burst(c.specs[j], j) = burst(b.specs[j], j) BY <1>10 DEF burst
  <2>2. Unasked(c) \ {k} \subseteq Unasked(b) BY <1>10, <2>1 DEF Unasked
  <2>3. \A j : toAsk(c, j) = toAsk(b, j) BY <1>9 DEF toAsk
  <2> QED BY <1>9, <1>10, <2>1, <2>2, <2>3, ZenonT(40) DEF Fine, Mid
<1>17. Kept(b, c, W \cup {x}) BY <1>9 DEF Kept
<1>18. Steady(b, c) /\ SameTurn(b, c) BY <1>9, <1>10 DEF Steady, SameTurn
<1> QED BY <1>1, <1>9, <1>11, <1>12, <1>13, <1>14, <1>15, <1>16, <1>17, <1>18 DEF Fine, Good

\* A request that has to wait.
LEMMA EnsureQueuedFine ==
  ASSUME NEW W, Ready(W), NEW m, m.caller \in Caller \ W, o.reply[m.caller] = "none",
         m.key \in Key, EnsureQueued(m)
  PROVE  Stepped(W \cup {m.caller})
<1> DEFINE x == m.caller
           k == m.key
           b == instanceForRequest(o, k)
           c == enqueue(b, k, x)
           w == [NoWork EXCEPT !.self = k]
<1>1. o' = schedule(c, w) /\ ensureRefusal(k, m.flag) = "none" BY DEF EnsureQueued
<1>2. ~o.closing /\ exists(o, <<k[1], 0>>)
  BY <1>1 DEF ensureRefusal, resolveAddress
<1>3. /\ Fine(b, W, life, cmds', {}) /\ Kept(o, b, W) /\ Steady(o, b) /\ SameTurn(o, b)
      /\ b.specs[k].state # "absent" /\ b.closing = o.closing
  BY <1>2, InstanceForRequestFine
<1> HIDE DEF b
<1>4. b.reply[x] = "none" BY <1>3 DEF Kept
<1>5. /\ Fine(c, W \cup {x}, life, cmds', {k}) /\ Kept(b, c, W \cup {x}) /\ Steady(b, c)
      /\ SameTurn(b, c)
  BY <1>2, <1>3, <1>4, EnqueueFine
<1> HIDE DEF c
<1>6. Kept(o, b, W \cup {x}) BY <1>3, KeptMore
<1>7. Kept(o, c, W \cup {x}) /\ Steady(o, c) /\ SameTurn(o, c) BY <1>3, <1>5, <1>6, Twice
<1>8. Unhurried(o, c) BY <1>7, UnhurriedSteps
<1>9. c.work = NoWork /\ c.decided = {} BY <1>7 DEF SameTurn, Ready
<1>10. w \in Work /\ w.self = k
  <2>1. w \in Work BY WorkTypes
  <2> QED BY <2>1 DEF NoWork
<1> HIDE DEF w
<1>11. {k} \subseteq {w.self} BY <1>10
<1> QED BY <1>1, <1>5, <1>7, <1>8, <1>9, <1>10, <1>11, Concluded DEF Ready

\* A caller gives up, or has waited too long.
LEMMA CancelFine ==
  ASSUME NEW W, Ready(W), NEW m, m.key \in Key \/ CancelEnsure(m), m.caller \in Caller,
         CancelEnsure(m) \/ WaiterTimeout(m)
  PROVE  Stepped(W)
<1>0. Fine(o, W, life, cmds', {}) /\ life' = life BY DEF Ready
<1>1. \/ o' = advance(o)
      \/ \E k \in Key, out \in {"canceled", "admission_blocked"} :
           /\ m.caller \in o.specs[k].pending
           /\ \E c \in Dequeued(o, k, m.caller, out) : o' = advance(c)
  BY DEF CancelEnsure, WaiterTimeout, Dequeued
<1>2. CASE o' = advance(o)
  <2>1. Kept(o, o, W) /\ Unhurried(o, o) BY Twice, UnhurriedSteps
  <2> QED BY <1>0, <1>2, <2>1, Concluded
<1>3. ASSUME NEW k \in Key, NEW out \in {"canceled", "admission_blocked"}, m.caller \in o.specs[k].pending,
             NEW c \in Dequeued(o, k, m.caller, out),
             o' = advance(c)
      PROVE  Stepped(W)
  <2>1. out \in Reply \ {"none"} BY DEF Reply
  <2>2. Fine(c, W, life, cmds', {}) /\ Kept(o, c, W) /\ Steady(o, c)
    BY <1>0, <1>3, <2>1, DequeueFine
  <2>3. Unhurried(o, c) BY <2>2, UnhurriedSteps
  <2> QED BY <1>0, <1>3, <2>2, <2>3, Concluded
<1> QED BY <1>1, <1>2, <1>3

\* The books are in order after that.
LEMMA LeaseEndsFine ==
  ASSUME Counting, NEW b, NEW W, NEW L, NEW M, NEW U, Fine(b, W, L, M, U), NEW x \in Caller,
         NEW k \in Key, NEW p \in Proc, NEW c, LeaseEnds(b, c, x, k, p)
  PROVE  Fine(c, W, L, M, U) /\ Unhurried(b, c) /\ SameTurn(b, c)
<1> USE DEF LeaseEnds
<1> DEFINE l == [key |-> k, proc |-> p]
<1>0. b \in OwnerType /\ b.lease \in [Caller -> Lease] /\ NoLease \in Lease
  BY DEF Fine, Good, OwnerType, Lease
<1>1. \A y \in Caller : c.lease[y] = IF y = x THEN NoLease ELSE b.lease[y] BY <1>0
<1>2. l # NoLease
  <2>1. NoLease.key = Nil /\ k # Nil /\ l.key = k BY ManagerAssumption DEF NoLease
  <2> QED BY <2>1
<1>3. \A j \in Key : leaseOf(c, j) = leaseOf(b, j) /\ leaseOf(b, j).key = j
                       /\ leaseOf(b, j).proc = b.specs[j].proc
  BY DEF leaseOf
<1>4. l.key = k /\ l.proc = p OBVIOUS
<1>5. b.specs[k].proc = p => leaseOf(b, k) = l BY DEF leaseOf
<1> HIDE DEF l
<1>6. b.lease[x] = l BY DEF l
<1>7. Leases(c)
  <2>1. \A y \in Caller : c.reply[y] = "none" => c.lease[y] = NoLease
    BY <1>1, SMT DEF Fine, Good, Leases
  <2>2. ASSUME NEW j \in Key
        PROVE  c.specs[j].inFlight =
                 IF c.specs[j].proc = Nil THEN 0
                 ELSE Cardinality({y \in Caller : c.lease[y] = leaseOf(c, j)})
    <3> DEFINE S == {y \in Caller : b.lease[y] = leaseOf(b, j)}
               T == {y \in Caller : c.lease[y] = leaseOf(c, j)}
    <3>1. b.specs[j].inFlight = IF b.specs[j].proc = Nil THEN 0 ELSE Cardinality(S)
      BY DEF Fine, Good, Leases
    <3>2. c.specs[j].proc = b.specs[j].proc OBVIOUS
    <3>3. leaseOf(b, j) # NoLease \/ b.specs[j].proc = Nil BY <1>0, LeaseTypes
    <3>4. CASE j = k /\ b.specs[k].proc = p
      <4>1. p # Nil BY ManagerAssumption
      <4>2. T = S \ {x} /\ x \in S BY <1>1, <1>2, <1>3, <1>5, <1>6, <3>4, SMT
      <4>3. S \in SUBSET Caller OBVIOUS
      <4> HIDE DEF S, T
      <4>4. Cardinality(T) = Cardinality(S) - 1 BY <4>2, <4>3 DEF Counting
      <4>5. c.specs[j].inFlight = b.specs[j].inFlight - 1 BY <3>4
      <4> QED BY <3>1, <3>2, <3>4, <4>1, <4>4, <4>5 DEF T
    <3>5. CASE ~(j = k /\ b.specs[k].proc = p)
      <4>1. leaseOf(b, j) # l BY <1>3, <1>4, <3>5, SMT
      <4>2. b.specs[j].proc # Nil => T = S BY <1>1, <1>3, <1>6, <3>3, <4>1, SMT
      <4>3. c.specs[j].inFlight = b.specs[j].inFlight BY <3>5
      <4> HIDE DEF S, T
      <4> QED BY <3>1, <3>2, <4>2, <4>3 DEF T
    <3> QED BY <3>4, <3>5
  <2>3. \A j \in Key : c.specs[j].state = "starting" => c.specs[j].inFlight = 0
    <3> SUFFICES ASSUME NEW j \in Key, b.specs[j].state = "starting" PROVE c.specs[j].inFlight = 0
      OBVIOUS
    <3>1. b.specs[j].inFlight = 0 BY DEF Fine, Good, Leases
    <3>2. j = k /\ b.specs[k].proc = p => FALSE
      <4> SUFFICES ASSUME j = k, b.specs[k].proc = p PROVE FALSE OBVIOUS
      <4> DEFINE S == {y \in Caller : b.lease[y] = leaseOf(b, k)}
      <4>1. p # Nil BY ManagerAssumption
      <4>2. Cardinality(S) = 0 BY <3>1, <4>1 DEF Fine, Good, Leases
      <4>3. S \in SUBSET Caller OBVIOUS
      <4>4. x \in S BY <1>5, <1>6
      <4> HIDE DEF S
      <4> QED BY <4>2, <4>3, <4>4 DEF Counting
    <3> QED BY <3>1, <3>2
  <2> QED BY <2>1, <2>2, <2>3 DEF Leases
<1>8. Waiting(c, W) BY SMT DEF Fine, Good, Waiting
<1>9. Empties(c) BY SMT DEF Fine, Good, Empties
<1>10. Homes(c, L) BY SMT DEF Fine, Good, Homes
<1>11. Armed(c, L, M)
  <2>1. TimersKept(b, c) BY DEF TimersKept
  <2> QED BY <1>0, <2>1, ArmedKept DEF Fine, Good
<1>12. Mid(c, U)
  <2>1. \A j \in Key : burst(c.specs[j], j) = burst(b.specs[j], j) BY DEF burst
  <2>2. Unasked(c) \subseteq Unasked(b) BY <2>1 DEF Unasked
  <2>3. \A j : toAsk(c, j) = toAsk(b, j) BY SMT DEF toAsk
  <2> QED BY <2>1, <2>2, <2>3, SMT DEF Fine, Mid
<1>13. Unhurried(b, c) /\ SameTurn(b, c) BY DEF Unhurried, SameTurn
<1> QED BY <1>7, <1>8, <1>9, <1>10, <1>11, <1>12, <1>13, SMT DEF Fine, Good

\* Somebody who holds a lease of a process counts.
LEMMA HeldCounts ==
  ASSUME Counting, NEW b \in OwnerType, Leases(b), NEW x \in Caller, NEW k \in Key, NEW p \in Proc,
         b.lease[x] = [key |-> k, proc |-> p], b.specs[k].proc = p
  PROVE  b.specs[k].inFlight \in Nat /\ b.specs[k].inFlight > 0
<1> DEFINE S == {y \in Caller : b.lease[y] = leaseOf(b, k)}
<1>1. p # Nil BY ManagerAssumption
<1>2. b.specs[k].inFlight = Cardinality(S) BY <1>1 DEF Leases
<1>3. S \in SUBSET Caller OBVIOUS
<1>4. x \in S BY DEF leaseOf
<1> HIDE DEF S
<1>5. Cardinality(S) \in Nat /\ Cardinality(S) # 0 BY <1>3, <1>4 DEF Counting
<1> QED BY <1>2, <1>5, SMT

\* A release: what the caller holds is dropped, and what runs now is told to stop if it
\* drains and this was its last lease.
LEMMA ReleaseFine ==
  ASSUME Counting, NEW W, Ready(W), NEW m, m.caller \in Caller, m.key \in Key, m.proc \in Proc,
         o.lease[m.caller] = [key |-> m.key, proc |-> m.proc], Release(m)
  PROVE  /\ Ended(o', W, life', cmds') /\ Unhurried(o, o')
         /\ Kept([o EXCEPT !.lease[m.caller] = NoLease], o', W)
<1> DEFINE x == m.caller
           k == m.key
           p == m.proc
           F == [o.lease EXCEPT ![x] = NoLease]
           b == [o EXCEPT !.lease = F]
           n == IF o.specs[k].inFlight > 0 THEN o.specs[k].inFlight - 1 ELSE o.specs[k].inFlight
           st == [o.specs[k] EXCEPT !.inFlight = n]
           c == [b EXCEPT !.specs[k] = st]
           d == Relieved(c, k)
<1>0. /\ Fine(o, W, life, cmds', {}) /\ o \in OwnerType /\ o.specs[k] \in SpecState
      /\ o.specs[k].inFlight \in Nat /\ o.lease \in [Caller -> Lease] /\ life' = life
      /\ o.work = NoWork /\ o.decided = {}
  BY DEF Ready, Fine, Good, OwnerType, SpecState
<1>1. b = [o EXCEPT !.lease[x] = NoLease] OBVIOUS
<1>2. F \in [Caller -> Lease] BY <1>0 DEF Lease
<1> HIDE DEF F
<1>3. /\ b \in OwnerType /\ b.lease = F /\ b.specs = o.specs /\ b.reply = o.reply
      /\ b.armed = o.armed /\ b.work = o.work /\ b.decided = o.decided
      /\ b.stopped = o.stopped /\ b.closing = o.closing
  BY <1>0, <1>2 DEF OwnerType
<1>4. c = [b EXCEPT !.specs[k].inFlight = IF @ > 0 THEN @ - 1 ELSE @]
  <2> HIDE DEF b
  <2> QED BY <1>3
<1>5. o' = IF o.specs[k].proc # p THEN advance(b) ELSE wakeAdmissionCandidates(touch(d, k))
  <2> DEFINE B == [o EXCEPT !.lease[x] = NoLease]
             E == [B EXCEPT !.specs[k].inFlight = IF @ > 0 THEN @ - 1 ELSE @]
  <2>1. o' = IF o.specs[k].proc # p THEN advance(B)
             ELSE wakeAdmissionCandidates(touch(Relieved(E, k), k))
    BY DEF Release, Relieved
  <2>2. b = B BY <1>1
  <2> HIDE DEF B, b, c
  <2>3. c = E BY <1>4, <2>2
  <2> HIDE DEF E
  <2> QED BY <2>1, <2>2, <2>3
<1> HIDE DEF b, d
<1>6. CASE o.specs[k].proc # p
  <2> HIDE DEF c, st, n
  <2>0. LeaseEnds(o, b, x, k, p) BY <1>0, <1>3, <1>6 DEF F, LeaseEnds
  <2>1. Fine(b, W, life, cmds', {}) /\ Unhurried(o, b)
    BY <1>0, <2>0, LeaseEndsFine
  <2>2. Ended(advance(b), W, life, cmds') /\ Kept(b, advance(b), W) /\ Steady(b, advance(b))
    BY <2>1, AdvanceFine
  <2>3. Unhurried(o, advance(b)) BY <2>1, <2>2, UnhurriedSteps
  <2> QED BY <1>0, <1>1, <1>5, <1>6, <2>2, <2>3
<1>7. CASE o.specs[k].proc = p
  <2>1. o.specs[k].inFlight > 0 BY <1>0, <1>7, HeldCounts DEF Fine, Good
  <2>2. n = o.specs[k].inFlight - 1 /\ n \in Nat BY <1>0, <2>1, SMT
  <2> HIDE DEF n
  <2>3. st \in SpecState BY <1>0, <2>2, SpecUpdates
  <2>4. /\ st.pending = o.specs[k].pending /\ st.proc = o.specs[k].proc
        /\ st.state = o.specs[k].state /\ st.spec = o.specs[k].spec
        /\ st.intentionalStop = o.specs[k].intentionalStop /\ st.inFlight = n
    BY <1>0 DEF SpecState
  <2> HIDE DEF st
  <2>5. /\ c \in OwnerType
        /\ c.specs[k] = st /\ \A j \in Key \ {k} : c.specs[j] = b.specs[j]
        /\ c.reply = b.reply /\ c.lease = b.lease /\ c.armed = b.armed
        /\ c.work = b.work /\ c.decided = b.decided /\ c.stopped = b.stopped
        /\ c.closing = b.closing
    BY <1>3, <2>3, SpecAt, SMT
  <2> HIDE DEF c
  <2>6. \A j \in Key : /\ c.specs[j].pending = o.specs[j].pending
                       /\ c.specs[j].proc = o.specs[j].proc
                       /\ c.specs[j].state = o.specs[j].state
                       /\ c.specs[j].spec = o.specs[j].spec
                       /\ c.specs[j].intentionalStop = o.specs[j].intentionalStop
                       /\ c.specs[j].inFlight = IF j = k /\ o.specs[k].proc = p
                                                THEN o.specs[j].inFlight - 1
                                                ELSE o.specs[j].inFlight
    BY <1>3, <1>7, <2>2, <2>4, <2>5, SMT
  <2>7. Fine(c, W, life, cmds', {}) /\ Unhurried(o, c) /\ SameTurn(o, c)
    <3>1. /\ o.lease[x] = [key |-> k, proc |-> p]
          /\ c \in OwnerType /\ c.lease = [o.lease EXCEPT ![x] = NoLease]
          /\ c.reply = o.reply /\ c.armed = o.armed /\ c.work = o.work
          /\ c.decided = o.decided /\ c.stopped = o.stopped /\ c.closing = o.closing
      BY <1>3, <2>5 DEF F
    <3>2. LeaseEnds(o, c, x, k, p) BY <2>6, <3>1 DEF LeaseEnds
    <3> QED BY <1>0, <3>2, LeaseEndsFine
  <2>8. Kept(b, c, W) BY <2>5 DEF Kept
  <2>9. Fine(d, W, life, cmds', {}) /\ Steady(c, d) /\ SameTurn(c, d) /\ Kept(c, d, W)
    <3>1. CASE d = c BY <2>7, <3>1, Twice
    <3>2. CASE d = terminateNow(c, k) /\ c.specs[k].inFlight = 0
      <4>1. c.specs[k].proc # Nil BY <1>7, <2>6, ManagerAssumption, SMT
      <4>2. \A i \in cmds : i.cmd = "killGraceExpired" => i \in cmds' BY DEF Ready
      <4> DEFINE t == terminateNow(c, k)
      <4>3. Fine(t, W, life, cmds', {}) /\ Kept(c, t, W) /\ Steady(c, t) /\ SameTurn(c, t)
        BY <2>7, <3>2, <4>1, <4>2, TerminateIdleFine
      <4> HIDE DEF t
      <4>4. d = t BY <3>2 DEF t
      <4> QED BY <4>3, <4>4
    <3> QED BY <3>1, <3>2 DEF d, Relieved
  <2> HIDE DEF d
  <2> DEFINE e == touch(d, k)
  <2>10. Fine(e, W, life, cmds', {}) /\ Steady(d, e) /\ SameTurn(d, e) /\ Kept(d, e, W)
    BY <2>9, TouchFine
  <2> HIDE DEF e
  <2>11. Steady(c, e) /\ SameTurn(c, e) /\ Kept(b, e, W) BY <2>8, <2>9, <2>10, Twice
  <2>12. e.work = NoWork /\ e.decided = {} BY <1>0, <2>7, <2>11 DEF SameTurn
  <2> DEFINE f == wakeAdmissionCandidates(e)
  <2>13. Ended(f, W, life, cmds') /\ Kept(e, f, W) /\ Steady(e, f) BY <2>10, <2>12, WakeFine
  <2>14. o' = f BY <1>5, <1>7 DEF e
  <2> HIDE DEF f
  <2>15. Kept(b, f, W) /\ Steady(c, f) BY <2>11, <2>13, Twice
  <2>16. Unhurried(o, f) BY <2>7, <2>15, UnhurriedSteps
  <2> QED BY <1>0, <1>1, <2>13, <2>14, <2>15, <2>16
<1> QED BY <1>6, <1>7

\* Stop: those who wait are answered and the process drains.
LEMMA StopFine ==
  ASSUME NEW W, Ready(W), NEW m, m.key \in Key, Stop(m)
  PROVE  Stepped(W)
<1> DEFINE k == m.key
           err == IF burst(o.specs[k], k) THEN "no_capacity" ELSE "admission_blocked"
<1>0. /\ Fine(o, W, life, cmds', {}) /\ life' = life
      /\ \A i \in cmds : i.cmd = "killGraceExpired" => i \in cmds'
  BY DEF Ready
<1>1. err \in Reply \ {"none"} BY DEF Reply
<1>2. \/ o' = advance(o) \/ o' = advance(beginDrain(o, {k}))
      \/ o' = advance(beginDrain(failPending(o, k, err), {k}))
  BY DEF Stop
<1>3. Fine(o, W, life, cmds', {}) /\ Kept(o, o, W) /\ Steady(o, o) BY <1>0, Twice
<1> HIDE DEF err
<1>4. ASSUME NEW b, Fine(b, W, life, cmds', {}), Kept(o, b, W), Steady(o, b)
      PROVE  LET c == beginDrain(b, {k})
             IN  Fine(c, W, life, cmds', {}) /\ Kept(o, c, W) /\ Unhurried(o, c)
  <2> DEFINE c == beginDrain(b, {k})
  <2>1. Fine(c, W, life, cmds', {}) /\ Kept(b, c, W) /\ Steady(b, c)
    BY <1>0, <1>4, BeginDrainFine
  <2> HIDE DEF c
  <2>2. Kept(o, c, W) /\ Steady(o, c) BY <1>4, <2>1, Twice
  <2> QED BY <2>1, <2>2, UnhurriedSteps DEF c
<1>5. Fine(failPending(o, k, err), W, life, cmds', {}) /\ Kept(o, failPending(o, k, err), W)
        /\ Steady(o, failPending(o, k, err))
  <2>1. {} \subseteq {k} OBVIOUS
  <2> QED BY <1>0, <1>1, <2>1, FailPendingNone, SMT
<1>6. CASE o' = advance(o) BY <1>0, <1>3, <1>6, UnhurriedSteps, Concluded
<1>7. CASE o' = advance(beginDrain(o, {k})) BY <1>0, <1>3, <1>4, <1>7, Concluded
<1>8. CASE o' = advance(beginDrain(failPending(o, k, err), {k}))
  <2> DEFINE c == beginDrain(failPending(o, k, err), {k})
  <2>1. Fine(c, W, life, cmds', {}) /\ Kept(o, c, W) /\ Unhurried(o, c) BY <1>4, <1>5
  <2> HIDE DEF c
  <2> QED BY <1>0, <1>8, <2>1, Concluded DEF c
<1> QED BY <1>2, <1>6, <1>7, <1>8

\* Everyone who waits on k gets a lease of its process.
LEMMA SucceedPendingFine ==
  ASSUME Counting, NEW b, NEW W, NEW L, NEW M, NEW U, Fine(b, W, L, M, U), NEW k \in Key,
         b.specs[k].proc # Nil, b.specs[k].state # "starting"
  PROVE  LET c == succeedPending(b, k)
         IN  /\ Fine(c, W, L, M, U) /\ Kept(b, c, W) /\ Unhurried(b, c) /\ SameTurn(b, c)
<1> DEFINE C == b.specs[k].pending
           a == answer(b, C, "ok", leaseOf(b, k))
           n == b.specs[k].inFlight + Cardinality(C)
           A == b.armed \ {cmdWaiterTimeout(k, x) : x \in C}
           su == [b.specs[k] EXCEPT !.pending = {}]
           st == [su EXCEPT !.inFlight = n]
           c == [At(a, k, st) EXCEPT !.armed = A]
           d == touch(c, k)
<1>0. /\ b \in OwnerType /\ b.specs[k] \in SpecState /\ b.specs[k].inFlight \in Nat
      /\ C \in SUBSET Caller /\ b.specs \in [Key -> SpecState]
  BY DEF Fine, Good, OwnerType, SpecState
<1>1. a \in OwnerType /\ a.specs = b.specs /\ a.armed = b.armed
  <2>1. leaseOf(b, k) \in Lease /\ "ok" \in Reply BY <1>0, LeaseTypes DEF Reply
  <2> HIDE DEF C
  <2> QED BY <1>0, <2>1, Answered, SMT
<1>2. succeedPending(b, k) = d
  <2> DEFINE e == [a EXCEPT !.specs[k].pending = {}, !.specs[k].inFlight = @ + Cardinality(C),
                            !.armed = @ \ {cmdWaiterTimeout(k, x) : x \in C}]
  <2>1. succeedPending(b, k) = touch(e, k) BY DEF succeedPending
  <2>2. e = c
    <3> HIDE DEF a, C
    <3> QED BY <1>0, <1>1 DEF OwnerType, SpecState, At
  <2> QED BY <2>1, <2>2
<1>3. Cardinality(C) \in Nat BY <1>0 DEF Counting
<1>4. C \subseteq W /\ \A x \in C : b.reply[x] = "none" BY DEF Fine, Good, Waiting
<1>5. \A j \in Key \ {k} : b.specs[j].pending \ C = b.specs[j].pending
  BY DEF Fine, Good, Waiting
<1>6. \A m \in b.armed : m.cmd # "waiterTimeout" => m \in A
  <2>1. \A x \in C : cmdWaiterTimeout(k, x).cmd = "waiterTimeout" BY <1>0, WaiterTimer
  <2> QED BY <2>1
<1>7. st \in SpecState
  <2>1. su \in SpecState BY <1>0, SpecUpdates
  <2>2. n \in Nat BY <1>0, <1>3, SMT
  <2> HIDE DEF su, n
  <2> QED BY <2>1, <2>2, SpecUpdates
<1>8. /\ st.pending = {} /\ st.proc = b.specs[k].proc /\ st.state = b.specs[k].state
      /\ st.spec = b.specs[k].spec /\ st.intentionalStop = b.specs[k].intentionalStop
      /\ st.inFlight = n
  <2> HIDE DEF n
  <2> QED BY <1>0 DEF SpecState
<1>9. b.specs[k].pending \ C = {} OBVIOUS
<1>10. A \subseteq b.armed OBVIOUS
<1> HIDE DEF st, A
<1>11. /\ Fine(c, W \cup C, L, M, U) /\ Kept(b, c, W \cup C) /\ Unhurried(b, c)
       /\ SameTurn(b, c)
  <2>1. c = [At(answer(b, C, "ok", leaseOf(b, k)), k, st) EXCEPT !.armed = A] OBVIOUS
  <2>2. st.pending = b.specs[k].pending \ C /\ st.inFlight = b.specs[k].inFlight + Cardinality(C)
    BY <1>8, <1>9
  <2> HIDE DEF c, C, a
  <2>3. Served(b, c, k, C, A, st)
    BY <1>0, <1>4, <1>5, <1>6, <1>7, <1>8, <1>10, <2>1, <2>2 DEF Served
  <2> QED BY <2>3, ServedFine
<1>12. W \cup C = W BY <1>4
<1> HIDE DEF c, C
<1>13. /\ Fine(d, W, L, M, U) /\ Kept(c, d, W) /\ Steady(c, d) /\ SameTurn(c, d)
  BY <1>11, <1>12, TouchFine
<1> HIDE DEF d
<1>14. Kept(b, d, W) /\ SameTurn(b, d) BY <1>11, <1>12, <1>13, Twice
<1>15. Unhurried(b, d) BY <1>11, <1>13, UnhurriedSteps
<1> QED BY <1>2, <1>13, <1>14, <1>15

\* The result of a health probe.
LEMMA StartResultFine ==
  ASSUME Counting, NEW W, Ready(W), NEW m, m.key \in Key, m.proc \in Proc,
         o.specs[m.key].proc = m.proc => o.specs[m.key].state \in {"starting", "draining"},
         StartResult(m)
  PROVE  Stepped(W)
<1> DEFINE k == m.key
           st == [o.specs[k] EXCEPT !.everHealthy = TRUE]
           h == At(o, k, st)
           r == setState(h, k, "running")
           s == succeedPending(r, k)
           w == [NoWork EXCEPT !.wake = "afterStart"]
           f == setState(o, k, "start_failed")
           g == failPending(f, k, "start_timeout")
           t == terminateNow(g, k)
           e == enterBackoff(t, k)
<1>0. /\ Fine(o, W, life, cmds', {}) /\ o \in OwnerType /\ o.specs[k] \in SpecState
      /\ life' = life /\ o.work = NoWork /\ o.decided = {}
      /\ \A i \in cmds : i.cmd = "killGraceExpired" => i \in cmds'
  BY DEF Ready, Fine, Good, OwnerType
<1>1. h = [o EXCEPT !.specs[k].everHealthy = TRUE] BY DEF At
<1>2. \/ o' = advance(o) \/ o' = advance(h)
      \/ o.specs[k].proc = m.proc /\ o.specs[k].state = "starting" /\ o' = schedule(s, w)
      \/ o.specs[k].proc = m.proc /\ o.specs[k].state = "starting" /\ o' = advance(e)
  <2>1. CASE o.specs[k].proc # m.proc BY <2>1 DEF StartResult
  <2>2. CASE o.specs[k].proc = m.proc /\ o.specs[k].state = "draining" /\ m.flag
    BY <1>1, <2>2 DEF StartResult
  <2>3. CASE o.specs[k].proc = m.proc /\ o.specs[k].state = "draining" /\ ~m.flag
    BY <2>3 DEF StartResult
  <2>4. CASE o.specs[k].proc = m.proc /\ o.specs[k].state = "starting" /\ m.flag
    BY <1>1, <2>4 DEF StartResult
  <2>5. CASE o.specs[k].proc = m.proc /\ o.specs[k].state = "starting" /\ ~m.flag
    BY <2>5 DEF StartResult
  <2> QED BY <2>1, <2>2, <2>3, <2>4, <2>5, SMT
<1>3. /\ Fine(h, W, life, cmds', {}) /\ Kept(o, h, W) /\ Steady(o, h) /\ SameTurn(o, h)
      /\ Silent(o, h)
  <2>1. st \in SpecState BY <1>0, SpecUpdates
  <2>2. /\ st.pending = o.specs[k].pending /\ st.proc = o.specs[k].proc
        /\ st.inFlight = o.specs[k].inFlight /\ st.spec = o.specs[k].spec
        /\ st.intentionalStop = o.specs[k].intentionalStop /\ st.state = o.specs[k].state
    BY <1>0 DEF SpecState
  <2> HIDE DEF st
  <2>3. Alike(o, k, st) BY <2>1, <2>2 DEF Alike
  <2> QED BY <1>0, <2>3, AlikeFine, AlikeSilent
<1> HIDE DEF h
<1>4. CASE o' = advance(o)
  <2>1. Kept(o, o, W) /\ Unhurried(o, o) BY Twice, UnhurriedSteps
  <2> QED BY <1>0, <1>4, <2>1, Concluded
<1>5. CASE o' = advance(h)
  <2>1. Unhurried(o, h) BY <1>3, UnhurriedSteps
  <2> QED BY <1>0, <1>3, <1>5, <2>1, Concluded
<1>6. CASE o.specs[k].proc = m.proc /\ o.specs[k].state = "starting" /\ o' = schedule(s, w)
  <2>1. "running" \in State BY DEF State
  <2>2. /\ Fine(r, W, life, cmds', {}) /\ Kept(h, r, W) /\ Steady(h, r) /\ SameTurn(h, r)
        /\ r.specs[k].state = "running"
    BY <1>3, <2>1, SetStateFine, SMT
  <2>s. Silent(o, r)
    <3>1. h \in OwnerType BY <1>3 DEF Fine, Good
    <3>2. Silent(h, r) BY <2>1, <3>1, SetStateSilent
    <3> HIDE DEF r
    <3> QED BY <1>3, <3>2 DEF Silent
  <2> HIDE DEF r
  <2>3. Kept(o, r, W) /\ Steady(o, r) /\ SameTurn(o, r) BY <1>3, <2>2, Twice
  <2>4. r.specs[k].proc # Nil BY <1>6, <2>3, ManagerAssumption DEF Steady
  <2>5. /\ Fine(s, W, life, cmds', {}) /\ Kept(r, s, W) /\ Unhurried(r, s) /\ SameTurn(r, s)
    BY <2>2, <2>4, SucceedPendingFine
  <2> HIDE DEF s
  <2>6. Kept(o, s, W) /\ SameTurn(o, s) BY <2>3, <2>5, Twice
  <2>7. Unhurried(o, s) BY <2>5, <2>s, UnhurriedSteps
  <2>8. s.work = NoWork /\ s.decided = {} BY <1>0, <2>6 DEF SameTurn
  <2>9. w \in Work /\ w.wake # "none"
    <3>1. w.wake = "afterStart" BY DEF NoWork
    <3> QED BY <3>1, WorkTypes
  <2> HIDE DEF w
  <2> QED BY <1>0, <1>6, <2>5, <2>6, <2>7, <2>8, <2>9, Concluded, SMT
<1>7. CASE o.specs[k].proc = m.proc /\ o.specs[k].state = "starting" /\ o' = advance(e)
  <2>1. "start_failed" \in State /\ "start_timeout" \in Reply \ {"none"} BY DEF State, Reply
  <2>2. /\ Fine(f, W, life, cmds', {}) /\ Kept(o, f, W) /\ Steady(o, f)
    BY <1>0, <2>1, SetStateFine, SMT
  <2> HIDE DEF f
  <2>3. {} \subseteq {k} OBVIOUS
  <2>4. /\ Fine(g, W, life, cmds', {}) /\ Kept(f, g, W) /\ Steady(f, g)
    BY <2>1, <2>2, <2>3, FailPendingNone, SMT
  <2> HIDE DEF g
  <2>5. Kept(o, g, W) /\ Steady(o, g) BY <2>2, <2>4, Twice
  <2>6. g.specs[k].proc # Nil /\ g.specs[k].inFlight = 0
    <3>1. o.specs[k].inFlight = 0 BY <1>0, <1>7 DEF Fine, Good, Leases
    <3> QED BY <1>7, <2>5, <3>1, ManagerAssumption DEF Steady
  <2>7. /\ Fine(t, W, life, cmds', {}) /\ Kept(g, t, W) /\ Steady(g, t)
    BY <1>0, <2>4, <2>6, TerminateIdleFine
  <2> HIDE DEF t
  <2>8. /\ Fine(e, W, life, cmds', {}) /\ Kept(t, e, W) /\ Steady(t, e)
    BY <2>7, EnterBackoffFine
  <2> HIDE DEF e
  <2>9. Kept(o, t, W) /\ Steady(o, t) BY <2>5, <2>7, Twice
  <2>10. Kept(o, e, W) /\ Steady(o, e) BY <2>8, <2>9, Twice
  <2>11. Unhurried(o, e) BY <2>10, UnhurriedSteps
  <2> QED BY <1>0, <1>7, <2>8, <2>10, <2>11, Concluded
<1> QED BY <1>2, <1>4, <1>5, <1>6, <1>7

(***************************************************************************)
(* Exits.                                                                  *)
(***************************************************************************)

\* A kill timer names the key and the process it was armed for.
LEMMA KillKey ==
  ASSUME NEW k, NEW p
  PROVE  cmdKillGraceExpired(k, p).key = k /\ cmdKillGraceExpired(k, p).proc = p
BY DEF cmdKillGraceExpired, NoCmd

\* What every exit clears: the process is gone and with it its leases and its timers.
LEMMA ExitedFine ==
  ASSUME NEW b, NEW W, NEW L, NEW M, Fine(b, W, L, M, {}), NEW k \in Key, NEW p \in Proc,
         b.specs[k].proc = p, L[p] = "exited"
  PROVE  LET c == exited(b, k)
         IN  /\ Fine(c, W, L, M, {k}) /\ Kept(b, c, W) /\ Unhurried(b, c) /\ SameTurn(b, c)
             /\ c.specs[k].proc = Nil /\ c.closing = b.closing
<1> DEFINE st == [b.specs[k] EXCEPT !.proc = Nil, !.inFlight = 0, !.intentionalStop = FALSE,
                                    !.backoffOnExit = FALSE, !.drainedFor = <<>>,
                                    !.everHealthy = FALSE]
           d == [b EXCEPT !.specs[k] = st]
           kill == cmdKillGraceExpired(k, p)
           drain == cmdDrainGraceExpired(k, p)
           A == b.armed \ {kill, drain}
           c == [d EXCEPT !.armed = A]
<1>0. /\ b \in OwnerType /\ b.specs \in [Key -> SpecState] /\ b.specs[k] \in SpecState
      /\ b.armed \in SUBSET Timer
  BY DEF Fine, Good, OwnerType
<1>1. st \in SpecState
  <2>1. <<>> \in Seq(Key) BY SMT
  <2> QED BY <1>0, <2>1 DEF SpecState
<1>2. /\ st.proc = Nil /\ st.inFlight = 0 /\ ~st.intentionalStop
      /\ st.state = b.specs[k].state /\ st.pending = b.specs[k].pending
      /\ st.spec = b.specs[k].spec
  BY <1>0 DEF SpecState
<1>3. exited(b, k) = c BY <1>0 DEF exited, OwnerType
<1>4. /\ kill.cmd = "killGraceExpired" /\ kill.key = k
      /\ drain.cmd = "drainGraceExpired" /\ drain.key = k
  BY KillTimer, DrainTimer, KillKey, SMT
<1> HIDE DEF st, kill, drain
<1>5. /\ d \in OwnerType
      /\ d.specs[k] = st /\ \A j \in Key \ {k} : d.specs[j] = b.specs[j]
      /\ d.reply = b.reply /\ d.lease = b.lease /\ d.armed = b.armed
      /\ d.work = b.work /\ d.decided = b.decided /\ d.stopped = b.stopped
      /\ d.closing = b.closing
  BY <1>0, <1>1, SpecAt, SMT
<1> HIDE DEF d
<1>6. A \in SUBSET Timer BY <1>0
<1> HIDE DEF A
<1>7. /\ c \in OwnerType /\ c.specs = d.specs /\ c.reply = b.reply /\ c.lease = b.lease
      /\ c.armed = A /\ c.work = b.work /\ c.decided = b.decided /\ c.stopped = b.stopped
      /\ c.closing = b.closing
  <2>1. c \in OwnerType BY <1>5, <1>6, FieldTypes
  <2> QED BY <1>5, <2>1 DEF OwnerType
<1> HIDE DEF c
<1>8. c.specs[k] = st /\ \A j \in Key \ {k} : c.specs[j] = b.specs[j] BY <1>5, <1>7
<1>9. \A j \in Key : /\ c.specs[j].pending = b.specs[j].pending
                     /\ c.specs[j].state = b.specs[j].state
                     /\ c.specs[j].spec = b.specs[j].spec
  BY <1>2, <1>8
<1>10. Waiting(c, W) BY <1>7, <1>9, SMT DEF Fine, Good, Waiting
<1>11. Leases(c)
  <2>1. \A x \in Caller : c.reply[x] = "none" => c.lease[x] = NoLease
    BY <1>7 DEF Fine, Good, Leases
  <2>2. ASSUME NEW j \in Key
        PROVE  c.specs[j].inFlight =
                 IF c.specs[j].proc = Nil THEN 0
                 ELSE Cardinality({x \in Caller : c.lease[x] = leaseOf(c, j)})
    <3>1. CASE j = k BY <1>2, <1>8, <3>1
    <3>2. CASE j # k
      <4>1. c.specs[j] = b.specs[j] /\ leaseOf(c, j) = leaseOf(b, j) BY <1>8, <3>2 DEF leaseOf
      <4> QED BY <1>7, <4>1 DEF Fine, Good, Leases
    <3> QED BY <3>1, <3>2
  <2>3. \A j \in Key : c.specs[j].state = "starting" => c.specs[j].inFlight = 0
    BY <1>2, <1>8 DEF Fine, Good, Leases
  <2> QED BY <2>1, <2>2, <2>3 DEF Leases
<1>12. Empties(c) BY <1>2, <1>8 DEF Fine, Good, Empties
<1>13. Homes(c, L)
  <2>1. ASSUME NEW q \in Proc, L[q] # "exited"
        PROVE  \E j \in Key : c.specs[j].proc = q
    <3>1. PICK j \in Key : b.specs[j].proc = q BY <2>1 DEF Fine, Good, Homes
    <3>2. j # k BY <2>1, <3>1
    <3> QED BY <1>8, <3>1, <3>2
  <2>2. \A i, j \in Key : c.specs[i].proc = c.specs[j].proc /\ c.specs[j].proc # Nil => i = j
    BY <1>2, <1>8, SMT DEF Fine, Good, Homes
  <2> QED BY <2>1, <2>2 DEF Homes
<1>14. Armed(c, L, M)
  <2> SUFFICES ASSUME NEW j \in Key
               PROVE  LET q == c.specs[j].proc
                      IN  /\ c.specs[j].state = "draining" /\ q # Nil =>
                               \/ L[q] # "alive"
                               \/ cmdDrainGraceExpired(j, q) \in M \cup c.armed
                               \/ cmdKillGraceExpired(j, q) \in M \cup c.armed
                          /\ c.specs[j].state = "backoff" =>
                               \E m \in M \cup c.armed : m.cmd = "backoffFire" /\ m.key = j
    BY DEF Armed
  <2> DEFINE q == b.specs[j].proc
  <2>1. b.specs[j].state = "backoff" => \E m \in M \cup b.armed : m.cmd = "backoffFire" /\ m.key = j
    BY DEF Fine, Good, Armed
  <2>2. c.specs[j].state = "backoff" => \E m \in M \cup c.armed : m.cmd = "backoffFire" /\ m.key = j
    BY <1>4, <1>7, <1>9, <2>1 DEF A
  <2>3. CASE j = k BY <1>2, <1>8, <2>2, <2>3
  <2>4. CASE j # k
    <3>1. c.specs[j] = b.specs[j] BY <1>8, <2>4
    <3>2. q # Nil => q \in Proc BY <1>0 DEF SpecState
    <3>3. q # Nil => cmdDrainGraceExpired(j, q).key = j /\ cmdKillGraceExpired(j, q).key = j
      BY <3>2, DrainTimer, KillKey, SMT
    <3>4. b.specs[j].state = "draining" /\ q # Nil =>
            \/ L[q] # "alive"
            \/ cmdDrainGraceExpired(j, q) \in M \cup b.armed
            \/ cmdKillGraceExpired(j, q) \in M \cup b.armed
      BY DEF Fine, Good, Armed
    <3> HIDE DEF q
    <3>5. b.specs[j].state = "draining" /\ q # Nil =>
            \/ L[q] # "alive"
            \/ cmdDrainGraceExpired(j, q) \in M \cup c.armed
            \/ cmdKillGraceExpired(j, q) \in M \cup c.armed
      BY <1>4, <1>7, <2>4, <3>3, <3>4 DEF A
    <3> QED BY <2>2, <3>1, <3>5 DEF q
  <2> QED BY <2>3, <2>4
<1>15. Mid(c, {k})
  <2>1. \A j \in Key : burst(c.specs[j], j) = burst(b.specs[j], j) BY <1>9 DEF burst
  <2>2. Unasked(c) \ {k} \subseteq Unasked(b) BY <1>8, <2>1 DEF Unasked
  <2>3. \A j : toAsk(c, j) = toAsk(b, j) BY <1>7 DEF toAsk
  <2> QED BY <1>7, <1>9, <2>1, <2>2, <2>3 DEF Fine, Mid
<1>16. Kept(b, c, W) BY <1>7 DEF Kept
<1>17. Unhurried(b, c) BY <1>2, <1>8 DEF Unhurried
<1>18. SameTurn(b, c) BY <1>7 DEF SameTurn
<1> QED BY <1>2, <1>3, <1>7, <1>8, <1>10, <1>11, <1>12, <1>13, <1>14, <1>15, <1>16, <1>17,
           <1>18, SMT DEF Fine, Good

\* Operators in a row, and an exception more.
LEMMA MildSteps ==
  ASSUME NEW b, NEW c, NEW d, NEW W, NEW U, NEW V
  PROVE  /\ Mild(b, c, W, U) /\ Mild(c, d, W, V) => Mild(b, d, W, V)
         /\ Fine(b, W, life, cmds', U) => Mild(b, b, W, U)
BY Twice DEF Mild

\* The exit ends with a wake.
LEMMA ExitConcluded ==
  ASSUME NEW W, Ready(W), NEW b, Kept(o, b, W), Unhurried(o, b), SameTurn(o, b),
         NEW U, NEW c, Mild(b, c, W, U),
         \/ o' = wakeAdmissionCandidates(c)
         \/ \E w \in Work : w.wake # "none" /\ o' = schedule(c, w)
  PROVE  Stepped(W)
<1>1. Kept(o, c, W) /\ SameTurn(o, c) BY Twice DEF Mild
<1>2. Unhurried(o, c) BY UnhurriedSteps DEF Mild
<1>3. c.work = NoWork /\ c.decided = {} BY <1>1 DEF SameTurn, Ready
<1> QED BY <1>1, <1>2, <1>3, Concluded DEF Ready, Mild

\* The state of a removed instance is deleted once its process is gone.
LEMMA RemovedExitFine ==
  ASSUME NEW W, Ready(W), NEW b, Kept(o, b, W), Unhurried(o, b), SameTurn(o, b),
         NEW k \in Key, Fine(b, W, life, cmds', {k}), b.specs[k].proc = Nil,
         o' = removedExit(b, k)
  PROVE  Stepped(W)
<1> DEFINE a == failPending(b, k, "model_not_managed")
           d == deleteState(a, k)
           e == ensureProtectedFloor(d)
           c == IF b.closing THEN d ELSE e
<1>1. o' = wakeAdmissionCandidates(c) BY DEF removedExit
<1>2. {k} \ {k} = {} /\ {} \ {k} = {} OBVIOUS
<1>3. "model_not_managed" \in Reply \ {"none"} BY DEF Reply
<1>4. Mild(b, a, W, {}) /\ a.specs[k].pending = {}
  <2>1. {k} \subseteq {k} OBVIOUS
  <2> QED BY <1>3, <2>1, FailPendingNone DEF Mild
<1> HIDE DEF a
<1>5. a.specs[k].proc = Nil BY <1>4 DEF Mild, Steady
<1>6. Mild(a, d, W, {}) BY <1>2, <1>4, <1>5, DeleteFine, SMT DEF Mild
<1> HIDE DEF d
<1>7. Mild(d, e, W, {}) BY <1>6, FloorFine DEF Mild
<1> HIDE DEF e
<1>8. Mild(b, d, W, {}) BY <1>4, <1>6, MildSteps
<1>9. Mild(b, e, W, {}) BY <1>7, <1>8, MildSteps
<1>10. Mild(b, c, W, {}) BY <1>8, <1>9
<1> HIDE DEF c
<1> QED BY <1>1, <1>10, ExitConcluded

\* The exit of a process that was told to stop.
LEMMA IntentionalExitFine ==
  ASSUME NEW W, Ready(W), NEW b, Kept(o, b, W), Unhurried(o, b), SameTurn(o, b),
         NEW k \in Key, Fine(b, W, life, cmds', {k}), NEW st \in SpecState,
         o' = intentionalExit(st, b, k)
  PROVE  Stepped(W)
<1> DEFINE s == setState(b, k, "stopped")
           e == enterBackoff(b, k)
           v == [NoWork EXCEPT !.claims = st.drainedFor, !.self = k, !.wake = "all"]
           w == [NoWork EXCEPT !.wake = "all"]
<1>1. \/ o' = wakeAdmissionCandidates(e)
      \/ \E c \in {b, s}, u \in {v, w} : o' = schedule(c, u)
  BY DEF intentionalExit
<1>2. Mild(b, b, W, {k}) BY MildSteps
<1>3. Mild(b, s, W, {k})
  <2>1. "stopped" \in State BY DEF State
  <2> QED BY <2>1, SetStateFine DEF Mild
<1>4. Mild(b, e, W, {k}) BY EnterBackoffFine DEF Mild
<1>5. v \in Work /\ w \in Work
  <2>1. st.drainedFor \in Seq(Key) BY DEF SpecState
  <2> QED BY <2>1, WorkTypes
<1>6. v.wake = "all" /\ w.wake = "all" BY DEF NoWork
<1> HIDE DEF s, e, v, w
<1>7. CASE o' = wakeAdmissionCandidates(e) BY <1>4, <1>7, ExitConcluded
<1>8. ASSUME NEW c \in {b, s}, NEW u \in {v, w}, o' = schedule(c, u)
      PROVE  Stepped(W)
  <2>1. Mild(b, c, W, {k}) /\ u \in Work /\ u.wake # "none" BY <1>2, <1>3, <1>5, <1>6
  <2> QED BY <1>8, <2>1, ExitConcluded
<1> QED BY <1>1, <1>7, <1>8

\* A process of unknown RAM demand was killed: an idle one makes room and it is tried
\* again, once.
LEMMA BootstrapFine ==
  ASSUME NEW W, Ready(W), NEW b, NEW k \in Key, Fine(b, W, life, cmds', {k})
  PROVE  \E U : Mild(b, handleBootstrapMemoryPressure(b, k), W, U)
<1> DEFINE st == [b.specs[k] EXCEPT !.ramBootstrapRetries = @ + 1]
           c == [b EXCEPT !.specs[k] = st]
           d == evictOneIdleForBootstrap(c, k)
           s == setState(d, k, "start_failed")
           e == enterBackoff(s, k)
           f == failStart(b, k, "start_failed")
<1>0. b \in OwnerType /\ b.specs[k] \in SpecState /\ b.specs[k].ramBootstrapRetries \in Nat
  BY DEF Fine, Good, OwnerType, SpecState
<1>1. c = [b EXCEPT !.specs[k].ramBootstrapRetries = @ + 1] OBVIOUS
<1>2. handleBootstrapMemoryPressure(b, k) \in {e, f}
  BY <1>1 DEF handleBootstrapMemoryPressure
<1>3. "start_failed" \in State /\ "start_failed" \in Reply \ {"none"} BY DEF State, Reply
<1>4. Mild(b, f, W, {k} \ {k}) BY <1>3, FailStartFine DEF Mild
<1>5. Mild(b, c, W, {k})
  <2>1. st \in SpecState
    <3>1. b.specs[k].ramBootstrapRetries + 1 \in Nat BY <1>0, SMT
    <3> QED BY <1>0, <3>1, SpecUpdates
  <2>2. /\ st.pending = b.specs[k].pending /\ st.proc = b.specs[k].proc
        /\ st.inFlight = b.specs[k].inFlight /\ st.spec = b.specs[k].spec
        /\ st.intentionalStop = b.specs[k].intentionalStop /\ st.state = b.specs[k].state
    BY <1>0 DEF SpecState
  <2> HIDE DEF st
  <2> QED BY <2>1, <2>2, SpecFine, SMT DEF Mild
<1> HIDE DEF c, f
<1>6. Mild(c, d, W, {k})
  <2>1. PICK V : d = evict(c, k, V) BY DEF evictOneIdleForBootstrap
  <2> HIDE DEF d
  <2> QED BY <1>5, <2>1, EvictFine DEF Mild, Ready
<1> HIDE DEF d
<1>7. Mild(d, s, W, {k}) BY <1>3, <1>6, SetStateFine DEF Mild
<1> HIDE DEF s
<1>8. Mild(s, e, W, {k}) BY <1>7, EnterBackoffFine DEF Mild
<1> HIDE DEF e
<1>9. Mild(b, s, W, {k}) BY <1>5, <1>6, <1>7, MildSteps
<1>10. Mild(b, e, W, {k}) BY <1>8, <1>9, MildSteps
<1> QED BY <1>2, <1>4, <1>10

\* The exit of a process that nobody told to stop.
LEMMA UnexpectedExitFine ==
  ASSUME NEW W, Ready(W), NEW b, Kept(o, b, W), Unhurried(o, b), SameTurn(o, b),
         NEW k \in Key, Fine(b, W, life, cmds', {k}), NEW st, NEW sigkill,
         o' = unexpectedExit(st, b, k, sigkill)
  PROVE  Stepped(W)
<1> DEFINE h == handleBootstrapMemoryPressure(b, k)
           s == setState(b, k, "crashed")
           e == enterBackoff(s, k)
           f == failStart(b, k, "start_failed")
<1>1. \E c \in {h, e, f} : o' = wakeAdmissionCandidates(c) BY DEF unexpectedExit
<1>2. "start_failed" \in Reply \ {"none"} /\ "crashed" \in State BY DEF State, Reply
<1>3. PICK U : Mild(b, h, W, U) BY BootstrapFine
<1>4. Mild(b, f, W, {k} \ {k}) BY <1>2, FailStartFine DEF Mild
<1>5. Mild(b, s, W, {k}) BY <1>2, SetStateFine DEF Mild
<1> HIDE DEF h, f, s
<1>6. Mild(s, e, W, {k}) BY <1>5, EnterBackoffFine DEF Mild
<1> HIDE DEF e
<1>7. Mild(b, e, W, {k}) BY <1>5, <1>6, MildSteps
<1> QED BY <1>1, <1>3, <1>4, <1>7, ExitConcluded

\* The owner learns of an exit.
LEMMA ChildExitedFine ==
  ASSUME NEW W, Ready(W), NEW m, m.key \in Key, m.proc \in Proc, life[m.proc] = "exited",
         ChildExited(m)
  PROVE  Stepped(W)
<1> DEFINE k == m.key
           st == o.specs[k]
           b == exited(o, k)
<1>0. Fine(o, W, life, cmds', {}) /\ life' = life /\ st \in SpecState
  BY DEF Ready, Fine, Good, OwnerType
<1>1. \/ o' = advance(o)
      \/ /\ st.proc = m.proc
         /\ \/ o' = removedExit(b, k)
            \/ o' = intentionalExit(st, b, k)
            \/ o' = unexpectedExit(st, b, k, m.flag)
  BY DEF ChildExited
<1>2. CASE o' = advance(o)
  <2>1. Kept(o, o, W) /\ Unhurried(o, o) BY Twice, UnhurriedSteps
  <2> QED BY <1>0, <1>2, <2>1, Concluded
<1>3. CASE st.proc = m.proc
  <2>1. /\ Fine(b, W, life, cmds', {k}) /\ Kept(o, b, W) /\ Unhurried(o, b) /\ SameTurn(o, b)
        /\ b.specs[k].proc = Nil
    BY <1>0, <1>3, ExitedFine, SMT
  <2> HIDE DEF b, st
  <2>2. CASE o' = removedExit(b, k) BY <2>1, <2>2, RemovedExitFine
  <2>3. CASE o' = intentionalExit(st, b, k) BY <1>0, <2>1, <2>3, IntentionalExitFine
  <2>4. CASE o' = unexpectedExit(st, b, k, m.flag) BY <2>1, <2>4, UnexpectedExitFine
  <2> QED BY <1>1, <1>2, <2>2, <2>3, <2>4
<1> QED BY <1>1, <1>2, <1>3

(***************************************************************************)
(* Timers.                                                                 *)
(***************************************************************************)

\* The books depend on the commands through the timers only.
LEMMA OtherCommands ==
  ASSUME NEW b, NEW W, NEW L, NEW M, NEW U, Fine(b, W, L, M, U), NEW N, Armed(b, L, N)
  PROVE  Fine(b, W, L, N, U)
BY DEF Fine, Good

\* A command that is no timer of a current state is taken off the channel.
LEMMA Unneeded ==
  ASSUME NEW b \in OwnerType, NEW L, NEW M, Armed(b, L, M), NEW m,
         m.cmd = "backoffFire" => b.specs[m.key].state # "backoff",
         m.cmd \in {"drainGraceExpired", "killGraceExpired"} =>
           m.key \notin Key \/ b.specs[m.key].proc # m.proc
  PROVE  Armed(b, L, M \ {m})
<1> SUFFICES ASSUME NEW j \in Key
             PROVE  LET q == b.specs[j].proc
                    IN  /\ b.specs[j].state = "draining" /\ q # Nil =>
                             \/ L[q] # "alive"
                             \/ cmdDrainGraceExpired(j, q) \in (M \ {m}) \cup b.armed
                             \/ cmdKillGraceExpired(j, q) \in (M \ {m}) \cup b.armed
                        /\ b.specs[j].state = "backoff" =>
                             \E n \in (M \ {m}) \cup b.armed : n.cmd = "backoffFire" /\ n.key = j
  BY DEF Armed
<1> DEFINE q == b.specs[j].proc
<1>1. /\ b.specs[j].state = "draining" /\ q # Nil =>
           \/ L[q] # "alive"
           \/ cmdDrainGraceExpired(j, q) \in M \cup b.armed
           \/ cmdKillGraceExpired(j, q) \in M \cup b.armed
      /\ b.specs[j].state = "backoff" =>
           \E n \in M \cup b.armed : n.cmd = "backoffFire" /\ n.key = j
  BY DEF Armed
<1>2. q # Nil => q \in Proc BY DEF OwnerType, SpecState
<1>3. q # Nil => /\ cmdDrainGraceExpired(j, q).cmd = "drainGraceExpired"
                 /\ cmdKillGraceExpired(j, q).cmd = "killGraceExpired"
                 /\ cmdDrainGraceExpired(j, q).key = j /\ cmdDrainGraceExpired(j, q).proc = q
                 /\ cmdKillGraceExpired(j, q).key = j /\ cmdKillGraceExpired(j, q).proc = q
  BY <1>2, DrainTimer, KillTimer, KillKey, SMT
<1>4. q # Nil => cmdDrainGraceExpired(j, q) # m /\ cmdKillGraceExpired(j, q) # m
  BY <1>3
<1> HIDE DEF q
<1>5. b.specs[j].state = "backoff" =>
        \E n \in (M \ {m}) \cup b.armed : n.cmd = "backoffFire" /\ n.key = j
  BY <1>1
<1>6. b.specs[j].state = "draining" /\ q # Nil =>
        \/ L[q] # "alive"
        \/ cmdDrainGraceExpired(j, q) \in (M \ {m}) \cup b.armed
        \/ cmdKillGraceExpired(j, q) \in (M \ {m}) \cup b.armed
  BY <1>1, <1>4
<1> QED BY <1>5, <1>6 DEF q

\* Most commands are no timers that a state waits for.
LEMMA TakeFine ==
  ASSUME NEW W, NEW m, Idle(W, m), life' = life,
         m.cmd \notin {"backoffFire", "drainGraceExpired", "killGraceExpired"}
  PROVE  Ready(W)
<1>1. o \in OwnerType /\ Armed(o, life, cmds) BY DEF Idle, Fine, Good
<1>2. Armed(o, life, cmds \ {m}) BY <1>1, Unneeded
<1>3. Fine(o, W, life, cmds \ {m}, {}) BY <1>2, OtherCommands DEF Idle
<1> QED BY <1>3 DEF Ready, Idle

\* A crash-loop wait is over.
LEMMA BackoffFireFine ==
  ASSUME NEW W, NEW m, Idle(W, m), m.key \in Key, BackoffFire(m)
  PROVE  Stepped(W)
<1> DEFINE k == m.key
           s == IF o.specs[k].state = "backoff" THEN "stopped" ELSE o.specs[k].state
           su == [o.specs[k] EXCEPT !.backoffTimer = Nil]
           st == [su EXCEPT !.state = s]
           b == [o EXCEPT !.specs[k] = st]
           w == [NoWork EXCEPT !.self = k]
<1>0. /\ Fine(o, W, life, cmds, {}) /\ o \in OwnerType /\ o.specs[k] \in SpecState
      /\ o.specs \in [Key -> SpecState]
      /\ cmds' = cmds \ {m} /\ o.work = NoWork /\ o.decided = {}
  BY DEF Idle, Fine, Good, OwnerType
<1>1. life' = life /\ m.cmd = "backoffFire" BY DEF BackoffFire, Take
<1>2. b = [o EXCEPT !.specs[k].backoffTimer = Nil,
                    !.specs[k].state = IF @ = "backoff" THEN "stopped" ELSE @]
  BY <1>0, ZenonT(40) DEF SpecState, OwnerType
<1>3. o' = IF exists(o, k) THEN schedule(b, w) ELSE advance(o) BY <1>2, SMT DEF BackoffFire
<1>4. CASE ~exists(o, k)
  <2>1. o.specs[k].state # "backoff" BY <1>4 DEF exists
  <2>2. Armed(o, life, cmds') BY <1>0, <1>1, <2>1, Unneeded DEF Fine, Good
  <2>3. Fine(o, W, life, cmds', {}) BY <1>0, <2>2, OtherCommands
  <2>4. Kept(o, o, W) /\ Unhurried(o, o) BY Twice, UnhurriedSteps
  <2> QED BY <1>1, <1>3, <1>4, <2>3, <2>4, Concluded
<1>5. CASE exists(o, k)
  <2>1. s \in State /\ s # "backoff" BY <1>0 DEF SpecState, State
  <2>2. st \in SpecState
    <3>1. su \in SpecState BY <1>0, SpecUpdates
    <3> HIDE DEF s, su
    <3> QED BY <2>1, <3>1, SpecUpdates
  <2>3. /\ st.pending = o.specs[k].pending /\ st.proc = o.specs[k].proc
        /\ st.inFlight = o.specs[k].inFlight /\ st.spec = o.specs[k].spec
        /\ st.intentionalStop = o.specs[k].intentionalStop /\ st.state = s
    <3> HIDE DEF s
    <3> QED BY <1>0 DEF SpecState
  <2>4. s = o.specs[k].state \/ s \notin {"absent", "starting", "draining", "backoff"}
    OBVIOUS
  <2> HIDE DEF s, st
  <2>5. /\ Fine(b, W, life, cmds, {}) /\ Kept(o, b, W) /\ Steady(o, b) /\ SameTurn(o, b)
        /\ b.specs[k] = st
    BY <1>0, <2>2, <2>3, <2>4, SpecFine, SMT
  <2> HIDE DEF b
  <2>6. b.specs[k].state # "backoff" /\ b \in OwnerType /\ Armed(b, life, cmds)
    BY <2>1, <2>3, <2>5 DEF Fine, Good
  <2>7. Armed(b, life, cmds') BY <1>0, <1>1, <2>6, Unneeded
  <2>8. Fine(b, W, life, cmds', {}) BY <2>5, <2>7, OtherCommands
  <2>9. b.work = NoWork /\ b.decided = {} BY <1>0, <2>5 DEF SameTurn
  <2>10. w \in Work BY WorkTypes
  <2>11. {} \subseteq {w.self} OBVIOUS
  <2>12. Unhurried(o, b) BY <2>5, UnhurriedSteps
  <2> HIDE DEF w
  <2> QED BY <1>1, <1>3, <1>5, <2>5, <2>8, <2>9, <2>10, <2>11, <2>12, Concluded, SMT
<1> QED BY <1>4, <1>5

\* A drain grace is over: the process that it was armed for, and no other, is told to
\* stop whoever uses it.
LEMMA DrainGraceExpiredFine ==
  ASSUME NEW W, NEW m, Idle(W, m), m.key \in Key, m.proc \in Proc,
         m = cmdDrainGraceExpired(m.key, m.proc), DrainGraceExpired(m)
  PROVE  /\ Ended(o', W, life', cmds') /\ Kept(o, o', W)
         /\ \A k \in Key : /\ o'.specs[k].proc = o.specs[k].proc
                           /\ o'.specs[k].intentionalStop
                           => \/ o.specs[k].intentionalStop \/ o'.specs[k].inFlight = 0
                              \/ k = m.key /\ o.specs[k].proc = m.proc
<1> DEFINE k == m.key
           p == m.proc
           c == terminateNow(o, k)
<1>0. /\ Fine(o, W, life, cmds, {}) /\ o \in OwnerType /\ cmds' = cmds \ {m}
  BY DEF Idle, Fine, Good
<1>1. /\ life' = life /\ m.cmd = "drainGraceExpired"
      /\ o' = advance(IF o.specs[k].proc = p THEN c ELSE o)
  BY DEF DrainGraceExpired, Take
<1>2. CASE o.specs[k].proc = p
  <2>1. p # Nil BY ManagerAssumption
  <2>2. \A i \in cmds : i.cmd = "killGraceExpired" => i \in cmds' BY <1>0, <1>1
  <2>3. Armed(o, life, cmds' \cup {cmdDrainGraceExpired(k, o.specs[k].proc)})
    <3>1. cmds \subseteq cmds' \cup {cmdDrainGraceExpired(k, o.specs[k].proc)} BY <1>0, <1>2
    <3> QED BY <1>0, <3>1, ArmedMore DEF Fine, Good
  <2>4. /\ Fine(c, W, life, cmds', {}) /\ Kept(o, c, W)
        /\ \A j \in Key \ {k} : c.specs[j] = o.specs[j]
    <3>1. /\ o \in OwnerType /\ Waiting(o, W) /\ Leases(o) /\ Empties(o) /\ Homes(o, life)
          /\ Mid(o, {})
      BY <1>0 DEF Fine, Good
    <3>2. o.specs[k].proc # Nil BY <1>2, <2>1
    <3> HIDE DEF k, p
    <3>3. k \in Key BY DEF k
    <3> QED BY <2>2, <2>3, <3>1, <3>2, <3>3, TerminateNowFine, ZenonT(40)
  <2> HIDE DEF c
  <2>5. Ended(advance(c), W, life, cmds') /\ Kept(c, advance(c), W) /\ Steady(c, advance(c))
    BY <2>4, AdvanceFine
  <2>6. o' = advance(c) BY <1>1, <1>2
  <2>7. Kept(o, o', W) BY <2>4, <2>5, <2>6, Twice
  <2>8. \A j \in Key \ {k} : o'.specs[j].intentionalStop =>
                               o.specs[j].intentionalStop \/ o'.specs[j].inFlight = 0
    BY <2>4, <2>5, <2>6 DEF Steady
  <2> QED BY <1>1, <1>2, <2>5, <2>6, <2>7, <2>8
<1>3. CASE o.specs[k].proc # p
  <2>1. Armed(o, life, cmds') BY <1>0, <1>1, <1>3, Unneeded DEF Fine, Good
  <2>2. Fine(o, W, life, cmds', {}) BY <1>0, <2>1, OtherCommands
  <2>3. o' = advance(o) BY <1>1, <1>3
  <2>4. Ended(o', W, life, cmds') /\ Kept(o, o', W) /\ Steady(o, o')
    BY <2>2, <2>3, AdvanceFine
  <2> QED BY <1>1, <2>4 DEF Steady
<1> QED BY <1>2, <1>3

\* A kill grace is over: the process is killed.
LEMMA KillGraceExpiredFine ==
  ASSUME NEW W, NEW m, Idle(W, m), m.key \in Key, m.proc \in Proc, KillGraceExpired(m),
         life \in [Proc -> {"alive", "killed", "exited"}]
  PROVE  Stepped(W)
<1>0. /\ Fine(o, W, life, cmds, {}) /\ o \in OwnerType /\ cmds' = cmds \ {m}
  BY DEF Idle, Fine, Good
<1>1. /\ m.cmd = "killGraceExpired" /\ o' = advance(o)
      /\ life' = IF o.specs[m.key].proc = m.proc /\ life[m.proc] = "alive"
                 THEN [life EXCEPT ![m.proc] = "killed"] ELSE life
  BY DEF KillGraceExpired, Take
<1>2. \A p \in Proc : /\ life[p] = "exited" => life'[p] = "exited"
                      /\ life'[p] # "exited" => life[p] # "exited"
                      /\ life'[p] = "alive" => life[p] = "alive"
  BY <1>1
<1>3. Armed(o, life', cmds')
  <2>1. Armed(o, life', cmds)
    <3> SUFFICES ASSUME NEW j \in Key
                 PROVE  LET q == o.specs[j].proc
                        IN  /\ o.specs[j].state = "draining" /\ q # Nil =>
                                 \/ life'[q] # "alive"
                                 \/ cmdDrainGraceExpired(j, q) \in cmds \cup o.armed
                                 \/ cmdKillGraceExpired(j, q) \in cmds \cup o.armed
                            /\ o.specs[j].state = "backoff" =>
                                 \E n \in cmds \cup o.armed : n.cmd = "backoffFire" /\ n.key = j
      BY DEF Armed
    <3>1. o.specs[j].proc # Nil => o.specs[j].proc \in Proc BY <1>0 DEF OwnerType, SpecState
    <3> QED BY <1>0, <1>2, <3>1 DEF Fine, Good, Armed
  <2>2. CASE o.specs[m.key].proc # m.proc BY <1>0, <1>1, <2>1, <2>2, Unneeded
  <2>3. CASE o.specs[m.key].proc = m.proc
    <3>1. life'[m.proc] # "alive" BY <1>1, <2>3
    <3> SUFFICES ASSUME NEW j \in Key
                 PROVE  LET q == o.specs[j].proc
                        IN  /\ o.specs[j].state = "draining" /\ q # Nil =>
                                 \/ life'[q] # "alive"
                                 \/ cmdDrainGraceExpired(j, q) \in cmds' \cup o.armed
                                 \/ cmdKillGraceExpired(j, q) \in cmds' \cup o.armed
                            /\ o.specs[j].state = "backoff" =>
                                 \E n \in cmds' \cup o.armed : n.cmd = "backoffFire" /\ n.key = j
      BY DEF Armed
    <3> DEFINE q == o.specs[j].proc
    <3>2. q # Nil => q \in Proc BY <1>0 DEF OwnerType, SpecState
    <3>3. q # Nil => /\ cmdDrainGraceExpired(j, q).cmd = "drainGraceExpired"
                     /\ cmdKillGraceExpired(j, q).proc = q
      BY <3>2, DrainTimer, KillKey, SMT
    <3>4. /\ o.specs[j].state = "draining" /\ q # Nil =>
               \/ life'[q] # "alive"
               \/ cmdDrainGraceExpired(j, q) \in cmds \cup o.armed
               \/ cmdKillGraceExpired(j, q) \in cmds \cup o.armed
          /\ o.specs[j].state = "backoff" =>
               \E n \in cmds \cup o.armed : n.cmd = "backoffFire" /\ n.key = j
      BY <2>1 DEF Armed
    <3> HIDE DEF q
    <3>5. o.specs[j].state = "draining" /\ q # Nil =>
            \/ life'[q] # "alive"
            \/ cmdDrainGraceExpired(j, q) \in cmds' \cup o.armed
            \/ cmdKillGraceExpired(j, q) \in cmds' \cup o.armed
      BY <1>0, <1>1, <3>1, <3>3, <3>4
    <3>6. o.specs[j].state = "backoff" =>
            \E n \in cmds' \cup o.armed : n.cmd = "backoffFire" /\ n.key = j
      BY <1>0, <1>1, <3>4
    <3> QED BY <3>5, <3>6 DEF q
  <2> QED BY <2>2, <2>3
<1>4. Homes(o, life') BY <1>0, <1>2 DEF Fine, Good, Homes
<1>5. Fine(o, W, life', cmds', {}) BY <1>0, <1>3, <1>4 DEF Fine, Good
<1>6. Ended(o', W, life', cmds') /\ Kept(o, o', W) /\ Steady(o, o') BY <1>1, <1>5, AdvanceFine
<1> QED BY <1>6, UnhurriedSteps DEF Stepped

\* Idle processes drain.
LEMMA ScanIdleFine ==
  ASSUME NEW W, Fine(o, W, life, cmds, {}), scanIdle
  PROVE  Stepped(W)
<1>1. PICK S : o' = advance(beginDrain(o, S)) BY DEF scanIdle
<1>2. cmds' = cmds /\ life' = life BY DEF scanIdle
<1> DEFINE c == beginDrain(o, S)
<1>3. Fine(c, W, life, cmds', {}) /\ Kept(o, c, W) /\ Steady(o, c)
  BY <1>2, BeginDrainFine
<1> HIDE DEF c
<1>4. Unhurried(o, c) BY <1>3, UnhurriedSteps
<1> QED BY <1>1, <1>2, <1>3, <1>4, Concluded DEF c

(***************************************************************************)
(* Close and a pushed configuration.                                       *)
(***************************************************************************)

\* Everyone who waits on a key of S is answered.
LEMMA AnswerPendingReplied ==
  ASSUME NEW b, NEW W, NEW L, NEW M, Good(b, W, L, M), NEW S \in SUBSET Key,
         NEW err \in Reply \ {"none"}
  PROVE  Replied(b, answerPending(b, S, err), UNION {b.specs[k].pending : k \in S}, W, S)
<1> DEFINE C == UNION {b.specs[k].pending : k \in S}
           d == answer(b, C, err, NoLease)
           T == {cmdWaiterTimeout(k, x) : k \in S, x \in C}
           A == d.armed \ T
           a == [d EXCEPT !.armed = A]
<1>0. b \in OwnerType /\ \A k \in Key : b.specs[k].pending \in SUBSET Caller
  BY DEF Good, OwnerType, SpecState
<1>1. answerPending(b, S, err) = a BY SMT DEF answerPending
<1>2. C \in SUBSET Caller BY <1>0
<1>3. C \subseteq W /\ \A x \in C : b.reply[x] = "none" BY SMT DEF Good, Waiting
<1>4. \A k \in Key : b.specs[k].pending \ C = IF k \in S THEN {} ELSE b.specs[k].pending
  BY SMT DEF Good, Waiting
<1>5. \A t \in T : t.cmd = "waiterTimeout" BY <1>2, WaiterTimer, SMT
<1> HIDE DEF C, T
<1>6. /\ d \in OwnerType
      /\ \A x \in Caller : /\ d.reply[x] = IF x \in C THEN err ELSE b.reply[x]
                           /\ d.lease[x] = IF x \in C THEN NoLease ELSE b.lease[x]
      /\ d.specs = b.specs /\ d.armed = b.armed /\ d.work = b.work
      /\ d.decided = b.decided /\ d.stopped = b.stopped /\ d.closing = b.closing
  BY <1>0, <1>2, NoLeaseType, Answered, SMT
<1> HIDE DEF d
<1>7. A \in SUBSET Timer BY <1>6 DEF OwnerType
<1>8. A \subseteq b.armed /\ \A m \in b.armed : m.cmd # "waiterTimeout" => m \in A
  BY <1>5, <1>6
<1> HIDE DEF A
<1>9. /\ a \in OwnerType /\ a.specs = d.specs /\ a.reply = d.reply /\ a.lease = d.lease
      /\ a.armed = A /\ a.work = d.work /\ a.decided = d.decided /\ a.stopped = d.stopped
      /\ a.closing = d.closing
  <2>1. a \in OwnerType BY <1>6, <1>7, FieldTypes
  <2> QED BY <1>6, <2>1 DEF OwnerType
<1> HIDE DEF a
<1>10. \A x \in Caller : IF x \in C
                         THEN b.reply[x] = "none" /\ a.reply[x] # "none" /\ a.lease[x] = NoLease
                         ELSE a.reply[x] = b.reply[x] /\ a.lease[x] = b.lease[x]
  BY <1>3, <1>6, <1>9, SMT
<1>11. Replied(b, a, C, W, S)
  BY <1>2, <1>3, <1>4, <1>6, <1>8, <1>9, <1>10 DEF Replied
<1> QED BY <1>1, <1>11 DEF C

\* Close: everyone who waits is answered, and every process drains.
LEMMA CloseFine ==
  ASSUME NEW W, Ready(W), NEW m, Close(m)
  PROVE  Stepped(W)
<1> DEFINE waiting == {k \in Key : o.specs[k].state = "backoff"}
           C == UNION {o.specs[k].pending : k \in Key}
           a == answerPending(o, Key, "manager_closed")
           f == [k \in Key |->
                  IF k \in waiting
                  THEN [o.specs[k] EXCEPT !.pending = {}, !.state = "stopped", !.backoffTimer = Nil]
                  ELSE [o.specs[k] EXCEPT !.pending = {}]]
           A == a.armed \ backoffTimers(o, waiting)
           d == [a EXCEPT !.specs = f]
           e == [d EXCEPT !.armed = A]
           b == [a EXCEPT !.closing = TRUE, !.armed = A, !.specs = f]
           c == beginDrain(b, Key)
<1>0. /\ Fine(o, W, life, cmds', {}) /\ o \in OwnerType /\ o.specs \in [Key -> SpecState]
      /\ life' = life /\ \A i \in cmds : i.cmd = "killGraceExpired" => i \in cmds'
      /\ Good(o, W, life, cmds') /\ o.armed \subseteq Timer
  BY DEF Ready, Fine, Good, OwnerType
<1>1. o' = advance(c) BY DEF Close
<1>2. /\ a \in OwnerType /\ a.specs = o.specs /\ a.work = o.work
      /\ a.decided = o.decided /\ a.stopped = o.stopped
      /\ C \subseteq Caller /\ C \subseteq W
      /\ \A x \in Caller : IF x \in C
                           THEN o.reply[x] = "none" /\ a.reply[x] # "none" /\ a.lease[x] = NoLease
                           ELSE a.reply[x] = o.reply[x] /\ a.lease[x] = o.lease[x]
      /\ \A k \in Key : o.specs[k].pending \ C = {}
      /\ a.armed \subseteq o.armed
      /\ \A i \in o.armed : i.cmd # "waiterTimeout" => i \in a.armed
  <2>1. "manager_closed" \in Reply \ {"none"} /\ Key \in SUBSET Key BY DEF Reply
  <2>2. Replied(o, a, C, W, Key) BY <1>0, <2>1, AnswerPendingReplied
  <2> HIDE DEF a, C
  <2> QED BY <2>2 DEF Replied
<1>3. f \in [Key -> SpecState] /\ \A k \in Key :
        /\ f[k].pending = {} /\ f[k].proc = o.specs[k].proc
        /\ f[k].inFlight = o.specs[k].inFlight
        /\ f[k].intentionalStop = o.specs[k].intentionalStop
        /\ f[k].state # "backoff"
        /\ f[k].state = o.specs[k].state \/ f[k].state = "stopped"
  <2> SUFFICES ASSUME NEW k \in Key
               PROVE  /\ f[k] \in SpecState
                      /\ f[k].pending = {} /\ f[k].proc = o.specs[k].proc
                      /\ f[k].inFlight = o.specs[k].inFlight
                      /\ f[k].intentionalStop = o.specs[k].intentionalStop
                      /\ f[k].state # "backoff"
                      /\ f[k].state = o.specs[k].state \/ f[k].state = "stopped"
    OBVIOUS
  <2>1. o.specs[k] \in SpecState BY <1>0
  <2>2. CASE k \in waiting
    <3>1. "stopped" \in State BY DEF State
    <3>2. f[k] = [o.specs[k] EXCEPT !.pending = {}, !.state = "stopped", !.backoffTimer = Nil]
      BY <2>2
    <3> HIDE DEF f
    <3>3. f[k] \in SpecState BY <2>1, <3>1, <3>2 DEF SpecState
    <3>4. /\ f[k].pending = {} /\ f[k].proc = o.specs[k].proc
          /\ f[k].inFlight = o.specs[k].inFlight
          /\ f[k].intentionalStop = o.specs[k].intentionalStop /\ f[k].state = "stopped"
      BY <2>1, <3>2 DEF SpecState
    <3> QED BY <3>3, <3>4
  <2>3. CASE k \notin waiting
    <3>1. f[k] = [o.specs[k] EXCEPT !.pending = {}] BY <2>3
    <3>2. o.specs[k].state # "backoff" BY <2>3
    <3> HIDE DEF f
    <3>3. f[k] \in SpecState
      <4>1. {} \in SUBSET Caller OBVIOUS
      <4>2. [o.specs[k] EXCEPT !.pending = {}] \in SpecState BY <2>1, <4>1, SpecUpdates
      <4> QED BY <3>1, <4>2
    <3>4. /\ f[k].pending = {} /\ f[k].proc = o.specs[k].proc
          /\ f[k].inFlight = o.specs[k].inFlight
          /\ f[k].intentionalStop = o.specs[k].intentionalStop /\ f[k].state = o.specs[k].state
      BY <2>1, <3>1 DEF SpecState
    <3> QED BY <3>2, <3>3, <3>4
  <2> QED BY <2>2, <2>3
<1>4. \A i \in a.armed : i.cmd # "backoffFire" => i \in A
  <2>1. \A i \in backoffTimers(o, waiting) : i.cmd = "backoffFire"
    BY BackoffKey, SMT DEF backoffTimers
  <2> QED BY <2>1
<1>5. A \in SUBSET Timer BY <1>0, <1>2
<1> HIDE DEF a, f, A, C
<1>6. d \in OwnerType BY <1>2, <1>3, FieldTypes
<1>7. e \in OwnerType BY <1>5, <1>6, FieldTypes
<1>8. b = [e EXCEPT !.closing = TRUE] BY <1>2 DEF OwnerType
<1>9. /\ b \in OwnerType /\ b.specs = f /\ b.reply = a.reply /\ b.lease = a.lease
      /\ b.armed = A /\ b.work = a.work /\ b.decided = a.decided /\ b.stopped = a.stopped
  <2>1. b \in OwnerType BY <1>7, <1>8 DEF OwnerType
  <2> QED BY <1>2, <2>1 DEF OwnerType
<1> HIDE DEF b, d, e
<1>10. Change(o, b, C)
  <2>1. \A k \in Key : b.specs[k].state = "absent" => o.specs[k].state = "absent"
    BY <1>3, <1>9
  <2>2. \A k \in Key : b.specs[k].state = "starting" => o.specs[k].state = "starting"
    BY <1>3, <1>9
  <2> QED BY <1>2, <1>3, <1>9, <2>1, <2>2, SMT DEF Change
<1>11. BurstsKept(o, b) BY <1>3, <1>9 DEF BurstsKept
<1>12. SameTurn(o, b) BY <1>2, <1>9 DEF SameTurn
<1>13. TimersKept(o, b)
  <2>1. \A k \in Key : b.specs[k].state \in {"draining", "backoff"} =>
                         b.specs[k].state = o.specs[k].state
    BY <1>3, <1>9
  <2>2. ASSUME NEW i \in o.armed,
               i.cmd \in {"drainGraceExpired", "killGraceExpired", "backoffFire"}
        PROVE  i \in b.armed \/ (i.cmd = "backoffFire" /\ b.specs[i.key].state # "backoff")
    <3>1. i \in a.armed BY <1>2, <2>2
    <3>2. CASE i.cmd # "backoffFire" BY <1>4, <1>9, <3>1, <3>2
    <3>3. CASE i.cmd = "backoffFire"
      <4>1. i.key \in Key BY <1>0, <3>3, CommandFields
      <4> QED BY <1>3, <1>9, <3>3, <4>1
    <3> QED BY <3>2, <3>3
  <2> QED BY <2>1, <2>2 DEF TimersKept
<1>14. Armed(b, life, cmds') BY <1>0, <1>3, <1>9, <1>13, ArmedKept DEF Good
<1>15. W \cup C = W BY <1>2
<1>16. Fine(b, W, life, cmds', {}) /\ Kept(o, b, W)
  BY <1>0, <1>10, <1>11, <1>12, <1>14, <1>15, ChangeFine, SMT
<1>17. Steady(o, b) BY <1>3, <1>9 DEF Steady
<1>18. Fine(c, W, life, cmds', {}) /\ Kept(b, c, W) /\ Steady(b, c)
  BY <1>0, <1>16, BeginDrainFine
<1> HIDE DEF c
<1>19. Kept(o, c, W) /\ Steady(o, c) BY <1>16, <1>17, <1>18, Twice
<1>20. Unhurried(o, c) BY <1>19, UnhurriedSteps
<1> QED BY <1>0, <1>1, <1>18, <1>19, <1>20, Concluded

\* A pushed configuration.  A key that it removes goes once it has no process, and a burst
\* instance that nobody waits on goes; the others keep their process, their leases and
\* those who wait on them.
LEMMA ApplyFine ==
  ASSUME NEW W, Ready(W), StateMatchesProc, NEW m, m.doc \in Doc, Apply(m)
  PROVE  Stepped(W)
<1> DEFINE b == o
           d == m.doc
           had == {k \in Key : exists(b, k)}
           removed == {k \in had : ~desired(d, k)}
           spare == {k \in had \ (removed \cup live(b)) : k[2] > 0 /\ IsBurst(d.specs[k[1]], k[2])}
           retired == {k \in spare : b.specs[k].pending = {}}
           deleted == (removed \ live(b)) \cup retired
           kept == had \ (removed \cup retired)
           changed == {k \in kept : b.specs[k].spec # d.specs[k[1]]}
           rested == {k \in changed \ live(b) : b.specs[k].state \in {"start_failed", "crashed", "backoff"}}
                       \cup {k \in spare : b.specs[k].state = "backoff"}
           unarmed == deleted \cup spare \cup {k \in rested : b.specs[k].state = "backoff"}
           relaunched == {k \in changed : /\ d.specs[k[1]].admin # "force_stopped"
                                          /\ d.specs[k[1]].launch # b.specs[k].spec.launch}
           halted == {k \in kept : d.specs[k[1]].admin = "force_stopped"}
           reconciled(k) ==
             [b.specs[k] EXCEPT !.spec = d.specs[k[1]],
                                !.removed = FALSE,
                                !.state = IF k \in rested THEN "stopped" ELSE @,
                                !.backoffTimer = IF k \in unarmed THEN Nil ELSE @]
           f == [k \in Key |->
                  CASE k \in deleted -> absent
                    [] k \in removed \ deleted -> [b.specs[k] EXCEPT !.removed = TRUE]
                    [] k \in kept -> reconciled(k)
                    [] k \notin had /\ floor(d, k) -> fresh(d.specs[k[1]])
                    [] OTHER -> absent]
           R == removed \ live(b)
           a == answerPending(b, R, "model_not_managed")
           C == UNION {o.specs[k].pending : k \in R}
           c == [a EXCEPT !.cfg = d,
                          !.specs = f,
                          !.decided = @ \ deleted,
                          !.armed = @ \ backoffTimers(b, unarmed)]
           start == {k \in Key : /\ f[k].state \notin {"absent", "backoff"}
                                 /\ f[k].proc = Nil
                                 /\ f[k].spec.admin # "force_stopped"
                                 /\ protected(f[k], k)}
           S == removed \cup relaunched \cup halted
           w == [NoWork EXCEPT !.first = start, !.wake = "all"]
<1>0. /\ Fine(o, W, life, cmds', {}) /\ o \in OwnerType /\ o.specs \in [Key -> SpecState]
      /\ Good(o, W, life, cmds') /\ o.armed \subseteq Timer /\ life' = life
      /\ \A i \in cmds : i.cmd = "killGraceExpired" => i \in cmds'
      /\ o.work = NoWork /\ o.decided = {}
  BY DEF Ready, Fine, Good, OwnerType
<1>1. o' = advance(o) \/ o' = schedule(beginDrain(c, S), w)
  BY ZenonT(30) DEF Apply, applyConfig
<1>2. R \in SUBSET Key /\ start \in SUBSET Key OBVIOUS
\* Which keys are of which kind.
<1>3. ASSUME NEW k \in Key
      PROVE  /\ k \in deleted => /\ o.specs[k].proc = Nil
                                 /\ k \in R \/ o.specs[k].pending = {}
             /\ k \in R => k \in deleted
             /\ k \in deleted \/ k \in removed \ deleted \/ k \in kept \/ k \notin had
             /\ k \in removed \ deleted => o.specs[k].proc # Nil
             /\ k \in removed => k \notin spare /\ k \notin rested
             /\ k \in kept => k \notin R
             /\ k \in kept /\ k \in rested => o.specs[k].proc = Nil
             /\ k \in kept /\ o.specs[k].proc = Nil /\ k[2] > 0 /\ IsBurst(d.specs[k[1]], k[2])
                  => k \in spare
             /\ k \in spare /\ o.specs[k].state = "backoff" => k \in rested
             /\ k \in unarmed => k \in deleted \/ k \in spare \/ k \in rested
             /\ k \notin had => /\ o.specs[k].state = "absent"
                                /\ k \notin R /\ k \notin unarmed
  BY DEF live, exists
<1>4. ASSUME NEW k \in Key
      PROVE  /\ k \in deleted => f[k] = absent
             /\ k \in removed \ deleted => f[k] = [o.specs[k] EXCEPT !.removed = TRUE]
             /\ k \in kept => f[k] = reconciled(k)
             /\ k \notin had => f[k] \in {absent, fresh(d.specs[k[1]])}
  <2>1. k \in kept => k \notin deleted /\ k \notin removed OBVIOUS
  <2>2. k \notin had => k \notin deleted /\ k \notin removed /\ k \notin kept OBVIOUS
  <2> HIDE DEF had, removed, deleted, kept, rested, unarmed
  <2> QED BY <2>1, <2>2
<1> HIDE DEF start, S, had, removed, spare, retired, deleted, kept, changed, rested, unarmed, R
<1>5. absent \in SpecState /\ absent.pending = {} /\ absent.proc = Nil /\ absent.inFlight = 0
      /\ absent.state = "absent" /\ ~absent.intentionalStop
  BY AbsentType DEF absent
<1> DEFINE Facts(k, st) ==
             /\ st \in SpecState
             /\ st.pending = IF k \in R THEN {} ELSE o.specs[k].pending
             /\ st.proc = o.specs[k].proc
             /\ st.inFlight = o.specs[k].inFlight
             /\ st.intentionalStop => o.specs[k].intentionalStop
             /\ st.state = o.specs[k].state \/ st.state \in {"absent", "stopped"}
             /\ st.state = "absent" => st.pending = {} /\ st.proc = Nil
             /\ k \in unarmed => st.state # "backoff"
             /\ k[2] > 0 /\ IsBurst(st.spec, k[2]) => st.state # "backoff"
<1>6. ASSUME NEW k \in Key PROVE Facts(k, f[k])
  <2>0. o.specs[k] \in SpecState BY <1>0
  <2>1. d.specs[k[1]] \in SpecType BY ConfiguredType DEF Key
  <2>2. o.specs[k].proc = Nil => o.specs[k].inFlight = 0 BY <1>0 DEF Good, Leases
  <2>3. o.specs[k].state = "absent" => o.specs[k].pending = {} /\ o.specs[k].proc = Nil
    BY <1>0 DEF Good, Empties
  <2>4. o.specs[k].proc # Nil => o.specs[k].state # "backoff" BY DEF StateMatchesProc
  <2>5. CASE k \in deleted
    <3>1. f[k] = absent BY <1>4, <2>5
    <3> HIDE DEF f
    <3> QED BY <1>3, <1>5, <2>2, <2>5, <3>1
  <2>6. CASE k \in removed \ deleted
    <3> DEFINE st == [o.specs[k] EXCEPT !.removed = TRUE]
    <3>1. f[k] = st BY <1>4, <2>6
    <3>2. st \in SpecState BY <2>0 DEF SpecState
    <3>3. /\ st.pending = o.specs[k].pending /\ st.proc = o.specs[k].proc
          /\ st.inFlight = o.specs[k].inFlight /\ st.state = o.specs[k].state
          /\ st.intentionalStop = o.specs[k].intentionalStop
      BY <2>0 DEF SpecState
    <3>4. /\ k \notin R /\ o.specs[k].proc # Nil BY <1>3, <2>6
    <3> HIDE DEF f, st
    <3> QED BY <2>3, <2>4, <3>1, <3>2, <3>3, <3>4
  <2>7. CASE k \in kept
    <3> DEFINE s == IF k \in rested THEN "stopped" ELSE o.specs[k].state
               t == IF k \in unarmed THEN Nil ELSE o.specs[k].backoffTimer
               st == [o.specs[k] EXCEPT !.spec = d.specs[k[1]], !.removed = FALSE,
                                        !.state = s, !.backoffTimer = t]
    <3>1. f[k] = st BY <1>4, <2>0, <2>7 DEF SpecState
    <3>2. s \in State /\ t \in BackoffTimer \cup {Nil} BY <2>0 DEF State, SpecState
    <3>3. /\ k \in unarmed => s # "backoff"
          /\ k[2] > 0 /\ IsBurst(d.specs[k[1]], k[2]) => s # "backoff"
          /\ k \notin R
      <4>2. k \notin R BY <1>3, <2>7
      <4>3. k \in spare \/ k \in rested => s # "backoff" BY <1>3
      <4>4. k \in deleted => o.specs[k].state # "backoff" \/ k \in rested
        <5> SUFFICES ASSUME k \in deleted PROVE FALSE OBVIOUS
        <5> QED BY <2>7 DEF deleted, kept, removed, retired, R
      <4>5. k[2] > 0 /\ IsBurst(d.specs[k[1]], k[2]) => s # "backoff"
        BY <1>3, <2>4, <2>7, <4>3
      <4>6. k \in unarmed => s # "backoff" BY <1>3, <4>3, <4>4
      <4> QED BY <4>2, <4>5, <4>6
    <3>4. s = o.specs[k].state \/ s = "stopped" OBVIOUS
    <3> HIDE DEF s, t, f
    <3>5. st \in SpecState BY <2>0, <2>1, <3>2 DEF SpecState
    <3>6. /\ st.pending = o.specs[k].pending /\ st.proc = o.specs[k].proc
          /\ st.inFlight = o.specs[k].inFlight /\ st.state = s
          /\ st.intentionalStop = o.specs[k].intentionalStop
          /\ st.spec = d.specs[k[1]]
      BY <2>0 DEF SpecState
    <3> HIDE DEF st
    <3> QED BY <2>3, <3>1, <3>3, <3>4, <3>5, <3>6
  <2>8. CASE k \notin had
    <3> DEFINE st == fresh(d.specs[k[1]])
    <3>1. st \in SpecState BY <2>1, FreshType
    <3>2. /\ st.pending = {} /\ st.proc = Nil /\ st.inFlight = 0 /\ st.state = "stopped"
          /\ ~st.intentionalStop
      BY DEF fresh, absent
    <3>3. f[k] \in {absent, st} BY <1>4, <2>8
    <3>4. o.specs[k].state = "absent" /\ k \notin R BY <1>3, <2>8
    <3> HIDE DEF f, st
    <3> QED BY <1>5, <2>2, <2>3, <3>1, <3>2, <3>3, <3>4
  <2> QED BY <1>3, <2>5, <2>6, <2>7, <2>8
<1>7. f \in [Key -> SpecState]
  <2> DEFINE g(k) == f[k]
  <2>1. \A k \in Key : f[k] \in SpecState BY <1>6
  <2> QED BY <2>1
<1> HIDE DEF f, w
<1>8. /\ a \in OwnerType /\ a.specs = o.specs /\ a.work = o.work
      /\ a.decided = o.decided /\ a.stopped = o.stopped /\ a.closing = o.closing
      /\ C \subseteq Caller /\ C \subseteq W
      /\ \A x \in Caller : IF x \in C
                           THEN o.reply[x] = "none" /\ a.reply[x] # "none" /\ a.lease[x] = NoLease
                           ELSE a.reply[x] = o.reply[x] /\ a.lease[x] = o.lease[x]
      /\ \A k \in Key : o.specs[k].pending \ C = IF k \in R THEN {} ELSE o.specs[k].pending
      /\ a.armed \subseteq o.armed
      /\ \A i \in o.armed : i.cmd # "waiterTimeout" => i \in a.armed
  <2>1. "model_not_managed" \in Reply \ {"none"} BY DEF Reply
  <2>2. R \in SUBSET Key /\ Good(o, W, life, cmds') BY <1>0, <1>2
  <2>3. answerPending(b, R, "model_not_managed") = a OBVIOUS
  <2>4. Replied(o, a, C, W, R) BY <2>1, <2>2, AnswerPendingReplied
  <2> HIDE DEF a, C
  <2> QED BY <2>4 DEF Replied
<1> DEFINE T == backoffTimers(b, unarmed)
           A == a.armed \ T
           D == a.decided \ deleted
           a1 == [a EXCEPT !.specs = f]
           a2 == [a1 EXCEPT !.decided = D]
           a3 == [a2 EXCEPT !.armed = A]
<1>9. \A i \in T : i.cmd = "backoffFire" /\ i.key \in unarmed
  BY BackoffKey, SMT DEF backoffTimers
<1>10. A \in SUBSET Timer /\ D = {} BY <1>0, <1>8
<1>11. c = [a EXCEPT !.cfg = d, !.specs = f, !.decided = D, !.armed = A] OBVIOUS
<1> HIDE DEF a, C, T, A, D, c
<1>12. D \in SUBSET Key BY <1>10
<1>13. a1 \in OwnerType BY <1>7, <1>8, FieldTypes
<1>14. a2 \in OwnerType BY <1>12, <1>13, FieldTypes
<1>15. a3 \in OwnerType BY <1>10, <1>14, FieldTypes
<1>16. c = [a3 EXCEPT !.cfg = d] BY <1>8, <1>11 DEF OwnerType
<1>17. /\ c \in OwnerType /\ c.specs = f /\ c.reply = a.reply /\ c.lease = a.lease
       /\ c.armed = A /\ c.work = a.work /\ c.decided = D /\ c.stopped = a.stopped
       /\ c.closing = a.closing
  <2>1. d \in Doc \cup {NoDoc} OBVIOUS
  <2>2. c \in OwnerType
    <3> HIDE DEF a3
    <3> QED BY <1>15, <1>16, <2>1 DEF OwnerType
  <2> QED BY <1>8, <1>11, <2>2 DEF OwnerType
<1> HIDE DEF a1, a2, a3
<1>18. Change(o, c, C)
  <2>1. \A k \in Key : /\ c.specs[k].pending = o.specs[k].pending \ C
                       /\ c.specs[k].proc = o.specs[k].proc
                       /\ c.specs[k].inFlight = o.specs[k].inFlight
                       /\ c.specs[k].state = "starting" => o.specs[k].state = "starting"
                       /\ c.specs[k].state = "absent" =>
                            c.specs[k].pending = {} /\ c.specs[k].proc = Nil
    BY <1>6, <1>8, <1>17
  <2> QED BY <1>8, <1>17, <2>1, SMT DEF Change
<1>19. TimersKept(o, c)
  <2>1. \A k \in Key : c.specs[k].state \in {"draining", "backoff"} =>
                         c.specs[k].state = o.specs[k].state
    BY <1>6, <1>17
  <2>2. ASSUME NEW i \in o.armed,
               i.cmd \in {"drainGraceExpired", "killGraceExpired", "backoffFire"}
        PROVE  i \in c.armed \/ (i.cmd = "backoffFire" /\ c.specs[i.key].state # "backoff")
    <3>1. i \in a.armed BY <1>8, <2>2
    <3>2. CASE i \notin T BY <1>17, <3>1, <3>2 DEF A
    <3>3. CASE i \in T
      <4>1. i.cmd = "backoffFire" /\ i.key \in unarmed BY <1>9, <3>3
      <4>2. i.key \in Key BY <1>0, <4>1, CommandFields
      <4> QED BY <1>6, <1>17, <4>1, <4>2
    <3> QED BY <3>2, <3>3
  <2> QED BY <2>1, <2>2 DEF TimersKept
<1>20. Armed(c, life, cmds') BY <1>0, <1>18, <1>19, ArmedKept, SMT DEF Good, Change
<1>21. W \cup C = W BY <1>8
<1>22. Good(c, W, life, cmds') /\ Kept(o, c, W) BY <1>0, <1>18, <1>20, <1>21, ChangeGood, SMT
<1>23. Mid(c, Key)
  <2>1. \A k \in Key : k[2] > 0 /\ burst(c.specs[k], k) => c.specs[k].state # "backoff"
    BY <1>6, <1>17 DEF burst
  <2>2. Unasked(c) \ Key = {} BY DEF Unasked
  <2>3. c.closing => \A k \in Key : c.specs[k].pending = {}
    BY <1>0, <1>8, <1>17, <1>18 DEF Fine, Mid, Change
  <2>4. ~c.stopped BY <1>0, <1>8, <1>17 DEF Fine, Mid
  <2> QED BY <2>1, <2>2, <2>3, <2>4 DEF Mid
<1>24. Steady(o, c) BY <1>6, <1>17 DEF Steady
<1> DEFINE e == beginDrain(c, S)
<1>25. Fine(e, W, life, cmds', Key) /\ Kept(c, e, W) /\ Steady(c, e) /\ SameTurn(c, e)
  BY <1>0, <1>22, <1>23, BeginDrainFine DEF Fine
<1> HIDE DEF e
<1>26. Kept(o, e, W) /\ Steady(o, e) BY <1>22, <1>24, <1>25, Twice
<1>27. Unhurried(o, e) BY <1>26, UnhurriedSteps
<1>28. e.work = NoWork /\ e.decided = {} BY <1>0, <1>8, <1>10, <1>17, <1>25 DEF SameTurn
<1>29. w \in Work /\ w.wake # "none"
  <2>1. w.wake = "all" BY DEF w, NoWork
  <2> QED BY <1>2, <2>1, WorkTypes DEF w
<1>30. CASE o' = advance(o)
  <2>1. Kept(o, o, W) /\ Unhurried(o, o) BY Twice, UnhurriedSteps
  <2> QED BY <1>0, <1>30, <2>1, Concluded
<1>31. CASE o' = schedule(e, w) BY <1>0, <1>25, <1>26, <1>27, <1>28, <1>29, <1>31, Concluded
<1> QED BY <1>1, <1>30, <1>31 DEF e
=============================================================================
