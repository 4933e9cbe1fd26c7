------------------------------- MODULE Policy -------------------------------
(***************************************************************************)
(* The co-residency policy of the server agent's runtime manager:          *)
(* server-agent/internal/runtime/policy.go and instance.go.  A pure        *)
(* function, Admit, that decides from a snapshot of the live processes     *)
(* whether a candidate may start now, must wait, evicts idle processes     *)
(* first or is refused.                                                    *)
(*                                                                         *)
(* A live process (RunningProc) is a record                                *)
(*   [id, base, instance, surplus, gpus, ram, inFlight, pinned, role,      *)
(*    lastUsed, starting]                                                  *)
(* where id = <<base, instance>>, gpus maps the GPU indexes it uses to the *)
(* VRAM it is charged (0 = unknown) and lastUsed is a time stamp.  A       *)
(* candidate is [id, base, gpus, ram, role].  A snapshot (PolicySnapshot)  *)
(* is a record                                                             *)
(*   [running, maxProcesses, now, grace, budgets, hostRAM, hostRAMCeiling, *)
(*    ramBootstrapInFlight, ramGuess, vramBootstrapEligible, noEvict,      *)
(*    allowed]                                                             *)
(* with running a set of processes, budgets a function on GPU indexes and  *)
(* allowed the set of unordered pairs of specs that may run side by side.  *)
(*                                                                         *)
(* The Go code sweeps the processes in a fixed order (by spec, the highest *)
(* instance index first) and accumulates its verdict in an admission       *)
(* struct.  Here each rule maps such a record a = [evict, blocked,         *)
(* ramBlocked, bootstrap] to the next, and a sweep is written as the set   *)
(* it computes.                                                            *)
(***************************************************************************)
EXTENDS Integers, FiniteSets, FiniteSetsExt

(***************************************************************************)
(* instance.go: which instances a spec protects, allows and calls burst.   *)
(***************************************************************************)
MaxInstanceIndex == 63

ProtectedCount(spec) ==
  LET floor == IF spec.replicable THEN spec.min ELSE 0
      baseline == IF spec.pinned \/ spec.admin = "force_running" THEN 1 ELSE 0
  IN  Max({floor, baseline})

InstanceAllowed(spec, k) ==
  \/ k = 0
  \/ /\ k > 0
     /\ spec.replicable
     /\ k <= MaxInstanceIndex
     /\ spec.max = 0 \/ k < spec.max

IsBurst(spec, k) == k >= Max({ProtectedCount(spec), 1})

(***************************************************************************)
(* Facts about one process or one candidate.                               *)
(***************************************************************************)
IdLess(i, j) == i[1] < j[1] \/ (i[1] = j[1] /\ i[2] < j[2])

withinGrace(snap, r) == snap.grace > 0 /\ snap.now - r.lastUsed <= snap.grace

isEvictable(snap, r) ==
  /\ ~r.pinned
  /\ ~r.starting
  /\ r.inFlight = 0
  /\ ~withinGrace(snap, r)

touchesAnyGPU(r, cand) == DOMAIN r.gpus \cap DOMAIN cand.gpus # {}

specHasUnknownVRAM(spec) == \E g \in DOMAIN spec.gpus : spec.gpus[g] = 0

procHasUnknownVRAM(r) == \E g \in DOMAIN r.gpus : r.gpus[g] = 0

specHasUnknownRAM(spec) == spec.ram = 0

demandUnknown(spec) == specHasUnknownVRAM(spec) \/ specHasUnknownRAM(spec)

pairAllowed(snap, base, r) == r.base = base \/ {base, r.base} \in snap.allowed

budgetOf(snap, g) == IF g \in DOMAIN snap.budgets THEN snap.budgets[g] ELSE 0

(***************************************************************************)
(* Who may be evicted for a candidate.  The candidate's own siblings never *)
(* are, and a process only together with every higher instance of its      *)
(* spec: the highest index leaves first.                                   *)
(***************************************************************************)
others(snap, cand) == {r \in snap.running : r.id # cand.id}

mayEvict(snap, cand, r) == isEvictable(snap, r) /\ r.base # cand.base

higherSiblings(snap, cand, r) ==
  {q \in others(snap, cand) : q.base = r.base /\ q.instance > r.instance}

\* Mutant: the highest index need not leave first.
leavesInAnyOrder(snap, cand, a, S) == S

\* Of the processes in S, those whose higher siblings are all in S as well, or
\* already on their way out.
leavesInOrder(snap, cand, a, S) ==
  {r \in S : higherSiblings(snap, cand, r) \subseteq S \cup a.evict}

(***************************************************************************)
(* A rule that insists that every process of S goes.                       *)
(***************************************************************************)
\* Mutant: evicts those it can although another one stays in the way.
evictSome(snap, cand, a, S) ==
  LET gone == leavesInOrder(snap, cand, a, {r \in S : mayEvict(snap, cand, r)})
  IN  [a EXCEPT !.evict = @ \cup gone, !.blocked = @ \/ (gone = {} /\ S # {})]

evictAll(snap, cand, a, S) ==
  LET gone == leavesInOrder(snap, cand, a, {r \in S : mayEvict(snap, cand, r)})
  IN  [a EXCEPT !.evict = @ \cup gone, !.blocked = @ \/ gone # S]

(***************************************************************************)
(* A rule that draws victims from a pool, one at a time in the order of    *)
(* orderVictims, until the excess demand is covered.                       *)
(***************************************************************************)
victimLess(role, r, q) ==
  CASE r.surplus # q.surplus -> r.surplus
    [] r.surplus = q.surplus /\ (r.role = role) # (q.role = role) -> r.role = role
    [] OTHER -> r.lastUsed < q.lastUsed
                \/ (r.lastUsed = q.lastUsed /\ IdLess(r.id, q.id))

\* siblingsHighestFirst: among the places the sort gave to r's spec, r takes
\* the one that its instance index, counted from the highest, entitles it to.
placeOf(role, r, S) ==
  LET siblings == {q \in S : q.base = r.base}
  IN  CHOOSE p \in siblings :
        Cardinality({q \in siblings : victimLess(role, q, p)})
          = Cardinality({q \in siblings : q.instance > r.instance})

drawnBefore(role, q, r, S) == victimLess(role, placeOf(role, q, S), placeOf(role, r, S))

\* The processes of queue that are drawn: excess is left when their turn comes.
drawnVictims(role, idle, queue, excess, weight) ==
  {r \in queue :
     SumFunctionOnSet(weight, {q \in queue : drawnBefore(role, q, r, idle)}) < excess}

take(a, drawn, excess, weight) ==
  [a EXCEPT !.evict = @ \cup drawn,
            !.blocked = @ \/ SumFunctionOnSet(weight, drawn) < excess]

draw(snap, cand, a, pool, excess, weight) ==
  LET idle == {r \in pool : mayEvict(snap, cand, r)}
  IN  take(a, drawnVictims(cand.role, idle, leavesInOrder(snap, cand, a, idle),
                           excess, weight),
           excess, weight)

(***************************************************************************)
(* The refusals that come before every rule.                               *)
(***************************************************************************)
ownDemandRefused(snap, cand) ==
  \E g \in DOMAIN cand.gpus :
    /\ cand.gpus[g] # 0
    /\ budgetOf(snap, g) > 0
    /\ cand.gpus[g] > budgetOf(snap, g)

ramOwnDemandRefused(snap, cand) ==
  /\ snap.hostRAM > 0
  /\ cand.ram > 0
  /\ cand.ram > Max({snap.hostRAMCeiling, snap.hostRAM})

pinnedUnknownCandidateRefused(snap, cand) ==
  /\ specHasUnknownVRAM(cand)
  /\ \E r \in others(snap, cand) : r.pinned /\ touchesAnyGPU(r, cand)

pinnedUnknownOccupants(snap, cand) ==
  {r \in others(snap, cand) : /\ r.pinned
                              /\ procHasUnknownVRAM(r)
                              /\ touchesAnyGPU(r, cand)}

(***************************************************************************)
(* The six rules, in the order in which admitSteps applies them.           *)
(***************************************************************************)
ruleMatrix(snap, cand, a) ==
  evictAll(snap, cand, a,
           {r \in others(snap, cand) : ~pairAllowed(snap, cand.base, r)})

knownTouchers(snap, cand) ==
  {r \in others(snap, cand) : touchesAnyGPU(r, cand) /\ ~procHasUnknownVRAM(r)}

\* Mutant: a candidate of unknown demand evicts known ones at any time.
ruleUnknownAlwaysEvicts(snap, cand, a) ==
  IF specHasUnknownVRAM(cand) THEN evictAll(snap, cand, a, knownTouchers(snap, cand)) ELSE a

\* The start is a VRAM bootstrap when it evicts a process of known demand.
noteBootstrap(a, touchers) == [a EXCEPT !.bootstrap = touchers \cap a.evict # {}]

ruleUnknownVRAMCandidate(snap, cand, a) ==
  LET touchers == knownTouchers(snap, cand)
  IN  CASE ~specHasUnknownVRAM(cand) -> a
        [] specHasUnknownVRAM(cand) /\ ~snap.vramBootstrapEligible ->
             [a EXCEPT !.blocked = @ \/ touchers # {}]
        [] OTHER -> noteBootstrap(evictAll(snap, cand, a, touchers), touchers)

ruleUnknownVRAMOccupant(snap, cand, a) ==
  evictAll(snap, cand, a,
           {r \in others(snap, cand) : procHasUnknownVRAM(r) /\ touchesAnyGPU(r, cand)})

\* Mutant: the candidate's own demand is left out of the sum.
chargeWithoutCandidate(snap, cand, a, g) ==
  LET budget == budgetOf(snap, g)
      touchers == {r \in others(snap, cand) \ a.evict : g \in DOMAIN r.gpus}
      vram == [r \in touchers |-> r.gpus[g]]
      sum == SumFunction(vram)
  IN  IF cand.gpus[g] = 0 \/ budget <= 0 \/ sum <= budget
      THEN a
      ELSE draw(snap, cand, a, touchers, sum - budget, vram)

chargeGPUBudget(snap, cand, a, g) ==
  LET budget == budgetOf(snap, g)
      touchers == {r \in others(snap, cand) \ a.evict : g \in DOMAIN r.gpus}
      vram == [r \in touchers |-> r.gpus[g]]
      sum == cand.gpus[g] + SumFunction(vram)
  IN  IF cand.gpus[g] = 0 \/ budget <= 0 \/ sum <= budget
      THEN a
      ELSE draw(snap, cand, a, touchers, sum - budget, vram)

\* The spec's GPU list is taken in ascending index order.
rulePerGPUVRAM(snap, cand, a) ==
  MapThenFoldSet(LAMBDA g, acc : chargeGPUBudget(snap, cand, acc, g),
                 a, LAMBDA g : g, Max, DOMAIN cand.gpus)

\* A wait is on host RAM when what is drawn from the holders does not cover it.
noteShortRAM(a, holders, excess, ram) ==
  [a EXCEPT !.ramBlocked = @ \/ SumFunctionOnSet(ram, a.evict \cap holders) < excess]

ruleHostRAM(snap, cand, a) ==
  LET charge == IF specHasUnknownRAM(cand) THEN snap.ramGuess ELSE cand.ram
      holders == {r \in others(snap, cand) \ a.evict : r.ram > 0}
      ram == [r \in holders |-> r.ram]
      excess == charge + SumFunction(ram) - snap.hostRAM
  IN  CASE snap.hostRAM <= 0 -> a
        [] snap.hostRAM > 0 /\ snap.ramBootstrapInFlight ->
             [a EXCEPT !.blocked = TRUE, !.ramBlocked = TRUE]
        [] snap.hostRAM > 0 /\ ~snap.ramBootstrapInFlight
             /\ (charge <= 0 \/ excess <= 0) -> a
        [] OTHER -> noteShortRAM(draw(snap, cand, a, holders, excess, ram),
                                 holders, excess, ram)

\* Mutant: the candidate itself is not counted.
ruleProcessCountOffByOne(snap, cand, a) ==
  LET rest == others(snap, cand) \ a.evict
      deficit == Cardinality(rest) - snap.maxProcesses
      one == [r \in rest |-> 1]
  IN  IF snap.maxProcesses <= 0 \/ deficit <= 0
      THEN a
      ELSE draw(snap, cand, a, rest, deficit, one)

ruleProcessCount(snap, cand, a) ==
  LET rest == others(snap, cand) \ a.evict
      deficit == Cardinality(rest) + 1 - snap.maxProcesses
      one == [r \in rest |-> 1]
  IN  IF snap.maxProcesses <= 0 \/ deficit <= 0
      THEN a
      ELSE draw(snap, cand, a, rest, deficit, one)

(***************************************************************************)
(* The decision.  kind is the one shape a Decision has; evict holds the    *)
(* ids of the victims.                                                     *)
(***************************************************************************)
NoDecision == [kind |-> "ok", evict |-> {}, onRAM |-> FALSE, onGrace |-> FALSE,
               bootstrap |-> FALSE]

newAdmission == [evict |-> {}, blocked |-> FALSE, ramBlocked |-> FALSE,
                 bootstrap |-> FALSE]

allRules(snap, cand) ==
  ruleProcessCount(snap, cand,
    ruleHostRAM(snap, cand,
      rulePerGPUVRAM(snap, cand,
        ruleUnknownVRAMOccupant(snap, cand,
          ruleUnknownVRAMCandidate(snap, cand,
            ruleMatrix(snap, cand, newAdmission))))))

tooLarge(snap, cand) == ownDemandRefused(snap, cand) \/ ramOwnDemandRefused(snap, cand)

pairClosed(snap, cand) ==
  \E r \in pinnedUnknownOccupants(snap, cand) : ~pairAllowed(snap, cand.base, r)

notPermitted(snap, cand) ==
  \/ tooLarge(snap, cand)
  \/ ~pinnedUnknownCandidateRefused(snap, cand) /\ pairClosed(snap, cand)

pendingVRAMUnknown(snap, cand) ==
  /\ ~notPermitted(snap, cand)
  /\ \/ pinnedUnknownCandidateRefused(snap, cand)
     \/ pinnedUnknownOccupants(snap, cand) # {}

\* decide, without the grace question of a Wait
decide(a) ==
  CASE a.blocked -> [NoDecision EXCEPT !.kind = "wait", !.onRAM = a.ramBlocked]
    [] ~a.blocked /\ a.evict # {} ->
         [NoDecision EXCEPT !.kind = "evict", !.evict = {r.id : r \in a.evict},
                            !.bootstrap = a.bootstrap]
    [] OTHER -> NoDecision

\* The refusals, then the rules.
verdict(snap, cand) ==
  CASE notPermitted(snap, cand) -> [NoDecision EXCEPT !.kind = "not_permitted"]
    [] pendingVRAMUnknown(snap, cand) -> [NoDecision EXCEPT !.kind = "pending_vram_unknown"]
    [] OTHER -> decide(allRules(snap, cand))

\* Mutant: overlooks that the end of a grace may allow an eviction.
startsAfterGrace(snap, cand) ==
  snap.grace > 0 /\ verdict([snap EXCEPT !.grace = 0], cand).kind = "ok"

blockedSolelyByGrace(snap, cand) ==
  /\ snap.grace > 0
  /\ verdict([snap EXCEPT !.grace = 0], cand).kind \in {"ok", "evict"}

\* The grace question, asked of a Wait only.
flagGrace(snap, cand, dec) ==
  [dec EXCEPT !.onGrace = dec.kind = "wait" /\ blockedSolelyByGrace(snap, cand)]

admitSteps(snap, cand) == flagGrace(snap, cand, verdict(snap, cand))

\* Under NoEvict every answer but OK becomes NoCapacity.
noEvictGate(snap, dec) ==
  IF snap.noEvict /\ dec.kind # "ok" THEN [NoDecision EXCEPT !.kind = "no_capacity"] ELSE dec

Admit(snap, cand) == noEvictGate(snap, admitSteps(snap, cand))
=============================================================================
