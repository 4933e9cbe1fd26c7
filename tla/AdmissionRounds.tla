--------------------------- MODULE AdmissionRounds ---------------------------
(***************************************************************************)
(* One candidate asking the policy again and again, the way the manager    *)
(* asks it: admitAndStart takes a decision; an Evict decision drains its   *)
(* victims, each of which exits in its own time and re-asks the policy     *)
(* with the processes that are left (onProcExited); a Wait is asked again  *)
(* when a request completes (handleRelease) or when an eviction grace runs *)
(* out (handleGraceExpiry).  Nothing else starts meanwhile, so the module  *)
(* shows what the policy itself promises about a round.                    *)
(***************************************************************************)
EXTENDS Policy

CONSTANTS
  Families,  \* the snapshots a round may begin with, and the candidates that may ask
  MaxNow     \* bound: the clock stops here

VARIABLES
  snap,   \* the policy snapshot, as the processes come and go
  cand,   \* the candidate
  dec,    \* the policy's last decision
  victims \* the ids any decision of this round asked to evict

vars == <<snap, cand, dec, victims>>

Init ==
  /\ \E f \in Families : snap \in f.snapshots /\ cand \in f.candidates
  /\ \A r \in snap.running : r.id # cand.id
  /\ dec = Admit(snap, cand)
  /\ victims = dec.evict

\* The next decision.  A bootstrap eviction spends the candidate's one shot.
Reask(next) ==
  /\ snap' = [next EXCEPT !.vramBootstrapEligible = @ /\ ~dec.bootstrap]
  /\ dec' = Admit(snap', cand)
  /\ victims' = victims \cup dec'.evict
  /\ UNCHANGED cand

VictimExits ==
  \E r \in snap.running :
    /\ r.id \in victims
    /\ Reask([snap EXCEPT !.running = @ \ {r}])

RequestCompletes ==
  /\ dec.kind = "wait"
  /\ \E r \in snap.running :
       /\ r.inFlight > 0
       /\ Reask([snap EXCEPT !.running = (@ \ {r}) \cup
            {[r EXCEPT !.inFlight = @ - 1, !.lastUsed = snap.now]}])

GraceExpires ==
  /\ dec.kind = "wait"
  /\ snap.now < MaxNow
  /\ Reask([snap EXCEPT !.now = @ + 1])

Next == VictimExits \/ RequestCompletes \/ GraceExpires

Spec == Init /\ [][Next]_vars

(***************************************************************************)
(* Properties.                                                             *)
(***************************************************************************)

\* Every decision has exactly one of the shapes the Decision struct lists:
\* only an Evict names victims, all of them live, and only a Wait carries a
\* wait flag.
TypeOK ==
  /\ dec.kind \in {"ok", "evict", "wait", "not_permitted", "pending_vram_unknown",
                   "no_capacity"}
  /\ (dec.kind = "evict") <=> (dec.evict # {})
  /\ dec.evict \subseteq {r.id : r \in snap.running}
  /\ dec.onRAM \/ dec.onGrace => dec.kind = "wait"

\* Decision, "Evict-then-retry: once they are gone, Admit applied again to the
\* reduced running set is expected to return OK".  The victims exit in any
\* order, and each exit asks again; a re-ask may name further victims or, once
\* a bootstrap has spent its shot, wait for the remaining ones.  When all of
\* them are gone the answer is OK.
EvictionSuffices ==
  victims # {} /\ (\A r \in snap.running : r.id \notin victims) => dec.kind = "ok"

known(r) == ~procHasUnknownVRAM(r)

\* What OK means, stated without the algorithm: the candidate, once it runs
\* beside every process of the snapshot, exceeds no process limit, no known
\* GPU budget and no RAM budget (an unknown RAM demand counts as the guess), is
\* allowed beside each of them by the matrix, and shares no GPU with a process
\* when the demand of either is unknown.
OkFits ==
  LET R == snap.running
      charge == IF cand.ram = 0 THEN snap.ramGuess ELSE cand.ram
  IN  dec.kind = "ok" =>
        /\ snap.maxProcesses > 0 => Cardinality(R) + 1 <= snap.maxProcesses
        /\ \A r \in R : r.base # cand.base => {r.base, cand.base} \in snap.allowed
        /\ \A r \in R : touchesAnyGPU(r, cand) => known(r) /\ ~specHasUnknownVRAM(cand)
        /\ \A g \in DOMAIN cand.gpus :
             budgetOf(snap, g) > 0 =>
               cand.gpus[g] + MapThenSumSet(LAMBDA r : IF g \in DOMAIN r.gpus THEN r.gpus[g] ELSE 0, R)
                 <= budgetOf(snap, g)
        /\ snap.hostRAM > 0 /\ charge > 0 =>
             charge + MapThenSumSet(LAMBDA r : r.ram, R) <= snap.hostRAM

\* No decision ever costs work in progress: a victim is not pinned, not
\* loading, serves nobody, was not used within the grace, is no sibling of the
\* candidate, and no higher instance of its own spec is left running below it
\* once the victims are gone.
VictimsAreIdleAndHighest ==
  /\ TypeOK
  /\ \A r \in snap.running : r.id \in dec.evict =>
       /\ ~r.pinned /\ ~r.starting /\ r.inFlight = 0
       /\ snap.grace = 0 \/ r.lastUsed + snap.grace < snap.now
       /\ r.base # cand.base
       /\ \A q \in snap.running :
            q.base = r.base /\ q.instance > r.instance => q.id \in dec.evict

\* WaitOnGrace is exact.  A flagged Wait needs nothing but time; and when the
\* passage of time alone turns a Wait into a start or an eviction, that Wait was
\* flagged, so the manager had armed its grace timer and nobody is left waiting
\* for an event that never comes.
GraceFlagIsExact ==
  /\ [](dec.onGrace =>
          Admit([snap EXCEPT !.now = MaxNow + snap.grace + 1], cand).kind \in {"ok", "evict"})
  /\ [][GraceExpires /\ dec'.kind \in {"ok", "evict"} => dec.onGrace]_vars

\* Two specs on one GPU, one of known and one of unknown demand, never evict
\* each other in turn (known demand beats unknown demand): if the candidate
\* evicts an occupant, then that occupant, asking later with only the candidate
\* running and idle, does not evict the candidate back.
asOccupant(c) == [id |-> c.id, base |-> c.base, instance |-> c.id[2], surplus |-> FALSE,
                  gpus |-> c.gpus, ram |-> c.ram, inFlight |-> 0, pinned |-> FALSE,
                  role |-> c.role, lastUsed |-> 0, starting |-> FALSE]
asCandidate(r) == [id |-> r.id, base |-> r.base, gpus |-> r.gpus, ram |-> r.ram,
                   role |-> r.role]
NoEvictionPingPong ==
  \A r \in snap.running :
    /\ r.id \in dec.evict
    /\ touchesAnyGPU(r, cand)
    /\ procHasUnknownVRAM(r) # specHasUnknownVRAM(cand)
    /\ ~snap.vramBootstrapEligible
    => cand.id \notin Admit([snap EXCEPT !.running = {asOccupant(cand)}], asCandidate(r)).evict
=============================================================================
