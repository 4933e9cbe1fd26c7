--------------------------- MODULE BenchmarkLease ---------------------------
(***************************************************************************)
(* The launch-spec overrides of a benchmark run on one server, and the     *)
(* override lease that has to survive the gateway's death:                 *)
(* gateway/benchmark_pins.go, benchmark_stop.go, benchmark_vram_runner.go, *)
(* the audio ramp's two writers in benchmark_audio.go and the writers in   *)
(* portal/service_runtime_benchmark.go.                                    *)
(*                                                                         *)
(* A run lifts three fields of a launch spec: admin_state ("" becomes      *)
(* force_stopped), pinned (becomes false) and replicable (becomes false).  *)
(* Each write is a read, a comparison and a full-document upsert; the row  *)
(* of the lease is one settings value, replaced as a whole.  The store may *)
(* fail any call, and a failed write may have stored its row all the same. *)
(* The process may die between any two calls; the next one reconciles the  *)
(* lease before it serves anything.  An operator's write is refused while  *)
(* the reservation is held, but one that passed that check earlier may     *)
(* still land, a delete is never refused, and the application may be       *)
(* retyped.                                                                *)
(*                                                                         *)
(* Field names stand for the lease's lists as well: lease.admin is         *)
(* ClearForceStopped, lease.pinned is Repin, lease.repl is                 *)
(* RestoreReplicable.  All specs are enabled ones of the agent             *)
(* application.                                                            *)
(***************************************************************************)
EXTENDS Integers, FiniteSets

CONSTANTS
    Spec0,       \* the launch specs of the agent application
    NoSpec,      \* no spec is between its read and its upsert
    InitRows,    \* Spec0 -> the stored rows at the beginning
    Docs,        \* the documents an operator's write may carry
    MaxRuns,     \* bound: benchmark runs started
    MaxTargets,  \* bound: agent targets of one speed run
    MaxFaults,   \* bound: failed store calls
    MaxCrashes,  \* bound: deaths of the process
    MaxOps       \* bound: operator actions

VARIABLES
    rows,        \* Spec0 -> the stored launch spec (on: the row exists)
    lease,       \* the stored override lease of the server
    agentApp,    \* the application is of type server_agent
    up,          \* the process has finished its start
    job,         \* what the run's goroutine, or the start, is doing
    batch,       \* the batched compare-and-set it is in
    planned,     \* the VRAM run planned before its reservation, if any
    put,         \* an operator's write that passed the reservation check
    warned,      \* specs the portal named as retyped with a stored override
    named,       \* specs a result or a log line names as possibly overridden
    blind,       \* the last start could not read the leases
    runs, faults, crashes, ops

vars == <<rows, lease, agentApp, up, job, batch, planned, put, warned, named, blind,
          runs, faults, crashes, ops>>

Fields == {"admin", "pinned", "repl"}
Normal == [admin |-> "", pinned |-> TRUE, repl |-> "yes"]
Lifted == [admin |-> "stop", pinned |-> FALSE, repl |-> "no"]

Nothing == [f \in Fields |-> {}]
Join(a, b) == [f \in Fields |-> a[f] \cup b[f]]

\* A job between runs.  owed is the run's ov.stopOwed, ov.unpinned and
\* ov.singleProcess (for a VRAM run: pendingRestore and singleProcess).
Rest == [kind |-> "none", pc |-> "idle", owed |-> Nothing, carried |-> Nothing,
         stops |-> FALSE, wrote |-> FALSE, seen |-> [pinned |-> {}, repl |-> {}],
         left |-> Nothing, target |-> NoSpec, plan |-> {}, togo |-> 0,
         stopping |-> {}, audio |-> FALSE]

NoBatch == [field |-> "admin", lift |-> FALSE, todo |-> {}, cur |-> NoSpec,
            row |-> [on |-> FALSE], written |-> {}, gone |-> {},
            conflict |-> {}, failed |-> {}]

TypeOK ==
    /\ \A s \in Spec0 :
          /\ rows[s].on \in BOOLEAN
          /\ rows[s].admin \in {"", "stop", "run"}
          /\ rows[s].pinned \in BOOLEAN
          /\ rows[s].repl \in {"yes", "no", "port"}
          /\ rows[s].by \subseteq Fields
          /\ rows[s].rev \in 0 .. MaxOps
    /\ lease \in [Fields -> SUBSET Spec0]
    /\ agentApp \in BOOLEAN /\ up \in BOOLEAN /\ blind \in BOOLEAN
    /\ job.kind \in {"none", "start", "speed", "vram"}
    /\ job.owed \in [Fields -> SUBSET Spec0]
    /\ batch.todo \subseteq Spec0
    /\ warned \subseteq Spec0 /\ named \subseteq Spec0
    \* no run without a served process, and none before the start is over
    /\ (job.kind \in {"speed", "vram"}) => up
    /\ (job.kind = "none") => (job = Rest /\ batch = NoBatch)

-----------------------------------------------------------------------------
(* The store may fail a call.                                              *)

Fault == faults < MaxFaults /\ faults' = faults + 1
Works == UNCHANGED faults

(* SetBenchmarkOverrideLease replaces the row; a failed write may have     *)
(* stored it.                                                              *)
LeaseStored(l) == lease' = l /\ Works
LeaseFailed(l) == Fault /\ (lease' = l \/ UNCHANGED lease)

(***************************************************************************)
(* The batched writers (setBenchmarkRuntimeSpecs)                          *)
(***************************************************************************)
Batch(f, lift, ids) ==
    [NoBatch EXCEPT !.field = f, !.lift = lift, !.todo = ids]

Settled == batch.todo = {} /\ batch.cur = NoSpec

File(s, outcome) ==
    batch' = [batch EXCEPT !.todo = @ \ {s}, !.cur = NoSpec,
                           !.row = [on |-> FALSE], ![outcome] = @ \cup {s}]

Expected(s) ==
    rows[s][batch.field] = IF batch.lift THEN Normal[batch.field]
                                         ELSE Lifted[batch.field]

(* resolveBenchmarkSpecWrite, and writeRuntimeSpec up to its upsert: the   *)
(* read by id, expect, the application's type, the second read.            *)
Resolve(s) ==
    /\ s \in batch.todo /\ batch.cur = NoSpec
    /\ \/ /\ ~rows[s].on
          /\ File(s, "gone") /\ Works /\ UNCHANGED warned
       \/ /\ rows[s].on /\ ~Expected(s)
          /\ File(s, "conflict") /\ Works /\ UNCHANGED warned
       \/ /\ rows[s].on /\ Expected(s) /\ ~agentApp
          /\ File(s, "gone") /\ Works /\ warned' = warned \cup {s}
       \/ /\ rows[s].on /\ Expected(s) /\ agentApp
          /\ batch' = [batch EXCEPT !.todo = @ \ {s}, !.cur = s, !.row = rows[s]]
          /\ Works /\ UNCHANGED warned
       \/ Fault /\ File(s, "failed") /\ UNCHANGED warned
    /\ UNCHANGED <<rows, lease, agentApp, up, job, planned, put, named, blind, runs,
                   crashes, ops>>

Changed(r) ==
    [r EXCEPT ![batch.field] = IF batch.lift THEN Lifted[batch.field]
                                             ELSE Normal[batch.field],
              !.by = IF batch.lift THEN @ \cup {batch.field}
                                   ELSE @ \ {batch.field}]

(* writeRuntimeSpec's upsert of the document it read: a store error may    *)
(* come before it or after it (the GPU rows, the read-back).               *)
Upsert ==
    /\ batch.cur # NoSpec
    /\ LET s == batch.cur
           store == rows' = [rows EXCEPT ![s] = Changed(batch.row)]
       IN  \/ store /\ File(s, "written") /\ Works
           \/ Fault /\ (store \/ UNCHANGED rows) /\ File(s, "failed")
    /\ UNCHANGED <<lease, agentApp, up, job, planned, put, warned, named, blind, runs,
                   crashes, ops>>

\* Mutant: a write that failed is taken for not done.
MayHaveWrittenCertain == batch.written

MayHaveWritten == batch.written \cup batch.failed

-----------------------------------------------------------------------------
(* Steps of the job: a step at pc is taken once its batch has returned.    *)

Frame == UNCHANGED <<rows, agentApp, up, planned, put, warned, runs, crashes, ops>>

At(pc) == job.pc = pc /\ Settled

Go(j, pc) == job' = [j EXCEPT !.pc = pc]
Named(ids) == named' = named \cup ids

(***************************************************************************)
(* The reconcile of a lease, at a start and before a speed run writes      *)
(***************************************************************************)
(* ReconcileBenchmarkOverrideLeases reads the rows; an error leaves them.  *)
StartReads ==
    /\ At("read") /\ job.kind = "start"
    /\ \/ /\ Fault /\ blind' = TRUE
          /\ job' = Rest /\ batch' = NoBatch /\ up' = TRUE
       \/ /\ Works /\ blind' = FALSE
          /\ Go([job EXCEPT !.carried = lease], "clear")
          /\ batch' = Batch("admin", FALSE, lease.admin)
          /\ UNCHANGED up
    /\ UNCHANGED <<rows, lease, agentApp, planned, put, warned, named, runs, crashes,
                   ops>>

(* reconcileBenchmarkOverrideLease, one batch after the other.  What a     *)
(* batch could not settle stays in the lease and is named in a Warn.       *)
ReconcileBatch(pc, f, next, g) ==
    /\ At(pc)
    /\ Go([job EXCEPT !.left[f] = batch.failed], next)
    /\ Named(batch.failed)
    /\ batch' = IF g = "" THEN NoBatch ELSE Batch(g, FALSE, job.carried[g])
    /\ UNCHANGED <<lease, blind, faults>> /\ Frame

ReconcileClears == ReconcileBatch("clear", "admin", "repin", "pinned")
ReconcileRepins == ReconcileBatch("repin", "pinned", "rereplicate", "repl")
ReconcileReplicables == ReconcileBatch("rereplicate", "repl", "rewrite", "")

(* The rewrite to what is left.  The start is over after it; a speed run   *)
(* goes on only when nothing is left, with the specs read again.           *)
ReconcileRewrite ==
    /\ At("rewrite")
    /\ LeaseStored(job.left) \/ LeaseFailed(job.left)
    /\ IF job.kind = "start"
       THEN job' = Rest /\ up' = TRUE
       ELSE /\ UNCHANGED up
            /\ IF job.left = Nothing
               THEN Go([job EXCEPT !.carried = Nothing], "reread")
               ELSE Go([job EXCEPT !.carried = Nothing, !.left = Nothing], "targets")
    /\ UNCHANGED <<rows, agentApp, batch, planned, put, warned, named, blind, runs,
                   crashes, ops>>

\* BenchmarkRegistry.ServerBusy.
Reserved == job.kind \in {"speed", "vram"}

(***************************************************************************)
(* A speed or both run (runBenchmark)                                      *)
(***************************************************************************)
(* startBenchmark: the reservation (TryStart).                             *)
StartSpeed ==
    /\ up /\ job.kind = "none" /\ runs < MaxRuns
    /\ \E n \in 1 .. MaxTargets, a \in BOOLEAN :
          job' = [Rest EXCEPT !.kind = "speed", !.pc = "gates", !.togo = n,
                              !.audio = a]
    /\ runs' = runs + 1
    /\ UNCHANGED <<rows, lease, agentApp, up, batch, planned, put, warned, named, blind,
                   faults, crashes, ops>>

Seen == [pinned |-> {s \in Spec0 : rows[s].on /\ rows[s].pinned},
         repl   |-> {s \in Spec0 : rows[s].on /\ rows[s].repl = "yes"}]

(* beginBenchmarkUnpin's gates 1 to 3; a failed one turns stops off for    *)
(* the run and writes nothing.                                             *)
Gates ==
    /\ At("gates")
    /\ \/ Go(job, "targets") /\ Works                       \* not available
       \/ Go(job, "targets") /\ Fault                       \* the read failed
       \/ /\ \E s \in Spec0 : rows[s].on /\ rows[s].admin = "run"
          /\ Go(job, "targets") /\ Works
       \/ /\ \A s \in Spec0 : rows[s].on => rows[s].admin # "run"
          /\ Go([job EXCEPT !.seen = Seen], "settle") /\ Works
    /\ UNCHANGED <<lease, batch, named, blind>> /\ Frame

(* settleBenchmarkLeftoverLease.                                           *)
Settle ==
    /\ At("settle")
    /\ \/ Fault /\ Go(job, "targets") /\ UNCHANGED <<batch, blind>>
       \/ /\ lease = Nothing /\ Works
          /\ Go(job, "unpin") /\ UNCHANGED <<batch, blind>>
       \/ /\ lease # Nothing /\ Works
          /\ Go([job EXCEPT !.carried = lease], "clear")
          /\ batch' = Batch("admin", FALSE, lease.admin)
          /\ blind' = FALSE
    /\ UNCHANGED <<lease, named>> /\ Frame

Reread ==
    /\ At("reread")
    /\ \/ Fault /\ Go(job, "targets")
       \/ Works /\ Go([job EXCEPT !.seen = Seen], "unpin")
    /\ UNCHANGED <<lease, batch, named, blind>> /\ Frame

(* unpinBenchmarkPins: the whole pinned set goes into the lease before the *)
(* batch; a failed lease write unpins and stops nothing.                   *)
Unpin ==
    /\ At("unpin")
    /\ LET set == job.seen.pinned
           owes == [job EXCEPT !.owed.pinned = set, !.wrote = TRUE]
       IN  \/ /\ set = {} /\ Works
              /\ Go([job EXCEPT !.stops = TRUE], "single")
              /\ UNCHANGED <<lease, batch>>
           \/ /\ set # {} /\ LeaseStored(owes.owed)
              /\ Go(owes, "unpinned") /\ batch' = Batch("pinned", TRUE, set)
           \/ /\ set # {} /\ LeaseFailed(owes.owed)
              /\ Go([job EXCEPT !.wrote = TRUE], "targets") /\ UNCHANGED batch
    /\ UNCHANGED <<named, blind>> /\ Frame

(* A batch that failed is undone at once; one that wrote fewer specs than  *)
(* the lease names rewrites it.                                            *)
Unpinned ==
    /\ At("unpinned")
    /\ LET owes == [job EXCEPT !.owed.pinned = batch.written, !.stops = TRUE]
       IN  \/ /\ batch.failed # {} /\ Works /\ UNCHANGED lease
              /\ Go(job, "undo") /\ batch' = Batch("pinned", FALSE, MayHaveWritten)
           \/ /\ batch.failed = {} /\ batch.written = job.seen.pinned
              /\ Works /\ UNCHANGED lease
              /\ Go(owes, "single") /\ batch' = NoBatch
           \/ /\ batch.failed = {} /\ batch.written # job.seen.pinned
              /\ LeaseStored(owes.owed) \/ LeaseFailed(owes.owed)
              /\ Go(owes, "single") /\ batch' = NoBatch
    /\ UNCHANGED <<named, blind>> /\ Frame

(* undoBenchmarkUnpin: what could not be pinned again is still owed.       *)
undoBenchmarkUnpin ==
    /\ At("undo")
    /\ LET owes == [job EXCEPT !.owed.pinned = batch.failed]
       IN  /\ LeaseStored(owes.owed) \/ LeaseFailed(owes.owed)
           /\ Go(owes, "targets")
    /\ batch' = NoBatch
    /\ UNCHANGED <<named, blind>> /\ Frame

(* beginBenchmarkSingleProcess.                                            *)
Single ==
    /\ At("single")
    /\ LET set == job.seen.repl
           owes == [job EXCEPT !.owed.repl = set, !.wrote = TRUE]
       IN  \/ set = {} /\ Works /\ Go(job, "targets") /\ UNCHANGED <<lease, batch>>
           \/ /\ set # {} /\ LeaseStored(owes.owed)
              /\ Go(owes, "singled") /\ batch' = Batch("repl", TRUE, set)
           \/ /\ set # {} /\ LeaseFailed(owes.owed)
              /\ Go([job EXCEPT !.wrote = TRUE, !.stops = FALSE], "targets")
              /\ UNCHANGED batch
    /\ UNCHANGED <<named, blind>> /\ Frame

Singled ==
    /\ At("singled")
    /\ LET owes == [job EXCEPT !.owed.repl = MayHaveWritten,
                               !.stops = @ /\ batch.failed = {}]
       IN  /\ Go(owes, "targets")
           /\ IF MayHaveWritten = job.seen.repl
              THEN Works /\ UNCHANGED lease
              ELSE LeaseStored(owes.owed) \/ LeaseFailed(owes.owed)
    /\ batch' = NoBatch
    /\ UNCHANGED <<named, blind>> /\ Frame

-----------------------------------------------------------------------------
(* The loop over the targets: one with stops allowed runs preStopServer,   *)
(* any other is measured as it finds the server.  The run may be canceled. *)


NextTarget ==
    /\ At("targets")
    /\ \/ job.togo = 0 /\ Go(job, "end")
       \/ job.togo > 0 /\ Go(job, "end")                    \* canceled
       \/ /\ job.togo > 0
          /\ \E t \in Spec0 :
                Go([job EXCEPT !.togo = @ - 1, !.target = t],
                   IF job.stops THEN "select" ELSE "measure")
    /\ UNCHANGED <<lease, batch, named, blind, faults>> /\ Frame

\* benchmarkSpecStopRefusal: unknown, pinned, or carrying an override.
Refused(s) == ~rows[s].on \/ rows[s].pinned \/ rows[s].admin # ""

(* benchmarkStopSet and benchmarkStopRefusal, then the lease.  The status  *)
(* frames decide the set: any set of specs, or a reason to stop nothing.   *)
Select ==
    /\ At("select")
    /\ \/ Go(job, "measure") /\ UNCHANGED <<lease, batch>> /\ Works
       \/ Go(job, "measure") /\ UNCHANGED <<lease, batch>> /\ Fault
       \/ \E set \in SUBSET Spec0 \ {{}} :
             /\ \A s \in set \cup {job.target} : ~Refused(s)
             /\ LET owes == [job EXCEPT !.owed.admin = @ \cup set, !.wrote = TRUE,
                                        !.stopping = set]
                IN  \/ /\ LeaseStored(owes.owed)
                       /\ Go(owes, "stopped") /\ batch' = Batch("admin", TRUE, set)
                    \/ /\ LeaseFailed(owes.owed)
                       /\ Go([job EXCEPT !.wrote = TRUE], "measure")
                       /\ UNCHANGED batch
    /\ UNCHANGED <<named, blind>> /\ Frame

(* The batch has returned: what it wrote or may have written is owed a     *)
(* clear (clearBenchmarkStop), after the wait for the agent.  An expired   *)
(* wait turns stops off.                                                   *)
Stopped ==
    /\ At("stopped")
    /\ \E quiet \in BOOLEAN :
          LET owes == [job EXCEPT !.owed.admin = @ \ (batch.gone \cup batch.conflict),
                                  !.stopping = MayHaveWritten,
                                  !.stops = @ /\ quiet]
          IN  IF MayHaveWritten = {}
              THEN Go([owes EXCEPT !.stops = job.stops], "measure") /\ batch' = NoBatch
              ELSE Go(owes, "cleared") /\ batch' = Batch("admin", FALSE, MayHaveWritten)
    /\ UNCHANGED <<lease, named, blind, faults>> /\ Frame

(* restoreBenchmarkOverrides has returned; the lease follows it, and a     *)
(* failed clear is the result's error and turns stops off.                 *)
clearBenchmarkStop ==
    /\ At("cleared")
    /\ LET owes == [job EXCEPT !.owed.admin = @ \ (job.stopping \ batch.failed),
                               !.stops = @ /\ batch.failed = {},
                               !.stopping = {}]
       IN  /\ LeaseStored(owes.owed) \/ LeaseFailed(owes.owed)
           /\ Go(owes, "measure")
    /\ Named(batch.failed)
    /\ batch' = NoBatch
    /\ UNCHANGED blind /\ Frame

(* The measurement.  A both run's audio target is ramped by instance: its  *)
(* spec is made replicable again first (audioRampReplicableAgain).         *)
Measure ==
    /\ At("measure")
    /\ \/ Go([job EXCEPT !.target = NoSpec], "targets") /\ UNCHANGED batch
       \/ /\ job.audio /\ job.target \in job.owed.repl
          /\ Go(job, "ramp") /\ batch' = Batch("repl", FALSE, {job.target})
    /\ UNCHANGED <<lease, named, blind, faults>> /\ Frame

(* A failed restore leaves the spec in the lease for the run's end and     *)
(* fails the ramp; any other outcome takes it out of the lease.            *)
audioRampReplicableAgain ==
    /\ At("ramp")
    /\ LET owes == [job EXCEPT !.owed.repl = @ \ {job.target}]
       IN  \/ /\ batch.failed # {}
              /\ Go([job EXCEPT !.target = NoSpec], "targets")
              /\ UNCHANGED lease /\ Works
           \/ /\ batch.failed = {}
              /\ LeaseStored(owes.owed) \/ LeaseFailed(owes.owed)
              /\ IF batch.written # {} THEN Go(owes, "ramped")
                                       ELSE Go(owes, "stillreplicable")
    /\ batch' = NoBatch
    /\ UNCHANGED <<named, blind>> /\ Frame

(* A restore that was not written: the ramp goes on if the spec is         *)
(* replicable all the same.                                                *)
audioRampStillReplicable ==
    /\ At("stillreplicable")
    /\ LET s == rows[job.target]
       IN  \/ s.on /\ s.repl = "yes" /\ Works /\ Go(job, "ramped")
           \/ /\ ~s.on \/ s.repl # "yes"
              /\ Works /\ Go([job EXCEPT !.target = NoSpec], "targets")
           \/ Fault /\ Go([job EXCEPT !.target = NoSpec], "targets")
    /\ UNCHANGED <<lease, batch, named, blind>> /\ Frame

(* audioRampOneProcessAgain, when a later target may still stop models.    *)
audioRampOneProcessAgain ==
    /\ At("ramped")
    /\ LET owes == [job EXCEPT !.owed.repl = @ \cup {job.target}]
       IN  \/ /\ ~job.stops \/ job.togo = 0
              /\ Go([job EXCEPT !.target = NoSpec], "targets")
              /\ UNCHANGED <<lease, batch>> /\ Works
           \/ /\ job.stops /\ job.togo > 0 /\ LeaseStored(owes.owed)
              /\ Go(owes, "rehold") /\ batch' = Batch("repl", TRUE, {job.target})
           \/ /\ job.stops /\ job.togo > 0 /\ LeaseFailed(owes.owed)
              /\ Go([job EXCEPT !.stops = FALSE, !.target = NoSpec], "targets")
              /\ UNCHANGED batch
    /\ UNCHANGED <<named, blind>> /\ Frame

Reheld ==
    /\ At("rehold")
    /\ LET owes == [job EXCEPT !.owed.repl = (@ \ {job.target}) \cup MayHaveWritten,
                               !.stops = @ /\ batch.failed = {},
                               !.target = NoSpec]
       IN  /\ Go(owes, "targets")
           /\ IF MayHaveWritten # {}
              THEN Works /\ UNCHANGED lease
              ELSE LeaseStored(owes.owed) \/ LeaseFailed(owes.owed)
    /\ batch' = NoBatch
    /\ UNCHANGED <<named, blind>> /\ Frame

-----------------------------------------------------------------------------
(* endBenchmarkUnpin: pins, then replicable flags, then the lease; a run   *)
(* that never wrote the row leaves it alone.                               *)

End ==
    /\ At("end")
    /\ IF job.owed.pinned = {} /\ ~job.wrote
       THEN job' = Rest /\ UNCHANGED batch
       ELSE Go(job, "endpins") /\ batch' = Batch("pinned", FALSE, job.owed.pinned)
    /\ UNCHANGED <<lease, named, blind, faults>> /\ Frame

EndPins ==
    /\ At("endpins")
    /\ Go([job EXCEPT !.owed.pinned = batch.failed], "endrepl")
    /\ Named(batch.failed)
    /\ batch' = Batch("repl", FALSE, job.owed.repl)
    /\ UNCHANGED <<lease, blind, faults>> /\ Frame

EndLease ==
    /\ At("endrepl")
    /\ LET owed == [job.owed EXCEPT !.repl = batch.failed]
       IN  LeaseStored(owed) \/ LeaseFailed(owed)
    /\ Named(batch.failed)
    /\ job' = Rest /\ batch' = NoBatch
    /\ UNCHANGED blind /\ Frame

(***************************************************************************)
(* A VRAM run (startVRAMProbe, runVRAMProbe)                               *)
(***************************************************************************)
(* vramEnumerateFleet refuses a spec that carries an override and a pinned *)
(* neighbour.  The plan is made before the reservation is taken.           *)
vramEnumerateFleet(t) ==
    /\ rows[t].on
    /\ \A s \in Spec0 : rows[s].on =>
          rows[s].admin = "" /\ (rows[s].pinned => s = t)

PlanVRAM ==
    /\ up /\ planned = {} /\ runs < MaxRuns /\ ~Reserved
    /\ \E t \in Spec0 :
          /\ vramEnumerateFleet(t)
          /\ planned' = {[target |-> t, plan |-> {s \in Spec0 : rows[s].on},
                          repl |-> {s \in {t} : rows[s].repl = "yes"}]}
    /\ runs' = runs + 1
    /\ UNCHANGED <<rows, lease, agentApp, up, job, batch, put, warned, named,
                   blind, faults, crashes, ops>>

(* The reservation (TryStart); held by another run, it refuses this one.   *)
StartVRAM ==
    /\ \E p \in planned :
          job' = IF Reserved THEN job
                 ELSE [Rest EXCEPT !.kind = "vram", !.pc = "open",
                         !.target = p.target, !.plan = p.plan, !.seen.repl = p.repl]
    /\ planned' = {}
    /\ UNCHANGED <<rows, lease, agentApp, up, batch, put, warned, named, blind,
                   runs, faults, crashes, ops>>

(* The volatile gates again, then vramOpenLease: the row is read and       *)
(* written before a single spec is.                                        *)
Open ==
    /\ At("open")
    /\ LET owed == [Nothing EXCEPT !.admin = job.plan, !.repl = job.seen.repl]
           l == Join(lease, owed)
       IN  \/ Fault /\ job' = Rest /\ UNCHANGED <<lease, batch>>
           \/ Works /\ job' = Rest /\ UNCHANGED <<lease, batch>>  \* unavailable
           \/ /\ LeaseStored(l)
              /\ Go([job EXCEPT !.carried = lease, !.owed = owed], "one")
              /\ batch' = Batch("repl", TRUE, job.seen.repl)
           \/ /\ LeaseFailed(l)
              /\ Go([job EXCEPT !.carried = lease], "close") /\ UNCHANGED batch
    /\ UNCHANGED <<named, blind>> /\ Frame

\* The failed open puts the row back to what it carried.
Close ==
    /\ At("close")
    /\ LeaseStored(job.carried) \/ LeaseFailed(job.carried)
    /\ job' = Rest
    /\ UNCHANGED <<batch, named, blind>> /\ Frame

vramLeaseWith(owed) == Join(job.carried, owed)

\* vramRunAsOneProcess has returned; vramDrain follows.
OneProcess ==
    /\ At("one")
    /\ Go([job EXCEPT !.owed.repl = MayHaveWritten], "drain")
    /\ batch' = Batch("admin", TRUE, job.plan)
    /\ UNCHANGED <<lease, named, blind, faults>> /\ Frame

(* vramDrain has returned: drained is what it wrote or may have written,   *)
(* and the lease then names that instead of the whole plan.                *)
Drained ==
    /\ At("drain")
    /\ LET owes == [job EXCEPT !.owed.admin = MayHaveWritten]
           l == vramLeaseWith(owes.owed)
       IN  /\ LeaseStored(l) \/ LeaseFailed(l)
           /\ IF batch.written # job.plan
              THEN Go(owes, "restore")
              ELSE Go(owes, "isolate")
    /\ batch' = NoBatch
    /\ UNCHANGED <<named, blind>> /\ Frame

(* The isolation is confirmed and the baseline taken, or the run ends; the *)
(* clear of the target's override follows.                                 *)
Isolate ==
    /\ At("isolate")
    /\ \/ Go(job, "restore") /\ UNCHANGED batch
       \/ Go(job, "load") /\ batch' = Batch("admin", FALSE, {job.target})
    /\ UNCHANGED <<lease, named, blind, faults>> /\ Frame

(* The target leaves what is to be restored once its clear was written.    *)
Load ==
    /\ At("load")
    /\ LET owes == [job EXCEPT !.owed.admin = @ \ {job.target}]
           l == vramLeaseWith(owes.owed)
       IN  IF batch.written = {}
           THEN Go(job, "restore") /\ UNCHANGED lease /\ Works
           ELSE Go(owes, "restore") /\ (LeaseStored(l) \/ LeaseFailed(l))
    /\ batch' = NoBatch
    /\ UNCHANGED <<named, blind>> /\ Frame

(* The restore defer, on every exit since the drain.                       *)
Restore ==
    /\ At("restore")
    /\ Go(job, "restored") /\ batch' = Batch("admin", FALSE, job.owed.admin)
    /\ UNCHANGED <<lease, named, blind, faults>> /\ Frame

Restored ==
    /\ At("restored")
    /\ Go([job EXCEPT !.owed.admin = batch.failed], "unhold")
    /\ Named(batch.failed)
    /\ batch' = Batch("repl", FALSE, job.owed.repl)
    /\ UNCHANGED <<lease, blind, faults>> /\ Frame

Publish ==
    /\ At("unhold")
    /\ LET l == vramLeaseWith([job.owed EXCEPT !.repl = batch.failed])
       IN  LeaseStored(l) \/ LeaseFailed(l)
    /\ Named(batch.failed)
    /\ job' = Rest /\ batch' = NoBatch
    /\ UNCHANGED blind /\ Frame

-----------------------------------------------------------------------------
(* The operator.  PutRuntimeSpec checks the reservation and writes a whole *)
(* document later; a DELETE is not gated; the application is retyped.      *)

PutChecked ==
    /\ up /\ ~Reserved /\ put = {} /\ ops < MaxOps
    /\ \E s \in Spec0, d \in Docs :
          rows[s].on /\ put' = {[spec |-> s, doc |-> d]}
    /\ ops' = ops + 1
    /\ UNCHANGED <<rows, lease, agentApp, up, job, batch, planned, warned, named,
                   blind, runs, faults, crashes>>

PutLands ==
    /\ \E p \in put :
          rows' = [rows EXCEPT ![p.spec] =
                     [on |-> TRUE, admin |-> p.doc.admin, pinned |-> p.doc.pinned,
                      repl |-> p.doc.repl, by |-> {}, rev |-> rows[p.spec].rev + 1]]
    /\ put' = {}
    /\ UNCHANGED <<lease, agentApp, up, job, batch, planned, warned, named, blind,
                   runs, faults, crashes, ops>>

Delete(s) ==
    /\ up /\ rows[s].on /\ ops < MaxOps
    /\ rows' = [rows EXCEPT ![s] = [@ EXCEPT !.on = FALSE, !.by = {}]]
    /\ ops' = ops + 1
    /\ UNCHANGED <<lease, agentApp, up, job, batch, planned, put, warned, named, blind,
                   runs, faults, crashes>>

Retype ==
    /\ up /\ ops < MaxOps
    /\ agentApp' = ~agentApp /\ ops' = ops + 1
    /\ UNCHANGED <<rows, lease, up, job, batch, planned, put, warned, named, blind, runs,
                   faults, crashes>>

(* The process dies with the run, and with an operator's write in it.      *)
Crash ==
    /\ up \/ job.kind = "start"
    /\ crashes < MaxCrashes /\ crashes' = crashes + 1
    /\ up' = FALSE /\ job' = Rest /\ batch' = NoBatch
    /\ planned' = {} /\ put' = {}
    /\ UNCHANGED <<rows, lease, agentApp, warned, named, blind, runs, faults, ops>>

(* buildGatewayServer reconciles before the scheduler and the listeners.   *)
StartProcess ==
    /\ ~up /\ job.kind = "none"
    /\ job' = [Rest EXCEPT !.kind = "start", !.pc = "read"]
    /\ UNCHANGED <<rows, lease, agentApp, up, batch, planned, put, warned, named, blind,
                   runs, faults, crashes, ops>>

-----------------------------------------------------------------------------
Init ==
    /\ rows = [s \in Spec0 |-> [InitRows[s] EXCEPT !.by = {}, !.rev = 0]]
    /\ lease = Nothing /\ agentApp = TRUE /\ up = TRUE
    /\ job = Rest /\ batch = NoBatch /\ planned = {} /\ put = {}
    /\ warned = {} /\ named = {} /\ blind = FALSE
    /\ runs = 0 /\ faults = 0 /\ crashes = 0 /\ ops = 0

Write == (\E s \in Spec0 : Resolve(s)) \/ Upsert
Reconcile == StartReads \/ ReconcileClears \/ ReconcileRepins
             \/ ReconcileReplicables \/ ReconcileRewrite
Begin == Gates \/ Settle \/ Reread \/ Unpin \/ Unpinned
         \/ undoBenchmarkUnpin \/ Single \/ Singled
Targets == NextTarget \/ Select \/ Stopped \/ clearBenchmarkStop \/ Measure
           \/ audioRampReplicableAgain \/ audioRampStillReplicable
           \/ audioRampOneProcessAgain \/ Reheld
Ending == End \/ EndPins \/ EndLease
VRAM == Open \/ Close \/ OneProcess \/ Drained \/ Isolate \/ Load
        \/ Restore \/ Restored \/ Publish
Work == Write \/ Reconcile \/ Begin \/ Targets \/ Ending \/ VRAM

Next ==
    \/ Work \/ StartSpeed \/ PlanVRAM \/ StartVRAM
    \/ PutChecked \/ PutLands \/ (\E s \in Spec0 : Delete(s)) \/ Retype
    \/ Crash \/ StartProcess

Spec == Init /\ [][Next]_vars

-----------------------------------------------------------------------------
(***************************************************************************)
(* Properties                                                              *)
(***************************************************************************)

\* No override of a benchmark is ever stored without an entry of the stored
\* lease that names it, whatever store call fails and wherever the process
\* dies (preStopServer, vramOpenLease): the next start can always undo it.
\* The one exception is the retyped application's, which the portal names.
LeaseNamesOverrides ==
    \A s \in Spec0 : rows[s].on =>
        \A f \in rows[s].by : s \in lease[f] \/ s \in warned

\* Once no run holds the server, a spec that still carries a benchmark's
\* override has been named to the operator: in the run's error or report
\* (RestoreFailed, repin_failed), or in a Warn of a reconcile.  After a
\* start that could not even read the leases nothing is named.
LeftoverIsNamed ==
    up /\ job.kind = "none" /\ ~blind =>
        \A s \in Spec0 : rows[s].on /\ rows[s].by # {} => s \in named \cup warned

\* What EventuallyRestored is about: an override that a benchmark wrote is still stored.
Overridden == \E s \in Spec0 : rows[s].on /\ rows[s].by # {} /\ s \notin warned

\* What the reconcile's doc says: a spec that was never written by the run,
\* or that has changed since, is left alone.  So a clear whose read found a
\* force_stopped that an operator set does not take it away.
OperatorStopKept ==
    [][\A s \in Spec0 :
          batch.cur = s /\ batch.row = rows[s]
          /\ rows[s].admin = "stop" /\ "admin" \notin rows[s].by
          => rows'[s].admin = "stop"]_vars

\* What the restore's comment says: each spec is re-read inside the
\* compare-and-set writer, so an operator's edit made while the model was
\* stopped survives.
OperatorEditSurvives ==
    [][\A s \in Spec0 : rows[s].on /\ ~batch.lift => rows'[s].rev >= rows[s].rev]_vars
=============================================================================
