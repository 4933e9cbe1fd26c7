---------------------------- MODULE MCBenchmarks ----------------------------
(***************************************************************************)
(* The two protocols of a benchmark run with the rest of the system: the   *)
(* overrides it writes and the lease that undoes them, and the proof that  *)
(* it had the server to itself.  A behaviour is one `scene', and moves the *)
(* lease or the isolation while the other stays in its initial state.      *)
(***************************************************************************)
EXTENDS Naturals

CONSTANTS a, b, t, n, NoSpec, NoDoc

VARIABLES scene,
  rows, lease, agentApp, up, job, batch, planned, put, warned, named, blind, runs, faults,
  crashes, ops,
  doc, fetched, applied, proc, sample, etag, snapshot, frames, pc, frame, gate, pending,
  paired, reason, ran, applies, writes, revokes, derivations, starts

leaseVars == <<rows, lease, agentApp, up, job, batch, planned, put, warned, named, blind,
               runs, faults, crashes, ops>>
isolationVars == <<doc, fetched, applied, proc, sample, etag, snapshot, frames, pc, frame,
                   gate, pending, paired, reason, ran, applies, writes, revokes,
                   derivations, starts>>
vars == <<scene, leaseVars, isolationVars>>

\* a is pinned and replicable, b only replicable.
Rows == [s \in {a, b} |-> [on |-> TRUE, admin |-> "", pinned |-> s = a,
                           repl |-> "yes", by |-> {}, rev |-> 0]]

\* An operator stops a model, starts one for good, or gives it a fixed port.
Documents == {[admin |-> "stop", pinned |-> FALSE, repl |-> "no"],
              [admin |-> "run", pinned |-> TRUE, repl |-> "yes"],
              [admin |-> "", pinned |-> FALSE, repl |-> "port"]}

\* Two runs, a store call that fails and a death of the process.
Faults == INSTANCE BenchmarkLease WITH
  Spec0 <- {a, b}, InitRows <- Rows, Docs <- {}, MaxRuns <- 2, MaxTargets <- 2,
  MaxFaults <- 1, MaxCrashes <- 1, MaxOps <- 0

\* One run next to an operator.
Operator == INSTANCE BenchmarkLease WITH
  Spec0 <- {a, b}, InitRows <- Rows, Docs <- Documents, MaxRuns <- 1, MaxTargets <- 1,
  MaxFaults <- 1, MaxCrashes <- 1, MaxOps <- 1

\* A store that works, and a death of the process.
Restore == INSTANCE BenchmarkLease WITH
  Spec0 <- {a, b}, InitRows <- Rows, Docs <- {}, MaxRuns <- 2, MaxTargets <- 2,
  MaxFaults <- 0, MaxCrashes <- 1, MaxOps <- 0

\* Specs in any state, a start, and a wait that may run out.
Proof == INSTANCE VRAMIsolation WITH
  Specs <- {t, n}, Target <- t, Buffer <- 1, MayExpire <- TRUE, MayRevert <- FALSE,
  MaxWrites <- 0, MaxRevokes <- 0, MaxFaults <- 0, MaxStarts <- 1, faults <- derivations

\* A write of somebody else that revokes the isolation from a busy neighbour.
Revoked == INSTANCE VRAMIsolation WITH
  Specs <- {t, n}, Target <- t, Buffer <- 1, MayExpire <- FALSE, MayRevert <- FALSE,
  MaxWrites <- 0, MaxRevokes <- 1, MaxFaults <- 0, MaxStarts <- 1, faults <- derivations

\* A busy neighbour, a write that changes the document, a derivation that fails.
Wait == INSTANCE VRAMIsolation WITH
  Specs <- {t, n}, Target <- t, Buffer <- 1, MayExpire <- FALSE, MayRevert <- FALSE,
  MaxWrites <- 1, MaxRevokes <- 0, MaxFaults <- 1, MaxStarts <- 0, faults <- derivations

Fleet(neighbour) == [s \in {t, n} |-> IF s = n THEN neighbour ELSE "stopped"]

Init ==
  /\ Faults!Init /\ Proof!Init
  /\ \/ scene = "proof"
     \/ scene \in {"wait", "revoked"} /\ proc = Fleet("running")
     \/ scene \in {"faults", "operator", "restore"} /\ proc = Fleet("stopped")

Next ==
  /\ UNCHANGED scene
  /\ \/ scene = "faults" /\ Faults!Next /\ UNCHANGED isolationVars
     \/ scene = "operator" /\ Operator!Next /\ UNCHANGED isolationVars
     \/ scene = "restore" /\ Restore!Next /\ UNCHANGED isolationVars
     \/ scene = "proof" /\ Proof!Next /\ UNCHANGED leaseVars
     \/ scene = "revoked" /\ Revoked!Next /\ UNCHANGED leaseVars
     \/ scene = "wait" /\ Wait!Next /\ UNCHANGED leaseVars

\* A run's goroutine goes on and the gateway is deployed with restart: unless-stopped;
\* the agent polls, applies and samples; a terminated child is killed in the end.
Fairness ==
  /\ WF_leaseVars(scene = "faults" /\ Faults!Work)
  /\ WF_leaseVars(scene = "faults" /\ Faults!StartProcess)
  /\ WF_leaseVars(scene = "restore" /\ Restore!Work)
  /\ WF_leaseVars(scene = "restore" /\ Restore!StartProcess)
  /\ WF_isolationVars(scene = "wait" /\ Wait!Fetch)
  /\ WF_isolationVars(scene = "wait" /\ Wait!applyConfig)
  /\ WF_isolationVars(scene = "wait" /\ (Wait!ReadAck \/ Wait!ReadStatuses \/ Wait!Ingest))
  /\ WF_isolationVars(scene = "wait" /\ proc[n] \in {"draining", "failing"} /\ Wait!Leave(n))
  /\ WF_isolationVars(scene = "wait" /\ Wait!Run)

Spec == Init /\ [][Next]_vars /\ Fairness

(***************************************************************************)
(* What is checked of them together.                                       *)
(***************************************************************************)
\* preStopServer, vramOpenLease: no override of a benchmark is stored without an entry
\* of the stored lease, whatever store call fails and wherever the process dies; one that
\* stays behind has been named to the operator (repin_failed, RestoreFailed, the
\* reconcile's Warn).
LeaseHolds ==
  /\ scene = "faults" => /\ Faults!TypeOK /\ Faults!LeaseNamesOverrides
                         /\ Faults!LeftoverIsNamed
  /\ scene = "operator" => /\ Operator!TypeOK /\ Operator!LeaseNamesOverrides
                           /\ Operator!LeftoverIsNamed

\* vramFrameEvidence: a spec seen without a process in a sample that acknowledged a
\* document of the run has none while nobody revokes that document; the acknowledgement
\* the gate reads is at least as new as the frame (handleRuntimeTelemetry); and a run with
\* such evidence is called lost only after a write of somebody else (vramRecheckIsolation).
EvidenceHolds ==
  /\ scene = "proof" => /\ Proof!TypeOK /\ Proof!AckIsAsFresh
                        /\ Proof!PairedEvidenceIsolates /\ Proof!LossIsRevocation
  /\ scene = "revoked" => Revoked!LossIsRevocation
  /\ scene = "wait" => Wait!TypeOK

=============================================================================
