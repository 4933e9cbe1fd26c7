--------------------------- MODULE VRAMIsolation ----------------------------
(***************************************************************************)
(* The isolation proof of a VRAM benchmark run under the acknowledged      *)
(* standard: gateway/benchmark_vram_isolation.go with the status registry  *)
(* it reads (gateway/runtime_registry.go), the part of the telemetry       *)
(* ingest that feeds it, and the agent's half, which applies documents and *)
(* sends samples.                                                          *)
(*                                                                         *)
(* A run force-stops every spec, subscribes to the status frames and waits *)
(* until each spec has been seen without a process in a frame read while   *)
(* the last acknowledgement names a document that the run has derived      *)
(* itself and that stops the whole fleet.  Then it clears the target's     *)
(* override, loads and measures it, and looks at the siblings once more.   *)
(*                                                                         *)
(* A document is its content: what it stops, what it lists, and all the    *)
(* rest as one number; its ETag is a digest of the content, here the       *)
(* content itself.  The writes of the run are one batch (BenchmarkLease)   *)
(* and their delivery is ConfigPath's: here the agent fetches whatever the *)
(* store holds.  Evidence labels, which only say how a spec went quiet,    *)
(* are left out.                                                           *)
(***************************************************************************)
EXTENDS Integers, Sequences

CONSTANTS
    Specs,       \* the enumerated launch specs
    Target,      \* the one to be measured
    NoDoc,       \* no acknowledgement
    Buffer,      \* runtimeStatusSubBuffer
    MayExpire,   \* the wait's total bound may run out
    MayRevert,   \* a later write may bring the rest of a document back
    MaxWrites,   \* bound: writes of others that spare the overrides
    MaxRevokes,  \* bound: writes of others that clear or delete a drained spec
    MaxFaults,   \* bound: failed derivations
    MaxStarts    \* bound: processes started

VARIABLES
    doc,         \* the document the store derives
    fetched,     \* the document the agent is about to apply
    applied,     \* the document the agent has applied
    proc,        \* Specs -> what the spec's process is doing
    sample,      \* the telemetry sample on its way
    etag,        \* appliedETag of the registry, with the apply it came from
    snapshot,    \* statuses of the registry
    frames,      \* the run's subscription channel
    pc,          \* the run
    frame,       \* the frame whose acknowledgement is being derived
    gate,        \* vramIsolationGate: accepted, evaluated, sawAck, lost
    pending,     \* specs without evidence
    paired,      \* specs whose evidence came with an accepted acknowledgement
    reason,      \* why the run was inconclusive
    ran,         \* siblings that had a process after the confirmation
    applies, writes, revokes, faults, starts

runVars == <<pc, frame, gate, pending, paired, reason>>
bounds == <<writes, revokes, faults, starts>>
vars == <<doc, fetched, applied, proc, sample, etag, snapshot, frames, runVars,
          ran, applies, bounds>>

Siblings == Specs \ {Target}
Documents == [stop : SUBSET Specs, listed : SUBSET Specs, other : 0 .. MaxWrites]

\* "failing": the start timed out, the row says start_failed and the child is
\* still being terminated.
States == {"stopped", "running", "failing", "draining"}
HasProcess(s) == proc[s] # "stopped"

\* How the gateway reads a row: vramStateNoProcess, or no row at all.
Row(s) ==
    IF s \notin applied.listed /\ proc[s] = "stopped" THEN "absent"
    ELSE IF proc[s] \in {"running", "draining"} THEN "busy"
    ELSE "quiet"

Idle == [at |-> "idle", ack |-> NoDoc, n |-> 0, rows |-> [s \in Specs |-> "absent"]]

TypeOK ==
    /\ doc \in Documents /\ fetched \in Documents /\ applied \in Documents
    /\ proc \in [Specs -> States]
    /\ sample.at \in {"idle", "acked", "sent", "ingested"}
    /\ Len(frames) <= Buffer
    /\ pc \in {"drain", "subscribe", "seed", "wait", "derive", "confirmed",
               "measure", "isolated", "inconclusive"}
    /\ pending \subseteq Specs /\ paired \subseteq Specs \ pending
    /\ (pc \in {"confirmed", "measure", "isolated"}) => (pending = {})
    /\ gate.accepted \subseteq Documents
    /\ ran \subseteq Siblings

\* Nothing after the run's verdict is of interest.
Open == pc \notin {"isolated", "inconclusive"}

-----------------------------------------------------------------------------
(* The agent                                                               *)

Fetch ==
    /\ Open /\ fetched # doc
    /\ fetched' = doc
    /\ UNCHANGED <<doc, applied, proc, sample, etag, snapshot, frames, runVars,
                   ran, applies, bounds>>

\* A spec that is stopped, or no longer listed, is drained.
applyConfig ==
    /\ Open /\ applied # fetched
    /\ applied' = fetched /\ applies' = applies + 1
    /\ proc' = [s \in Specs |->
                  IF (s \in fetched.stop \/ s \notin fetched.listed) /\ HasProcess(s)
                  THEN "draining" ELSE proc[s]]
    /\ UNCHANGED <<doc, fetched, sample, etag, snapshot, frames, runVars, ran, bounds>>

\* Requests start a process, unless its spec is force-stopped.
Start(s) ==
    /\ Open /\ proc[s] = "stopped" /\ s \in applied.listed \ applied.stop
    /\ starts < MaxStarts /\ starts' = starts + 1
    /\ proc' = [proc EXCEPT ![s] = "running"]
    /\ ran' = IF pc \in {"confirmed", "measure"} THEN ran \cup ({s} \cap Siblings)
                                                 ELSE ran
    /\ UNCHANGED <<doc, fetched, applied, sample, etag, snapshot, frames, runVars,
                   applies, writes, revokes, faults>>

\* A process ends by itself, a start times out, a terminated child is gone.
Leave(s) ==
    /\ Open
    /\ \/ proc[s] \in {"running", "draining", "failing"}
          /\ proc' = [proc EXCEPT ![s] = "stopped"]
       \/ proc[s] = "running" /\ proc' = [proc EXCEPT ![s] = "failing"]
    /\ UNCHANGED <<doc, fetched, applied, sample, etag, snapshot, frames, runVars,
                   ran, applies, bounds>>

(* collectOnce reads the acknowledgement and then the statuses.            *)
ReadAck ==
    /\ Open /\ sample.at = "idle"
    /\ sample' = [Idle EXCEPT !.at = "acked", !.ack = applied, !.n = applies]
    /\ UNCHANGED <<doc, fetched, applied, proc, etag, snapshot, frames, runVars,
                   ran, applies, bounds>>

ReadStatuses ==
    /\ Open /\ sample.at = "acked"
    /\ sample' = [sample EXCEPT !.at = "sent", !.rows = [s \in Specs |-> Row(s)]]
    /\ UNCHANGED <<doc, fetched, applied, proc, etag, snapshot, frames, runVars,
                   ran, applies, bounds>>

-----------------------------------------------------------------------------
(* The ingest of a sample: first the acknowledgement, then the frame.      *)

Published == [ack |-> sample.ack, n |-> sample.n, rows |-> sample.rows]

SetAppliedConfigETag ==
    /\ Open /\ sample.at = "sent"
    /\ etag' = [doc |-> sample.ack, n |-> sample.n]
    /\ sample' = [sample EXCEPT !.at = "ingested"]
    /\ UNCHANGED <<doc, fetched, applied, proc, snapshot, frames, runVars, ran,
                   applies, bounds>>

Subscribed == pc \in {"seed", "wait", "derive"}

\* Mutant: the frame is published before the acknowledgement is stored.
publishFirst ==
    /\ Open /\ sample.at \in {"sent", "ingested"}
    /\ snapshot' = sample.rows
    /\ frames' = IF Subscribed /\ Len(frames) < Buffer
                 THEN Append(frames, Published) ELSE frames
    /\ sample' = Idle
    /\ UNCHANGED <<doc, fetched, applied, proc, etag, runVars, ran, applies, bounds>>

\* A full channel loses the frame.
publish ==
    /\ Open /\ sample.at = "ingested"
    /\ snapshot' = sample.rows
    /\ frames' = IF Subscribed /\ Len(frames) < Buffer
                 THEN Append(frames, Published) ELSE frames
    /\ sample' = Idle
    /\ UNCHANGED <<doc, fetched, applied, proc, etag, runVars, ran, applies, bounds>>

-----------------------------------------------------------------------------
(* The writes of others: budgets, renames, measured values; and the ones   *)
(* that the run's reservation does not hold off.                           *)

Rest(d) == IF MayRevert THEN {0, 1} \ {d.other} ELSE {d.other + 1}

OtherWrite ==
    /\ Open /\ writes < MaxWrites /\ writes' = writes + 1
    /\ \E o \in Rest(doc) : doc' = [doc EXCEPT !.other = o]
    /\ UNCHANGED <<fetched, applied, proc, sample, etag, snapshot, frames, runVars,
                   ran, applies, revokes, faults, starts>>

Revoke ==
    /\ Open /\ pc # "drain" /\ revokes < MaxRevokes /\ revokes' = revokes + 1
    /\ \E s \in Siblings :
          \/ doc' = [doc EXCEPT !.stop = @ \ {s}]
          \/ doc' = [doc EXCEPT !.listed = @ \ {s}]
    /\ UNCHANGED <<fetched, applied, proc, sample, etag, snapshot, frames, runVars,
                   ran, applies, writes, faults, starts>>

-----------------------------------------------------------------------------
(* The run                                                                 *)

Env == <<fetched, applied, proc, sample, etag, snapshot, ran, applies, writes,
         revokes, starts>>

vramDrain ==
    /\ pc = "drain" /\ pc' = "subscribe"
    /\ doc' = [doc EXCEPT !.stop = Specs]
    /\ UNCHANGED <<frames, frame, gate, pending, paired, reason, faults, Env>>

subscribe ==
    /\ pc = "subscribe" /\ pc' = "seed"
    /\ frames' = <<>>
    /\ UNCHANGED <<doc, frame, gate, pending, paired, reason, faults, Env>>

\* A spec that is missing from the document is not stopped by it.
vramDocumentDrains(d) == Specs \subseteq d.stop \cap d.listed

(* admitCurrentDocument, on a derivation that works.                       *)
admitCurrentDocument ==
    IF vramDocumentDrains(doc) THEN [gate EXCEPT !.accepted = @ \cup {doc}]
                               ELSE [gate EXCEPT !.lost = TRUE]

DeriveFails == faults < MaxFaults /\ faults' = faults + 1
DeriveWorks == UNCHANGED faults

newVRAMIsolationGate ==
    /\ pc = "seed" /\ pc' = "wait"
    /\ \/ DeriveFails /\ UNCHANGED gate
       \/ DeriveWorks /\ gate' = admitCurrentDocument
    /\ UNCHANGED <<doc, frames, frame, pending, paired, reason, Env>>

\* vramFrameEvidence, and what the loop of vramAwaitIsolation does with it.
Admit(f, g) ==
    LET quiet == {s \in pending : f.rows[s] = "quiet"}
    IN  /\ pending' = pending \ quiet
        /\ paired' = IF f.ack \in g.accepted THEN paired \cup quiet ELSE paired
        /\ gate' = [g EXCEPT !.sawAck = TRUE]
        /\ pc' = IF pending' = {} THEN "confirmed" ELSE "wait"
        /\ UNCHANGED reason

Refuse(g) ==
    /\ gate' = g
    /\ pc' = IF g.lost THEN "inconclusive" ELSE "wait"
    /\ reason' = IF g.lost THEN "lost" ELSE reason
    /\ UNCHANGED <<pending, paired>>

(* vramNextAdmissibleFrame takes the next frame and asks the gate, which   *)
(* reads the registry's acknowledgement: appliedOurDocument.               *)
vramNextAdmissibleFrame ==
    /\ pc = "wait" /\ frames # <<>>
    /\ frames' = Tail(frames)
    /\ LET f == Head(frames)
       IN  \/ /\ etag.doc \in gate.accepted
              /\ Admit(f, gate) /\ UNCHANGED frame
           \/ /\ etag.doc \notin gate.accepted
              /\ etag.doc \in {NoDoc, gate.evaluated}
              /\ Refuse(gate) /\ UNCHANGED frame
           \/ /\ etag.doc \notin gate.accepted \cup {NoDoc, gate.evaluated}
              /\ pc' = "derive"
              /\ frame' = [f |-> f, reported |-> etag.doc]
              /\ UNCHANGED <<gate, pending, paired, reason>>
    /\ UNCHANGED <<doc, faults, Env>>

\* A failed derivation is not an answer, and is tried again.
appliedOurDocument ==
    /\ pc = "derive"
    /\ \/ DeriveFails /\ Refuse(gate)
       \/ /\ DeriveWorks
          /\ LET g == [admitCurrentDocument EXCEPT !.evaluated = frame.reported]
             IN  IF frame.reported \in g.accepted THEN Admit(frame.f, g)
                                                  ELSE Refuse(g)
    /\ frame' = NoDoc
    /\ UNCHANGED <<doc, frames, Env>>

expiredReason ==
    /\ MayExpire /\ pc = "wait" /\ pc' = "inconclusive"
    /\ reason' = IF gate.sawAck THEN "timeout" ELSE "unacknowledged"
    /\ UNCHANGED <<doc, frames, frame, gate, pending, paired, faults, Env>>

\* The target's override is cleared once the baseline is taken.
ClearTarget ==
    /\ pc = "confirmed" /\ pc' = "measure"
    /\ doc' = [doc EXCEPT !.stop = @ \ {Target}]
    /\ UNCHANGED <<frames, frame, gate, pending, paired, reason, faults, Env>>

(* The target is resident and measured; vramRecheckIsolation reads the     *)
(* snapshot.                                                               *)
vramRecheckIsolation ==
    /\ pc = "measure" /\ proc[Target] = "running"
    /\ IF \A s \in Siblings : snapshot[s] = "quiet"
       THEN pc' = "isolated" /\ UNCHANGED reason
       ELSE pc' = "inconclusive" /\ reason' = "lost"
    /\ UNCHANGED <<doc, frames, frame, gate, pending, paired, faults, Env>>

-----------------------------------------------------------------------------
First == [stop |-> {}, listed |-> Specs, other |-> 0]

Init ==
    /\ doc = First /\ fetched = First /\ applied = First
    /\ proc \in [Specs -> {"stopped", "running", "failing"}]
    /\ sample = Idle /\ etag = [doc |-> NoDoc, n |-> 0]
    /\ snapshot = [s \in Specs |-> Row(s)] /\ frames = <<>>
    /\ pc = "drain" /\ frame = NoDoc /\ pending = Specs /\ paired = {}
    /\ gate = [accepted |-> {}, evaluated |-> NoDoc, sawAck |-> FALSE, lost |-> FALSE]
    /\ reason = "" /\ ran = {} /\ applies = 0
    /\ writes = 0 /\ revokes = 0 /\ faults = 0 /\ starts = 0

Agent == Fetch \/ applyConfig \/ ReadAck \/ ReadStatuses
Ingest == SetAppliedConfigETag \/ publish
Run == vramDrain \/ subscribe \/ newVRAMIsolationGate \/ vramNextAdmissibleFrame
       \/ appliedOurDocument \/ ClearTarget \/ vramRecheckIsolation

Next ==
    \/ Agent \/ Ingest \/ Run \/ expiredReason
    \/ (\E s \in Specs : Start(s) \/ Leave(s))
    \/ OtherWrite \/ Revoke

Spec == Init /\ [][Next]_vars

-----------------------------------------------------------------------------
(* Properties                                                              *)

\* A frame never arrives ahead of the acknowledgement it rode in with: what
\* the gate reads when it takes a frame is at least as new (the order of
\* SetAppliedConfigETag and publish in the ingest).
AckIsAsFresh ==
    \A i \in 1 .. Len(frames) : frames[i].n <= etag.n

\* What the standard of proof rests on: a spec seen without a process in a
\* sample that itself acknowledged a document of the run has none for as long
\* as nobody revokes that document, the target until its own clear: the
\* agent reads the acknowledgement first, and starts nothing it stops.
PairedEvidenceIsolates ==
    revokes = 0 =>
        \A s \in paired \cap doc.stop : ~HasProcess(s)

\* A run whose evidence is paired is not called lost unless a write of
\* somebody else did revoke the isolation: neither other writes to the
\* document nor the target's own process count against it.
LossIsRevocation == reason = "lost" /\ paired = Specs => revokes > 0

\* Every spec was seen without a process.
Confirmed == pending = {}

\* What the agent's comment says: a consumer that waits for its own document
\* to be acknowledged is never handed that ETag alongside the previous
\* document's states.
EvidenceIsPaired == paired = Specs \ pending

\* What the gate's comment says: an acknowledgement it has answered with no
\* stays answered, and when the document comes back to it only the precision
\* of the reason is lost.  So the agent is not called unacknowledged for a
\* current document that stops the whole fleet and that it has acknowledged.
UnacknowledgedIsTrue ==
    [][reason = "" /\ reason' = "unacknowledged"
       => ~(doc = etag.doc /\ doc = gate.evaluated /\ vramDocumentDrains(doc))]_vars

\* What the gate's comment says: a revocation in the middle of a run loses
\* the earliest detection, never the detection.
RevocationDetected == pc = "isolated" => ran = {}
=============================================================================
