----------------------------- MODULE ConfigPath -----------------------------
(***************************************************************************)
(* How a runtime document travels from the gateway's store to the agent's  *)
(* manager.  Gateway: the push worker of a server                          *)
(* (gateway/runtime_config_push.go, agent_runtime.go) and the send queue   *)
(* of its connection (agent_stream_registry.go, agent_stream.go).  Agent:  *)
(* the connection and its one-slot wake (client/ws.go), the sync trigger   *)
(* of the run loop (agent/agent.go) and Driver.Sync with a GatewaySource   *)
(* (runtime/driver.go, config_client.go, features_client.go).              *)
(*                                                                         *)
(* One server, whose agent uses the gateway as its source.  A document is  *)
(* its content, so two writes may produce the same ETag.  The manager is   *)
(* what was last handed to Apply.                                          *)
(***************************************************************************)
EXTENDS Naturals, Sequences

CONSTANTS
  Doc,         \* the documents the store may hold
  RouterPort,  \* the router port of each, 0 for none
  Empty,       \* the empty document
  Resync,      \* a wake without a document: load over HTTP
  QueueCap,    \* agentStreamQueueCapacity
  MaxWrites, MaxToggles, MaxDrops, MaxRestarts,  \* bounds on the environment
  MaxFaults,   \* failing requests, derives, binds and cache writes
  MaxEvents    \* all of these together

ASSUME ConfigPathAssumption ==
  /\ Empty \notin Doc
  /\ Resync \notin Doc \cup {Empty}
  /\ RouterPort \in [Doc \cup {Empty} -> Nat]
  /\ RouterPort[Empty] = 0
  /\ QueueCap \in Nat
  /\ {MaxWrites, MaxToggles, MaxDrops, MaxRestarts, MaxFaults, MaxEvents} \subseteq Nat

VARIABLES
  store,   \* gateway: the document the store derives
  served,  \* gateway: the features it declares
  worker,  \* gateway: the server's push worker
  out,     \* gateway: frames queued for the connection, on the wire included
  conn,    \* the connection: "down", "accepted" or "registered" with the gateway
  slot,    \* agent: WSSender.runtimeUpdates, Empty when nothing is pending
  dialed,  \* agent: maybeDial has a new connection and has not rung yet
  sync,    \* agent: runtimeSyncState and the goroutine it stands for
  src,     \* agent: GatewaySource and FeaturesClient
  drv,     \* agent: Driver
  mgr,     \* agent: the last document handed to the manager
  spent    \* how often the environment acted

gateway == <<store, served, worker>>
link == <<out, conn, slot, dialed>>
agent == <<sync, src, drv, mgr>>
vars == <<gateway, link, agent, spent>>

Features == {"runtime_manager", "runtime_instances"}

Wake == Doc \cup {Resync}

TypeOK ==
  /\ store \in Doc
  /\ served \subseteq Features
  /\ worker \in [running : BOOLEAN, dirty : BOOLEAN,
                 pc : {"derive", "enqueue", "check"}, doc : Doc]
  /\ out \in Seq(Doc) /\ Len(out) <= QueueCap
  /\ conn \in {"down", "accepted", "registered"}
  /\ slot \in Wake \cup {Empty}
  /\ dialed \in BOOLEAN
  /\ sync \in [running : BOOLEAN, owed : BOOLEAN, next : Wake, data : Wake, began : Wake,
               pc : {"features", "load", "apply", "check"}, instances : BOOLEAN,
               doc : Doc \cup {Empty}, changed : BOOLEAN]
  /\ src \in [cached : Doc \cup {Empty}, disk : Doc \cup {Empty}, features : SUBSET Features]
  /\ drv \in [applied : BOOLEAN, instances : BOOLEAN, active : BOOLEAN,
              listen : Nat, bound : BOOLEAN]
  /\ mgr \in [doc : Doc \cup {Empty}, instances : BOOLEAN]
  /\ spent \in [writes : 0..MaxWrites, toggles : 0..MaxToggles,
                drops : 0..MaxDrops, restarts : 0..MaxRestarts,
                faults : 0..MaxFaults, lost : BOOLEAN]

NothingApplied == [doc |-> Empty, instances |-> FALSE]

IdleDriver == [applied |-> FALSE, instances |-> FALSE, active |-> FALSE,
               listen |-> 0, bound |-> FALSE]

\* The sync that Run asks for when it starts.
FirstSync == [running |-> TRUE, owed |-> FALSE, next |-> Resync, data |-> Resync,
              began |-> Resync, pc |-> "features", instances |-> FALSE, doc |-> Empty,
              changed |-> FALSE]

Init ==
  /\ store \in Doc
  /\ served = Features
  /\ worker = [running |-> FALSE, dirty |-> FALSE, pc |-> "derive", doc |-> store]
  /\ out = <<>>
  /\ conn = "registered"
  /\ slot = Empty
  /\ dialed = FALSE
  /\ sync = FirstSync
  /\ src = [cached |-> Empty, disk |-> Empty, features |-> {}]
  /\ drv = IdleDriver
  /\ mgr = NothingApplied
  /\ spent = [writes |-> 0, toggles |-> 0, drops |-> 0, restarts |-> 0, faults |-> 0,
              lost |-> FALSE]

\* The environment's bounds are not used up.
open(count, max) ==
  /\ count < max
  /\ spent.writes + spent.toggles + spent.drops + spent.restarts + spent.faults < MaxEvents

\* A call may fail as long as the bound allows it.
fails ==
  /\ open(spent.faults, MaxFaults)
  /\ spent' = [spent EXCEPT !.faults = @ + 1, !.lost = TRUE]

(***************************************************************************)
(* Gateway: writes, and the push worker.                                   *)
(***************************************************************************)
notify(w) ==
  IF w.running THEN [w EXCEPT !.dirty = TRUE]
  ELSE [w EXCEPT !.running = TRUE, !.dirty = FALSE, !.pc = "derive"]

\* A write of the portal, with the hook it calls under its lock.
PushRuntimeConfig ==
  /\ open(spent.writes, MaxWrites)
  /\ spent' = [spent EXCEPT !.writes = @ + 1]
  /\ \E d \in Doc \ {store} : store' = d
  /\ worker' = notify(worker)
  /\ UNCHANGED <<served, link, agent>>

\* The gateway is replaced by a build with other features.
ChangeFeatures ==
  /\ open(spent.toggles, MaxToggles)
  /\ spent' = [spent EXCEPT !.toggles = @ + 1]
  /\ \E F \in SUBSET Features : F # served /\ served' = F
  /\ UNCHANGED <<store, worker, link, agent>>

\* The document is derived, or the pass ends without a frame.
Derive ==
  /\ worker.running /\ worker.pc = "derive"
  /\ \/ worker' = [worker EXCEPT !.pc = "enqueue", !.doc = store] /\ UNCHANGED spent
     \/ fails /\ worker' = [worker EXCEPT !.pc = "check", !.doc = store]
  /\ UNCHANGED <<store, served, link, agent>>

\* NotifyRuntimeConfig: a connection whose queue is full does not get the frame.
Enqueue ==
  /\ worker.running /\ worker.pc = "enqueue"
  /\ worker' = [worker EXCEPT !.pc = "check"]
  /\ \/ /\ conn = "registered" /\ Len(out) < QueueCap
        /\ out' = Append(out, worker.doc)
        /\ UNCHANGED spent
     \/ /\ conn # "registered" \/ Len(out) = QueueCap
        /\ spent' = [spent EXCEPT !.lost = TRUE]
        /\ UNCHANGED out
  /\ UNCHANGED <<store, served, conn, slot, dialed, agent>>

ExitCheck ==
  /\ worker.running /\ worker.pc = "check"
  /\ worker' = IF worker.dirty THEN [worker EXCEPT !.dirty = FALSE, !.pc = "derive"]
               ELSE [worker EXCEPT !.running = FALSE]
  /\ UNCHANGED <<store, served, link, agent, spent>>

(***************************************************************************)
(* The connection and the one-slot wake.                                   *)
(***************************************************************************)
\* runWriter sends a frame, readLoop takes it and replaces what is pending.
Deliver ==
  /\ conn = "registered" /\ out # <<>>
  /\ slot' = Head(out)
  /\ out' = Tail(out)
  /\ UNCHANGED <<gateway, conn, dialed, agent, spent>>

DropConn ==
  /\ open(spent.drops, MaxDrops)
  /\ spent' = [spent EXCEPT !.drops = @ + 1, !.lost = TRUE]
  /\ conn # "down"
  /\ conn' = "down"
  /\ out' = <<>>
  /\ UNCHANGED <<gateway, slot, dialed, agent>>

\* maybeDial runs on the run loop and returns only when it has rung.
MaybeDial ==
  /\ conn = "down" /\ ~dialed
  /\ conn' = "accepted"
  /\ dialed' = TRUE
  /\ UNCHANGED <<gateway, out, slot, agent, spent>>

Register ==
  /\ conn = "accepted"
  /\ conn' = "registered"
  /\ UNCHANGED <<gateway, out, slot, dialed, agent, spent>>

WakeOnConnect ==
  /\ dialed
  /\ dialed' = FALSE
  /\ slot' = Resync
  /\ UNCHANGED <<gateway, out, conn, agent, spent>>

(***************************************************************************)
(* The run loop and its sync goroutine.                                    *)
(***************************************************************************)
\* Mutant: a wake during a sync is dropped, as the certificate trigger does.
triggerDropping(s, data) ==
  IF s.running THEN s
  ELSE [s EXCEPT !.running = TRUE, !.data = data, !.pc = "features"]

triggerRuntimeSync(s, data) ==
  IF s.running THEN [s EXCEPT !.owed = TRUE, !.next = data]
  ELSE [s EXCEPT !.running = TRUE, !.data = data, !.pc = "features"]

TakeWake ==
  /\ ~dialed /\ slot # Empty
  /\ slot' = Empty
  /\ sync' = triggerRuntimeSync(sync, slot)
  /\ UNCHANGED <<gateway, out, conn, dialed, src, drv, mgr, spent>>

Poll ==
  /\ ~dialed
  /\ sync' = triggerRuntimeSync(sync, Resync)
  /\ UNCHANGED <<gateway, link, src, drv, mgr, spent>>

\* The goroutine is gone, and its locals with it.
idle(s) == [s EXCEPT !.running = FALSE, !.doc = Empty, !.changed = FALSE,
                     !.instances = FALSE]

\* Mutant: the last payload is not kept for the trailing sync.
NextSyncSameData ==
  /\ sync.running /\ sync.pc = "check"
  /\ sync' = IF sync.owed
             THEN [sync EXCEPT !.owed = FALSE, !.pc = "features"]
             ELSE idle(sync)
  /\ UNCHANGED <<gateway, link, src, drv, mgr, spent>>

\* runRuntimeSyncs after a Sync: one more if a wake arrived, in one critical section.
NextSync ==
  /\ sync.running /\ sync.pc = "check"
  /\ sync' = IF sync.owed
             THEN [sync EXCEPT !.owed = FALSE, !.data = sync.next, !.pc = "features"]
             ELSE idle(sync)
  /\ UNCHANGED <<gateway, link, src, drv, mgr, spent>>

(***************************************************************************)
(* Driver.Sync.                                                            *)
(***************************************************************************)
\* Mutant: a bind is tried once.
startRouterNoRetry(d, listen, bindable) ==
  IF listen = d.listen THEN d
  ELSE [d EXCEPT !.listen = listen, !.bound = listen > 0 /\ bindable]

\* StartRouter: a bind that failed is tried again.
startRouter(d, listen, bindable) ==
  IF listen = d.listen /\ (listen = 0 \/ d.bound) THEN d
  ELSE [d EXCEPT !.listen = listen, !.bound = listen > 0 /\ bindable]

stopAll(d) == [startRouter(d, 0, TRUE) EXCEPT !.applied = FALSE, !.active = FALSE]

\* What featureActive makes of the features F.
answers(F) ==
  /\ src' = [src EXCEPT !.features = F]
  /\ \/ /\ "runtime_manager" \in F
        /\ sync' = [sync EXCEPT !.pc = "load", !.began = sync.data,
                                !.instances = "runtime_instances" \in F]
        /\ drv' = [drv EXCEPT !.active = TRUE]
        /\ UNCHANGED mgr
     \/ /\ "runtime_manager" \notin F
        /\ sync' = [sync EXCEPT !.pc = "check", !.began = sync.data]
        /\ drv' = stopAll(drv)
        /\ mgr' = NothingApplied

\* featureActive: FeaturesClient.Fetch keeps the last set when the request fails.
FeatureActive ==
  /\ sync.running /\ sync.pc = "features"
  /\ (answers(served) /\ UNCHANGED spent) \/ (answers(src.features) /\ fails)
  /\ UNCHANGED <<gateway, link>>

\* persist: the cache file may fail to be written.
persist(doc, written) ==
  [src EXCEPT !.cached = doc, !.disk = IF written THEN doc ELSE @]

\* The document d of a push or a response, against the ETag that is known.
loaded(d) ==
  /\ sync' = [sync EXCEPT !.pc = "apply", !.doc = d, !.changed = d # src.cached]
  /\ \/ d = src.cached /\ UNCHANGED <<src, spent>>
     \/ d # src.cached /\ src' = persist(d, TRUE) /\ UNCHANGED spent
     \/ d # src.cached /\ src' = persist(d, FALSE) /\ fails

\* load: ApplyPushed for a document; Load over HTTP otherwise.
Load ==
  /\ sync.running /\ sync.pc = "load"
  /\ \/ sync.data # Resync /\ loaded(sync.data)
     \/ sync.data = Resync /\ loaded(store)
     \/ /\ sync.data = Resync /\ fails
        /\ sync' = [sync EXCEPT !.pc = "apply", !.doc = src.cached, !.changed = FALSE]
        /\ UNCHANGED src
  /\ UNCHANGED <<gateway, link, drv, mgr>>

skipApply == ~sync.changed /\ drv.applied /\ sync.instances = drv.instances

\* The router is bound at every sync, then the document is applied if that is due.
Apply ==
  /\ sync.running /\ sync.pc = "apply"
  /\ sync' = [sync EXCEPT !.pc = "check"]
  /\ \E bindable \in BOOLEAN :
       /\ (bindable /\ UNCHANGED spent) \/ (~bindable /\ fails)
       /\ LET d == startRouter(drv, RouterPort[sync.doc], bindable)
          IN \/ skipApply /\ drv' = d /\ UNCHANGED mgr
             \/ /\ ~skipApply
                /\ drv' = [d EXCEPT !.applied = TRUE, !.instances = sync.instances]
                /\ mgr' = [doc |-> sync.doc, instances |-> sync.instances]
  /\ UNCHANGED <<gateway, link, src>>

\* The agent stops at any point and starts again with its cache file.
Restart ==
  /\ open(spent.restarts, MaxRestarts)
  /\ spent' = [spent EXCEPT !.restarts = @ + 1, !.lost = TRUE]
  /\ conn' = "down" /\ out' = <<>> /\ slot' = Empty /\ dialed' = FALSE
  /\ sync' = FirstSync
  /\ src' = [src EXCEPT !.cached = src.disk, !.features = {}]
  /\ drv' = IdleDriver
  /\ mgr' = NothingApplied
  /\ UNCHANGED gateway

Gateway == Derive \/ Enqueue \/ ExitCheck

Link == Deliver \/ MaybeDial \/ Register \/ WakeOnConnect

SyncLoop == Poll \/ NextSync \/ FeatureActive \/ Load \/ Apply

Environment == PushRuntimeConfig \/ ChangeFeatures \/ DropConn \/ Restart

Next == Gateway \/ Link \/ TakeWake \/ SyncLoop \/ Environment

Spec == Init /\ [][Next]_vars

(***************************************************************************)
(* Properties.                                                             *)
(***************************************************************************)
\* runtimeConfigPusher: passes do not overlap, a notification is followed by a derive
\* that starts after it, and when none is owed the last pass read the latest write.
PushWorker == INSTANCE Doorbell WITH
  Value <- Doc,
  want <- store,
  got <- worker.doc,
  owed <- worker.running /\ (worker.dirty \/ worker.pc = "derive"),
  busy <- worker.running /\ worker.pc # "derive",
  life <- 0

PushWorkerIsDoorbell == PushWorker!Spec

\* triggerRuntimeSync: at most one Sync runs, every wake is followed by a Sync that
\* starts after it, and the last of them has the payload of the last wake.
SyncTrigger == INSTANCE Doorbell WITH
  Value <- Wake,
  want <- IF sync.owed THEN sync.next ELSE sync.data,
  got <- sync.began,
  owed <- sync.running /\ (sync.owed \/ sync.pc = "features"),
  busy <- sync.running /\ sync.pc # "features",
  life <- spent.restarts

SyncTriggerIsDoorbell == SyncTrigger!Spec

Quiet ==
  /\ ~worker.running /\ out = <<>> /\ slot = Empty /\ ~dialed /\ ~sync.running
  /\ conn = "registered"

\* The push path needs no poll: while the connection holds, no call fails and no queue
\* overflows, a document that was pushed is applied once everything in flight has been
\* worked off.
PushSuffices ==
  Quiet /\ ~spent.lost /\ "runtime_manager" \in src.features => mgr.doc = store

\* Driver.Sync's condition for applying: at the end of a Sync of an active driver the
\* manager has the document the source holds, with the instances flag of that Sync,
\* after a drain, a restart from the cache file and a change of features as well.
AppliedIsCached ==
  sync.running /\ sync.pc = "check" /\ drv.active =>
    mgr = [doc |-> src.cached, instances |-> sync.instances]

\* The router's listener is the one the applied document names, or none.
RouterFollowsDocument ==
  drv.bound /\ sync.pc # "apply" => drv.listen = RouterPort[src.cached]

\* The runtime document: a push reaches an agent that is connected, the router follows
\* the document that is applied, and the cache file holds it (Driver.Sync, Push).
ConfigFollows == TypeOK /\ PushSuffices /\ RouterFollowsDocument /\ AppliedIsCached

Desired ==
  IF "runtime_manager" \in served
  THEN [doc |-> store, instances |-> "runtime_instances" \in served]
  ELSE NothingApplied

\* Whatever was lost on the way (frames, connections, requests, the agent itself),
\* the agent ends up with the latest document, its features and its router.
EventuallyInSync ==
  <>[](/\ mgr = Desired
       /\ drv.listen = RouterPort[Desired.doc]
       /\ drv.bound = (drv.listen > 0))
=============================================================================
