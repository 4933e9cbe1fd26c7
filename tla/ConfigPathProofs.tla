-------------------------- MODULE ConfigPathProofs --------------------------
(***************************************************************************)
(* Theorems about the way of a runtime document to the agent, for every    *)
(* set of documents, every queue capacity and every bound on what the      *)
(* environment does.                                                       *)
(*                                                                         *)
(* ConfigFollows is not inductive.  What the agent's driver applies is the *)
(* document that its source holds only because the running sync carries    *)
(* that same document, and because an applied flag vouches for what the    *)
(* manager was given (DriverOK).  That the last push suffices needs the    *)
(* whole pipe between the store and the manager: as long as nothing was    *)
(* lost, the newest of the things in it (the worker's debt, the last frame *)
(* of the queue, the slot, the wake that is owed, the running sync) is the *)
(* store's document or a wake that will load it (PipeOK).                  *)
(***************************************************************************)
EXTENDS ConfigPath, SequenceTheorems, TLAPS

WorkerType == [running : BOOLEAN, dirty : BOOLEAN,
               pc : {"derive", "enqueue", "check"}, doc : Doc]

SyncType == [running : BOOLEAN, owed : BOOLEAN, next : Wake, data : Wake, began : Wake,
             pc : {"features", "load", "apply", "check"}, instances : BOOLEAN,
             doc : Doc \cup {Empty}, changed : BOOLEAN]

SourceType == [cached : Doc \cup {Empty}, disk : Doc \cup {Empty}, features : SUBSET Features]

DriverType == [applied : BOOLEAN, instances : BOOLEAN, active : BOOLEAN,
               listen : Nat, bound : BOOLEAN]

ManagerType == [doc : Doc \cup {Empty}, instances : BOOLEAN]

SpentType == [writes : 0..MaxWrites, toggles : 0..MaxToggles,
              drops : 0..MaxDrops, restarts : 0..MaxRestarts,
              faults : 0..MaxFaults, lost : BOOLEAN]

(***************************************************************************)
(* The inductive invariant.                                                *)
(***************************************************************************)
DriverOK ==
  /\ ~sync.running => sync.pc = "check" /\ ~sync.owed
  /\ sync.pc = "apply" => sync.doc = src.cached
  /\ drv.applied /\ (sync.pc = "apply" => ~sync.changed)
       => mgr = [doc |-> src.cached, instances |-> drv.instances]
  /\ sync.pc = "check" /\ "runtime_manager" \in src.features => drv.applied
  /\ RouterFollowsDocument
  /\ AppliedIsCached

WorkerOwes == worker.running /\ (worker.dirty \/ worker.pc \in {"derive", "enqueue"})

\* A wake with this payload brings the store's document.
Latest == {store, Resync}

\* The newest thing in the pipe.
NewestIsLatest ==
  /\ out # <<>> => out[Len(out)] = store
  /\ out = <<>> /\ slot # Empty => slot \in Latest
  /\ out = <<>> /\ slot = Empty =>
       /\ sync.owed => sync.next \in Latest
       /\ ~sync.owed /\ sync.pc \in {"features", "load"} => sync.data \in Latest
       /\ ~sync.owed /\ sync.pc \in {"apply", "check"}
            /\ "runtime_manager" \in src.features => src.cached = store

PipeOK ==
  ~spent.lost => conn = "registered" /\ ~dialed /\ (~WorkerOwes => NewestIsLatest)

IInv == TypeOK /\ DriverOK /\ PushWorker!UpToDate /\ PipeOK

(***************************************************************************)
(* Types.                                                                  *)
(***************************************************************************)

\* What the environment may still do is within its bounds after it has acted.
LEMMA SpentTypes ==
  ASSUME spent \in SpentType
  PROVE  /\ fails => spent' \in SpentType
         /\ [spent EXCEPT !.lost = TRUE] \in SpentType
         /\ spent.writes < MaxWrites => [spent EXCEPT !.writes = @ + 1] \in SpentType
         /\ spent.toggles < MaxToggles => [spent EXCEPT !.toggles = @ + 1] \in SpentType
         /\ spent.drops < MaxDrops => [spent EXCEPT !.drops = @ + 1, !.lost = TRUE] \in SpentType
         /\ spent.restarts < MaxRestarts
              => [spent EXCEPT !.restarts = @ + 1, !.lost = TRUE] \in SpentType
<1>0. /\ MaxWrites \in Nat /\ MaxToggles \in Nat /\ MaxDrops \in Nat /\ MaxRestarts \in Nat
      /\ MaxFaults \in Nat
  BY ConfigPathAssumption
<1>1. ASSUME fails PROVE spent' \in SpentType
  <2>1. [spent EXCEPT !.faults = spent.faults + 1] \in SpentType
    BY <1>0, <1>1 DEF SpentType, fails, open
  <2>2. [[spent EXCEPT !.faults = spent.faults + 1] EXCEPT !.lost = TRUE] \in SpentType
    BY <2>1, Zenon DEF SpentType
  <2> QED BY <1>1, <2>2 DEF fails, SpentType
<1>2. [spent EXCEPT !.lost = TRUE] \in SpentType
  BY Zenon DEF SpentType
<1>3. ASSUME spent.writes < MaxWrites PROVE [spent EXCEPT !.writes = @ + 1] \in SpentType
  BY <1>0, <1>3 DEF SpentType
<1>4. ASSUME spent.toggles < MaxToggles PROVE [spent EXCEPT !.toggles = @ + 1] \in SpentType
  BY <1>0, <1>4 DEF SpentType
<1>5. ASSUME spent.drops < MaxDrops
      PROVE  [spent EXCEPT !.drops = @ + 1, !.lost = TRUE] \in SpentType
  <2>1. [spent EXCEPT !.drops = spent.drops + 1] \in SpentType
    BY <1>0, <1>5 DEF SpentType
  <2>2. [[spent EXCEPT !.drops = spent.drops + 1] EXCEPT !.lost = TRUE] \in SpentType
    BY <2>1, Zenon DEF SpentType
  <2> QED BY <2>2 DEF SpentType
<1>6. ASSUME spent.restarts < MaxRestarts
      PROVE  [spent EXCEPT !.restarts = @ + 1, !.lost = TRUE] \in SpentType
  <2>1. [spent EXCEPT !.restarts = spent.restarts + 1] \in SpentType
    BY <1>0, <1>6 DEF SpentType
  <2>2. [[spent EXCEPT !.restarts = spent.restarts + 1] EXCEPT !.lost = TRUE] \in SpentType
    BY <2>1, Zenon DEF SpentType
  <2> QED BY <2>2 DEF SpentType
<1> QED BY <1>1, <1>2, <1>3, <1>4, <1>5, <1>6

\* A trigger keeps the sync's type.
LEMMA TriggerType ==
  ASSUME sync \in SyncType, NEW w \in Wake
  PROVE  triggerRuntimeSync(sync, w) \in SyncType
BY Zenon DEF SyncType, triggerRuntimeSync

\* The documents that are pending are documents.
LEMMA WakeTypes == Doc \subseteq Wake /\ Resync \in Wake /\ Resync # Empty /\ Empty \notin Doc
                   /\ Resync \notin Doc
BY ConfigPathAssumption DEF Wake

\* Starting or stopping the router keeps the driver's type.
LEMMA RouterType ==
  ASSUME NEW d \in DriverType, NEW n \in Nat, NEW f \in BOOLEAN
  PROVE  /\ startRouter(d, n, f) \in DriverType
         /\ stopAll(d) \in DriverType
<1>1. startRouter(d, n, f) \in DriverType BY Zenon DEF DriverType, startRouter
<1>2. startRouter(d, 0, TRUE) \in DriverType BY Zenon DEF DriverType, startRouter
<1>3. stopAll(d) \in DriverType BY <1>2, Zenon DEF stopAll, DriverType
<1> QED BY <1>1, <1>3

\* The type invariant, by the names of its types.
LEMMA TypeNames ==
  TypeOK <=> /\ store \in Doc
             /\ served \subseteq Features
             /\ worker \in WorkerType
             /\ out \in Seq(Doc) /\ Len(out) <= QueueCap
             /\ conn \in {"down", "accepted", "registered"}
             /\ slot \in Wake \cup {Empty}
             /\ dialed \in BOOLEAN
             /\ sync \in SyncType
             /\ src \in SourceType
             /\ drv \in DriverType
             /\ mgr \in ManagerType
             /\ spent \in SpentType
BY DEF TypeOK, WorkerType, SyncType, SourceType, DriverType, ManagerType, SpentType

\* Every state has its type.
LEMMA InitTyped == Init => TypeOK
<1> SUFFICES ASSUME Init PROVE TypeOK OBVIOUS
<1> USE ConfigPathAssumption DEF Init
<1>1. worker \in WorkerType BY DEF WorkerType
<1>2. out \in Seq(Doc) /\ Len(out) <= QueueCap OBVIOUS
<1>3. slot \in Wake \cup {Empty} /\ conn \in {"down", "accepted", "registered"} OBVIOUS
<1>4. sync \in SyncType BY WakeTypes DEF SyncType, FirstSync
<1>5. src \in SourceType BY DEF SourceType
<1>6. drv \in DriverType /\ mgr \in ManagerType
  BY DEF DriverType, IdleDriver, ManagerType, NothingApplied
<1>7. spent \in SpentType BY SMTT(30) DEF SpentType
<1> QED BY <1>1, <1>2, <1>3, <1>4, <1>5, <1>6, <1>7, TypeNames, Zenon

\* Every step keeps the types.
LEMMA NextTyped == TypeOK /\ [Next]_vars => TypeOK'
<1> SUFFICES ASSUME TypeOK, [Next]_vars PROVE TypeOK' OBVIOUS
<1> DEFINE T == /\ store \in Doc
                /\ served \subseteq Features
                /\ worker \in WorkerType
                /\ out \in Seq(Doc) /\ Len(out) <= QueueCap
                /\ conn \in {"down", "accepted", "registered"}
                /\ slot \in Wake \cup {Empty}
                /\ dialed \in BOOLEAN
                /\ sync \in SyncType
                /\ src \in SourceType
                /\ drv \in DriverType
                /\ mgr \in ManagerType
                /\ spent \in SpentType
<1>0. T BY TypeNames
<1> SUFFICES T'
  <2>1. TypeOK' <=> T' BY TypeNames, PTL
  <2> QED BY <2>1
<1>1. CASE UNCHANGED vars
  BY <1>0, <1>1 DEF vars, gateway, link, agent
<1>2. CASE Derive
  <2>1. spent' \in SpentType BY <1>0, <1>2, SpentTypes DEF Derive
  <2>2. worker' \in WorkerType BY <1>0, <1>2, Zenon DEF Derive, WorkerType
  <2> QED BY <1>0, <1>2, <2>1, <2>2 DEF Derive, link, agent
<1>3. CASE Enqueue
  <2>1. spent' \in SpentType BY <1>0, <1>3, SpentTypes, Zenon DEF Enqueue
  <2>2. worker' \in WorkerType /\ worker.doc \in Doc BY <1>0, <1>3 DEF Enqueue, WorkerType
  <2>3. out' \in Seq(Doc) /\ Len(out') <= QueueCap
    <3>1. CASE out' = out BY <1>0, <3>1
    <3>2. CASE Len(out) < QueueCap /\ out' = Append(out, worker.doc)
      <4>1. out' \in Seq(Doc) /\ Len(out') = Len(out) + 1
        BY <1>0, <2>2, <3>2, AppendProperties
      <4>2. Len(out) \in Nat /\ QueueCap \in Nat BY <1>0, ConfigPathAssumption
      <4> QED BY <3>2, <4>1, <4>2
    <3> QED BY <1>3, <3>1, <3>2 DEF Enqueue
  <2> QED BY <1>0, <1>3, <2>1, <2>2, <2>3 DEF Enqueue, agent
<1>4. CASE ExitCheck
  <2>1. worker' \in WorkerType BY <1>0, <1>4, Zenon DEF ExitCheck, WorkerType
  <2> QED BY <1>0, <1>4, <2>1 DEF ExitCheck, link, agent
<1>5. CASE Deliver
  <2>1. slot' \in Doc /\ out' \in Seq(Doc) /\ Len(out') = Len(out) - 1
    BY <1>0, <1>5, HeadTailProperties DEF Deliver
  <2>2. Len(out') <= QueueCap /\ slot' \in Wake \cup {Empty}
    BY <1>0, <2>1, ConfigPathAssumption DEF Wake
  <2> QED BY <1>0, <1>5, <2>1, <2>2 DEF Deliver, gateway, agent
<1>6. CASE MaybeDial
  BY <1>0, <1>6 DEF MaybeDial, gateway, agent
<1>7. CASE Register
  BY <1>0, <1>7 DEF Register, gateway, agent
<1>8. CASE WakeOnConnect
  BY <1>0, <1>8, WakeTypes, Zenon DEF WakeOnConnect, gateway, agent
<1>9. CASE TakeWake
  <2>1. sync' \in SyncType BY <1>0, <1>9, TriggerType DEF TakeWake
  <2> QED BY <1>0, <1>9, <2>1 DEF TakeWake, gateway
<1>10. CASE Poll
  <2>1. sync' \in SyncType BY <1>0, <1>10, TriggerType, WakeTypes DEF Poll
  <2> QED BY <1>0, <1>10, <2>1 DEF Poll, gateway, link
<1>11. CASE NextSync
  <2>1. sync' \in SyncType BY <1>0, <1>11, Zenon DEF NextSync, idle, SyncType
  <2> QED BY <1>0, <1>11, <2>1 DEF NextSync, gateway, link
<1>12. CASE FeatureActive
  <2>1. spent' \in SpentType BY <1>0, <1>12, SpentTypes DEF FeatureActive
  <2>2. PICK F \in SUBSET Features : answers(F)
    BY <1>0, <1>12 DEF FeatureActive, SourceType
  <2>3. src' \in SourceType BY <1>0, <2>2 DEF answers, SourceType
  <2>4. sync' \in SyncType
    <3>1. \A f \in BOOLEAN :
            [sync EXCEPT !.pc = "load", !.began = sync.data, !.instances = f] \in SyncType
      BY <1>0, Zenon DEF SyncType
    <3>2. [sync EXCEPT !.pc = "check", !.began = sync.data] \in SyncType
      BY <1>0, Zenon DEF SyncType
    <3>3. ("runtime_instances" \in F) \in BOOLEAN OBVIOUS
    <3> QED BY <2>2, <3>1, <3>2, <3>3, Zenon DEF answers
  <2>5. drv' \in DriverType /\ mgr' \in ManagerType
    <3>1. [drv EXCEPT !.active = TRUE] \in DriverType BY <1>0, Zenon DEF DriverType
    <3>2. stopAll(drv) \in DriverType BY <1>0, RouterType
    <3>3. NothingApplied \in ManagerType BY DEF NothingApplied, ManagerType
    <3> QED BY <1>0, <2>2, <3>1, <3>2, <3>3, Zenon DEF answers
  <2> QED BY <1>0, <1>12, <2>1, <2>3, <2>4, <2>5 DEF FeatureActive, gateway, link
<1>13. CASE Load
  <2>1. spent' \in SpentType BY <1>0, <1>13, SpentTypes, Zenon DEF Load, loaded
  <2>2. CASE \E d \in Doc : loaded(d)
    <3>1. PICK d \in Doc : loaded(d) BY <2>2
    <3>2. src' \in SourceType BY <1>0, <3>1, Zenon DEF loaded, persist, SourceType
    <3>3. sync' \in SyncType BY <1>0, <3>1, Zenon DEF loaded, SyncType
    <3> QED BY <1>0, <1>13, <2>1, <3>2, <3>3 DEF Load, gateway, link
  <2>3. CASE sync' = [sync EXCEPT !.pc = "apply", !.doc = src.cached, !.changed = FALSE]
             /\ UNCHANGED src
    <3>1. sync' \in SyncType BY <1>0, <2>3, ZenonT(30) DEF SyncType, SourceType
    <3> QED BY <1>0, <1>13, <2>1, <2>3, <3>1 DEF Load, gateway, link
  <2>4. sync.data # Resync => sync.data \in Doc BY <1>0 DEF SyncType, Wake
  <2> QED BY <1>0, <1>13, <2>2, <2>3, <2>4 DEF Load
<1>14. CASE Apply
  <2>1. PICK bindable \in BOOLEAN :
          /\ (bindable /\ UNCHANGED spent) \/ (~bindable /\ fails)
          /\ LET d == startRouter(drv, RouterPort[sync.doc], bindable)
             IN \/ skipApply /\ drv' = d /\ UNCHANGED mgr
                \/ /\ ~skipApply
                   /\ drv' = [d EXCEPT !.applied = TRUE, !.instances = sync.instances]
                   /\ mgr' = [doc |-> sync.doc, instances |-> sync.instances]
    BY <1>14, Zenon DEF Apply
  <2> DEFINE d == startRouter(drv, RouterPort[sync.doc], bindable)
  <2>2. spent' \in SpentType BY <1>0, <2>1, SpentTypes
  <2>3. sync.doc \in Doc \cup {Empty} /\ sync.instances \in BOOLEAN BY <1>0 DEF SyncType
  <2>4. RouterPort[sync.doc] \in Nat BY <2>3, ConfigPathAssumption
  <2>5. d \in DriverType BY <1>0, <2>4, RouterType, Zenon
  <2> HIDE DEF d
  <2>6. drv' \in DriverType
    <3>1. [d EXCEPT !.applied = TRUE, !.instances = sync.instances] \in DriverType
      BY <2>3, <2>5, Zenon DEF DriverType
    <3> QED BY <2>1, <2>5, <3>1 DEF d
  <2>7. mgr' \in ManagerType BY <1>0, <2>1, <2>3 DEF ManagerType
  <2>8. sync' \in SyncType BY <1>0, <1>14 DEF Apply, SyncType
  <2> QED BY <1>0, <1>14, <2>2, <2>6, <2>7, <2>8 DEF Apply, gateway, link
<1>15. CASE PushRuntimeConfig
  <2>1. spent' \in SpentType BY <1>0, <1>15, SpentTypes DEF PushRuntimeConfig, open
  <2>2. worker' \in WorkerType BY <1>0, <1>15, Zenon DEF PushRuntimeConfig, notify, WorkerType
  <2> QED BY <1>0, <1>15, <2>1, <2>2 DEF PushRuntimeConfig, link, agent
<1>16. CASE ChangeFeatures
  <2>1. spent' \in SpentType BY <1>0, <1>16, SpentTypes DEF ChangeFeatures, open
  <2> QED BY <1>0, <1>16, <2>1 DEF ChangeFeatures, link, agent
<1>17. CASE DropConn
  <2>1. spent' \in SpentType BY <1>0, <1>17, SpentTypes DEF DropConn, open
  <2>2. <<>> \in Seq(Doc) /\ Len(<<>>) <= QueueCap BY ConfigPathAssumption
  <2> QED BY <1>0, <1>17, <2>1, <2>2 DEF DropConn, gateway, agent
<1>18. CASE Restart
  <2>1. spent' \in SpentType BY <1>0, <1>18, SpentTypes DEF Restart, open
  <2>2. <<>> \in Seq(Doc) /\ Len(<<>>) <= QueueCap BY ConfigPathAssumption
  <2>3. sync' \in SyncType BY <1>18, WakeTypes DEF Restart, SyncType, FirstSync
  <2>4. src' \in SourceType BY <1>0, <1>18, Zenon DEF Restart, SourceType
  <2>5. drv' \in DriverType /\ mgr' \in ManagerType
    BY <1>18 DEF Restart, IdleDriver, NothingApplied, DriverType, ManagerType
  <2> QED BY <1>0, <1>18, <2>1, <2>2, <2>3, <2>4, <2>5, Zenon DEF Restart, gateway
<1> QED
  BY <1>1, <1>2, <1>3, <1>4, <1>5, <1>6, <1>7, <1>8, <1>9, <1>10, <1>11, <1>12, <1>13, <1>14,
     <1>15, <1>16, <1>17, <1>18
  DEF Next, Gateway, Link, SyncLoop, Environment

(***************************************************************************)
(* The driver.                                                             *)
(***************************************************************************)

\* The driver's fields, for the provers.
LEMMA DriverFields ==
  ASSUME TypeOK
  PROVE  /\ sync \in SyncType /\ src \in SourceType /\ drv \in DriverType /\ mgr \in ManagerType
         /\ worker \in WorkerType /\ spent \in SpentType
BY TypeNames

\* Only the listener changes when the router is started, and it is then the one asked for.
LEMMA RouterStarts ==
  ASSUME NEW d \in DriverType, NEW n \in Nat, NEW f \in BOOLEAN
  PROVE  /\ startRouter(d, n, f).applied = d.applied
         /\ startRouter(d, n, f).instances = d.instances
         /\ startRouter(d, n, f).active = d.active
         /\ startRouter(d, n, f).listen = n
BY DEF DriverType, startRouter

\* A stopped driver has applied nothing.
LEMMA RouterStops ==
  ASSUME NEW d \in DriverType
  PROVE  /\ ~stopAll(d).applied /\ ~stopAll(d).active
         /\ stopAll(d).bound => d.bound /\ stopAll(d).listen = d.listen
<1>1. startRouter(d, 0, TRUE) \in DriverType BY RouterType, Zenon
<1>2. startRouter(d, 0, TRUE).bound => startRouter(d, 0, TRUE) = d
  <2>1. CASE d.listen = 0 BY <2>1 DEF startRouter
  <2>2. CASE d.listen # 0
    <3>1. startRouter(d, 0, TRUE) = [d EXCEPT !.listen = 0, !.bound = 0 > 0 /\ TRUE]
      BY <2>2 DEF startRouter
    <3>2. (0 > 0 /\ TRUE) = FALSE OBVIOUS
    <3>3. ~startRouter(d, 0, TRUE).bound BY <3>1, <3>2, Zenon DEF DriverType
    <3> QED BY <3>3, Zenon
  <2> QED BY <2>1, <2>2, Zenon
<1> QED BY <1>1, <1>2, Zenon DEF stopAll, DriverType

\* Steps that leave the driver, its source and the manager alone and at most trigger a
\* sync keep the driver's invariant.
LEMMA DriverTriggered ==
  ASSUME TypeOK, DriverOK, UNCHANGED <<src, drv, mgr>>,
         sync' = sync \/ \E w : sync' = triggerRuntimeSync(sync, w)
  PROVE  DriverOK'
<1>1. sync \in SyncType BY DriverFields
<1>2. CASE sync' = sync
  BY <1>2 DEF DriverOK, RouterFollowsDocument, AppliedIsCached
<1>3. CASE \E w : sync' = triggerRuntimeSync(sync, w)
  <2>1. \/ /\ sync.running /\ sync'.running
           /\ sync'.pc = sync.pc /\ sync'.doc = sync.doc /\ sync'.changed = sync.changed
           /\ sync'.instances = sync.instances
        \/ ~sync.running /\ sync'.running /\ sync'.pc = "features"
    BY <1>1, <1>3, Zenon DEF triggerRuntimeSync, SyncType
  <2> QED BY <2>1, SMTT(30) DEF DriverOK, RouterFollowsDocument, AppliedIsCached
<1> QED BY <1>2, <1>3

\* The driver's invariant is kept by every step.
LEMMA NextDriver == TypeOK /\ DriverOK /\ [Next]_vars => DriverOK'
<1> SUFFICES ASSUME TypeOK, DriverOK, [Next]_vars PROVE DriverOK' OBVIOUS
<1>0. sync \in SyncType /\ src \in SourceType /\ drv \in DriverType /\ mgr \in ManagerType
  BY DriverFields
<1>1. CASE UNCHANGED <<src, drv, mgr>> /\ (sync' = sync \/ \E w : sync' = triggerRuntimeSync(sync, w))
  BY <1>1, DriverTriggered
<1>2. CASE NextSync
  <2>1. \/ sync'.running /\ sync'.pc = "features"
        \/ ~sync.owed /\ ~sync'.running /\ sync'.pc = "check" /\ ~sync'.owed
    BY <1>0, <1>2 DEF NextSync, idle, SyncType
  <2>2. UNCHANGED <<src, drv, mgr>> /\ sync.pc = "check" BY <1>2 DEF NextSync
  <2> QED BY <2>1, <2>2 DEF DriverOK, RouterFollowsDocument, AppliedIsCached
<1>3. CASE FeatureActive
  <2>1. PICK F : answers(F) BY <1>3 DEF FeatureActive
  <2>2. sync.pc = "features" /\ sync.running BY <1>3 DEF FeatureActive
  <2>3. src'.cached = src.cached /\ src'.features = F BY <1>0, <2>1 DEF answers, SourceType
  <2>4. CASE "runtime_manager" \in F
    <3>1. sync'.pc = "load" /\ sync'.running BY <1>0, <2>1, <2>2, <2>4, Zenon DEF answers, SyncType
    <3>2. mgr' = mgr /\ drv' = [drv EXCEPT !.active = TRUE] BY <2>1, <2>4 DEF answers
    <3>3. drv'.applied = drv.applied /\ drv'.instances = drv.instances /\ drv'.bound = drv.bound
          /\ drv'.listen = drv.listen
      BY <1>0, <3>2 DEF DriverType
    <3> QED BY <2>2, <2>3, <3>1, <3>2, <3>3 DEF DriverOK, RouterFollowsDocument, AppliedIsCached
  <2>5. CASE "runtime_manager" \notin F
    <3>1. sync'.pc = "check" /\ sync'.running BY <1>0, <2>1, <2>2, <2>5, Zenon DEF answers, SyncType
    <3>2. drv' = stopAll(drv) BY <2>1, <2>5 DEF answers
    <3>3. ~drv'.applied /\ ~drv'.active /\ (drv'.bound => drv.bound /\ drv'.listen = drv.listen)
      BY <1>0, <3>2, RouterStops
    <3> QED BY <2>2, <2>3, <2>5, <3>1, <3>3 DEF DriverOK, RouterFollowsDocument, AppliedIsCached
  <2> QED BY <2>4, <2>5
<1>4. CASE Load
  <2>1. drv' = drv /\ mgr' = mgr /\ sync.pc = "load" /\ sync.running BY <1>4 DEF Load
  <2>2. /\ sync'.pc = "apply" /\ sync'.running /\ sync'.doc = src'.cached
        /\ ~sync'.changed => src'.cached = src.cached
    <3>1. CASE \E d : loaded(d)
      <4>1. PICK d : loaded(d) BY <3>1
      <4>2. sync'.pc = "apply" /\ sync'.running /\ sync'.doc = d /\ sync'.changed = (d # src.cached)
        BY <1>0, <2>1, <4>1 DEF loaded, SyncType
      <4>3. src'.cached = d BY <1>0, <4>1, ZenonT(30) DEF loaded, persist, SourceType
      <4> QED BY <4>2, <4>3, Zenon
    <3>2. CASE sync' = [sync EXCEPT !.pc = "apply", !.doc = src.cached, !.changed = FALSE]
               /\ UNCHANGED src
      BY <1>0, <2>1, <3>2 DEF SyncType
    <3> QED BY <1>4, <3>1, <3>2 DEF Load
  <2> QED BY <2>1, <2>2 DEF DriverOK, RouterFollowsDocument, AppliedIsCached
<1>5. CASE Apply
  <2>1. PICK bindable \in BOOLEAN :
          LET d == startRouter(drv, RouterPort[sync.doc], bindable)
          IN \/ skipApply /\ drv' = d /\ UNCHANGED mgr
             \/ /\ ~skipApply
                /\ drv' = [d EXCEPT !.applied = TRUE, !.instances = sync.instances]
                /\ mgr' = [doc |-> sync.doc, instances |-> sync.instances]
    BY <1>5, Zenon DEF Apply
  <2> DEFINE d == startRouter(drv, RouterPort[sync.doc], bindable)
  <2>2. src' = src /\ sync.pc = "apply" /\ sync.running BY <1>5 DEF Apply
  <2>3. sync'.pc = "check" /\ sync'.running /\ sync'.instances = sync.instances
    BY <1>0, <1>5 DEF Apply, SyncType
  <2>4. sync.doc = src.cached BY <2>2 DEF DriverOK
  <2>5. RouterPort[sync.doc] \in Nat BY <1>0, ConfigPathAssumption DEF SyncType
  <2>6. /\ d \in DriverType /\ d.applied = drv.applied /\ d.instances = drv.instances
        /\ d.listen = RouterPort[sync.doc]
    BY <1>0, <2>5, RouterType, RouterStarts
  <2> HIDE DEF d
  <2>7. CASE skipApply
    <3>1. drv' = d /\ mgr' = mgr BY <2>1, <2>7 DEF d
    <3>2. mgr = [doc |-> src.cached, instances |-> sync.instances] /\ drv.applied
      BY <2>2, <2>7 DEF DriverOK, skipApply
    <3>3. sync.instances = drv.instances BY <2>7 DEF skipApply
    <3> QED BY <2>2, <2>3, <2>4, <2>6, <3>1, <3>2, <3>3, Zenon
            DEF DriverOK, RouterFollowsDocument, AppliedIsCached
  <2>8. CASE ~skipApply
    <3>1. drv' = [d EXCEPT !.applied = TRUE, !.instances = sync.instances]
          /\ mgr' = [doc |-> sync.doc, instances |-> sync.instances]
      BY <2>1, <2>8 DEF d
    <3>2. drv'.applied /\ drv'.instances = sync.instances /\ drv'.listen = RouterPort[sync.doc]
      BY <2>6, <3>1 DEF DriverType
    <3> QED BY <2>2, <2>3, <2>4, <3>1, <3>2 DEF DriverOK, RouterFollowsDocument, AppliedIsCached
  <2> QED BY <2>7, <2>8
<1>6. CASE Restart
  <2>1. sync'.pc = "features" /\ sync'.running /\ ~drv'.applied /\ ~drv'.bound
    BY <1>6 DEF Restart, FirstSync, IdleDriver
  <2> QED BY <2>1 DEF DriverOK, RouterFollowsDocument, AppliedIsCached
<1>7. UNCHANGED vars \/ Gateway \/ Link \/ TakeWake \/ Poll \/ PushRuntimeConfig \/ ChangeFeatures
        \/ DropConn => UNCHANGED <<src, drv, mgr>>
                         /\ (sync' = sync \/ \E w : sync' = triggerRuntimeSync(sync, w))
  BY DEF vars, agent, Gateway, Derive, Enqueue, ExitCheck, Link, Deliver, MaybeDial, Register,
         WakeOnConnect, TakeWake, Poll, PushRuntimeConfig, ChangeFeatures, DropConn
<1> QED BY <1>1, <1>2, <1>3, <1>4, <1>5, <1>6, <1>7 DEF Next, SyncLoop, Environment

(***************************************************************************)
(* The push worker and the pipe.                                           *)
(***************************************************************************)

\* When the push worker owes no pass, its last one read the latest write.
LEMMA NextUpToDate == TypeOK /\ PushWorker!UpToDate /\ [Next]_vars => PushWorker!UpToDate'
<1> SUFFICES ASSUME TypeOK, PushWorker!UpToDate, [Next]_vars PROVE PushWorker!UpToDate' OBVIOUS
<1> USE DEF PushWorker!UpToDate
<1>0. worker \in WorkerType BY DriverFields
<1>1. CASE UNCHANGED <<store, worker>> BY <1>1
<1>2. CASE PushRuntimeConfig
  BY <1>0, <1>2 DEF PushRuntimeConfig, notify, WorkerType
<1>3. CASE Derive BY <1>0, <1>3, Zenon DEF Derive, WorkerType
<1>4. CASE Enqueue BY <1>0, <1>4 DEF Enqueue, WorkerType
<1>5. CASE ExitCheck BY <1>0, <1>5 DEF ExitCheck, WorkerType
<1>6. UNCHANGED vars \/ Link \/ TakeWake \/ SyncLoop \/ ChangeFeatures \/ DropConn \/ Restart
        => UNCHANGED <<store, worker>>
  BY Zenon DEF vars, gateway, Link, Deliver, MaybeDial, Register, WakeOnConnect, TakeWake, SyncLoop, Poll,
         NextSync, FeatureActive, Load, Apply, ChangeFeatures, DropConn, Restart
<1> QED BY <1>1, <1>2, <1>3, <1>4, <1>5, <1>6 DEF Next, Gateway, Environment

\* Nothing is lost by itself, and what was lost stays lost.
LEMMA LostStays ==
  ASSUME TypeOK, [Next]_vars, ~spent'.lost
  PROVE  /\ ~spent.lost
         /\ ~fails /\ ~DropConn /\ ~Restart
         /\ ~(Enqueue /\ (conn # "registered" \/ Len(out) = QueueCap))
<1>0. spent \in SpentType BY DriverFields
<1>1. fails => spent'.lost BY <1>0 DEF fails, SpentType
<1>2. DropConn \/ Restart => spent'.lost BY <1>0, Zenon DEF DropConn, Restart, SpentType
<1>3. (Enqueue /\ (conn # "registered" \/ Len(out) = QueueCap)) => spent'.lost
  <2> SUFFICES ASSUME Enqueue, conn # "registered" \/ Len(out) = QueueCap PROVE spent'.lost
    OBVIOUS
  <2>1. ~(conn = "registered" /\ Len(out) < QueueCap)
    BY DriverFields, ConfigPathAssumption DEF TypeOK
  <2>2. spent' = [spent EXCEPT !.lost = TRUE] BY <2>1 DEF Enqueue
  <2> QED BY <1>0, <2>2 DEF SpentType
<1>4. PushRuntimeConfig \/ ChangeFeatures => spent'.lost = spent.lost
  BY <1>0 DEF PushRuntimeConfig, ChangeFeatures, SpentType
<1>5. Enqueue /\ ~(conn # "registered" \/ Len(out) = QueueCap) => spent' = spent
  BY DEF Enqueue
<1>6. UNCHANGED vars \/ ExitCheck \/ Link \/ TakeWake \/ Poll \/ NextSync => spent' = spent
  BY DEF vars, ExitCheck, Link, Deliver, MaybeDial, Register, WakeOnConnect, TakeWake, Poll, NextSync
<1>7. Derive \/ FeatureActive \/ Load \/ Apply => fails \/ spent' = spent
  BY Zenon DEF Derive, FeatureActive, Load, loaded, Apply
<1> QED
  BY <1>1, <1>2, <1>3, <1>4, <1>5, <1>6, <1>7 DEF Next, Gateway, SyncLoop, Environment

\* A trigger keeps the latest payload, for a trailing sync or for the one it starts.
LEMMA TriggerLatest ==
  ASSUME TypeOK, DriverOK, NEW w, w \in Latest, sync' = triggerRuntimeSync(sync, w), store' = store
  PROVE  /\ sync'.owed => sync'.next \in Latest'
         /\ ~sync'.owed => sync'.data \in Latest' /\ sync'.pc = "features"
<1>1. sync \in SyncType BY DriverFields
<1>2. Latest' = Latest BY DEF Latest
<1>3. CASE sync.running
  <2>1. sync'.owed /\ sync'.next = w BY <1>1, <1>3 DEF triggerRuntimeSync, SyncType
  <2> QED BY <1>2, <2>1
<1>4. CASE ~sync.running
  <2>1. sync'.owed = sync.owed /\ sync'.data = w /\ sync'.pc = "features"
    BY <1>1, <1>4 DEF triggerRuntimeSync, SyncType
  <2> QED BY <1>2, <1>4, <2>1 DEF DriverOK
<1> QED BY <1>3, <1>4

\* What featureActive leaves of the sync it belongs to.
LEMMA Answered ==
  ASSUME sync \in SyncType, src \in SourceType, NEW F, answers(F)
  PROVE  /\ sync'.owed = sync.owed /\ sync'.next = sync.next /\ sync'.data = sync.data
         /\ sync'.running = sync.running /\ sync'.began = sync.data
         /\ \/ sync'.pc = "load"
            \/ sync'.pc = "check" /\ "runtime_manager" \notin src'.features
<1>1. src'.features = F BY DEF answers, SourceType
<1>2. ASSUME NEW i
      PROVE  LET t == [sync EXCEPT !.pc = "load", !.began = sync.data, !.instances = i]
             IN  /\ t.owed = sync.owed /\ t.next = sync.next /\ t.data = sync.data
                 /\ t.running = sync.running /\ t.began = sync.data /\ t.pc = "load"
  BY DEF SyncType
<1>3. CASE "runtime_manager" \in F
  <2>1. sync' = [sync EXCEPT !.pc = "load", !.began = sync.data,
                             !.instances = "runtime_instances" \in F]
    BY <1>3, Zenon DEF answers
  <2>2. PICK i : sync' = [sync EXCEPT !.pc = "load", !.began = sync.data, !.instances = i]
    BY <2>1, Zenon
  <2> QED BY <1>2, <2>2
<1>4. CASE "runtime_manager" \notin F
  <2>1. sync' = [sync EXCEPT !.pc = "check", !.began = sync.data] BY <1>4, Zenon DEF answers
  <2> QED BY <1>1, <1>4, <2>1 DEF SyncType
<1> QED BY <1>3, <1>4

\* Every step keeps the newest thing in the pipe the latest.
LEMMA NextPipe ==
  TypeOK /\ DriverOK /\ PushWorker!UpToDate /\ PipeOK /\ [Next]_vars => PipeOK'
<1> SUFFICES ASSUME TypeOK, DriverOK, PushWorker!UpToDate, PipeOK, [Next]_vars, ~spent'.lost
             PROVE  conn' = "registered" /\ ~dialed' /\ (~WorkerOwes' => NewestIsLatest')
  BY DEF PipeOK
<1>0. /\ ~spent.lost /\ ~fails /\ ~DropConn /\ ~Restart
      /\ ~(Enqueue /\ (conn # "registered" \/ Len(out) = QueueCap))
  BY LostStays
<1>a. conn = "registered" /\ ~dialed /\ (~WorkerOwes => NewestIsLatest)
  BY <1>0 DEF PipeOK
<1>b. sync \in SyncType /\ src \in SourceType /\ worker \in WorkerType /\ out \in Seq(Doc)
      /\ store \in Doc
  BY DriverFields DEF TypeOK
<1>c. Latest \subseteq Wake /\ Empty \notin Latest /\ Resync # store
  BY <1>b, WakeTypes DEF Latest
<1>1. CASE UNCHANGED vars \/ ChangeFeatures
  <2>1. UNCHANGED <<conn, dialed, worker, out, slot, sync, src, store>>
    BY <1>1 DEF vars, gateway, link, agent, ChangeFeatures
  <2> QED BY <1>a, <2>1 DEF WorkerOwes, NewestIsLatest, Latest
<1>2. CASE Derive
  <2>1. WorkerOwes' BY <1>0, <1>b, <1>2, Zenon DEF Derive, WorkerOwes, WorkerType
  <2> QED BY <1>a, <1>2, <2>1 DEF Derive, link
<1>3. CASE Enqueue
  <2>1. out' = Append(out, worker.doc) /\ store' = store /\ conn' = conn /\ dialed' = dialed
    BY <1>0, <1>3 DEF Enqueue
  <2>2. worker.doc \in Doc /\ worker'.dirty = worker.dirty /\ worker'.running
    BY <1>b, <1>3 DEF Enqueue, WorkerType
  <2>3. out' # <<>> /\ out'[Len(out')] = worker.doc
    BY <1>b, <2>1, <2>2, AppendProperties
  <2>4. ~worker.dirty => worker.doc = store
    BY <1>3 DEF PushWorker!UpToDate, Enqueue
  <2> QED BY <1>a, <2>1, <2>2, <2>3, <2>4 DEF WorkerOwes, NewestIsLatest
<1>4. CASE ExitCheck
  <2>1. ~WorkerOwes' => ~WorkerOwes BY <1>b, <1>4 DEF ExitCheck, WorkerOwes, WorkerType
  <2>2. UNCHANGED <<conn, dialed, out, slot, sync, src, store>>
    BY <1>4 DEF ExitCheck, link, agent
  <2> QED BY <1>a, <2>1, <2>2 DEF NewestIsLatest, Latest
<1>5. CASE Deliver
  <2>1. UNCHANGED <<worker, store, conn, dialed>> /\ slot' = Head(out) /\ out' = Tail(out) /\ out # <<>>
    BY <1>5 DEF Deliver, gateway
  <2>2. /\ Head(out) \in Doc /\ Head(out) = out[1] /\ Len(out) \in Nat \ {0}
        /\ Tail(out) \in Seq(Doc) /\ Len(Tail(out)) = Len(out) - 1
        /\ \A i \in 1 .. Len(Tail(out)) : Tail(out)[i] = out[i + 1]
    BY <1>b, <2>1, HeadTailProperties, EmptySeq
  <2>3. CASE WorkerOwes BY <1>a, <2>1, <2>3 DEF WorkerOwes
  <2>4. CASE ~WorkerOwes
    <3>1. out[Len(out)] = store BY <1>a, <2>1, <2>4 DEF NewestIsLatest
    <3>2. CASE Tail(out) = <<>>
      <4>0. Len(out) - 1 = 0 BY <2>2, <3>2, EmptySeq, Zenon
      <4>1. Len(out) = 1 BY <4>0, <1>b, LenProperties
      <4>2. slot' = store' /\ slot' # Empty BY <1>b, <2>1, <2>2, <3>1, <4>1, WakeTypes
      <4> QED BY <1>a, <2>1, <3>2, <4>2 DEF NewestIsLatest, Latest
    <3>3. CASE Tail(out) # <<>>
      <4>1. Len(Tail(out)) \in Nat \ {0} BY <2>2, <3>3, EmptySeq
      <4>2. Tail(out)[Len(Tail(out))] = out[Len(out)] BY <2>2, <4>1
      <4> QED BY <1>a, <2>1, <3>1, <3>3, <4>2 DEF NewestIsLatest
    <3> QED BY <3>2, <3>3
  <2> QED BY <2>3, <2>4
<1>6. CASE MaybeDial \/ Register \/ WakeOnConnect
  BY <1>a, <1>6 DEF MaybeDial, Register, WakeOnConnect
<1>7. CASE TakeWake
  <2>1. UNCHANGED <<worker, store, conn, dialed, out>> /\ slot # Empty /\ slot' = Empty
        /\ sync' = triggerRuntimeSync(sync, slot)
    BY <1>7 DEF TakeWake, gateway
  <2>2. ~WorkerOwes /\ out = <<>> => slot \in Latest BY <1>a, <2>1 DEF NewestIsLatest
  <2>3. slot \in Latest => /\ sync'.owed => sync'.next \in Latest'
                           /\ ~sync'.owed => sync'.data \in Latest' /\ sync'.pc = "features"
    BY <2>1, TriggerLatest
  <2>4. ~WorkerOwes /\ out # <<>> => out[Len(out)] = store BY <1>a DEF NewestIsLatest
  <2>5. WorkerOwes' = WorkerOwes BY <2>1 DEF WorkerOwes
  <2> QED BY <1>a, <2>1, <2>2, <2>3, <2>4, <2>5 DEF NewestIsLatest
<1>8. CASE Poll
  <2>1. UNCHANGED <<worker, store, conn, dialed, out, slot>>
        /\ sync' = triggerRuntimeSync(sync, Resync)
    BY <1>8 DEF Poll, gateway, link
  <2>2. /\ sync'.owed => sync'.next \in Latest'
        /\ ~sync'.owed => sync'.data \in Latest' /\ sync'.pc = "features"
    BY <2>1, TriggerLatest DEF Latest
  <2>3. WorkerOwes' = WorkerOwes /\ Latest' = Latest BY <2>1 DEF WorkerOwes, Latest
  <2> QED BY <1>a, <2>1, <2>2, <2>3 DEF NewestIsLatest
<1>9. CASE NextSync
  <2>1. UNCHANGED <<worker, store, conn, dialed, out, slot, src>> /\ sync.pc = "check"
    BY <1>9 DEF NextSync, gateway, link
  <2>2. \/ sync.owed /\ ~sync'.owed /\ sync'.data = sync.next /\ sync'.pc = "features"
        \/ ~sync.owed /\ ~sync'.owed /\ sync'.pc = "check"
    BY <1>b, <1>9 DEF NextSync, idle, SyncType
  <2>3. WorkerOwes' = WorkerOwes /\ Latest' = Latest BY <2>1 DEF WorkerOwes, Latest
  <2> QED BY <1>a, <2>1, <2>2, <2>3 DEF NewestIsLatest
<1>10. CASE FeatureActive
  <2>1. UNCHANGED <<worker, store, conn, dialed, out, slot>> /\ sync.pc = "features"
        /\ answers(served)
    BY <1>0, <1>10 DEF FeatureActive, gateway, link
  <2>2. sync'.owed = sync.owed /\ sync'.next = sync.next /\ sync'.data = sync.data
        /\ (sync'.pc = "load" \/ (sync'.pc = "check" /\ "runtime_manager" \notin src'.features))
    BY <1>b, <2>1, Answered
  <2>3. WorkerOwes' = WorkerOwes /\ Latest' = Latest BY <2>1 DEF WorkerOwes, Latest
  <2> QED BY <1>a, <2>1, <2>2, <2>3 DEF NewestIsLatest
<1>11. CASE Load
  <2>1. UNCHANGED <<worker, store, conn, dialed, out, slot>> /\ sync.pc = "load"
        /\ \/ sync.data # Resync /\ loaded(sync.data)
           \/ sync.data = Resync /\ loaded(store)
    BY <1>0, <1>11 DEF Load, gateway, link
  <2>2. PICK d : loaded(d) /\ (sync.data \in Latest => d = store)
    BY <2>1 DEF Latest
  <2>3. src'.cached = d BY <1>b, <2>2, Zenon DEF loaded, persist, SourceType
  <2>4. sync'.owed = sync.owed /\ sync'.next = sync.next /\ sync'.pc = "apply"
    BY <1>b, <2>2 DEF loaded, SyncType
  <2>5. WorkerOwes' = WorkerOwes /\ Latest' = Latest BY <2>1 DEF WorkerOwes, Latest
  <2> QED BY <1>a, <2>1, <2>2, <2>3, <2>4, <2>5 DEF NewestIsLatest
<1>12. CASE Apply
  <2>1. UNCHANGED <<worker, store, conn, dialed, out, slot, src>> /\ sync.pc = "apply"
    BY <1>12 DEF Apply, gateway, link
  <2>2. sync'.owed = sync.owed /\ sync'.next = sync.next /\ sync'.pc = "check"
    BY <1>b, <1>12 DEF Apply, SyncType
  <2>3. WorkerOwes' = WorkerOwes /\ Latest' = Latest BY <2>1 DEF WorkerOwes, Latest
  <2> QED BY <1>a, <2>1, <2>2, <2>3 DEF NewestIsLatest
<1>13. CASE PushRuntimeConfig
  <2>1. WorkerOwes' BY <1>b, <1>13 DEF PushRuntimeConfig, notify, WorkerOwes, WorkerType
  <2> QED BY <1>a, <1>13, <2>1 DEF PushRuntimeConfig, link
<1> QED
  BY <1>0, <1>1, <1>2, <1>3, <1>4, <1>5, <1>6, <1>7, <1>8, <1>9, <1>10, <1>11, <1>12, <1>13
  DEF Next, Gateway, Link, SyncLoop, Environment

(***************************************************************************)
(* The theorems.                                                           *)
(***************************************************************************)

\* The invariant holds at the start ...
LEMMA InitInv == Init => IInv
<1> SUFFICES ASSUME Init PROVE IInv OBVIOUS
<1>1. TypeOK BY InitTyped, SMTT(30)
<1>2. DriverOK
  BY DEF Init, DriverOK, RouterFollowsDocument, AppliedIsCached, FirstSync, IdleDriver
<1>3. PushWorker!UpToDate BY DEF Init, PushWorker!UpToDate
<1>4. PipeOK BY DEF Init, PipeOK, NewestIsLatest, Latest, FirstSync
<1> QED BY <1>1, <1>2, <1>3, <1>4 DEF IInv

\* ... and every step keeps it.
LEMMA NextInv == IInv /\ [Next]_vars => IInv'
BY NextTyped, NextDriver, NextUpToDate, NextPipe DEF IInv

\* Driver.Sync, triggerRuntimeSync, PushRuntimeConfig: for every set of documents, queue
\* capacity and number of events, a document that was pushed over a connection that held is
\* applied once everything in flight has been worked off, without any poll; the router
\* listens where the document says; and after a Sync the manager has the document of the
\* source.
THEOREM PushesArrive == Spec => []ConfigFollows
<1>1. IInv => ConfigFollows
  <2> SUFFICES ASSUME IInv PROVE ConfigFollows OBVIOUS
  <2>1. PushSuffices
    <3> SUFFICES ASSUME Quiet, ~spent.lost, "runtime_manager" \in src.features
                 PROVE  mgr.doc = store
      BY DEF PushSuffices
    <3>1. sync.pc = "check" /\ ~sync.owed /\ drv.applied BY DEF IInv, DriverOK, Quiet
    <3>2. mgr.doc = src.cached BY <3>1 DEF IInv, DriverOK
    <3>3. ~WorkerOwes BY DEF Quiet, WorkerOwes
    <3> QED BY <3>1, <3>2, <3>3 DEF IInv, PipeOK, NewestIsLatest, Quiet
  <2> QED BY <2>1 DEF IInv, DriverOK, ConfigFollows
<1> QED BY <1>1, InitInv, NextInv, PTL DEF Spec

\* runtimeConfigPusher: whatever interleaves, the gateway's push worker takes only steps that
\* a doorbell may take: passes do not overlap, and a pass is owed from every write until
\* one has started after it.
THEOREM PushWorkerRefines == Spec => PushWorker!Safety
<1>1. Init => PushWorker!Init BY DEF Init, PushWorker!Init
<1>2. TypeOK /\ [Next]_vars => [PushWorker!Next]_(PushWorker!vars)
  <2> SUFFICES ASSUME TypeOK, [Next]_vars PROVE [PushWorker!Next]_(PushWorker!vars) OBVIOUS
  <2>0. worker \in WorkerType /\ store \in Doc BY DriverFields DEF TypeOK
  <2>1. CASE UNCHANGED <<store, worker>> BY <2>1 DEF PushWorker!vars
  <2>2. CASE PushRuntimeConfig
    <3>1. PushWorker!Ring
      BY <2>0, <2>2 DEF PushRuntimeConfig, notify, WorkerType, PushWorker!Ring
    <3> QED BY <3>1 DEF PushWorker!Next
  <2>3. CASE Derive
    <3>1. /\ worker.running /\ worker.pc = "derive" /\ worker'.running /\ worker'.pc # "derive"
          /\ worker'.doc = store /\ worker'.dirty = worker.dirty /\ worker.dirty \in BOOLEAN
          /\ store' = store
      <4>1. PICK p \in {"enqueue", "check"} : worker' = [worker EXCEPT !.pc = p, !.doc = store]
        BY <2>3 DEF Derive
      <4> QED BY <2>0, <2>3, <4>1 DEF Derive, WorkerType
    <3>2. PushWorker!Begin BY <2>0, <3>1 DEF PushWorker!Begin
    <3> QED BY <3>2 DEF PushWorker!Next
  <2>4. CASE Enqueue BY <2>0, <2>4 DEF Enqueue, WorkerType, PushWorker!vars
  <2>5. CASE ExitCheck
    <3>1. PushWorker!End BY <2>0, <2>5, SMTT(30) DEF ExitCheck, WorkerType, PushWorker!End
    <3> QED BY <3>1 DEF PushWorker!Next
  <2>6. UNCHANGED vars \/ Link \/ TakeWake \/ SyncLoop \/ ChangeFeatures \/ DropConn \/ Restart
          => UNCHANGED <<store, worker>>
    BY Zenon DEF vars, gateway, Link, Deliver, MaybeDial, Register, WakeOnConnect, TakeWake, SyncLoop, Poll,
           NextSync, FeatureActive, Load, Apply, ChangeFeatures, DropConn, Restart
  <2> QED BY <2>1, <2>2, <2>3, <2>4, <2>5, <2>6 DEF Next, Gateway, Environment
<1> QED BY <1>1, <1>2, InitTyped, NextTyped, PTL DEF Spec, PushWorker!Safety

\* triggerRuntimeSync, runRuntimeSyncs: whatever interleaves, restarts of the agent included,
\* the sync trigger takes only steps that a doorbell may take: syncs do not overlap, one is
\* owed from every wake until one has started after it, and the last one has the payload of
\* the last wake.
THEOREM SyncTriggerRefines == Spec => SyncTrigger!Safety
<1>1. Init => SyncTrigger!Init BY WakeTypes DEF Init, FirstSync, SyncTrigger!Init
<1>2. IInv /\ [Next]_vars => [SyncTrigger!Next]_(SyncTrigger!vars)
  <2> SUFFICES ASSUME IInv, [Next]_vars PROVE [SyncTrigger!Next]_(SyncTrigger!vars) OBVIOUS
  <2>0. sync \in SyncType /\ spent \in SpentType /\ (~sync.running => ~sync.owed)
    BY DriverFields DEF IInv, DriverOK
  <2>1. CASE sync' = sync /\ spent'.restarts = spent.restarts BY <2>1 DEF SyncTrigger!vars
  <2>2. CASE \E w \in Wake : sync' = triggerRuntimeSync(sync, w) /\ spent' = spent
    <3>1. SyncTrigger!Ring
      BY <2>0, <2>2 DEF triggerRuntimeSync, SyncType, SyncTrigger!Ring
    <3> QED BY <3>1 DEF SyncTrigger!Next
  <2>3. CASE FeatureActive
    <3>1. /\ sync.running /\ sync.pc = "features" /\ sync'.running /\ sync'.pc # "features"
          /\ sync'.owed = sync.owed /\ sync'.next = sync.next /\ sync'.data = sync.data
          /\ sync'.began = sync.data
      BY <2>0, <2>3, Answered, Zenon DEF FeatureActive, IInv, TypeOK, SourceType
    <3>2. spent'.restarts = spent.restarts
      BY <2>0, <2>3, Zenon DEF FeatureActive, fails, SpentType
    <3>3. SyncTrigger!Begin BY <2>0, <3>1, <3>2 DEF SyncType, SyncTrigger!Begin
    <3> QED BY <3>3 DEF SyncTrigger!Next
  <2>4. CASE Load \/ Apply
    <3>1. /\ sync'.running = sync.running /\ sync.pc # "features" /\ sync'.pc # "features"
          /\ sync'.owed = sync.owed /\ sync'.next = sync.next /\ sync'.data = sync.data
          /\ sync'.began = sync.began
      BY <2>0, <2>4, ZenonT(30) DEF Load, loaded, Apply, SyncType
    <3>2. spent'.restarts = spent.restarts
      BY <2>0, <2>4, Zenon DEF Load, loaded, Apply, fails, SpentType
    <3> QED BY <3>1, <3>2, SMTT(30) DEF SyncTrigger!vars
  <2>5. CASE NextSync
    <3>1. SyncTrigger!End BY <2>0, <2>5 DEF NextSync, idle, SyncType, SyncTrigger!End
    <3> QED BY <3>1 DEF SyncTrigger!Next
  <2>6. CASE Restart
    <3>1. spent'.restarts # spent.restarts BY <2>0, <2>6 DEF Restart, SpentType
    <3>2. SyncTrigger!Restart
      BY <2>6, <3>1, WakeTypes DEF Restart, FirstSync, SyncTrigger!Restart
    <3> QED BY <3>2 DEF SyncTrigger!Next
  <2>7. TakeWake \/ Poll => \E w \in Wake : sync' = triggerRuntimeSync(sync, w) /\ spent' = spent
    BY WakeTypes DEF TakeWake, Poll, IInv, TypeOK
  <2>8. UNCHANGED vars \/ Gateway \/ Link \/ PushRuntimeConfig \/ ChangeFeatures \/ DropConn
          => sync' = sync /\ spent'.restarts = spent.restarts
    BY <2>0, Zenon DEF vars, agent, Gateway, Derive, Enqueue, ExitCheck, Link, Deliver, MaybeDial, Register,
                WakeOnConnect, PushRuntimeConfig, ChangeFeatures, DropConn, fails, SpentType
  <2> QED BY <2>1, <2>2, <2>3, <2>4, <2>5, <2>6, <2>7, <2>8 DEF Next, SyncLoop, Environment
<1> QED BY <1>1, <1>2, InitInv, NextInv, PTL DEF Spec, SyncTrigger!Safety
=============================================================================
