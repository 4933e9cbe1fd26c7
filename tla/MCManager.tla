------------------------------ MODULE MCManager ------------------------------
(***************************************************************************)
(* Small configurations for Manager.                                       *)
(***************************************************************************)
EXTENDS Manager, TLC

CONSTANT Scenes  \* the scenes of a run

\* A spec that runs alone on a host with no VRAM rules.
Plain == [NoSpec EXCEPT !.permitted = TRUE, !.expandable = TRUE, !.ram = 1, !.role = "chat"]

\* The document that lists the specs of f, with at most n processes.
Push(tag, f, n) ==
  [NoDoc EXCEPT !.etag = tag, !.ids = DOMAIN f, !.maxProcesses = n,
                !.specs = [s \in SpecID |-> IF s \in DOMAIN f THEN f[s] ELSE NoSpec],
                !.allowed = {{1, 2}}]

\* Two plain specs compete for one process; the first idles out and its waiters time
\* out.
First == [Plain EXCEPT !.idle = TRUE, !.waitTimeout = TRUE]

ContentionDocs == {Push(1, (1 :> First) @@ (2 :> Plain), 1)}

\* A spec kept running is relaunched, force-stopped, removed and brought back.
Kept == [Plain EXCEPT !.admin = "force_running"]

RemovalDocs ==
  {Push(2, (1 :> Kept), 0),
   Push(3, (1 :> [Kept EXCEPT !.launch = 1]), 0),
   Push(4, (1 :> [Kept EXCEPT !.admin = "force_stopped"]), 0),
   Push(5, <<>>, 0)}

ReturnDocs == {Push(6, (1 :> Kept), 0), Push(7, <<>>, 0)}

\* A spec of unknown RAM demand that the kernel may kill, a pinned one whose neighbour's
\* VRAM demand is unknown, and specs that may not or cannot be started.
VerdictDocs ==
  {Push(8, (1 :> [Kept EXCEPT !.ram = 0]) @@ (2 :> Plain), 0),
   Push(9, (1 :> [Plain EXCEPT !.pinned = TRUE, !.gpus = (0 :> 1)])
             @@ (2 :> [Plain EXCEPT !.gpus = (0 :> 0)]), 0),
   Push(10, (1 :> [Kept EXCEPT !.permitted = FALSE])
              @@ (2 :> [Plain EXCEPT !.expandable = FALSE]), 0)}

\* A spec with a burst instance.
Replica == [Plain EXCEPT !.replicable = TRUE, !.max = 2, !.idle = TRUE]

StopDocs == {Push(1, (1 :> Replica), 0)}

\* One replicable spec with a floor of two, and its removal.
FloorDocs == {Push(1, (1 :> [Replica EXCEPT !.min = 2]), 0), Push(2, <<>>, 0)}

\* Further instances of a spec whose demand is unknown.
Unmeasured == [Replica EXCEPT !.ram = 0]

UnmeasuredDocs ==
  {Push(3, (1 :> Unmeasured), 0), Push(4, (1 :> [Unmeasured EXCEPT !.min = 2]), 0)}

(***************************************************************************)
(* A behaviour is one scene: the driver pushes the documents of that scene *)
(* only, and the callers, the stops and Close are those that go with it.   *)
(***************************************************************************)
Scene(docs, n, callers, keys, stop, close) ==
  [docs |-> docs, pushes |-> n, callers |-> callers, keys |-> keys, stops |-> stop,
   close |-> close]

InScene(s) ==
  /\ o.cfg \in s.docs \cup {NoDoc}
  /\ \A m \in cmds : /\ m.cmd = "apply" => m.doc \in s.docs
                     /\ m.cmd = "close" => s.close
                     /\ m.cmd = "ensure" => m.key \in s.keys
  /\ Cardinality({c \in Caller : phase[c] # "idle"}) <= s.callers
  /\ pushes <= s.pushes
  /\ stops <= s.stops

OneScene == \E s \in Scenes : InScene(s)

\* Next, with the pushes of one scene.
SceneNext ==
  \/ Owner
  \/ between /\ Others /\ OneScene'
  \/ between /\ \E s \in Scenes : InScene(s) /\ pushes < s.pushes /\ \E d \in s.docs : CallApply(d)
  \/ Done

SceneSpec == Init /\ [][SceneNext]_vars

ContentionScenes ==
  {Scene(ContentionDocs, 1, 2, Key, 0, TRUE), Scene(VerdictDocs, 1, 1, Key, 0, FALSE)}

StopScenes ==
  {Scene(StopDocs, 1, 2, Key, 1, FALSE), Scene(RemovalDocs, 2, 1, {<<1, 0>>}, 0, FALSE)}

ReplicaScenes ==
  {Scene(FloorDocs, 3, 0, Key, 0, FALSE), Scene(FloorDocs, 1, 1, Key, 0, FALSE),
   Scene(UnmeasuredDocs, 1, 1, Key, 0, FALSE), Scene(ReturnDocs, 3, 1, {<<1, 0>>}, 0, FALSE)}

\* A spec with a burst instance, or one that is kept running and crashes.
CloseDocs == {Push(2, (1 :> Replica), 0), Push(3, (1 :> Kept), 0)}

LiveScenes ==
  {Scene(ContentionDocs, 1, 2, SpecID \X {0}, 0, FALSE),
   Scene(CloseDocs, 1, 1, {1} \X Index, 0, TRUE)}

AllDocs == UNION {s.docs : s \in Scenes}

\* In the scene of the two competing specs a caller that was served releases its lease.
SceneLiveSpec ==
  SceneSpec /\ Progress
  /\ \A c \in Caller :
       []<>(o.cfg \in ContentionDocs /\ o.reply[c] = "ok" => phase[c] = "done")

Generations == Permutations(Proc)

Interchangeable == Permutations(Caller) \cup Generations
=============================================================================
