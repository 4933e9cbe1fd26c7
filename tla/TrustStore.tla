----------------------------- MODULE TrustStore -----------------------------
(***************************************************************************)
(* The agent's trust in the gateway: Refresher.Refresh (trust/refresher.go)*)
(* fetches the gateway's CA bundle and InstallManagedBundle (trust/store.go*)
(* and atomicfile.go) replaces the cache file and the roots in memory.     *)
(* Every request and every dial reads the file again on the way            *)
(* (transport.go).  A bundle's ETag is the bundle.  The operator's own     *)
(* sources never change here and are left out.                             *)
(***************************************************************************)
EXTENDS Naturals

CONSTANTS
  Bundle,       \* positive numbers
  MaxRotations, MaxRestarts,
  MaxFaults,    \* failing requests and writes
  MaxLosses     \* times someone else removes or damages the cache file

VARIABLES
  served,   \* gateway: the current bundle
  wake,     \* WSSender.trustUpdates
  file,     \* ca_cache_file: a bundle; None when it is gone or does not parse
  meddled,  \* someone else changed the file after it was last read
  store,    \* Store: the sources cache and memory
  etag,     \* Refresher.etag
  sync,     \* the refresh goroutine and its locals
  spent

vars == <<served, wake, file, meddled, store, etag, sync, spent>>

None == 0

Idle == [pc |-> "idle", etag |-> None, body |-> None]

TypeOK ==
  /\ served \in Bundle /\ wake \in BOOLEAN /\ meddled \in BOOLEAN
  /\ file \in Bundle \cup {None}
  /\ store \in [cache : Bundle \cup {None}, durable : BOOLEAN, memory : Bundle \cup {None}]
  /\ store.durable => store.cache # None
  /\ etag \in Bundle \cup {None}
  /\ sync \in [pc : {"idle", "start", "fetch", "install"},
               etag : Bundle \cup {None}, body : Bundle \cup {None}]
  /\ spent.rotations \in 0..MaxRotations /\ spent.restarts \in 0..MaxRestarts
  /\ spent.faults \in 0..MaxFaults /\ spent.losses \in 0..MaxLosses

\* The roots besides the operator's (rebuildPoolLocked).
pool == {store.cache, store.memory} \ {None}

\* A source that is gone or does not parse keeps its last good roots.
refreshFileSources(s, f) ==
  IF f \in Bundle THEN [s EXCEPT !.cache = f, !.durable = TRUE]
  ELSE [s EXCEPT !.durable = FALSE]

NoRoots == [cache |-> None, durable |-> FALSE, memory |-> None]

Init ==
  /\ served \in Bundle
  /\ wake = FALSE
  /\ file = None
  /\ meddled = FALSE
  /\ store = NoRoots
  /\ etag = None
  /\ sync = [Idle EXCEPT !.pc = "start"]
  /\ spent = [rotations |-> 0, restarts |-> 0, faults |-> 0, losses |-> 0]

\* A rotation makes a new CA: no bundle comes back.
Rotate ==
  /\ spent.rotations < MaxRotations
  /\ spent' = [spent EXCEPT !.rotations = @ + 1]
  /\ served' \in {b \in Bundle : b > served}
  /\ wake' = TRUE
  /\ UNCHANGED <<file, meddled, store, etag, sync>>

triggerTrustSync == IF sync.pc = "idle" THEN [sync EXCEPT !.pc = "start"] ELSE sync

TakeWake ==
  /\ wake
  /\ wake' = FALSE
  /\ sync' = triggerTrustSync
  /\ UNCHANGED <<served, file, meddled, store, etag, spent>>

Poll ==
  /\ sync' = triggerTrustSync
  /\ UNCHANGED <<served, wake, file, meddled, store, etag, spent>>

Fault ==
  /\ spent.faults < MaxFaults
  /\ spent' = [spent EXCEPT !.faults = @ + 1]

Start ==
  /\ sync.pc = "start"
  /\ sync' = [sync EXCEPT !.pc = "fetch", !.etag = etag]
  /\ UNCHANGED <<served, wake, file, meddled, store, etag, spent>>

Fetch ==
  /\ sync.pc = "fetch"
  /\ \/ sync.etag = served /\ sync' = Idle /\ UNCHANGED spent
     \/ sync.etag # served /\ sync' = [sync EXCEPT !.pc = "install", !.body = served]
                           /\ UNCHANGED spent
     \/ sync' = Idle /\ Fault
  /\ UNCHANGED <<served, wake, file, meddled, store, etag>>

InstallManagedBundle ==
  /\ file' = sync.body
  /\ store' = [cache |-> sync.body, durable |-> TRUE, memory |-> None]
  /\ etag' = sync.body
  /\ meddled' = FALSE
  /\ UNCHANGED spent

\* The write may have been undone, or have gone through.
reloaded == refreshFileSources(store, file')

\* atomicWriteFile fails: the bundle is trusted until the next restart.
InstallInMemory ==
  /\ Fault
  /\ file' \in {file, sync.body}
  /\ store' = [reloaded EXCEPT !.memory = sync.body]
  /\ meddled' = FALSE
  /\ UNCHANGED etag

\* The cache path is refused before anything is written.
InstallRefused ==
  /\ Fault
  /\ UNCHANGED <<file, meddled, store, etag>>

Install ==
  /\ sync.pc = "install"
  /\ sync' = Idle
  /\ InstallManagedBundle \/ InstallInMemory \/ InstallRefused
  /\ UNCHANGED <<served, wake>>

\* RoundTrip and DialTLSContext, of any request.
Reload ==
  /\ store' = refreshFileSources(store, file)
  /\ meddled' = FALSE
  /\ UNCHANGED <<served, wake, file, etag, sync, spent>>

Lose ==
  /\ spent.losses < MaxLosses
  /\ spent' = [spent EXCEPT !.losses = @ + 1]
  /\ file # None /\ file' = None
  /\ meddled' = TRUE
  /\ UNCHANGED <<served, wake, store, etag, sync>>

\* The agent dies, perhaps while it writes the file, and starts again.
Restart ==
  /\ spent.restarts < MaxRestarts
  /\ spent' = [spent EXCEPT !.restarts = @ + 1]
  /\ file' \in {file} \cup (IF sync.pc = "install" THEN {sync.body} ELSE {})
  /\ store' = refreshFileSources(NoRoots, file')
  /\ meddled' = FALSE
  /\ etag' = None
  /\ sync' = [Idle EXCEPT !.pc = "start"]
  /\ wake' = FALSE
  /\ UNCHANGED served

Sync == Start \/ Fetch \/ Install

Next == Rotate \/ TakeWake \/ Poll \/ Sync \/ Reload \/ Lose \/ Restart

Spec == Init /\ [][Next]_vars

(***************************************************************************)
(* Properties.                                                             *)
(***************************************************************************)
\* DurableFingerprints reports what a restart can load: a source is durable only while
\* the file holds it, whichever install failed at whichever step, unless someone else
\* changed the file after it was last read.
DurableSurvivesRestart == store.durable /\ ~meddled => file = store.cache

\* The validator never stands for a bundle that is not trusted: an answer that nothing
\* changed means that the agent trusts what the gateway serves.
NotModifiedMeansTrusted ==
  sync.pc = "fetch" /\ sync.etag = served => served \in pool

\* Last-good roots: while it runs, the agent never goes from some roots to none.
RootsAreKept == [][(pool # {} => pool' # {}) \/ spent'.restarts > spent.restarts]_vars
=============================================================================
