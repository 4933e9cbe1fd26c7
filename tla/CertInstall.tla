---------------------------- MODULE CertInstall ----------------------------
(***************************************************************************)
(* The agent's certificate: the single-flight trigger (agent/agent.go),    *)
(* Installer.Sync (certinstall/fetch.go) and the files it replaces one     *)
(* rename at a time (install.go, atomic.go).                               *)
(*                                                                         *)
(* Material is a leaf and a CA bundle.  Every leaf has a key of its own    *)
(* (certissue), so a file is known by its leaf; the ETag of material is    *)
(* the material itself (portal/service_agent_cert.go, agentCertETag).      *)
(***************************************************************************)
EXTENDS Naturals, Sequences

CONSTANTS
  Leaf, Bundle,  \* positive numbers
  MaxIssues, MaxCrashes,
  MaxFaults,     \* failing requests, writes and renames
  MayReturn      \* the gateway may serve material again that it had replaced

VARIABLES
  served,     \* gateway: the current material
  past,       \* gateway: the material it served before
  wake,       \* WSSender.certUpdates
  disk,       \* the five files and the sidecar with the ETag
  sync,       \* the sync goroutine and its locals
  activated,  \* what the reload hook found on disk when it last ran
  spent

vars == <<served, past, wake, disk, sync, activated, spent>>

\* Material that was served; the bundle 0 stands for an empty one.
Material == [leaf : Leaf, ca : Bundle \cup {0}]

None == [leaf |-> 0, ca |-> 0]

File == {"fullchain", "cert", "chain", "ca", "privkey"}

Idle == [pc |-> "idle", inm |-> None, body |-> None, todo |-> <<>>, install |-> FALSE]

TypeOK ==
  /\ served \in [leaf : Leaf, ca : Bundle]
  /\ past \subseteq [leaf : Leaf, ca : Bundle]
  /\ wake \in BOOLEAN
  /\ disk.file \in [File -> Leaf \cup Bundle \cup {0}] /\ disk.etag \in Material \cup {None}
  /\ sync.pc \in {"idle", "start", "fetch", "decide", "rename", "sidecar", "hook"}
  /\ sync.inm \in Material \cup {None} /\ sync.body \in Material \cup {None}
  /\ sync.todo \in Seq(File) /\ (sync.todo # <<>> <=> sync.pc = "rename")
  /\ sync.install \in BOOLEAN
  /\ activated \in [leaf : Leaf \cup {0}, ca : Bundle \cup {0}]
  /\ spent \in [issues : 0..MaxIssues, crashes : 0..MaxCrashes, faults : 0..MaxFaults]

Init ==
  /\ served \in [leaf : Leaf, ca : Bundle]
  /\ past = {}
  /\ wake = FALSE
  /\ disk = [file |-> [f \in File |-> 0], etag |-> None]
  /\ sync = [Idle EXCEPT !.pc = "start"]
  /\ activated = None
  /\ spent = [issues |-> 0, crashes |-> 0, faults |-> 0]

(***************************************************************************)
(* The gateway issues a leaf, which rings, or changes the bundle.          *)
(***************************************************************************)
Issue ==
  /\ spent.issues < MaxIssues
  /\ spent' = [spent EXCEPT !.issues = @ + 1]
  /\ \E m \in [leaf : Leaf, ca : Bundle] \ {served} :
       /\ \/ m.leaf = served.leaf /\ (MayReturn \/ m \notin past)
          \/ \A p \in past \cup {served} : m.leaf # p.leaf
       /\ served' = m
       /\ wake' = (wake \/ m.leaf # served.leaf)
  /\ past' = past \cup {served}
  /\ UNCHANGED <<disk, sync, activated>>

(***************************************************************************)
(* The trigger: a signal during a sync is dropped, the poll comes again.   *)
(***************************************************************************)
triggerCertSync == IF sync.pc = "idle" THEN [sync EXCEPT !.pc = "start"] ELSE sync

TakeWake ==
  /\ wake
  /\ wake' = FALSE
  /\ sync' = triggerCertSync
  /\ UNCHANGED <<served, past, disk, activated, spent>>

Poll ==
  /\ sync' = triggerCertSync
  /\ UNCHANGED <<served, past, wake, disk, activated, spent>>

(***************************************************************************)
(* Installer.Sync.                                                         *)
(***************************************************************************)
keyPaired == disk.file["fullchain"] # 0 /\ disk.file["fullchain"] = disk.file["privkey"]

memoValid == keyPaired /\ disk.etag # None

ReadDisk ==
  /\ sync.pc = "start"
  /\ sync' = [sync EXCEPT !.pc = "fetch", !.inm = IF memoValid THEN disk.etag ELSE None]
  /\ UNCHANGED <<served, past, wake, disk, activated, spent>>

Fault ==
  /\ spent.faults < MaxFaults
  /\ spent' = [spent EXCEPT !.faults = @ + 1]

\* The answer with material m: not modified, or m.
answered(m) ==
  sync' = IF m = sync.inm THEN Idle ELSE [sync EXCEPT !.pc = "decide", !.body = m]

\* The gateway leaves the bundle empty when it cannot put it together.
Fetch ==
  /\ sync.pc = "fetch"
  /\ \/ answered(served) /\ UNCHANGED spent
     \/ answered([served EXCEPT !.ca = 0]) /\ Fault
     \/ sync' = Idle /\ Fault
  /\ UNCHANGED <<served, past, wake, disk, activated>>

\* The file that a rename puts in place.
content(f) == IF f = "ca" THEN sync.body.ca ELSE sync.body.leaf

changed ==
  \/ ~keyPaired
  \/ sync.body.leaf # disk.file["fullchain"]
  \/ sync.body.ca # 0 /\ sync.body.ca # disk.file["ca"]

\* Mutant: the key is staged first.
stagedKeyFirst ==
  IF sync.body.ca = 0 THEN <<"privkey", "fullchain", "cert", "chain">>
  ELSE <<"privkey", "fullchain", "cert", "chain", "ca">>

\* install stages the files, the key last; an empty bundle leaves ca.pem alone.
staged ==
  IF sync.body.ca = 0 THEN <<"fullchain", "cert", "chain", "privkey">>
  ELSE <<"fullchain", "cert", "chain", "ca", "privkey">>

Decide ==
  /\ sync.pc = "decide"
  /\ \/ /\ changed
        /\ sync' = [sync EXCEPT !.pc = "rename", !.install = TRUE, !.todo = staged]
        /\ UNCHANGED spent
     \/ changed /\ sync' = Idle /\ Fault
     \/ ~changed /\ sync' = [sync EXCEPT !.pc = "sidecar"] /\ UNCHANGED spent
  /\ UNCHANGED <<served, past, wake, disk, activated>>

\* commit: a rename that fails leaves the files before it in place.
Rename ==
  /\ sync.pc = "rename"
  /\ \/ /\ disk' = [disk EXCEPT !.file[Head(sync.todo)] = content(Head(sync.todo))]
        /\ sync' = [sync EXCEPT !.todo = Tail(@),
                                !.pc = IF Len(sync.todo) = 1 THEN "sidecar" ELSE "rename"]
        /\ UNCHANGED spent
     \/ sync' = Idle /\ Fault /\ UNCHANGED disk
  /\ UNCHANGED <<served, past, wake, activated>>

\* saveETagSidecar is best effort.
SaveETag ==
  /\ sync.pc = "sidecar"
  /\ sync' = IF sync.install THEN [sync EXCEPT !.pc = "hook"] ELSE Idle
  /\ \/ disk' = [disk EXCEPT !.etag = sync.body] /\ UNCHANGED spent
     \/ Fault /\ UNCHANGED disk
  /\ UNCHANGED <<served, past, wake, activated>>

RunReloadHook ==
  /\ sync.pc = "hook"
  /\ sync' = Idle
  /\ activated' = [leaf |-> disk.file["fullchain"], ca |-> disk.file["ca"]]
  /\ UNCHANGED <<served, past, wake, disk, spent>>

\* The agent dies at any point and starts again; Run asks for a sync at once.
Crash ==
  /\ spent.crashes < MaxCrashes
  /\ spent' = [spent EXCEPT !.crashes = @ + 1]
  /\ wake' = FALSE
  /\ sync' = [Idle EXCEPT !.pc = "start"]
  /\ UNCHANGED <<served, past, disk, activated>>

Sync == ReadDisk \/ Fetch \/ Decide \/ Rename \/ SaveETag \/ RunReloadHook

Next == Issue \/ TakeWake \/ Poll \/ Sync \/ Crash

Spec == Init /\ [][Next]_vars

(***************************************************************************)
(* Properties.                                                             *)
(***************************************************************************)
Installed(m) ==
  /\ \A f \in File \ {"ca"} : disk.file[f] = m.leaf
  /\ m.ca # 0 => disk.file["ca"] = m.ca

\* install renames the key last: while chain and key belong together, so do the files
\* written between them, whatever rename failed and wherever the agent died.
PairedIsComplete ==
  keyPaired => disk.file["cert"] = disk.file["fullchain"]
                 /\ disk.file["chain"] = disk.file["fullchain"]

\* memoValid: no sync gets stuck behind a wrong 304.  A request whose validator is the
\* one the gateway has now comes from an agent with that material on disk.
NotModifiedMeansInstalled ==
  sync.pc = "fetch" /\ sync.inm = served => Installed(served)

\* Every partial install is detected and repeated, so the hook
\* has run for the files that are on disk.
BundleActivated == <>[](activated.ca = disk.file["ca"])
=============================================================================
