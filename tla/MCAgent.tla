------------------------------ MODULE MCAgent ------------------------------
(***************************************************************************)
(* The loops that keep the agent in step with the gateway and with its     *)
(* operator: the runtime document from the gateway (ConfigPath, extended)  *)
(* or from a file, the certificate and the trust in the gateway.  They     *)
(* share no state, so a behaviour moves one of them, `moving', while the   *)
(* others rest.  The file has two instances: its poll alone, and with the  *)
(* report ticker and a lost report.                                        *)
(***************************************************************************)
EXTENDS ConfigPath, FiniteSets, TLC

CONSTANTS d1, d2

TwoDocs == {d1, d2}

Ports == (d1 :> 1) @@ (d2 :> 2) @@ (Empty :> 0)

VARIABLES
  moving,
  file, declared, source, call, fileDrv, fileMgr, report, fileSpent,
  certServed, past, certWake, disk, certSync, activated, certSpent,
  trustServed, trustWake, caFile, meddled, trustStore, trustEtag, trustSync, trustSpent

fileVars == <<file, declared, source, call, fileDrv, fileMgr, report, fileSpent>>
certVars == <<certServed, past, certWake, disk, certSync, activated, certSpent>>
trustVars ==
  <<trustServed, trustWake, caFile, meddled, trustStore, trustEtag, trustSync, trustSpent>>
allVars == <<moving, vars, fileVars, certVars, trustVars>>

FilePoll == INSTANCE FileConfig WITH
  Doc <- {"d1", "d2"}, Empty <- "empty", Broken <- "broken", Gone <- "gone",
  MaxEdits <- 2, MaxRemovals <- 1, MaxToggles <- 2, MayResend <- FALSE, MaxLosses <- 0,
  drv <- fileDrv, mgr <- fileMgr, spent <- fileSpent

FileReport == INSTANCE FileConfig WITH
  Doc <- {"d1", "d2"}, Empty <- "empty", Broken <- "broken", Gone <- "gone",
  MaxEdits <- 1, MaxRemovals <- 1, MaxToggles <- 0, MayResend <- TRUE, MaxLosses <- 1,
  drv <- fileDrv, mgr <- fileMgr, spent <- fileSpent

\* A leaf or a bundle that was replaced is not issued again.
Cert == INSTANCE CertInstall WITH
  Leaf <- {1, 2}, Bundle <- {1, 2}, MaxIssues <- 2, MaxCrashes <- 1, MaxFaults <- 1,
  MayReturn <- FALSE,
  served <- certServed, wake <- certWake, sync <- certSync, spent <- certSpent

Trust == INSTANCE TrustStore WITH
  Bundle <- {1, 2, 3}, MaxRotations <- 2, MaxRestarts <- 1, MaxFaults <- 2, MaxLosses <- 1,
  served <- trustServed, wake <- trustWake, file <- caFile, store <- trustStore,
  etag <- trustEtag, sync <- trustSync, spent <- trustSpent

\* The gateway's path at rest: no sync runs and none is owed.
AtRest ==
  /\ store = d1 /\ served = {}
  /\ worker = [running |-> FALSE, dirty |-> FALSE, pc |-> "derive", doc |-> store]
  /\ out = <<>> /\ conn = "registered" /\ slot = Empty /\ dialed = FALSE
  /\ sync = [FirstSync EXCEPT !.running = FALSE]
  /\ src = [cached |-> Empty, disk |-> Empty, features |-> {}]
  /\ drv = IdleDriver /\ mgr = NothingApplied
  /\ spent = [writes |-> 0, toggles |-> 0, drops |-> 0, restarts |-> 0, faults |-> 0,
              lost |-> FALSE]

\* The two documents are interchangeable: d1 is the first.
AllInit ==
  /\ moving \in {"config", "poll", "reports", "cert", "trust"}
  /\ (moving = "config" /\ Init /\ store = d1) \/ (moving # "config" /\ AtRest)
  /\ FilePoll!Init /\ Cert!Init /\ Trust!Init
  /\ moving # "poll" => file.content = "d1"
  /\ moving # "cert" => certServed = [leaf |-> 1, ca |-> 1]
  /\ moving # "trust" => trustServed = 1

AllNext ==
  /\ UNCHANGED moving
  /\ \/ moving = "config" /\ Next /\ UNCHANGED <<fileVars, certVars, trustVars>>
     \/ moving = "poll" /\ FilePoll!Next /\ UNCHANGED <<vars, certVars, trustVars>>
     \/ moving = "reports" /\ FileReport!Next /\ UNCHANGED <<vars, certVars, trustVars>>
     \/ moving = "cert" /\ Cert!Next /\ UNCHANGED <<vars, fileVars, trustVars>>
     \/ moving = "trust" /\ Trust!Next /\ UNCHANGED <<vars, fileVars, certVars>>

\* Goroutines make progress, tickers fire, and frames that are queued are sent while the
\* connection stands.
AllFairness ==
  /\ WF_vars(moving = "config" /\ Gateway)
  /\ WF_vars(moving = "config" /\ Link)
  /\ WF_vars(moving = "config" /\ TakeWake)
  /\ WF_vars(moving = "config" /\ SyncLoop)
  /\ WF_fileVars(moving = "poll" /\ FilePoll!SyncLoop)
  /\ WF_fileVars(moving = "reports" /\ FileReport!SyncLoop)
  /\ WF_fileVars(moving = "reports" /\ FileReport!ReportLoop)
  /\ WF_certVars(moving = "cert" /\ (Cert!Poll \/ Cert!Sync))
  /\ WF_trustVars(moving = "trust" /\ (Trust!Poll \/ Trust!Sync))

AllSpec == AllInit /\ [][AllNext]_allVars /\ AllFairness

(***************************************************************************)
(* What is checked of them together.                                       *)
(***************************************************************************)
\* The gateway's push worker and the agent's sync trigger merge wakes and lose none.
TriggersAreDoorbells == PushWorkerIsDoorbell /\ SyncTriggerIsDoorbell

\* Files and what is said about them agree.  Installer.install: while chain and key belong
\* together, so do the files between them.  Store.DurableFingerprints: what is reported
\* durable is what a restart can load.  Installer.memoValid, Refresher.Refresh: a 304
\* means that the agent has what the gateway serves.
DiskIsHonest ==
  /\ moving = "cert" => /\ Cert!TypeOK /\ Cert!PairedIsComplete
                        /\ Cert!NotModifiedMeansInstalled
  /\ moving = "trust" => /\ Trust!TypeOK /\ Trust!DurableSurvivesRestart
                         /\ Trust!NotModifiedMeansTrusted

\* A source that fails takes nothing away.  FileSource.Load: a bad moment on disk never
\* tears down a running set.  refreshFileSources: a running agent never goes from some
\* roots to none.
AcceptedIsKept == FilePoll!NeverTornDown /\ Trust!RootsAreKept

\* Driver.Sync: an edit that parses reaches the manager, however often the feature is
\* withdrawn and the file removed and restored on the way.
EventuallyApplied ==
  \A d \in {"d1", "d2"} :
    <>[](moving = "poll" /\ declared /\ file.content = d) => <>[](fileMgr = d)

\* Driver.ResendReport: the gateway ends up with the file's document and error, although
\* a report is lost and the two callers of Load interleave.
EventuallyReported ==
  \A c \in {"d1", "d2", "broken", "gone"} :
    <>[](moving = "reports" /\ declared /\ file.content = c) => <>[]FileReport!Reported(c)

\* Installer.Sync, RunReloadHook: wherever the agent dies and whatever fails, the current
\* material ends up on disk; unless it dies, the hook has in the end run for the leaf.
EventuallyInstalled ==
  /\ <>[](moving = "cert" => Cert!Installed(certServed))
  /\ <>[](certSpent.crashes > 0 \/ activated.leaf = disk.file["fullchain"])

\* Refresher.Refresh: in the end the agent trusts what the gateway serves.
EventuallyTrusted == <>[](moving = "trust" => trustServed \in Trust!pool)

\* Once the gateway and the operator are at rest, the agent has what they want: the
\* runtime document, from the gateway or from the file, the certificate and the roots.
AgentConverges ==
  /\ EventuallyInSync
  /\ EventuallyApplied
  /\ EventuallyReported
  /\ EventuallyInstalled
  /\ EventuallyTrusted
=============================================================================
