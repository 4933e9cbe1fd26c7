----------------------------- MODULE FileConfig -----------------------------
(***************************************************************************)
(* The agent with a local file as its configuration source:                *)
(* FileSource.Load (runtime/config_client.go) is called by Driver.Sync     *)
(* under syncMu and by Driver.ResendReport, on the agent's run loop,       *)
(* without it (runtime/driver.go, agent/agent.go).  Both report upward.    *)
(*                                                                         *)
(* A document is its content; a file has a content and a modification      *)
(* time that every edit advances and that a restored backup keeps.         *)
(***************************************************************************)
EXTENDS Naturals

CONSTANTS
  Doc,          \* documents that parse
  Empty,        \* emptyConfig
  Broken,       \* content that does not parse
  Gone,         \* no file
  MaxEdits, MaxRemovals, MaxToggles,  \* bounds on the operator and the gateway
  MayResend,    \* the report ticker fires
  MaxLosses     \* reports that get lost

VARIABLES
  file,      \* content and modification time; backup is the content if it is restored
  declared,  \* the gateway declares runtime_manager
  source,    \* FileSource: cached, seenMod (0: haveSeen is false), lastErr
  call,      \* the call of Load that each loader is in, with its locals
  drv,       \* Driver: applied, active
  mgr,       \* the document last handed to the manager
  report,    \* the last report that reached the gateway
  spent

vars == <<file, declared, source, call, drv, mgr, report, spent>>

Loader == {"sync", "resend"}

Code == {"", "parse", "missing"}

TypeOK ==
  /\ file \in [content : Doc \cup {Broken, Gone}, backup : Doc \cup {Broken},
               mod : 1..(MaxEdits + 1)]
  /\ declared \in BOOLEAN
  /\ source \in [cached : Doc \cup {Empty}, seenMod : 0..(MaxEdits + 1), lastErr : Code]
  /\ call \in [Loader -> [pc : {"idle", "stat", "look", "read", "store", "apply", "send"},
                          mod : 0..(MaxEdits + 1), raw : Doc \cup {Broken, Gone},
                          doc : Doc \cup {Empty}, changed : BOOLEAN]]
  /\ drv \in [applied : BOOLEAN, active : BOOLEAN]
  /\ mgr \in Doc \cup {Empty}
  /\ report \in [doc : Doc \cup {Empty}, err : Code]
  /\ spent \in [edits : 0..MaxEdits, removals : 0..MaxRemovals, toggles : 0..MaxToggles,
                losses : 0..MaxLosses]

NoCall == [pc |-> "idle", mod |-> 0, raw |-> Gone, doc |-> Empty, changed |-> FALSE]

Init ==
  /\ \E c \in Doc \cup {Broken} : file = [content |-> c, backup |-> c, mod |-> 1]
  /\ declared = TRUE
  /\ source = [cached |-> Empty, seenMod |-> 0, lastErr |-> ""]
  /\ call = [l \in Loader |-> NoCall]
  /\ drv = [applied |-> FALSE, active |-> FALSE]
  /\ mgr = Empty
  /\ report = [doc |-> Empty, err |-> ""]
  /\ spent = [edits |-> 0, removals |-> 0, toggles |-> 0, losses |-> 0]

(***************************************************************************)
(* The operator and the gateway.                                           *)
(***************************************************************************)
Edit ==
  /\ spent.edits < MaxEdits
  /\ spent' = [spent EXCEPT !.edits = @ + 1]
  /\ \E c \in (Doc \cup {Broken}) \ {file.content} :
       file' = [content |-> c, backup |-> c, mod |-> file.mod + 1]
  /\ UNCHANGED <<declared, source, call, drv, mgr, report>>

Remove ==
  /\ spent.removals < MaxRemovals
  /\ spent' = [spent EXCEPT !.removals = @ + 1]
  /\ file' = [file EXCEPT !.content = Gone]
  /\ UNCHANGED <<declared, source, call, drv, mgr, report>>

\* A backup that keeps its timestamp is put back.
Restore ==
  /\ file.content = Gone
  /\ file' = [file EXCEPT !.content = file.backup]
  /\ UNCHANGED <<declared, source, call, drv, mgr, report, spent>>

Declare ==
  /\ spent.toggles < MaxToggles
  /\ spent' = [spent EXCEPT !.toggles = @ + 1]
  /\ declared' = ~declared
  /\ UNCHANGED <<file, source, call, drv, mgr, report>>

(***************************************************************************)
(* FileSource.Load: stat, look at the cache, read, store.  Only the look   *)
(* and the store hold the mutex.                                           *)
(***************************************************************************)
goto(l, pc) == call' = [call EXCEPT ![l].pc = pc]

\* Where a caller goes on when Load has returned.
after(l) == IF l = "sync" THEN "apply" ELSE "send"

return(l, doc, changed) ==
  call' = [call EXCEPT ![l].pc = after(l), ![l].doc = doc, ![l].changed = changed]

recordAccessFailure == [source EXCEPT !.lastErr = "missing", !.seenMod = 0]

Stat(l) ==
  /\ call[l].pc = "stat"
  /\ call' = [call EXCEPT ![l].pc = "look",
                          ![l].mod = IF file.content = Gone THEN 0 ELSE file.mod]
  /\ UNCHANGED <<file, declared, source, drv, mgr, report, spent>>

\* The three ways on from the stat: no file, a file that was seen, a file to be read.
Look(l) ==
  /\ call[l].pc = "look"
  /\ \/ /\ call[l].mod = 0
        /\ source' = recordAccessFailure
        /\ return(l, source.cached, FALSE)
     \/ /\ call[l].mod # 0 /\ call[l].mod = source.seenMod
        /\ return(l, source.cached, FALSE)
        /\ UNCHANGED source
     \/ /\ call[l].mod # 0 /\ call[l].mod # source.seenMod
        /\ goto(l, "read")
        /\ UNCHANGED source
  /\ UNCHANGED <<file, declared, drv, mgr, report, spent>>

Read(l) ==
  /\ call[l].pc = "read"
  /\ call' = [call EXCEPT ![l].pc = "store", ![l].raw = file.content]
  /\ UNCHANGED <<file, declared, source, drv, mgr, report, spent>>

\* A failed parse keeps the document and remembers the file as seen.
parsed(raw, mod) ==
  IF raw = Broken THEN [source EXCEPT !.seenMod = mod, !.lastErr = "parse"]
  ELSE [cached |-> raw, seenMod |-> mod, lastErr |-> ""]

\* Mutant: a failed parse yields the empty document.
StoreEmptyOnFailure(l) ==
  /\ call[l].pc = "store"
  /\ source' = IF call[l].raw = Gone THEN recordAccessFailure
               ELSE parsed(call[l].raw, call[l].mod)
  /\ return(l, IF call[l].raw = Broken THEN Empty ELSE source'.cached, call[l].raw # Gone)
  /\ UNCHANGED <<file, declared, drv, mgr, report, spent>>

Store(l) ==
  /\ call[l].pc = "store"
  /\ source' = IF call[l].raw = Gone THEN recordAccessFailure
               ELSE parsed(call[l].raw, call[l].mod)
  /\ return(l, source'.cached, call[l].raw \in Doc)
  /\ UNCHANGED <<file, declared, drv, mgr, report, spent>>

(***************************************************************************)
(* Driver.Sync, one at a time, and the reports.                            *)
(***************************************************************************)
\* A poll or a wake.  Without the feature everything is stopped.
Sync ==
  /\ call["sync"].pc = "idle"
  /\ \/ /\ declared
        /\ goto("sync", "stat")
        /\ drv' = [drv EXCEPT !.active = TRUE]
        /\ UNCHANGED mgr
     \/ /\ ~declared
        /\ drv' = [applied |-> FALSE, active |-> FALSE]
        /\ mgr' = Empty
        /\ UNCHANGED call
  /\ UNCHANGED <<file, declared, source, report, spent>>

Apply ==
  /\ call["sync"].pc = "apply"
  /\ \/ /\ ~call["sync"].changed /\ drv.applied
        /\ call' = [call EXCEPT !["sync"] = NoCall]
        /\ UNCHANGED <<drv, mgr>>
     \/ /\ call["sync"].changed \/ ~drv.applied
        /\ mgr' = call["sync"].doc
        /\ drv' = [drv EXCEPT !.applied = TRUE]
        /\ goto("sync", "send")
  /\ UNCHANGED <<file, declared, source, report, spent>>

\* ResendReport, on the ticker of the system report: no syncMu.
ResendReport ==
  /\ MayResend /\ drv.active
  /\ call["resend"].pc = "idle"
  /\ goto("resend", "stat")
  /\ UNCHANGED <<file, declared, source, drv, mgr, report, spent>>

\* sendReport: the document of the caller with the error on record now.
SendReport(l) ==
  /\ call[l].pc = "send"
  /\ call' = [call EXCEPT ![l] = NoCall]
  /\ \/ /\ report' = [doc |-> call[l].doc, err |-> source.lastErr]
        /\ UNCHANGED spent
     \/ /\ spent.losses < MaxLosses
        /\ spent' = [spent EXCEPT !.losses = @ + 1]
        /\ UNCHANGED report
  /\ UNCHANGED <<file, declared, source, drv, mgr>>

Load(l) == Stat(l) \/ Look(l) \/ Read(l) \/ Store(l)

SyncLoop == Sync \/ Load("sync") \/ Apply \/ SendReport("sync")

ReportLoop == ResendReport \/ Load("resend") \/ SendReport("resend")

Next == Edit \/ Remove \/ Restore \/ Declare \/ SyncLoop \/ ReportLoop

Spec == Init /\ [][Next]_vars

\* The tickers fire and goroutines make progress.
LiveSpec == Spec /\ WF_vars(SyncLoop) /\ WF_vars(ReportLoop)

(***************************************************************************)
(* Properties.                                                             *)
(***************************************************************************)
\* Load's contract, "a bad moment on disk never tears down a running set": once a
\* document is applied, only a withdrawn feature takes the manager back to none.
NeverTornDown == [][mgr # Empty /\ mgr' = Empty => ~declared]_vars

CodeOf(content) == CASE content = Gone -> "missing" [] content = Broken -> "parse"
                     [] OTHER -> ""

\* Sync: an edit that parses reaches the manager, however the calls of Load interleave.
EventuallyApplied ==
  \A d \in Doc : <>[](declared /\ file.content = d) => <>[](mgr = d)

\* ResendReport is the backstop of lost reports: the gateway has the error that
\* describes a file with content c (recordAccessFailure: one that is over is cleared),
\* and its document if it parses.
Reported(c) == report.err = CodeOf(c) /\ (c \in Doc => report.doc = c)
=============================================================================
