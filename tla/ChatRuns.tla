------------------------------ MODULE ChatRuns ------------------------------
(***************************************************************************)
(* The portal's chat runs: gateway/backend/internal/gateway/chat_runs.go,  *)
(* chat_runs_voice.go, chat_run_endpoints.go and the chat document writes  *)
(* of portal/service_chats.go.                                             *)
(*                                                                         *)
(* A run generates one answer for one chat, detached from the request that *)
(* started it. Each run is an executor goroutine (ex), with a checkpoint   *)
(* goroutine beside it (ck) while text streams. Both write the chat's      *)
(* document by reading the row and saving a changed copy, which is two     *)
(* steps here. The registry gives a chat one slot (slot) and keeps a       *)
(* finished run reachable (byID) for late viewers. Viewers follow a run    *)
(* over server-sent events through a bounded channel that drops what does  *)
(* not fit. All runs belong to one user; other users share nothing.        *)
(*                                                                         *)
(* Kinds: "chat" streams text without a deadline, "transcription" has one   *)
(* until its first delta, "voice" commits both halves of its turn at the   *)
(* end, under a claim.                                                     *)
(***************************************************************************)
EXTENDS Naturals, Sequences, FiniteSets

CONSTANTS
  Run,            \* the runs that may be started
  Chat,           \* the user's chats
  Viewer,         \* the tabs that may follow a run
  Kind,           \* the kinds of run that are started
  MaxPerUser,     \* the registry's cap on the user's active runs
  Queue,          \* capacity of a viewer's channel (64 in the code)
  VoiceEnds,      \* how a voice session may end its run: "stop", "detach"
  MaxDeltas,      \* bound: deltas of one run
  MaxCheckpoints, \* bound: checkpoints of one run
  MaxDrops,       \* bound: connections a viewer loses
  MaxPuts,        \* bound: document saves by the client
  MaxDeletes,     \* bound: chats deleted
  NoRun, Gone     \* an empty slot; a deleted chat

VARIABLES
  doc,   \* Chat -> its messages, or Gone
  slot,  \* Chat -> the run in byUser, or NoRun
  byID,  \* the runs a viewer can find
  run,   \* Run -> the ChatRun record
  ex,    \* Run -> the executor and, before it, the start handler
  ck,    \* Run -> the checkpoint goroutine
  view,  \* Viewer -> its connection and what it shows
  put,   \* Chat -> the handler of a PUT between its check and its save
  del,   \* Chat -> the handler of a DELETE
  puts   \* saves by the client so far

vars == <<doc, slot, byID, run, ex, ck, view, put, del, puts>>
storage == <<doc, put, del, puts>>

user(r) == [role |-> "user", run |-> r, status |-> "none", text |-> 0]
assistant(r, s, n) == [role |-> "assistant", run |-> r, status |-> s, text |-> n]

Init ==
  /\ doc = [c \in Chat |-> <<>>]
  /\ slot = [c \in Chat |-> NoRun]
  /\ byID = {}
  /\ run = [r \in Run |-> [chat |-> NoRun, kind |-> "none", status |-> "none",
                           text |-> 0, claim |-> "running", ctx |-> "live"]]
  /\ ex = [r \in Run |-> [pc |-> "off", row |-> <<>>, end |-> "none", saved |-> FALSE]]
  /\ ck = [r \in Run |-> [pc |-> "off", stop |-> FALSE, row |-> <<>>, text |-> 0, n |-> 0]]
  /\ view = [v \in Viewer |-> [run |-> NoRun, at |-> "off", text |-> {}, status |-> "none",
                               queue |-> <<>>, closed |-> FALSE, drops |-> 0]]
  /\ put = [c \in Chat |-> Gone]
  /\ del = [c \in Chat |-> "none"]
  /\ puts = 0

(***************************************************************************)
(* The run's own operations.                                               *)
(***************************************************************************)
claimCancel(x) == IF x.claim = "running" THEN [x EXCEPT !.claim = "canceled"] ELSE x

cancelContext(x) ==
  [claimCancel(x) EXCEPT !.ctx = IF @ = "live" THEN "canceled" ELSE @]

\* A full channel loses the event, for that viewer alone.
fanout(r, e) ==
  [v \in Viewer |->
     IF view[v].run = r /\ view[v].at = "open" /\ ~view[v].closed /\ Len(view[v].queue) < Queue
     THEN [view[v] EXCEPT !.queue = Append(@, e)] ELSE view[v]]

closeAll(r, vs) ==
  [v \in Viewer |-> IF vs[v].run = r /\ vs[v].at = "open"
                    THEN [vs[v] EXCEPT !.closed = TRUE] ELSE vs[v]]

snapshot(x) == [ev |-> "done", text |-> 1..x.text, status |-> x.status]

finish(r, s) ==
  /\ run' = [run EXCEPT ![r].status = IF @ = "running" THEN s ELSE @]
  /\ view' = IF run[r].status # "running" THEN view
             ELSE closeAll(r, fanout(r, snapshot(run'[r])))

(***************************************************************************)
(* The registry.                                                           *)
(***************************************************************************)
active == {c \in Chat : slot[c] # NoRun}

retire(r) == [c \in Chat |-> IF slot[c] = r THEN NoRun ELSE slot[c]]

remove(r) == slot' = retire(r) /\ byID' = byID \ {r}

(***************************************************************************)
(* The chat document. Every save of a deleted chat fails.                  *)
(***************************************************************************)
save(c, messages) == doc' = IF doc[c] = Gone THEN doc ELSE [doc EXCEPT ![c] = messages]

writeAssistant(row, m) ==
  IF row # <<>> /\ row[Len(row)].role = "assistant"
  THEN [row EXCEPT ![Len(row)] = m]
  ELSE Append(row, m)

persisted(s) == IF s = "completed" THEN "complete" ELSE s

(***************************************************************************)
(* Starting a run.                                                         *)
(***************************************************************************)
\* reserveRun: refused while the chat has a run or the user has enough of them.
Reserve(r, c, k) ==
  /\ ex[r].pc = "off" /\ k \in Kind
  /\ slot[c] = NoRun /\ Cardinality(active) < MaxPerUser
  /\ slot' = [slot EXCEPT ![c] = r]
  /\ byID' = byID \cup {r}
  /\ run' = [run EXCEPT ![r].chat = c, ![r].kind = k, ![r].status = "running"]
  /\ ex' = [ex EXCEPT ![r].pc = IF k = "voice" THEN "stream" ELSE "prepare"]
  /\ UNCHANGED <<ck, view, storage>>

releaseRun(r) ==
  /\ remove(r)
  /\ run' = [run EXCEPT ![r] = cancelContext(@)]
  /\ ex' = [ex EXCEPT ![r].pc = "over"]

\* PrepareChatRun, first half: the row is read and the request checked.
PrepareRead(r) ==
  /\ ex[r].pc = "prepare"
  /\ \/ /\ doc[run[r].chat] # Gone
        /\ ex' = [ex EXCEPT ![r].pc = "prepared", ![r].row = doc[run[r].chat]]
        /\ UNCHANGED <<slot, byID, run>>
     \/ releaseRun(r)
  /\ UNCHANGED <<ck, view, storage>>

\* PrepareChatRun, second half: the user turn is saved and the run launched.
PrepareSave(r) ==
  /\ ex[r].pc = "prepared"
  /\ \/ /\ doc[run[r].chat] # Gone
        /\ save(run[r].chat, Append(ex[r].row, user(r)))
        /\ ex' = [ex EXCEPT ![r].pc = "dispatch", ![r].row = <<>>]
        /\ UNCHANGED <<slot, byID, run>>
     \/ releaseRun(r) /\ UNCHANGED doc
  /\ UNCHANGED <<ck, view, put, del, puts>>

(***************************************************************************)
(* The executor.                                                           *)
(***************************************************************************)
\* What a failed request or read means: the deadline, a cancel, or an error.
readFailure(x) ==
  CASE x.ctx = "expired" -> "error" [] x.ctx = "canceled" -> "canceled" [] OTHER -> "error"

Dispatch(r) ==
  /\ ex[r].pc = "dispatch"
  /\ \/ /\ run[r].ctx = "live"
        /\ ex' = [ex EXCEPT ![r].pc = "stream"]
        /\ ck' = [ck EXCEPT ![r].pc = "idle"]
     \/ /\ ex' = [ex EXCEPT ![r].pc = "commit", ![r].end = readFailure(run[r])]
        /\ UNCHANGED ck
  /\ UNCHANGED <<slot, byID, run, view, storage>>

\* publish: nothing is added to a run that is no longer running.
Delta(r) ==
  /\ ex[r].pc = "stream" /\ run[r].text < MaxDeltas
  /\ run' = [run EXCEPT ![r].text = IF run[r].status = "running" THEN @ + 1 ELSE @]
  /\ view' = IF run[r].status = "running"
             THEN fanout(r, [ev |-> "delta", text |-> {run'[r].text}, status |-> "running"])
             ELSE view
  /\ UNCHANGED <<slot, byID, ex, ck, storage>>

stop(g) == [g EXCEPT !.stop = TRUE]

\* The stream ends: complete, with an error in it, or by a failed read. A voice
\* run that got no section to speak before its error commits nothing.
EndStream(r, s) ==
  /\ ex[r].pc = "stream"
  /\ s \in {"completed", "error", readFailure(run[r])}
  /\ IF run[r].kind # "voice"
     THEN /\ ex' = [ex EXCEPT ![r].pc = "join", ![r].end = s]
          /\ ck' = [ck EXCEPT ![r] = stop(@)]
     ELSE /\ \E next \in {p \in {"claim", "finish"} :
                            (s = "completed" => p = "claim") /\ (s = "canceled" => p = "finish")} :
               ex' = [ex EXCEPT ![r].pc = next, ![r].end = s]
          /\ UNCHANGED ck
  /\ UNCHANGED <<slot, byID, run, view, storage>>


\* stopCheckpoints returns once the checkpoint goroutine has.
Join(r) ==
  /\ ex[r].pc = "join" /\ ck[r].pc = "exited"
  /\ ex' = [ex EXCEPT ![r].pc = "commit"]
  /\ UNCHANGED <<slot, byID, run, ck, view, storage>>

\* Mutant: the outcome of the claim is not looked at.
ClaimIgnored(r) ==
  /\ ex[r].pc = "claim"
  /\ run' = [run EXCEPT ![r].claim = IF @ = "running" THEN "committing" ELSE @]
  /\ ex' = [ex EXCEPT ![r].pc = "commit"]
  /\ UNCHANGED <<slot, byID, ck, view, storage>>

\* finalizeVoiceCommit: the claim that a cancel got first is lost.
Claim(r) ==
  /\ ex[r].pc = "claim"
  /\ IF run[r].claim = "running"
     THEN /\ run' = [run EXCEPT ![r].claim = "committing"]
          /\ ex' = [ex EXCEPT ![r].pc = "commit"]
     ELSE /\ ex' = [ex EXCEPT ![r].pc = "finish", ![r].end = "canceled"]
          /\ UNCHANGED run
  /\ UNCHANGED <<slot, byID, ck, view, storage>>

\* A commit that fails ends the run as an error, unless a cancelled run lost its chat.
commitFailed(r) ==
  [ex[r] EXCEPT !.pc = "finish",
                !.end = IF @ = "canceled" /\ doc[run[r].chat] = Gone
                           /\ run[r].kind # "voice" THEN @ ELSE "error"]

CommitRead(r) ==
  /\ ex[r].pc = "commit"
  /\ \/ /\ doc[run[r].chat] # Gone
        /\ ex' = [ex EXCEPT ![r].pc = "save", ![r].row = doc[run[r].chat]]
     \/ ex' = [ex EXCEPT ![r] = commitFailed(r)]
  /\ UNCHANGED <<slot, byID, run, ck, view, storage>>

CommitSave(r) ==
  /\ ex[r].pc = "save"
  /\ \/ /\ doc[run[r].chat] # Gone
        /\ save(run[r].chat,
                IF run[r].kind = "voice"
                THEN ex[r].row \o <<user(r), assistant(r, "complete", run[r].text)>>
                ELSE writeAssistant(ex[r].row,
                       assistant(r, persisted(ex[r].end), run[r].text)))
        /\ ex' = [ex EXCEPT ![r].pc = "finish", ![r].row = <<>>, ![r].saved = TRUE]
     \/ /\ ex' = [ex EXCEPT ![r] = [commitFailed(r) EXCEPT !.row = <<>>]]
        /\ UNCHANGED doc
  /\ UNCHANGED <<slot, byID, run, ck, view, put, del, puts>>

Finish(r) ==
  /\ ex[r].pc = "finish"
  /\ finish(r, ex[r].end)
  /\ ex' = [ex EXCEPT ![r].pc = "retire"]
  /\ UNCHANGED <<slot, byID, ck, storage>>

\* retire, then the executor's deferred cancelContext.
Retire(r) ==
  /\ ex[r].pc = "retire"
  /\ slot' = retire(r)
  /\ run' = [run EXCEPT ![r] = cancelContext(@)]
  /\ ex' = [ex EXCEPT ![r].pc = "evict"]
  /\ UNCHANGED <<byID, ck, view, storage>>

Evict(r) ==
  /\ ex[r].pc = "evict"
  /\ remove(r)
  /\ ex' = [ex EXCEPT ![r].pc = "over"]
  /\ UNCHANGED <<run, ck, view, storage>>

(***************************************************************************)
(* The checkpoint goroutine: the buffered text as the chat's pending turn. *)
(* A tick that was due when the stop came may still be taken.              *)
(***************************************************************************)
CheckpointRead(r) ==
  /\ ck[r].pc = "idle" /\ ck[r].n < MaxCheckpoints
  /\ ck' = [ck EXCEPT ![r].n = @ + 1,
                      ![r].pc = IF doc[run[r].chat] = Gone THEN "idle" ELSE "saving",
                      ![r].row = IF doc[run[r].chat] = Gone THEN <<>> ELSE doc[run[r].chat],
                      ![r].text = run[r].text]
  /\ UNCHANGED <<slot, byID, run, ex, view, storage>>

CheckpointSave(r) ==
  /\ ck[r].pc = "saving"
  /\ \/ save(run[r].chat, writeAssistant(ck[r].row, assistant(r, "pending", ck[r].text)))
     \/ UNCHANGED doc
  /\ ck' = [ck EXCEPT ![r].pc = "idle", ![r].row = <<>>, ![r].text = 0]
  /\ UNCHANGED <<slot, byID, run, ex, view, put, del, puts>>

CheckpointExit(r) ==
  /\ ck[r].pc = "idle" /\ ck[r].stop
  /\ ck' = [ck EXCEPT ![r].pc = "exited"]
  /\ UNCHANGED <<slot, byID, run, ex, view, storage>>

(***************************************************************************)
(* What ends a run from outside.                                           *)
(***************************************************************************)
\* handleCancelChatRun: by id, so that it also finds a run that has just ended.
Cancel(r) ==
  /\ r \in byID /\ run[r].ctx = "live"
  /\ run' = [run EXCEPT ![r] = cancelContext(@)]
  /\ UNCHANGED <<slot, byID, ex, ck, view, storage>>

Expire(r) ==
  /\ run[r].kind = "transcription" /\ run[r].ctx = "live" /\ run[r].text = 0
  /\ ex[r].pc \in {"dispatch", "stream"}
  /\ run' = [run EXCEPT ![r].ctx = "expired"]
  /\ UNCHANGED <<slot, byID, ex, ck, view, storage>>

detachRun(r) == run' = [run EXCEPT ![r] = cancelContext(@)] /\ remove(r)

\* stopRun: the run is removed only when the cancel won. tryResume and the
\* onResume that follows it have the same effect on the run.
stopRun(r) ==
  IF run[r].claim = "running" THEN detachRun(r) ELSE UNCHANGED <<run, slot, byID>>

\* A voice session ends the run it started, by a stop or a resume, or by closing.
VoiceEnd(r, how) ==
  /\ how \in VoiceEnds /\ run[r].kind = "voice" /\ r \in byID /\ ex[r].pc # "off"
  /\ IF how = "stop" THEN stopRun(r) ELSE detachRun(r)
  /\ UNCHANGED <<ex, ck, view, storage>>

\* DELETE: the active run is cancelled, then the chat is deleted.
DeleteCancel(c) ==
  /\ del[c] = "none" /\ Cardinality({d \in Chat : del[d] # "none"}) < MaxDeletes
  /\ run' = IF slot[c] = NoRun THEN run ELSE [run EXCEPT ![slot[c]] = cancelContext(@)]
  /\ del' = [del EXCEPT ![c] = "cancelled"]
  /\ UNCHANGED <<slot, byID, ex, ck, view, doc, put, puts>>

DeleteRow(c) ==
  /\ del[c] = "cancelled"
  /\ doc' = [doc EXCEPT ![c] = Gone]
  /\ del' = [del EXCEPT ![c] = "done"]
  /\ UNCHANGED <<slot, byID, run, ex, ck, view, put, puts>>

\* PUT: refused while the chat has a run; then the tab's whole copy is saved.
PutCheck(c) ==
  /\ puts < MaxPuts /\ put[c] = Gone /\ doc[c] # Gone /\ slot[c] = NoRun
  /\ put' = [put EXCEPT ![c] = doc[c]]
  /\ puts' = puts + 1
  /\ UNCHANGED <<slot, byID, run, ex, ck, view, doc, del>>

PutSave(c) ==
  /\ put[c] # Gone
  /\ save(c, put[c])
  /\ put' = [put EXCEPT ![c] = Gone]
  /\ UNCHANGED <<slot, byID, run, ex, ck, view, del, puts>>

(***************************************************************************)
(* A viewer: handleChatRunEvents and the browser's EventSource, which      *)
(* reconnects by itself and lets a snapshot replace what it shows.         *)
(***************************************************************************)
launched(r) == ex[r].pc \notin {"off", "prepare", "prepared"}

Subscribe(v, r) ==
  /\ \/ view[v].at = "off" /\ r \in byID /\ launched(r)
     \/ view[v].at = "retry" /\ view[v].run = r
  /\ view' = [view EXCEPT ![v] =
       IF r \notin byID THEN [@ EXCEPT !.at = "lost"]
       ELSE [@ EXCEPT !.run = r, !.queue = <<>>, !.closed = FALSE,
                      !.at = IF run[r].status = "running" THEN "open" ELSE "done",
                      !.text = 1..run[r].text, !.status = run[r].status]]
  /\ UNCHANGED <<slot, byID, run, ex, ck, storage>>

Receive(v) ==
  /\ view[v].at = "open" /\ view[v].queue # <<>>
  /\ LET e == Head(view[v].queue) IN
       view' = [view EXCEPT ![v].queue = IF e.ev = "done" THEN <<>> ELSE Tail(@),
                            ![v].text = IF e.ev = "done" THEN e.text ELSE @ \cup e.text,
                            ![v].at = IF e.ev = "done" THEN "done" ELSE @,
                            ![v].status = e.status]
  /\ UNCHANGED <<slot, byID, run, ex, ck, storage>>

\* The stream ends without a terminal event.
StreamEnd(v) ==
  /\ view[v].at = "open" /\ view[v].closed /\ view[v].queue = <<>>
  /\ view' = [view EXCEPT ![v].at = "retry"]
  /\ UNCHANGED <<slot, byID, run, ex, ck, storage>>

Disconnect(v) ==
  /\ view[v].at = "open" /\ view[v].drops < MaxDrops
  /\ view' = [view EXCEPT ![v].at = "retry", ![v].drops = @ + 1, ![v].queue = <<>>]
  /\ UNCHANGED <<slot, byID, run, ex, ck, storage>>

Step(r) ==
  \/ PrepareRead(r) \/ PrepareSave(r) \/ Dispatch(r) \/ Join(r) \/ Claim(r)
  \/ CommitRead(r) \/ CommitSave(r) \/ Finish(r) \/ Retire(r)

Next ==
  \/ \E r \in Run : \/ Step(r) \/ Delta(r) \/ Evict(r) \/ Cancel(r) \/ Expire(r)
                    \/ CheckpointRead(r) \/ CheckpointSave(r) \/ CheckpointExit(r)
                    \/ \E c \in Chat, k \in Kind : Reserve(r, c, k)
                    \/ \E s \in {"completed", "error", "canceled"} : EndStream(r, s)
                    \/ \E how \in VoiceEnds : VoiceEnd(r, how)
                    \/ \E v \in Viewer : Subscribe(v, r)
  \/ \E c \in Chat : DeleteCancel(c) \/ DeleteRow(c) \/ PutCheck(c) \/ PutSave(c)
  \/ \E v \in Viewer : Receive(v) \/ StreamEnd(v) \/ Disconnect(v)

Spec == Init /\ [][Next]_vars
-----------------------------------------------------------------------------
Statuses == {"none", "running", "completed", "error", "canceled"}

\* Every record keeps its shape: slots name runs, texts stay within their bound, a
\* channel of subscribe never holds more than its capacity.
TypeOK ==
  /\ \A c \in Chat : slot[c] \in Run \cup {NoRun} /\ del[c] \in {"none", "cancelled", "done"}
  /\ byID \subseteq Run
  /\ \A r \in Run : /\ run[r].status \in Statuses /\ run[r].text \in 0..MaxDeltas
                    /\ run[r].claim \in {"running", "committing", "canceled"}
                    /\ run[r].ctx \in {"live", "canceled", "expired"}
                    /\ ck[r].pc \in {"off", "idle", "saving", "exited"}
  /\ \A v \in Viewer : /\ Len(view[v].queue) <= Queue
                       /\ view[v].at \in {"off", "open", "retry", "done", "lost"}


\* A run is reported completed only when its answer was saved (finishRunWithParts
\* turns a failed commit into an error before run.finish).
CompletedIsSaved ==
  \A r \in Run : run[r].status = "completed" => ex[r].saved

\* Every answer in a chat directly follows the user turn of its own run: no run ever
\* answers another's turn or leaves a second copy of its answer behind.
TurnsPaired ==
  \A c \in Chat : doc[c] # Gone =>
    \A i \in 1..Len(doc[c]) : doc[c][i].role = "assistant" =>
      i > 1 /\ doc[c][i - 1] = user(doc[c][i].run)

\* A run that is about to save a copy of the chat it has read holds the chat's slot,
\* so nobody else does the same (reserveRun precedes the first write, retire follows
\* the last, and stopRun leaves a committing run alone).
WriterHoldsSlot ==
  \A r \in Run : ex[r].pc \in {"prepared", "save"} \/ ck[r].pc = "saving"
                   => slot[run[r].chat] = r

\* A voice run whose cancel won its claim leaves nothing in the chat, now or later
\* (claimCommit and claimCancel swap one word).
CancelledVoiceLeavesNothing ==
  \A r \in Run : run[r].kind = "voice" /\ run[r].claim = "canceled" =>
    LET c == run[r].chat IN
    doc[c] # Gone => \A i \in 1..Len(doc[c]) : doc[c][i].run # r

\* A tab that has been told the end of a run shows the run's whole text and its final
\* status, whatever deltas its full channel had lost and however often it reconnected
\* (subscribe and finish both carry a snapshot).
FinishedViewExact ==
  \A v \in Viewer : view[v].at = "done" =>
    LET x == run[view[v].run] IN
    x.status # "running" /\ view[v].text = 1..x.text /\ view[v].status = x.status

\* A run that was cancelled or has timed out gives its chat's slot back
\* (runStreamReadFailure, then finishRun and retire).
Freed == \A r \in Run : run[r].ctx # "live" => \A c \in Chat : slot[c] # r

\* A tab following a run that ends learns the end, or that the run is not known any
\* more (finish closes every channel; the EventSource reconnects).
Told ==
  \A v \in Viewer : view[v].at \in {"open", "retry"} => run[view[v].run].status = "running"

\* A cancel frame of a voice session abandons the turn: "cancel the speculative run
\* (nothing persisted)". A run its session has let go of saves nothing afterwards.
CancelPersistsNothing ==
  [][\A r \in Run : ex[r].pc = "save" /\ r \notin byID /\ run[r].kind = "voice"
       => ~(~ex[r].saved /\ ex'[r].saved)]_vars

\* "The server owns the transcript tail while a run is live for this chat": no client
\* save changes the document while the chat has a run.
PutSparesRun ==
  [][\A c \in Chat : put[c] # Gone /\ put'[c] = Gone /\ doc'[c] # doc[c] => slot[c] = NoRun]_vars
=============================================================================
