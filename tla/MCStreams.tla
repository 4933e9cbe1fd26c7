----------------------------- MODULE MCStreams ------------------------------
(***************************************************************************)
(* What a browser follows: the output of a model process (LogStream), a    *)
(* chat run with its tab (ChatRuns) and a voice session (VoiceSession).  A *)
(* behaviour is one `scene' and moves one of them, with the sizes of that  *)
(* scene; the others stay in an initial state.                             *)
(***************************************************************************)
EXTENDS Naturals, Sequences

CONSTANTS NoRun, Gone

VARIABLES scene,
  printed, store, logSlot, link, cuts, wire, up, epoch, phase, sub, note, logView,
  doc, slot, byID, run, ex, ck, view, put, del, puts,
  s, claims, client

logVars == <<printed, store, logSlot, link, cuts, wire, up, epoch, phase, sub, note, logView>>
chatVars == <<doc, slot, byID, run, ex, ck, view, put, del, puts>>
voiceVars == <<s, claims, client>>
vars == <<scene, logVars, chatVars, voiceVars>>

TwoViews == {"v1", "v2"}

\* A relay queue of one batch, and replays of one batch.
Relay == INSTANCE LogStream WITH
  Markers <- {1, 3}, Retained <- 6, Pending <- 6, ChunkSize <- 6, Queue <- 1, Carry <- 1,
  MaxPrints <- 4, MaxCuts <- 0, MaxUp <- 2, Viewer <- TwoViews, Leaving <- {},
  Racing <- TRUE, Stream <- "stream", slot <- logSlot, view <- logView

\* More output than the live queue and the history hold.
Bursts == INSTANCE LogStream WITH
  Markers <- {1, 3, 4}, Retained <- 2, Pending <- 1, ChunkSize <- 4, Queue <- 9, Carry <- 1,
  MaxPrints <- 5, MaxCuts <- 0, MaxUp <- 2, Viewer <- TwoViews, Leaving <- {},
  Racing <- TRUE, Stream <- "stream", slot <- logSlot, view <- logView

\* A history replayed in several batches, and a view that closes.
Chunks == INSTANCE LogStream WITH
  Markers <- {1, 3, 4}, Retained <- 3, Pending <- 2, ChunkSize <- 2, Queue <- 9, Carry <- 1,
  MaxPrints <- 6, MaxCuts <- 0, MaxUp <- 2, Viewer <- {"v1"}, Leaving <- {"v1"},
  Racing <- TRUE, Stream <- "stream", slot <- logSlot, view <- logView

\* A connection that is lost while two views wait for their history ...
History == INSTANCE LogStream WITH
  Markers <- {}, Retained <- 2, Pending <- 2, ChunkSize <- 1, Queue <- 9, Carry <- 1,
  MaxPrints <- 2, MaxCuts <- 1, MaxUp <- 1, Viewer <- TwoViews, Leaving <- {},
  Racing <- FALSE, Stream <- "stream", slot <- logSlot, view <- logView

\* ... and while a view closes.
Quiet == INSTANCE LogStream WITH
  Markers <- {}, Retained <- 2, Pending <- 2, ChunkSize <- 1, Queue <- 9, Carry <- 1,
  MaxPrints <- 2, MaxCuts <- 2, MaxUp <- 1, Viewer <- {"v1"}, Leaving <- {"v1"},
  Racing <- FALSE, Stream <- "stream", slot <- logSlot, view <- logView

\* One run of any kind on a chat that may be deleted, and a tab that may lose its
\* connection once.
Chats == INSTANCE ChatRuns WITH
  Run <- {"r1"}, Chat <- {"c1"}, Viewer <- {"v1"}, Kind <- {"chat", "transcription", "voice"},
  MaxPerUser <- 2, Queue <- 1, VoiceEnds <- {"stop"}, MaxDeltas <- 2, MaxCheckpoints <- 1,
  MaxDrops <- 1, MaxPuts <- 0, MaxDeletes <- 1

\* Three chunks of speech that extend one another.
Turns == INSTANCE VoiceSession WITH
  MaxChunks <- 3, MaxAudio <- 2, Queue <- 2, Mutes <- FALSE, Pauses <- FALSE,
  Refusals <- FALSE, Outside <- FALSE, Controls <- {"push", "cancel", "stop"}

\* Answers of three chunks, with gaps and pauses.
Drain == INSTANCE VoiceSession WITH
  MaxChunks <- 2, MaxAudio <- 3, Queue <- 2, Mutes <- FALSE, Pauses <- TRUE,
  Refusals <- FALSE, Outside <- FALSE, Controls <- {"stop"}

\* A muted microphone, refused streams, and a run that somebody else cancels.
Muted == INSTANCE VoiceSession WITH
  MaxChunks <- 2, MaxAudio <- 1, Queue <- 2, Mutes <- TRUE, Pauses <- FALSE,
  Refusals <- TRUE, Outside <- TRUE, Controls <- {"push", "cancel"}

\* A client that mutes and pauses, and a run that goes on to its own end.
Ends == INSTANCE VoiceSession WITH
  MaxChunks <- 2, MaxAudio <- 2, Queue <- 2, Mutes <- TRUE, Pauses <- TRUE,
  Refusals <- FALSE, Outside <- FALSE, Controls <- {"push"}

LogScenes == {"relay", "bursts", "history", "chunks", "quiet"}

Init ==
  /\ Chats!Init
  /\ scene \in LogScenes \cup {"chat", "turns", "drain", "muted", "ends"}
  /\ IF scene \in {"relay", "bursts", "history"} THEN Relay!Init ELSE Chunks!Init
  /\ IF scene = "turns" THEN Turns!Init ELSE Drain!Init

Next ==
  /\ UNCHANGED scene
  /\ \/ /\ \/ scene = "relay" /\ Relay!Next
           \/ scene = "bursts" /\ Bursts!Next
           \/ scene = "chunks" /\ Chunks!Next
           \/ scene = "history" /\ History!Next
           \/ scene = "quiet" /\ Quiet!Next
        /\ UNCHANGED <<chatVars, voiceVars>>
     \/ scene = "chat" /\ Chats!Next /\ UNCHANGED <<logVars, voiceVars>>
     \/ /\ \/ scene = "turns" /\ Turns!Next
           \/ scene = "drain" /\ Drain!Next
           \/ scene = "muted" /\ Muted!Next
           \/ scene = "ends" /\ Ends!Next
        /\ UNCHANGED <<logVars, chatVars>>

\* The agent's run loop selects forever and its log ticker never stops, the read loops
\* of the connection deliver what arrives, a dropped connection is dialled again and its
\* watch set restated, and a handler that subscribed sends its command.
LogFairness ==
  /\ WF_logVars(scene = "history" /\ History!SetLogWatch)
  /\ WF_logVars(scene = "history" /\ History!flushRuntimeLogs)
  /\ WF_logVars(scene = "history" /\ (History!Reconnect \/ History!restate))
  /\ WF_logVars(scene = "history" /\ History!wakeLogWatch)
  /\ WF_logVars(scene = "history" /\ History!publish)
  /\ \A n \in {"v1", "v2", "stream"} : WF_logVars(scene = "history" /\ History!Notify(n))
  /\ \A v \in TwoViews : WF_logVars(scene = "history" /\ History!Read(v))
  /\ WF_logVars(scene = "quiet" /\ Quiet!SetLogWatch)
  /\ WF_logVars(scene = "quiet" /\ (Quiet!Reconnect \/ Quiet!restate))
  /\ WF_logVars(scene = "quiet" /\ Quiet!wakeLogWatch)
  /\ \A n \in {"v1", "stream"} : WF_logVars(scene = "quiet" /\ Quiet!Notify(n))

\* The executor of a run is a goroutine whose store calls have a timeout; a request whose
\* context is done returns; the checkpoint goroutine is woken by its stop; a tab reads
\* its stream and reconnects.  A timer of the session that is armed fires, time passes,
\* a voice run ends (its legs have their own deadlines), and the session's loop reads
\* its channels.  Nothing makes a model finish its text; nobody has to speak, to resume
\* a pause or to send a frame.
TalkFairness ==
  /\ WF_chatVars(scene = "chat" /\ Chats!Step("r1"))
  /\ WF_chatVars(/\ scene = "chat" /\ run["r1"].ctx # "live"
                 /\ \E e \in {"error", "canceled"} : Chats!EndStream("r1", e))
  /\ WF_chatVars(scene = "chat" /\ (Chats!CheckpointSave("r1") \/ Chats!CheckpointExit("r1")))
  /\ WF_chatVars(/\ scene = "chat"
                 /\ \/ Chats!Receive("v1") \/ Chats!StreamEnd("v1")
                    \/ view["v1"].at = "retry" /\ Chats!Subscribe("v1", "r1"))
  /\ WF_voiceVars(scene = "ends" /\ Ends!onMaxUtterance)
  /\ WF_voiceVars(scene = "ends" /\ Ends!onGrace)
  /\ WF_voiceVars(scene = "ends" /\ Ends!onPlaybackTimer)
  /\ WF_voiceVars(scene = "ends" /\ Ends!onTailDone)
  /\ WF_voiceVars(scene = "ends" /\ Ends!onFinalizeTimeout)
  /\ WF_voiceVars(scene = "ends" /\ (Ends!FloorPasses \/ Ends!CeilingPasses))
  /\ WF_voiceVars(scene = "ends" /\ \E e \in {"completed", "error", "canceled"} : Ends!RunEnds(e))
  /\ WF_voiceVars(scene = "ends" /\ (Ends!onRunEvent \/ Ends!onRunClosed))

Spec == Init /\ [][Next]_vars /\ LogFairness /\ TalkFairness


\* tryResume and claimCommit swap one word: nothing said is committed in two turns.
\* onRunAudio, closeWindow: no audio is relayed while the microphone is open, and the
\* tail starts when everything relayed was played (onPlaybackDone).  Every wait has its
\* timer: the end of a chunk, also across a mute (finalizeChunk), and a drain that is not
\* paused (rearmPlaybackWait).
VoiceTurnsAreSafe ==
  /\ scene = "turns" => /\ Turns!TypeOK /\ Turns!ClaimedOnce /\ Turns!AnswerGatesMic
                        /\ Turns!FinalizingHasTimer
  /\ scene = "muted" => Muted!TypeOK /\ Muted!AnswerGatesMic /\ Muted!FinalizingHasTimer
  /\ scene = "drain" => Drain!DrainEndsHonestly /\ Drain!DrainHasTimer
  /\ scene = "chat" => Chats!TypeOK

=============================================================================
