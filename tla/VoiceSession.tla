---------------------------- MODULE VoiceSession ----------------------------
(***************************************************************************)
(* The voice conversation: voiceMachine in                                 *)
(* gateway/backend/internal/gateway/voice_chat_ws.go, the single goroutine *)
(* that folds microphone frames, control frames, ASR events, run events    *)
(* and eight timers into one state.                                        *)
(*                                                                         *)
(* The machine is the record s. Each handler of the code is an operator    *)
(* from a machine to a machine, so that a handler that calls another is    *)
(* written as the code is. Around it stand the ASR loopback (s.lb), whose  *)
(* goroutines a teardown joins and drains, the speculative run (s.run)     *)
(* with its commit/cancel word and its bounded event channel, and the      *)
(* client, which plays what it is sent and reports when its queue drains.  *)
(*                                                                         *)
(* Time is the order of events. s.fl and s.cl say whether the floor and    *)
(* the ceiling of the playout have passed; neither passes during a pause,  *)
(* because a resume shifts the start of the playout by the pause. A chunk  *)
(* of speech is a number, given when it is finished; s.pending is the set  *)
(* of chunks of the pending text. A playback_done frame does not outlive   *)
(* the turn it was sent in.                                                *)
(***************************************************************************)
EXTENDS Naturals, Sequences, FiniteSets

CONSTANTS
  MaxChunks,   \* bound: finished chunks of speech
  MaxAudio,    \* bound: audio events of one run
  Queue,       \* capacity of the run's event channel (64 in the code)
  Mutes,       \* whether the microphone is ever muted
  Pauses,      \* whether the client ever pauses the playback
  Refusals,    \* whether the gateway ever refuses the ASR stream
  Outside,     \* whether somebody else cancels the run (Stop endpoint, DELETE)
  Controls     \* the other control frames the client sends

VARIABLES
  s,       \* the machine
  claims,  \* chunk -> how many runs, counted up to two, claimed the commit of a text with it
  client   \* the client's player: what it drained at, and its frames on the wire

vars == <<s, claims, client>>

Timers == {"silence", "max", "tail", "finalize", "grace", "playback", "muteKeep", "muteTeardown"}

Unattached == [st |-> "none", claim |-> "running", status |-> "running",
          q |-> <<>>, closed |-> FALSE, audio |-> 0]

Init ==
  /\ s = [state |-> "listening", pending |-> {}, n |-> 0,
          lb |-> "none", feed |-> FALSE,
          text |-> FALSE, chunk |-> FALSE, finalizing |-> FALSE,
          muted |-> FALSE, closing |-> FALSE,
          run |-> Unattached, streamed |-> FALSE, grace |-> FALSE, closed |-> FALSE,
          finished |-> FALSE, answered |-> FALSE, buf |-> 0,
          first |-> FALSE, relayed |-> 0, fl |-> FALSE, cl |-> FALSE, aud |-> FALSE,
          awaiting |-> FALSE, signaled |-> FALSE, floorPassed |-> FALSE, paused |-> FALSE,
          timers |-> {}]
  /\ claims = [c \in 1..MaxChunks |-> 0]
  /\ client = [drained |-> 0, wire |-> {}]

(***************************************************************************)
(* The handlers' parts.                                                    *)
(***************************************************************************)
arm(m, t) == [m EXCEPT !.timers = @ \cup {t}]
stop(m, T) == [m EXCEPT !.timers = @ \ T]
setState(m, st) == [m EXCEPT !.state = st]

micOpen(m) ==
  /\ ~m.finalizing
  /\ m.state = "listening" \/ (m.state = "thinking" /\ ~m.closed)

resetChunk(m) == [m EXCEPT !.text = FALSE, !.chunk = FALSE]

\* Cancels and joins the loopback's goroutines and discards what they still reported.
teardownTurn(m) ==
  [stop(m, {"muteKeep", "muteTeardown"}) EXCEPT
     !.lb = "none", !.feed = FALSE, !.finalizing = FALSE, !.closing = FALSE]

\* Unsubscribes from the run and cancels it; a run that has claimed its commit goes on.
detachRun(m) ==
  [m EXCEPT !.run = Unattached, !.streamed = FALSE, !.grace = FALSE, !.closed = FALSE,
            !.finished = FALSE, !.buf = 0]

resetPlaybackWait(m) ==
  [stop(m, {"playback"}) EXCEPT !.awaiting = FALSE, !.signaled = FALSE,
                                !.floorPassed = FALSE, !.paused = FALSE]

\* What degrade, failTurn, a cancel and a stop all do.
endTurn(m, st) ==
  setState([resetPlaybackWait(stop(resetChunk(teardownTurn(detachRun(m))),
                                   {"silence", "max", "grace", "tail"}))
              EXCEPT !.pending = {}], st)

fail(m) == endTurn(m, "idle")

\* The user's own cancel or stop: the client has stopped its player.
abandon(m) == [endTurn(m, "listening") EXCEPT !.aud = FALSE]

quietTeardown(m) == stop(resetChunk(teardownTurn(m)), {"silence", "max", "finalize"})

armMuteTimers(m) == arm(arm(m, "muteKeep"), "muteTeardown")

(***************************************************************************)
(* The playout: the floor, the ceiling and the client's signal.            *)
(***************************************************************************)
endDrainWait(m) == arm(resetPlaybackWait(m), "tail")

onPlaybackFloorReached(m) ==
  LET a == [m EXCEPT !.floorPassed = TRUE] IN
  IF a.signaled \/ a.cl THEN endDrainWait(a) ELSE arm(a, "playback")

beginPlaybackWait(m) ==
  LET a == [m EXCEPT !.awaiting = TRUE, !.floorPassed = FALSE] IN
  IF ~a.first THEN endDrainWait(a)
  ELSE IF a.paused THEN a
  ELSE IF ~a.fl THEN arm(a, "playback")
  ELSE onPlaybackFloorReached(a)

rearmPlaybackWait(m) ==
  IF ~m.floorPassed
  THEN IF ~m.fl THEN arm(m, "playback") ELSE onPlaybackFloorReached(m)
  ELSE IF m.signaled \/ m.cl THEN endDrainWait(m) ELSE arm(m, "playback")

\* One chunk is sent; more says whether it moves the floor past now.
relayAudio(m, more) ==
  LET fl == m.first /\ m.fl /\ ~more IN
  [m EXCEPT !.first = TRUE, !.relayed = @ + 1, !.signaled = FALSE,
            !.fl = fl, !.cl = m.first /\ @, !.aud = @ \/ ~fl]

flushAudioBuf(m, more) ==
  IF m.buf = 0 THEN m
  ELSE [relayAudio(m, more) EXCEPT !.relayed = m.relayed + m.buf, !.buf = 0]

finishAnswer(m) ==
  IF m.answered THEN m
  ELSE beginPlaybackWait(setState([detachRun(m) EXCEPT !.answered = TRUE, !.pending = {}],
                                  "draining"))

closeWindow(m, more) ==
  LET a == stop(resetChunk(teardownTurn([m EXCEPT !.closed = TRUE])), {"grace", "silence", "max"})
      b == flushAudioBuf(setState(a, "speaking"), more)
  IN IF b.finished THEN finishAnswer(b) ELSE b

maybeCloseWindow(m, more) ==
  IF m.closed \/ ~m.streamed \/ ~m.grace THEN m ELSE closeWindow(m, more)

markAnswerStreamed(m, more) ==
  IF m.streamed THEN m ELSE maybeCloseWindow([m EXCEPT !.streamed = TRUE], more)

\* Audio is held while the window is open.
onRunAudio(m, more) ==
  LET a == markAnswerStreamed(m, more) IN
  IF a.closed THEN relayAudio(a, more)
  ELSE maybeCloseWindow([a EXCEPT !.buf = @ + 1], more)

handleRunTerminal(m, status, more) ==
  LET a == [m EXCEPT !.finished = TRUE] IN
  CASE m.finished -> m
    [] ~m.finished /\ status = "completed" ->
         LET b == maybeCloseWindow(markAnswerStreamed([a EXCEPT !.grace = TRUE], more), more)
         IN IF b.closed THEN finishAnswer(b) ELSE b
    [] ~m.finished /\ status = "canceled" -> a
    [] OTHER -> fail(m)

(***************************************************************************)
(* The chunk of speech and the answer to it.                               *)
(***************************************************************************)
\* Starts a run for the pending text; ok is whether it could be reserved, which it cannot
\* while the chat's last run goes on.
beginAnswer(m, ok) ==
  IF m.pending = {} THEN setState(m, "listening")
  ELSE IF ~ok \/ m.run.st = "running" THEN fail(m)
  ELSE arm(setState(resetPlaybackWait(
             [m EXCEPT !.run = [Unattached EXCEPT !.st = "running"],
                       !.streamed = FALSE, !.grace = FALSE, !.closed = FALSE,
                       !.finished = FALSE, !.answered = FALSE, !.buf = 0,
                       !.first = FALSE, !.relayed = 0]), "thinking"), "grace")

\* The chunk's text, if there is any, becomes part of the pending text.
finishChunk(m, some, ok) ==
  LET a == [stop(m, {"finalize"}) EXCEPT
              !.pending = IF some THEN @ \cup {m.n + 1} ELSE @,
              !.n = IF some THEN @ + 1 ELSE @]
  IN beginAnswer(resetChunk(teardownTurn(a)), ok)

finalizeChunk(m) ==
  arm([stop(m, {"silence", "max"}) EXCEPT !.finalizing = TRUE, !.feed = FALSE], "finalize")

\* Mutant: any run that is still going on is resumed.
runResumableByStatus(m) == m.run.st = "running" /\ ~m.closed

runResumable(m) == m.run.st = "running" /\ ~m.closed /\ m.run.claim = "running"

\* The claim that wins ends the run: tryResume and onResume.
onResume(m) == setState(stop(detachRun(m), {"grace"}), "listening")

onVoiced(m) ==
  LET a == arm([m EXCEPT !.text = TRUE, !.chunk = TRUE], "max")
      b == IF runResumable(a) THEN onResume(a) ELSE a
  IN arm([(IF m.chunk THEN m ELSE b) EXCEPT !.text = TRUE], "silence")

(***************************************************************************)
(* The events. A turn that begins forgets the frames of the one before.    *)
(***************************************************************************)
Become(m) ==
  /\ s' = m
  /\ client' = IF m.run.st # "none" /\ s.run.st = "none"
               THEN [drained |-> 0, wire |-> {}] ELSE client
  /\ UNCHANGED claims

alive == s.state # "over"

\* A frame of the microphone: the first one of a turn opens the loopback.
OnPCM ==
  /\ alive /\ micOpen(s) /\ s.lb = "none"
  /\ LET a == [s EXCEPT !.lb = "opening", !.feed = TRUE]
     IN Become(IF s.muted THEN armMuteTimers(a) ELSE a)

Dialed == s.lb = "opening" /\ Become([s EXCEPT !.lb = "open"])

\* A refusal ends the loopback and idles the machine; it leaves the run alone.
Refused ==
  /\ Refusals /\ s.lb = "opening"
  /\ Become(IF s.muted THEN quietTeardown(s) ELSE setState(teardownTurn(s), "idle"))

DialFailed ==
  s.lb = "opening" /\ Become(IF s.muted THEN quietTeardown(s) ELSE fail(s))

PumpFailed ==
  /\ s.lb = "open" /\ ~s.finalizing
  /\ Become(IF s.muted THEN quietTeardown(s) ELSE fail(s))

\* What the user says while muted, and what was said before it, is not read.
ASRVoiced ==
  /\ s.lb = "open" /\ ~s.muted /\ s.n < MaxChunks
  /\ Become(onVoiced(s))

\* A partial replaces the text; a blank one is not a voice.
ASRBlank == s.lb = "open" /\ ~s.muted /\ s.text /\ Become([s EXCEPT !.text = FALSE])

\* The clean final follows the end of the input.
ASRDone ==
  /\ s.lb = "open" /\ ~s.muted /\ ~s.feed
  /\ \E some, ok \in BOOLEAN :
       (some => s.n < MaxChunks) /\ Become(finishChunk(s, some \/ s.text, ok))

ASRError ==
  /\ s.lb = "open"
  /\ Become(IF s.muted /\ ~s.finalizing THEN quietTeardown(s) ELSE fail(s))

ASRClosed ==
  /\ s.lb = "open"
  /\ \E ok \in BOOLEAN :
       Become(CASE s.finalizing -> finishChunk(s, s.text, ok)
                [] ~s.finalizing /\ s.muted -> quietTeardown(s)
                [] ~s.finalizing /\ ~s.muted /\ s.state = "listening" -> fail(s)
                [] OTHER -> teardownTurn(s))

\* The control frames.
PushStart == alive /\ "push" \in Controls /\ s.state = "idle" /\ Become(setState(s, "listening"))

PushEnd ==
  /\ alive /\ "push" \in Controls /\ s.state = "listening" /\ s.chunk /\ ~s.finalizing
  /\ Become(finalizeChunk(s))

Cancel == alive /\ "cancel" \in Controls /\ Become(abandon(s))

Stop == "stop" \in Controls /\ s.state \in {"speaking", "draining"} /\ Become(abandon(s))

\* A count below what was relayed is a gap in the middle, not the end.
onPlaybackDone(m, k) ==
  LET a == [m EXCEPT !.signaled = TRUE] IN
  IF k < m.relayed THEN m
  ELSE IF a.awaiting /\ a.floorPassed THEN endDrainWait(a) ELSE a

PlaybackDone ==
  /\ alive /\ \E k \in client.wire : /\ s' = onPlaybackDone(s, k)
                                     /\ client' = [client EXCEPT !.wire = @ \ {k}]
  /\ UNCHANGED claims

\* The client's queue drains after some of the chunks relayed so far.
ClientDrains ==
  /\ alive /\ ~s.paused
  /\ \E k \in (client.drained + 1)..s.relayed :
       client' = [drained |-> k, wire |-> client.wire \cup {k}]
  /\ UNCHANGED <<s, claims>>

Pause ==
  /\ Pauses /\ ~s.paused /\ s.first
  /\ s.state = "speaking" \/ (s.state = "draining" /\ s.awaiting)
  /\ Become([stop(s, {"playback"}) EXCEPT !.paused = TRUE])

ResumePlayback ==
  /\ s.paused
  /\ LET a == [s EXCEPT !.paused = FALSE]
     IN Become(IF a.awaiting THEN rearmPlaybackWait(a) ELSE a)

Mute ==
  /\ alive /\ Mutes /\ ~s.muted
  /\ LET a == [s EXCEPT !.muted = TRUE]
     IN Become(IF s.lb = "none" THEN a ELSE armMuteTimers(a))

Unmute ==
  /\ alive /\ s.muted
  /\ LET a == stop([s EXCEPT !.muted = FALSE], {"muteKeep", "muteTeardown"})
     IN Become(IF a.closing THEN quietTeardown(a) ELSE a)

\* The timers. One that fires is spent, whatever its handler then does.
Fires(t) == t \in s.timers
spent(t) == stop(s, {t})

onSilence ==
  /\ Fires("silence")
  /\ \/ Become(spent("silence"))
     \/ s.state = "listening" /\ s.chunk /\ ~s.finalizing /\ Become(finalizeChunk(spent("silence")))

\* The chunk is too long; short of that, onSilence may keep listening after a blip.
onMaxUtterance ==
  /\ Fires("max")
  /\ Become(IF s.state = "listening" /\ s.chunk /\ ~s.finalizing
            THEN finalizeChunk(spent("max")) ELSE spent("max"))

onGrace ==
  /\ Fires("grace")
  /\ \E more \in BOOLEAN : Become(maybeCloseWindow([spent("grace") EXCEPT !.grace = TRUE], more))

onPlaybackTimer ==
  /\ Fires("playback") /\ ~s.paused /\ (IF s.floorPassed THEN s.cl ELSE s.fl)
  /\ LET a == spent("playback") IN
     Become(CASE ~a.awaiting -> a
              [] a.awaiting /\ ~a.floorPassed -> onPlaybackFloorReached(a)
              [] OTHER -> endDrainWait(a))

onTailDone == Fires("tail") /\ Become(setState(spent("tail"), "listening"))

onFinalizeTimeout ==
  /\ Fires("finalize")
  /\ LET a == spent("finalize") IN
     \E ok \in BOOLEAN :
       Become(IF a.closing THEN quietTeardown(a)
              ELSE IF a.finalizing THEN finishChunk(a, a.text, ok) ELSE a)

onMuteTeardown ==
  /\ Fires("muteTeardown")
  /\ LET a == spent("muteTeardown") IN
     Become(IF ~a.muted \/ a.lb = "none" \/ a.finalizing \/ a.closing THEN a
            ELSE arm([stop(resetChunk(a), {"muteKeep", "silence", "max"})
                        EXCEPT !.closing = TRUE, !.feed = FALSE], "finalize"))

\* Real time passes at the client: first the floor, then the ceiling, or at once.
FloorPasses ==
  /\ s.first /\ ~s.fl /\ ~s.paused
  /\ s' = [s EXCEPT !.fl = TRUE, !.aud = FALSE]
  /\ UNCHANGED <<claims, client>>

CeilingPasses ==
  /\ s.first /\ ~s.cl /\ ~s.paused
  /\ s' = [s EXCEPT !.cl = TRUE]
  /\ UNCHANGED <<claims, client>>

(***************************************************************************)
(* The run: it publishes audio, claims its commit, ends. A full channel    *)
(* drops the event.                                                        *)
(***************************************************************************)
publish(e) == [s EXCEPT !.run.q = IF Len(@) < Queue THEN Append(@, e) ELSE @]

RunAudio ==
  /\ s.run.st = "running" /\ s.run.claim # "committing" /\ s.run.audio < MaxAudio
  /\ Become([publish("audio") EXCEPT !.run.audio = @ + 1])

RunClaims ==
  /\ s.run.st = "running" /\ s.run.claim = "running"
  /\ s' = [s EXCEPT !.run.claim = "committing"]
  /\ claims' = [c \in 1..MaxChunks |->
                 IF c \in s.pending /\ claims[c] < 2 THEN claims[c] + 1 ELSE claims[c]]
  /\ UNCHANGED client

\* Completed after its commit, an error before or after it, or cancelled.
RunEnds(status) ==
  /\ s.run.st = "running"
  /\ CASE status = "completed" -> s.run.claim = "committing"
       [] status = "canceled" -> s.run.claim = "canceled"
       [] OTHER -> TRUE
  /\ Become([publish(status) EXCEPT !.run.st = "ended", !.run.status = status, !.run.closed = TRUE])

OutsideCancel ==
  /\ Outside /\ s.run.st = "running" /\ s.run.claim = "running"
  /\ Become([s EXCEPT !.run.claim = "canceled"])

onRunEvent ==
  /\ s.run.q # <<>>
  /\ LET a == [s EXCEPT !.run.q = Tail(@)] IN
     \E more \in BOOLEAN :
       Become(IF Head(s.run.q) = "audio" THEN onRunAudio(a, more)
              ELSE handleRunTerminal(a, Head(s.run.q), more))

\* The channel's end: the run's last event has been read, or was lost.
onRunClosed ==
  /\ s.run.q = <<>> /\ s.run.closed
  /\ Become(IF s.finished THEN [s EXCEPT !.run.closed = FALSE] ELSE fail(s))

\* The session's context ends.
SessionEnds ==
  /\ alive
  /\ Become([stop(teardownTurn(detachRun(s)), Timers) EXCEPT !.state = "over"])

Loopback == Dialed \/ Refused \/ DialFailed \/ PumpFailed
ASR == ASRVoiced \/ ASRBlank \/ ASRDone \/ ASRError \/ ASRClosed
Frames == PushStart \/ PushEnd \/ Cancel \/ Stop \/ PlaybackDone \/ Pause \/ ResumePlayback
            \/ Mute \/ Unmute
TimerFires == onSilence \/ onMaxUtterance \/ onGrace \/ onPlaybackTimer \/ onTailDone
                \/ onFinalizeTimeout \/ onMuteTeardown
RunSteps == RunAudio \/ RunClaims \/ (\E st \in {"completed", "error", "canceled"} : RunEnds(st))

Next ==
  \/ OnPCM \/ Loopback \/ ASR \/ Frames \/ TimerFires
  \/ FloorPasses \/ CeilingPasses \/ ClientDrains
  \/ RunSteps \/ OutsideCancel \/ onRunEvent \/ onRunClosed \/ SessionEnds

Spec == Init /\ [][Next]_vars
-----------------------------------------------------------------------------
States == {"idle", "listening", "thinking", "speaking", "draining", "over"}

\* The machine's fields keep their types, and what the comments of voiceMachine say
\* about them: a fed loopback exists, a mute teardown implies the mute and excludes
\* finalizing, and audio is held only while the window is open.
TypeOK ==
  /\ s.state \in States /\ s.timers \subseteq Timers
  /\ s.pending \subseteq 1..MaxChunks /\ s.lb \in {"none", "opening", "open"}
  /\ s.feed => s.lb # "none"
  /\ s.closing => s.muted /\ ~s.finalizing /\ s.lb # "none"
  /\ s.buf > 0 => s.run.st # "none" /\ ~s.closed
  /\ Len(s.run.q) <= Queue

\* No chunk of speech is part of two runs that claim their commit: an utterance that
\* is extended has its first run cancelled before it could commit (tryResume and
\* claimCommit swap one word).
ClaimedOnce == \A c \in 1..MaxChunks : claims[c] <= 1

\* From the first audio of an answer on, until the drain is over or the user gives the
\* turn up, no frame of the microphone reaches the ASR and no ASR stream is open: audio
\* that arrives while the window is open is held (onRunAudio), and closing the window
\* tears the stream down before the first chunk is relayed (closeWindow).
AnswerGatesMic ==
  s.first /\ s.state \in {"thinking", "speaking", "draining"} => ~micOpen(s) /\ s.lb = "none"

\* The tail that ends a drain starts when everything relayed was played: the floor has
\* passed, and either the client has drained all of it or the ceiling has passed. A
\* playback_done for a gap between two chunks does not end the drain.
DrainEndsHonestly ==
  s.state = "draining" /\ "tail" \in s.timers =>
    ~s.first \/ (s.fl /\ (s.cl \/ client.drained = s.relayed))

\* A drain is always about to end: it is paused, or its timer is armed for the floor or
\* the ceiling, or the tail is running.
DrainHasTimer ==
  s.state = "draining" => s.paused \/ s.timers \cap {"playback", "tail"} # {}

\* A chunk that is being finalized has the timer that ends it.
FinalizingHasTimer == s.finalizing \/ s.closing => "finalize" \in s.timers

\* A turn that is answered ends: the machine leaves thinking, speaking and draining
\* again, unless the user holds a pause.
TurnOver == s.state \in {"listening", "idle", "over"} \/ s.paused

\* "A leg failure while a run is in flight (thinking) leaves no orphaned run or armed
\* timer feeding the run loop": an idle machine has neither, nor pending text.
IdleIsClean ==
  s.state = "idle" => s.run.st = "none" /\ s.pending = {} /\ "grace" \notin s.timers

\* "Once any TTS audio can play, the mic can never route it into the ASR, enforced
\* server-side regardless of client behaviour."
HalfDuplex == s.aud => ~micOpen(s)

\* "The terminal done event always precedes the close": the run's channel is never
\* found closed before the run's outcome was read.
DonePrecedesClose ==
  s.run.closed /\ s.run.q = <<>> => s.finished
=============================================================================
