------------------------------ MODULE LogStore ------------------------------
(***************************************************************************)
(* The agent's store of managed-process output, for one spec               *)
(* (server-agent/internal/runtime/logs.go): the retained history, the live *)
(* queue that exists only while the spec is watched, and the replay of the *)
(* history that an arriving viewer is owed.                                *)
(*                                                                         *)
(* The n-th record a process prints is the number n; records in Markers    *)
(* are generation boundaries (started, exited), all others are one unit of *)
(* text.  The operators take a store and return the store after the call.  *)
(***************************************************************************)
EXTENDS Naturals, Sequences, FiniteSets

CONSTANTS
  Markers,      \* the record numbers that are markers
  Retained,     \* perSpec: how many records the history holds
  Pending,      \* logPendingBytes: where the live queue starts dropping text
  ChunkSize     \* maxLogBatchBytes: how many records one batch carries

IsText(r) == r \notin Markers

Texts(recs) == Len(SelectSeq(recs, IsText))

(* A LogBatch; dropped is the DroppedBytes of its first entry. *)
Batch(scrollback, more, recs, dropped) ==
  [scrollback |-> scrollback, more |-> more, recs |-> recs, dropped |-> dropped]

(* scrollbackDue is a map to whether someone was already watching. *)
Due == {"no", "first", "again"}

NewLogStore ==
  [log |-> <<>>, dropped |-> 0, watching |-> FALSE, epoch |-> 0,
   pending |-> <<>>, pendingDropped |-> 0, due |-> "no",
   replay |-> <<>>, replayDropped |-> 0, ready |-> FALSE]

forgetStream(s) ==
  [s EXCEPT !.epoch = 0, !.pending = <<>>, !.pendingDropped = 0, !.due = "no",
            !.replay = <<>>, !.replayDropped = 0, !.ready = FALSE]

(* A history over its capacity loses its oldest record; only text counts. *)
trim(s) ==
  IF Len(s.log) <= Retained THEN s
  ELSE [s EXCEPT !.log = Tail(@),
                 !.dropped = @ + (IF IsText(Head(s.log)) THEN 1 ELSE 0)]

append(s, r) == trim([s EXCEPT !.log = Append(@, r)])

(* A full live queue drops text and counts it; it never drops a marker. *)
queue(s, r) ==
  IF ~s.watching THEN s
  ELSE IF IsText(r) /\ Len(s.pending) >= Pending
       THEN [s EXCEPT !.pendingDropped = @ + 1]
       ELSE [s EXCEPT !.pending = Append(@, r)]

(* write and mark: the record enters the history and the live queue. *)
write(s, r) == queue(append(s, r), r)

(* SetWatch for one spec: it left the set, or its epoch is not the one the *)
(* last snapshot was taken for, or nothing changes.                        *)
SetWatch(s, watch, epoch) ==
  IF ~watch
  THEN [(IF s.watching THEN forgetStream(s) ELSE s) EXCEPT !.watching = FALSE]
  ELSE IF s.watching /\ s.epoch = epoch THEN s
       ELSE [s EXCEPT !.epoch = epoch, !.replay = <<>>, !.replayDropped = 0,
                      !.ready = FALSE,
                      !.due = IF s.watching THEN "again" ELSE "first",
                      !.watching = TRUE]

(* takeChunk: what one batch carries, and what stays behind. *)
chunk(recs) == IF Len(recs) <= ChunkSize THEN recs ELSE SubSeq(recs, 1, ChunkSize)
rest(recs) == IF Len(recs) <= ChunkSize THEN <<>>
               ELSE SubSeq(recs, ChunkSize + 1, Len(recs))

(* The snapshot of startReplay, which also cuts the live queue. *)
snapshot(s) ==
  [s EXCEPT !.due = "no", !.replay = s.log, !.replayDropped = s.dropped,
            !.ready = TRUE, !.pending = <<>>, !.pendingDropped = 0]

(* The cut that startReplay sends to the viewers already watching; what    *)
(* does not fit one batch becomes a counted gap.                           *)
SendsCut(s) == s.due = "again" /\ (s.pending # <<>> \/ s.pendingDropped > 0)

afterReplayChunk(s) ==
  [s EXCEPT !.replayDropped = 0, !.replay = rest(@), !.ready = rest(s.replay) # <<>>]

afterLive(s) == [s EXCEPT !.pending = rest(@), !.pendingDropped = 0]

Result(s, out) == [store |-> s, out |-> out]

replayChunk(s) ==
  Result(afterReplayChunk(s),
         <<Batch(TRUE, rest(s.replay) # <<>>, chunk(s.replay), s.replayDropped)>>)

live(s) ==
  IF s.pending = <<>> /\ s.pendingDropped = 0 THEN Result(s, <<>>)
  ELSE Result(afterLive(s), <<Batch(FALSE, FALSE, chunk(s.pending), s.pendingDropped)>>)

(* Drain: one batch at most for the spec, a cut before the replay, the     *)
(* replay before anything newer.                                           *)
Drain(s) ==
  IF ~s.watching THEN Result(s, <<>>)
  ELSE IF SendsCut(s)
       THEN Result([snapshot(s) EXCEPT !.pendingDropped = Texts(rest(s.pending))],
                   <<Batch(FALSE, FALSE, chunk(s.pending), s.pendingDropped)>>)
       ELSE IF s.due # "no" THEN replayChunk(snapshot(s))
            ELSE IF s.ready THEN replayChunk(s) ELSE live(s)

=============================================================================
