----------------------------- MODULE LogStream -----------------------------
(***************************************************************************)
(* Live output of one managed process, from the agent's store to the log   *)
(* views open in the portal.  It composes LogStore (the agent) with the    *)
(* WebSocket in both directions and with the gateway's relay               *)
(* (gateway/backend/internal/gateway/runtime_logs.go): the registry of     *)
(* open views, the watch commands it sends, and the queue of each view.    *)
(*                                                                         *)
(* A viewer is one run of the handler of the log view's event stream; a    *)
(* view that is closed and opened again is another viewer.                 *)
(***************************************************************************)
EXTENDS LogStore

CONSTANTS
  Viewer,       \* the event-stream handlers
  Leaving,      \* the viewers that may go away
  Queue,        \* runtimeLogSubBuffer: batches one view may be behind
  Carry,        \* runtimeLogSubMarkerCarry: markers kept of dropped batches
  MaxPrints,    \* bound: records printed
  MaxCuts,      \* bound: connections lost
  MaxUp,        \* bound: batches in flight; a write blocks beyond it
  Racing,       \* whether a notifier may be overtaken before it sends
  Stream        \* the handler of the agent's connection, as a notifier

VARIABLES
  printed,      \* records printed so far
  store,        \* the agent's LogStore
  slot,         \* logWatchUpdates: the latest command the agent has not read
  link,         \* "up", "new" (connected, not yet restated) or "down"
  cuts,         \* connections lost so far
  wire,         \* commands sent to the agent and not received
  up,           \* batches sent to the gateway and not received
  epoch,        \* epochs[spec], 0 when there is none
  phase,        \* of each viewer: new, subscribed, open, left, gone
  sub,          \* the runtimeLogSub of each viewer
  note,         \* the command a notifier computed and has not sent yet
  view          \* what each viewer has been shown since its last reset

agentVars == <<printed, store, slot>>
linkVars == <<link, cuts, wire, up>>
gatewayVars == <<epoch, phase, sub, note, view>>
vars == <<printed, store, slot, link, cuts, wire, up, epoch, phase, sub, note, view>>

NoCommand == [watch |-> FALSE, epoch |-> 0, none |-> TRUE]
Command(watch, e) == [watch |-> watch, epoch |-> e, none |-> FALSE]

newSub == [q |-> <<>>, dropped |-> 0, carry |-> <<>>, carryGap |-> 0,
           sbStarted |-> FALSE, sbDone |-> FALSE, closed |-> FALSE]
NewView == [recs |-> <<>>, gaps |-> 0]

Subscribed == {v \in Viewer : phase[v] \in {"subscribed", "open"}}

Init == /\ printed = 0 /\ store = NewLogStore /\ slot = NoCommand
        /\ link = "up" /\ cuts = 0 /\ wire = <<>> /\ up = <<>>
        /\ epoch = 0 /\ phase = [v \in Viewer |-> "new"]
        /\ sub = [v \in Viewer |-> newSub]
        /\ note = [n \in Viewer \cup {Stream} |-> NoCommand]
        /\ view = [v \in Viewer |-> NewView]

-----------------------------------------------------------------------------
(* The gateway's registry. *)

(* A command is computed under the lock and sent outside it; when the      *)
(* notifiers do not race, each has sent before the next one computes.      *)
MayCompute == Racing \/ \A n \in DOMAIN note : note[n].none

(* notifyState: the whole watch set and its epoch, computed under the lock. *)
notifyState(watched, e) == Command(watched, IF watched THEN e ELSE 0)

(* subscribe: the view is registered, the epoch bumped, the command computed;  *)
(* it is sent in a step of its own, outside the lock.                      *)
Subscribe(v) ==
  /\ phase[v] = "new" /\ MayCompute
  /\ phase' = [phase EXCEPT ![v] = "subscribed"]
  /\ epoch' = epoch + 1
  /\ note' = [note EXCEPT ![v] = notifyState(TRUE, epoch')]
  /\ UNCHANGED <<agentVars, linkVars, sub, view>>

(* The handler ends: its client went away, or the relay told it to resync. *)
(* The epoch outlives no subscription.                                     *)
Unsubscribe(v) ==
  /\ phase[v] = "open" /\ (v \in Leaving \/ sub[v].closed) /\ MayCompute
  /\ phase' = [phase EXCEPT ![v] = "left"]
  /\ epoch' = IF Subscribed = {v} THEN 0 ELSE epoch
  /\ note' = [note EXCEPT ![v] = notifyState(Subscribed # {v}, epoch)]
  /\ UNCHANGED <<agentVars, linkVars, sub, view>>

(* NotifyRuntimeLogWatch: the command goes to every open connection. *)
Notify(n) ==
  /\ ~note[n].none
  /\ wire' = IF link = "down" THEN wire ELSE Append(wire, note[n])
  /\ note' = [note EXCEPT ![n] = NoCommand]
  /\ phase' = [v \in Viewer |-> IF v # n THEN phase[v]
                                ELSE IF phase[v] = "subscribed" THEN "open" ELSE "gone"]
  /\ UNCHANGED <<agentVars, link, cuts, up, epoch, sub, view>>

-----------------------------------------------------------------------------
(* The connection. *)

(* The tunnel drops: what is in flight in either direction is lost. *)
Disconnect ==
  /\ link = "up" /\ cuts < MaxCuts
  /\ link' = "down" /\ cuts' = cuts + 1 /\ wire' = <<>> /\ up' = <<>>
  /\ UNCHANGED <<agentVars, gatewayVars>>

(* The agent dials again and the gateway adds the connection ... *)
Reconnect ==
  /\ link = "down" /\ note[Stream].none
  /\ link' = "new"
  /\ UNCHANGED <<agentVars, cuts, wire, up, gatewayVars>>


(* ... and restates its watch set, with the epoch bumped. *)
restate ==
  /\ link = "new" /\ link' = "up" /\ MayCompute
  /\ epoch' = IF Subscribed = {} THEN epoch ELSE epoch + 1
  /\ note' = [note EXCEPT ![Stream] = notifyState(Subscribed # {}, epoch')]
  /\ UNCHANGED <<agentVars, cuts, wire, up, phase, sub, view>>

(* wakeLogWatch: the agent keeps the latest command only. *)
wakeLogWatch ==
  /\ wire # <<>>
  /\ slot' = Head(wire) /\ wire' = Tail(wire)
  /\ UNCHANGED <<printed, store, link, cuts, up, gatewayVars>>

-----------------------------------------------------------------------------
(* The agent. *)

(* A managed process prints, or starts or ends a generation. *)
Print1 ==
  /\ printed < MaxPrints
  /\ printed' = printed + 1
  /\ store' = write(store, printed')
  /\ UNCHANGED <<slot, linkVars, gatewayVars>>

SetLogWatch ==
  /\ ~slot.none
  /\ store' = SetWatch(store, slot.watch, slot.epoch)
  /\ slot' = NoCommand
  /\ UNCHANGED <<printed, linkVars, gatewayVars>>

(* flushRuntimeLogs: what is drained while the connection is down is lost. *)
flushRuntimeLogs ==
  LET d == Drain(store)
  IN /\ d.out # <<>> /\ Len(up) < MaxUp
     /\ store' = d.store
     /\ up' = IF link = "down" THEN up ELSE up \o d.out
     /\ UNCHANGED <<printed, slot, link, cuts, wire, gatewayVars>>

-----------------------------------------------------------------------------
(* The relay. *)

SelectMarkers(recs) == SelectSeq(recs, LAMBDA r : r \in Markers)

(* carryLocked: the markers of a dropped batch are kept, with the gap the  *)
(* first of them carries; a marker too many ends the view instead.         *)
carryOver(s, b) ==
  LET c == s.carry \o SelectMarkers(b.recs)
      first == b.recs # <<>> /\ Head(b.recs) \in Markers
  IN IF Len(c) <= Carry
     THEN [s EXCEPT !.carry = c, !.carryGap = @ + (IF first THEN b.dropped ELSE 0)]
     ELSE [s EXCEPT !.closed = TRUE, !.carry = <<>>, !.carryGap = 0]

(* stampedLocked: the markers carried over go first, with the gap. *)
stamped(s, b) == [reset |-> b.scrollback /\ ~s.sbStarted,
                  recs |-> s.carry \o b.recs,
                  dropped |-> b.dropped + s.dropped + s.carryGap]

accept(s, b) ==
  [s EXCEPT !.q = Append(@, stamped(s, b)),
            !.carry = <<>>, !.carryGap = 0, !.dropped = 0,
            !.sbStarted = @ \/ b.scrollback,
            !.sbDone = @ \/ (b.scrollback /\ ~b.more)]

(* Only the text of the batch counts as dropped, not a gap it reported. *)
overflow(s, b) == carryOver([s EXCEPT !.dropped = @ + Texts(b.recs)], b)


(* deliver: one batch for one view.  A replay is only for a view that has  *)
(* not had one, and only its first chunk resets the view.  A full queue    *)
(* drops the text, counts it, and carries the markers over.                *)
deliver(s, b) ==
  IF s.closed \/ (b.scrollback /\ s.sbDone) THEN s
  ELSE IF Len(s.q) < Queue THEN accept(s, b) ELSE overflow(s, b)

(* publish: a batch of the agent goes to every registered view. *)
publish ==
  /\ up # <<>> /\ up' = Tail(up)
  /\ sub' = [v \in Viewer |-> IF v \in Subscribed THEN deliver(sub[v], Head(up))
                              ELSE sub[v]]
  /\ UNCHANGED <<agentVars, link, cuts, wire, epoch, phase, note, view>>

(* The handler takes a batch and writes it; take adds the gap of the       *)
(* batches dropped since.  A batch with reset replaces what was shown.     *)
Read(v) ==
  LET b == Head(sub[v].q)
      old == IF b.reset THEN NewView ELSE view[v]
  IN /\ phase[v] = "open" /\ sub[v].q # <<>>
     /\ sub' = [sub EXCEPT ![v].q = Tail(@), ![v].dropped = 0]
     /\ view' = [view EXCEPT ![v] = [recs |-> old.recs \o b.recs,
                                     gaps |-> old.gaps + b.dropped + sub[v].dropped]]
     /\ UNCHANGED <<agentVars, linkVars, epoch, phase, note>>

Next == \/ Print1 \/ SetLogWatch \/ flushRuntimeLogs
        \/ Disconnect \/ Reconnect \/ restate \/ wakeLogWatch \/ publish
        \/ \E v \in Viewer : Subscribe(v) \/ Unsubscribe(v) \/ Read(v)
        \/ \E n \in Viewer \cup {Stream} : Notify(n)

Spec == Init /\ [][Next]_vars

-----------------------------------------------------------------------------
IsRecs(q) == Len(q) <= MaxPrints /\ \A i \in DOMAIN q : q[i] \in 1..printed

(* Every field has its type, and a queue is within its capacity. *)
TypeOK ==
  /\ printed \in 0..MaxPrints /\ link \in {"up", "new", "down"} /\ cuts \in 0..MaxCuts
  /\ IsRecs(store.log) /\ Len(store.log) <= Retained
  /\ IsRecs(store.pending) /\ IsRecs(store.replay) /\ store.due \in Due /\ store.watching \in BOOLEAN
  /\ phase \in [Viewer -> {"new", "subscribed", "open", "left", "gone"}]
  /\ \A v \in Viewer : Len(sub[v].q) <= Queue /\ Len(sub[v].carry) <= Carry
  /\ Len(up) <= MaxUp

Range(s) == {s[i] : i \in DOMAIN s}

(* Nothing is on its way between the process and the view of v. *)
Settled(v) ==
  /\ phase[v] = "open" /\ sub[v].q = <<>> /\ ~sub[v].closed
  /\ link = "up" /\ up = <<>> /\ wire = <<>> /\ slot.none
  /\ \A n \in DOMAIN note : note[n].none
  /\ ~store.ready /\ store.due = "no"
  /\ store.pending = <<>> /\ store.pendingDropped = 0

Missing(v) == {r \in 1..printed : IsText(r) /\ r \notin Range(view[v].recs)}

(* NO SILENT GAP.  Text a viewer was not shown is text it was told it      *)
(* misses: the queues of the agent, of the relay and of the history all    *)
(* count what they drop, and the counts arrive (withDropped, stampedLocked, *)
(* take).  A gap may be overstated: the count of a cut reaches every view. *)
NoSilentGap ==
  \A v \in Viewer : Settled(v) /\ sub[v].sbDone =>
     Cardinality(Missing(v)) <= view[v].gaps + sub[v].dropped + sub[v].carryGap

(* IN ORDER, ONCE.  Since its last reset a view shows the text in the      *)
(* order it was printed and none of it twice: the snapshot and the cut of  *)
(* the live queue are one step, and live output waits behind a replay      *)
(* (startReplayLocked, Drain, and the routing in deliver).                 *)
InOrder ==
  \A v \in Viewer : LET t == SelectSeq(view[v].recs, IsText)
                     IN \A i, j \in DOMAIN t : i < j => t[i] < t[j]

(* MARKERS ARRIVE.  A generation boundary the agent still retains has been *)
(* shown to every settled view or is carried for it; a view that cannot    *)
(* have it is ended and resynced (queueLocked, carryLocked).               *)
MarkersArrive ==
  \A v \in Viewer : Settled(v) /\ sub[v].sbDone =>
     \A i \in DOMAIN store.log : store.log[i] \in Markers =>
        store.log[i] \in Range(view[v].recs) \cup Range(sub[v].carry)

(* THE AGENT FOLLOWS THE VIEWS.  With no command on its way, the agent     *)
(* streams exactly when somebody watches.                                  *)
WatchFollowsViews ==
  link = "up" /\ wire = <<>> /\ slot.none /\ (\A n \in DOMAIN note : note[n].none)
    => (store.watching <=> Subscribed # {})

(* A HISTORY FOR EVERY VIEWER.  A settled view has had its history: the    *)
(* epoch tells the agent of an arrival that leaves the watch set as it is. *)
HistoryDelivered == \A v \in Viewer : Settled(v) => sub[v].sbDone

(* EVERY VIEWER GETS ITS HISTORY, whatever connections are lost on the     *)
(* way, unless it leaves or is told to resync.                             *)
HasHistory ==
  \A v \in Viewer : phase[v] # "new" =>
    sub[v].sbDone \/ sub[v].closed \/ phase[v] \in {"left", "gone"}

(* THE STREAM STOPS.  When the last view is gone the agent stops streaming *)
(* for good, also when the command to stop is lost with its connection.    *)
IsQuiet == (\A v \in Viewer : phase[v] \in {"left", "gone"}) => ~store.watching
=============================================================================
