------------------------------ MODULE Doorbell ------------------------------
(***************************************************************************)
(* What a coalescing trigger promises: rings may be merged, none is lost.  *)
(* A ring carries the latest desired value, `want'.  Runs do not overlap,  *)
(* every ring is followed by the start of a run, and when no run is owed   *)
(* the last one that started had the value of the last ring.               *)
(*                                                                         *)
(* ConfigPath shows that the gateway's push worker                         *)
(* (gateway/runtime_config_push.go) and the agent's sync trigger           *)
(* (agent/agent.go, triggerRuntimeSync) both keep this promise.            *)
(***************************************************************************)
CONSTANT Value

VARIABLES
  want,  \* the value of the last ring
  got,   \* the value the last run started with
  owed,  \* a run is to start
  busy,  \* a run is going on
  life   \* which process this is: it changes at a restart and only there

vars == <<want, got, owed, busy, life>>

TypeOK ==
  /\ want \in Value
  /\ got \in Value
  /\ owed \in BOOLEAN
  /\ busy \in BOOLEAN

Init ==
  /\ want \in Value
  /\ got = want
  /\ owed \in BOOLEAN
  /\ busy = FALSE

Ring ==
  /\ want' \in Value
  /\ owed' = TRUE
  /\ UNCHANGED <<got, busy, life>>

\* A run may be owed once more than needed; it is not owed once less.
Begin ==
  /\ owed
  /\ ~busy
  /\ busy' = TRUE
  /\ got' \in Value
  /\ owed' \in BOOLEAN
  /\ ~owed' => got' = want
  /\ UNCHANGED <<want, life>>

End ==
  /\ busy
  /\ busy' = FALSE
  /\ UNCHANGED <<want, got, owed, life>>

\* The process dies and its successor owes a run: a run may be lost, a ring is not.
Restart ==
  /\ life' # life
  /\ owed' = TRUE
  /\ busy' = FALSE
  /\ want' \in Value
  /\ got' \in Value

Next == Ring \/ Begin \/ End \/ Restart

\* What a step may do, whatever is fair.
Safety == Init /\ [][Next]_vars

Spec == Safety /\ WF_vars(Begin) /\ WF_vars(End)

(***************************************************************************)
(* What callers rely on.                                                   *)
(***************************************************************************)
\* Nothing owed: the last run started with what the last ring asked for.
UpToDate == ~owed => got = want
=============================================================================
