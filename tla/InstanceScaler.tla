--------------------------- MODULE InstanceScaler ---------------------------
(***************************************************************************)
(* The gateway's scale-up of one model (gateway/instance_scaler.go), the   *)
(* portal's manual starts (runtime_actions.go) and the set of claimed      *)
(* instance indexes the two share (instance_claims.go).                    *)
(*                                                                         *)
(* A demand signal starts a scale-up in the background unless the model    *)
(* has one; then it is folded into it or queued.  A pass of the scale-up   *)
(* picks a host and an index from the agents' last status, claims the      *)
(* index, asks the agent, and waits until the status shows the instance.   *)
(* A manual start reads the status, claims an index and asks the agent.    *)
(*                                                                         *)
(* The agents are external: `up' is what an agent runs, `rows' what its    *)
(* last telemetry sample said.  A host is one spec on one server.  The     *)
(* states are those the gateway tells apart: "stopping" stands for every   *)
(* state that keeps its index without serving, "off" also for a failure at *)
(* rest, whose index is free again.                                        *)
(***************************************************************************)
EXTENDS Integers, Sequences, FiniteSets
LOCAL INSTANCE SequencesExt

CONSTANTS
  Host,          \* scaleKey: the hosts that may run the model
  Signal,        \* the demand signals, one per signalKey
  Flavor,        \* the API flavors of the signals
  Manual,        \* the manual starts
  MaxInstances,  \* the spec's max_instances
  Stoppable,     \* the hosts whose agents stop instances again
  NoSignal, NoHost

Index == 0 .. MaxInstances - 1

VARIABLES
  up,         \* the instances each agent runs
  rows,       \* the latest status sample of each agent
  held,       \* the claimed indexes
  holdOffs,   \* the hosts left alone (notBefore in the future)
  scaling,    \* the signal the running pass is for, NoSignal: none runs
  followUps,  \* the signals queued meanwhile
  pass,       \* where the scale-up is
  unseen,     \* the claims keepUnseenClaim holds
  manual,     \* the manual starts
  alive       \* the server is not shutting down

agents == <<up, rows>>
vars == <<up, rows, held, holdOffs, scaling, followUps, pass, unseen, manual, alive>>

RowState == {"off", "starting", "running", "stopping"}
Claim == Host \X Index
Nowhere == <<NoHost, 0>>
Idle == [pc |-> "idle", asked |-> {}, c |-> Nowhere, started |-> NoHost]
Pass == [pc : {"idle", "pick", "claim", "ensure", "see", "next"},
         asked : SUBSET Host, c : Claim \cup {Nowhere}, started : Host \cup {NoHost}]
Start == [pc : {"new", "claim", "ensure", "see", "done"}, c : Claim \cup {Nowhere},
          taken : SUBSET Index]
Finished == [pc |-> "done", c |-> Nowhere, taken |-> {}]

TypeOK ==
  /\ up \in [Host -> [Index -> RowState]]
  /\ rows \in [Host -> [Index -> RowState]]
  /\ held \subseteq Claim
  /\ holdOffs \subseteq Host
  /\ scaling \in Signal \cup {NoSignal}
  /\ followUps \in Seq(Signal)
  /\ pass \in Pass
  /\ unseen \subseteq Claim
  /\ manual \in [Manual -> Start]
  /\ alive \in BOOLEAN

AllOff == [h \in Host |-> [k \in Index |-> "off"]]

Init ==
  /\ up = AllOff
  /\ rows = AllOff
  /\ held = {}
  /\ holdOffs = {}
  /\ scaling = NoSignal
  /\ followUps = <<>>
  /\ pass = Idle
  /\ unseen = {}
  /\ manual = [m \in Manual |-> [Finished EXCEPT !.pc = "new"]]
  /\ alive = TRUE

(***************************************************************************)
(* What the status says                                                    *)
(***************************************************************************)

\* view.Running and view.Present: only instances beyond the first.
Running(h) == {k \in Index \ {0} : rows[h][k] = "running"}
Present(h) == {k \in Index \ {0} : rows[h][k] \in {"running", "starting"}}

\* The indexes the agent reports in a state that keeps them.
Reported(h) == {k \in Index \ {0} : rows[h][k] # "off"}
Starting(h) == \E k \in Index : rows[h][k] = "starting"

heldBy(h) == {k \in Index : <<h, k>> \in held}

(***************************************************************************)
(* Signals                                                                 *)
(***************************************************************************)

\* The hosts a signal could use.
HostsOf(d) == (IF d.ids = {} THEN Host ELSE d.ids) \cap d.on

signalServedBy(d, host, flavor) ==
  /\ host # NoHost
  /\ host \in d.on
  /\ IF d.ids = {} THEN d.flavor = flavor ELSE host \in d.ids

\* A signal finds no scale-up and starts one, is folded into one of its own
\* key, is already queued, or is queued.
signalled(d) ==
  IF scaling = NoSignal
  THEN /\ scaling' = d
       /\ pass' = [Idle EXCEPT !.pc = "pick"]
       /\ UNCHANGED followUps
  ELSE /\ followUps' = IF d = scaling \/ Contains(followUps, d)
                       THEN followUps ELSE Append(followUps, d)
       /\ UNCHANGED <<scaling, pass>>

SignalArrives(d) ==
  /\ alive
  /\ signalled(d)
  /\ UNCHANGED <<agents, held, holdOffs, unseen, manual, alive>>

(***************************************************************************)
(* The scale-up                                                            *)
(***************************************************************************)

\* The lowest index that is neither reported nor claimed, when there is one
\* below the ceiling.
free(h) == {k \in Index \ {0} : k \notin Reported(h) \cup Present(h) \cup heldBy(h)}
lowest(S) == CHOOSE k \in S : \A j \in S : k <= j

atInstanceCeiling(h) == 1 + Cardinality(Present(h)) >= MaxInstances

candidate(h) ==
  /\ ~ atInstanceCeiling(h)
  /\ h \notin holdOffs
  /\ ~ Starting(h)
  /\ free(h) # {}

\* scaleUp's loop: the best scored candidate not asked yet, or the end of the
\* pass.  Scores are the resolver's: any order of the hosts is possible.
Pick ==
  /\ pass.pc = "pick"
  /\ \/ \E h \in HostsOf(scaling) \ pass.asked :
          /\ alive
          /\ candidate(h)
          /\ pass' = [pass EXCEPT !.pc = "claim", !.c = <<h, lowest(free(h))>>]
     \/ /\ ~ alive \/ \A h \in HostsOf(scaling) \ pass.asked : ~ candidate(h)
        /\ pass' = [pass EXCEPT !.pc = "next", !.c = Nowhere]
  /\ UNCHANGED <<agents, held, holdOffs, scaling, followUps, unseen, manual, alive>>

\* Mutant: claims without looking whether another start holds the index.
tryClaimLate ==
  /\ pass' = [pass EXCEPT !.pc = "ensure"]
  /\ held' = held \cup {pass.c}

\* start claims the picked index; one claimed meanwhile is startLost, and the
\* host is picked afresh.
tryClaim ==
  IF pass.c \in held
  THEN pass' = [pass EXCEPT !.pc = "pick"] /\ UNCHANGED held
  ELSE pass' = [pass EXCEPT !.pc = "ensure"] /\ held' = held \cup {pass.c}

ScalerClaims ==
  /\ pass.pc = "claim"
  /\ tryClaim
  /\ UNCHANGED <<agents, holdOffs, scaling, followUps, unseen, manual, alive>>

Runs(c) == up[c[1]][c[2]] = "running"

EnsureSucceeds ==
  /\ pass.pc = "ensure"
  /\ Runs(pass.c)
  /\ pass' = [pass EXCEPT !.pc = "see"]
  /\ UNCHANGED <<agents, held, holdOffs, scaling, followUps, unseen, manual, alive>>

\* A refusal, a failure, the ensure's timeout or the shutdown: the claim is
\* released, the host left alone (not for the shutdown) and not asked again.
EnsureFails ==
  /\ pass.pc = "ensure"
  /\ held' = held \ {pass.c}
  /\ holdOffs' = IF alive THEN holdOffs \cup {pass.c[1]} ELSE holdOffs
  /\ pass' = [pass EXCEPT !.pc = "pick", !.asked = @ \cup {pass.c[1]}]
  /\ UNCHANGED <<agents, scaling, followUps, unseen, manual, alive>>

\* awaitRoutable ends: routing sees the instance, the wait ran out (the host
\* is left alone and the claim kept on), or the shutdown.
startedAs(c) == pass' = [pass EXCEPT !.pc = "next", !.started = c[1], !.c = Nowhere]

Seen ==
  /\ pass.pc = "see"
  /\ ~ alive \/ pass.c[2] \in Running(pass.c[1])
  /\ held' = held \ {pass.c}
  /\ startedAs(pass.c)
  /\ UNCHANGED <<agents, holdOffs, scaling, followUps, unseen, manual, alive>>

keepUnseenClaim(c) == unseen' = unseen \cup {c}

NotSeen ==
  /\ pass.pc = "see"
  /\ alive
  /\ pass.c[2] \notin Running(pass.c[1])
  /\ holdOffs' = holdOffs \cup {pass.c[1]}
  /\ keepUnseenClaim(pass.c)
  /\ startedAs(pass.c)
  /\ UNCHANGED <<agents, held, scaling, followUps, manual, alive>>

\* The goroutine of keepUnseenClaim ends, at the sight of the instance, its
\* bound or the shutdown, and releases the claim.
UnseenReleased(c) ==
  /\ c \in unseen
  /\ unseen' = unseen \ {c}
  /\ held' = held \ {c}
  /\ UNCHANGED <<agents, holdOffs, scaling, followUps, pass, manual, alive>>

\* The first queued signal the pass did not serve gets the next pass; with
\* none left, or in a shutdown, the scale-up ends.
unserved(q) == SelectSeq(q, LAMBDA d : ~ signalServedBy(d, pass.started, scaling.flavor))
firstUnserved(q) ==
  LET u == unserved(q)
      i == CHOOSE j \in DOMAIN q : q[j] = Head(u)
  IN SubSeq(q, i, Len(q))

followUp ==
  IF alive /\ unserved(followUps) # <<>>
  THEN LET q == firstUnserved(followUps)
       IN /\ scaling' = Head(q)
          /\ followUps' = Tail(q)
          /\ pass' = [Idle EXCEPT !.pc = "pick"]
  ELSE /\ scaling' = NoSignal
       /\ followUps' = <<>>
       /\ pass' = Idle

FollowUp ==
  /\ pass.pc = "next"
  /\ followUp
  /\ UNCHANGED <<agents, held, holdOffs, unseen, manual, alive>>

\* notBefore passes.
HoldOffEnds(h) ==
  /\ h \in holdOffs
  /\ holdOffs' = holdOffs \ {h}
  /\ UNCHANGED <<agents, held, scaling, followUps, pass, unseen, manual, alive>>

(***************************************************************************)
(* Manual starts                                                           *)
(***************************************************************************)

\* claimStartInstance reads the indexes the status shows, the first one while
\* it runs or starts.
ManualReads(m, h) ==
  /\ alive
  /\ manual[m].pc = "new"
  /\ manual' = [manual EXCEPT ![m] =
       [pc |-> "claim", c |-> <<h, 0>>,
        taken |-> Reported(h) \cup {k \in {0} : rows[h][0] \in {"running", "starting"}}]]
  /\ UNCHANGED <<agents, held, holdOffs, scaling, followUps, pass, unseen, alive>>

\* Then claimLowest: the lowest index below the limit that was not taken and
\* is not claimed, or runtime.max_instances_reached.
claimable(h, taken) == Index \ (taken \cup heldBy(h))

ManualClaims(m) ==
  /\ manual[m].pc = "claim"
  /\ LET h == manual[m].c[1]
         S == claimable(h, manual[m].taken)
         c == <<h, lowest(S)>>
     IN IF S = {}
        THEN /\ manual' = [manual EXCEPT ![m] = Finished]
             /\ UNCHANGED held
        ELSE /\ held' = held \cup {c}
             /\ manual' = [manual EXCEPT ![m] = [pc |-> "ensure", c |-> c, taken |-> {}]]
  /\ UNCHANGED <<agents, holdOffs, scaling, followUps, pass, unseen, alive>>

ManualSucceeds(m) ==
  /\ manual[m].pc = "ensure"
  /\ Runs(manual[m].c)
  /\ manual' = [manual EXCEPT ![m].pc = "see"]
  /\ UNCHANGED <<agents, held, holdOffs, scaling, followUps, pass, unseen, alive>>

\* The ensure fails, or awaitInstanceReported ends: by the sight of the
\* instance, its bound or the shutdown.
ManualEnds(m) ==
  /\ manual[m].pc \in {"ensure", "see"}
  /\ held' = held \ {manual[m].c}
  /\ manual' = [manual EXCEPT ![m] = Finished]
  /\ UNCHANGED <<agents, holdOffs, scaling, followUps, pass, unseen, alive>>

ManualAgain(m) ==
  /\ manual[m].pc = "done"
  /\ manual' = [manual EXCEPT ![m].pc = "new"]
  /\ UNCHANGED <<agents, held, holdOffs, scaling, followUps, pass, unseen, alive>>

(***************************************************************************)
(* The agents and the server's lifetime                                    *)
(***************************************************************************)

\* The asks under way.
Asks == {c \in Claim : \/ pass.pc = "ensure" /\ pass.c = c
                       \/ \E m \in Manual : manual[m].pc = "ensure" /\ manual[m].c = c}

becomes(h, k, s) == up' = [up EXCEPT ![h][k] = s]

AgentStep(h, k) ==
  /\ \/ up[h][k] = "off" /\ <<h, k>> \in Asks /\ becomes(h, k, "starting")
     \/ up[h][k] = "starting" /\ becomes(h, k, "running")
     \/ up[h][k] = "starting" /\ becomes(h, k, "off")
     \/ up[h][k] = "running" /\ h \in Stoppable /\ becomes(h, k, "stopping")
     \/ up[h][k] = "stopping" /\ becomes(h, k, "off")
  /\ UNCHANGED <<rows, held, holdOffs, scaling, followUps, pass, unseen, manual, alive>>

\* A telemetry sample replaces the status whole.
Report(h) ==
  /\ rows[h] # up[h]
  /\ rows' = [rows EXCEPT ![h] = up[h]]
  /\ UNCHANGED <<up, held, holdOffs, scaling, followUps, pass, unseen, manual, alive>>

Shutdown ==
  /\ alive
  /\ alive' = FALSE
  /\ UNCHANGED <<agents, held, holdOffs, scaling, followUps, pass, unseen, manual>>

ScalerStep == Pick \/ ScalerClaims \/ EnsureSucceeds \/ EnsureFails \/ Seen \/ NotSeen \/ FollowUp
ManualStep(m) == ManualClaims(m) \/ ManualSucceeds(m) \/ ManualEnds(m)

Next ==
  \/ \E d \in Signal : SignalArrives(d)
  \/ ScalerStep
  \/ \E c \in Claim : UnseenReleased(c)
  \/ \E h \in Host : HoldOffEnds(h) \/ Report(h)
  \/ \E m \in Manual : ManualStep(m) \/ ManualAgain(m)
  \/ \E m \in Manual, h \in Host : ManualReads(m, h)
  \/ \E h \in Host, k \in Index : AgentStep(h, k)
  \/ Shutdown

Spec == Init /\ [][Next]_vars

(***************************************************************************)
(* Properties                                                              *)
(***************************************************************************)

\* The claims of the asks, the waits and the keepers.
ScalerClaim == IF pass.pc \in {"ensure", "see"} THEN {pass.c} ELSE {}
ManualClaim(m) == IF manual[m].pc \in {"ensure", "see"} THEN {manual[m].c} ELSE {}

\* The claim set holds exactly the claims of the starts under way, and no
\* index is claimed by two of them: the scale-up, its kept claims and the
\* manual starts never ask an agent for one index at the same time, and no
\* way a start can end leaves its index claimed.
OneClaimant ==
  /\ held = ScalerClaim \cup unseen \cup UNION {ManualClaim(m) : m \in Manual}
  /\ ScalerClaim \cap unseen = {}
  /\ \A m \in Manual :
       /\ ManualClaim(m) \cap (ScalerClaim \cup unseen) = {}
       /\ \A n \in Manual \ {m} : ManualClaim(m) \cap ManualClaim(n) = {}

\* Signals are queued only behind a running scale-up, at most one per key and
\* never for the key of the running pass: none waits for a pass that nobody
\* will run.
QueueIsBounded ==
  /\ followUps # <<>> => scaling # NoSignal
  /\ IsInjective(followUps)
  /\ ~ Contains(followUps, scaling)
  /\ (scaling = NoSignal) <=> (pass.pc = "idle")

\* A signal leaves the queue only for a pass of its own, or because an
\* instance that serves it was started, or with the server's shutdown.
FollowUpIsPassed ==
  [][\A d \in Signal :
       Contains(followUps, d) /\ ~Contains(followUps', d) =>
         \/ scaling' = d
         \/ signalServedBy(d, pass.started, scaling.flavor)
         \/ ~alive']_vars

\* No signal waits for its pass forever.
EventuallyPassed == \A d \in Signal : []<>~Contains(followUps, d)

\* Every claim is released in the end, also by a shutdown: no index is lost
\* to a start that came to nothing.
ClaimsReturn == \A c \in Claim : []<>(c \notin held)

\* An instance gets an index the agent does not report in a state that keeps
\* it: no start claims an index whose instance the status shows.
ClaimsWhatIsFree ==
  [][\A c \in held' \ held : c[2] \notin Reported(c[1])]_vars
=============================================================================
