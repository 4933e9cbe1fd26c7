----------------------------- MODULE MCRequests -----------------------------
(***************************************************************************)
(* The path of a request: the gateway's admission queue and its scale-up,  *)
(* the agent's TLS proxy and its router.  They share no state, so a        *)
(* behaviour moves one of them, `moving', while the others stay in an      *)
(* initial state.                                                          *)
(***************************************************************************)
EXTENDS Integers, Sequences, FiniteSets

CONSTANT NoSignal

VARIABLES
  moving,
  kind, reading, pushes, at, addr, seen, child, leases, status, inband, client,
  items, queue, signal, req,
  up, rows, held, holdOffs, scaling, followUps, pass, unseen, manual, alive,
  conf, served, etag, desired, running, states, proxy, holder, taken, closed

routerVars == <<kind, reading, pushes, at, addr, seen, child, leases, status, inband, client>>
queueVars == <<items, queue, signal, req>>
scalerVars == <<up, rows, held, holdOffs, scaling, followUps, pass, unseen, manual, alive>>
proxyVars == <<conf, served, etag, desired, running, states, proxy, holder, taken, closed>>
vars == <<moving, routerVars, queueVars, scalerVars, proxyVars>>

\* One request of any kind the router serves: requests meet only in the document.
Router == INSTANCE Router WITH Request <- {"r1"}, MaxPushes <- 3

\* Two servers with one slot each, of which r3 and r4 can use both.
Queue == INSTANCE AdmissionQueue WITH
  Request <- {"r1", "r2", "r3", "r4"}, Server <- {"s1", "s2"}, Nil <- "none",
  Cap <- [s1 |-> 1, s2 |-> 1],
  Watch <- [r1 |-> {"s1"}, r2 |-> {"s2"}, r3 |-> {"s1", "s2"}, r4 |-> {"s1", "s2"}],
  Bounded <- {"r3"}, MaxDepth <- 2

\* One host and one signal: the scale-up against a manual start, and two manual starts
\* of the only instance.
Claims == INSTANCE InstanceScaler WITH
  Host <- {"h1"}, Signal <- {[ids |-> {}, on |-> {"h1"}, flavor |-> "chat"]},
  Flavor <- {"chat"}, Manual <- {"m1"}, MaxInstances <- 2, Stoppable <- {},
  NoHost <- "none"

Rivals == INSTANCE InstanceScaler WITH
  Host <- {"h1"}, Signal <- {[ids |-> {}, on |-> {"h1"}, flavor |-> "chat"]},
  Flavor <- {"chat"}, Manual <- {"m1", "m2"}, MaxInstances <- 1, Stoppable <- {},
  NoHost <- "none"

\* Two hosts: an unpinned signal, one limited to a mapping and one pinned to a server.
ThreeSignals ==
  { [ids |-> {}, on |-> {"h1", "h2"}, flavor |-> "chat"],
    [ids |-> {"h2"}, on |-> {"h1", "h2"}, flavor |-> "chat"],
    [ids |-> {}, on |-> {"h1"}, flavor |-> "chat"] }

Signals == INSTANCE InstanceScaler WITH
  Host <- {"h1", "h2"}, Signal <- ThreeSignals,
  Flavor <- {"chat"}, Manual <- {}, MaxInstances <- 2, Stoppable <- {},
  NoHost <- "none"

\* Route sets that add, change, break and withdraw the route of one port.
Want == {"u1", "u2", "bad", "none"}
Route(u, mode) == [local |-> [p \in {"p1"} |-> u], override |-> mode]

Proxy == INSTANCE ProxyManager WITH
  Port <- {"p1"}, Upstream <- {"u1", "u2"}, BadUpstream <- "bad", Addr <- {"a1"},
  NoSAN <- "nosan", NoLeaf <- "noleaf", NoRoute <- "none", NoTag <- <<>>,
  Docs <- [{"p1"} -> Want],
  Confs <- {Route("none", FALSE), Route("u2", TRUE)}, MaxGen <- 2

\* "answered" and "silent" move the queue, with providers that do and do not answer.
Init ==
  /\ moving \in {"router", "answered", "silent", "claims", "rivals", "signals", "proxy"}
  /\ Router!Init /\ Queue!Init /\ Proxy!Init
  /\ \/ moving = "claims" /\ Claims!Init
     \/ moving = "rivals" /\ Rivals!Init
     \/ moving \notin {"claims", "rivals"} /\ Signals!Init
  /\ moving # "router" => kind["r1"] = "plain" /\ reading = "literal"
  /\ moving # "proxy" => /\ conf = Route("none", FALSE) /\ served["p1"] = "none"
                         /\ holder = "noleaf"

Next ==
  /\ UNCHANGED moving
  /\ \/ /\ moving = "router" /\ Router!Next
        /\ UNCHANGED <<queueVars, scalerVars, proxyVars>>
     \/ /\ moving \in {"answered", "silent"} /\ Queue!Next
        /\ UNCHANGED <<routerVars, scalerVars, proxyVars>>
     \/ /\ moving = "claims" /\ Claims!Next
        /\ UNCHANGED <<routerVars, queueVars, proxyVars>>
     \/ /\ moving = "rivals" /\ Rivals!Next
        /\ UNCHANGED <<routerVars, queueVars, proxyVars>>
     \/ /\ moving = "signals" /\ Signals!Next
        /\ UNCHANGED <<routerVars, queueVars, proxyVars>>
     \/ /\ moving = "proxy" /\ Proxy!Next
        /\ UNCHANGED <<routerVars, queueVars, scalerVars>>

\* A child may never answer and a start may take forever, but every wait of a handler
\* of the router ends once its client has left.  Goroutines of the gateway are scheduled,
\* their timers fire, and every wait of a start has a bound.  A closed listener ends its
\* Serve, and a shutdown is bounded by its grace.
Fairness ==
  /\ WF_routerVars(moving = "router" /\ ~client["r1"] /\ Router!Step("r1"))
  /\ \A r \in {"r1", "r2", "r3", "r4"} :
       /\ WF_queueVars(moving \in {"answered", "silent"} /\ Queue!Progress(r))
       /\ WF_queueVars(moving = "answered" /\ Queue!Remove(r))
  /\ WF_queueVars(moving \in {"answered", "silent"} /\ Queue!Deadline("r3"))
  /\ WF_scalerVars(moving = "claims" /\ Claims!ScalerStep)
  /\ \A c \in {<<"h1", 1>>, <<"h2", 1>>} :
       WF_scalerVars(moving \in {"claims", "signals"} /\ Signals!UnseenReleased(c))
  /\ WF_scalerVars(moving = "claims" /\ Claims!ManualStep("m1"))
  /\ \A m \in {"m1", "m2"} : WF_scalerVars(moving = "rivals" /\ Rivals!ManualStep(m))
  /\ WF_scalerVars(moving = "signals" /\ Signals!ScalerStep)
  /\ \A g \in Proxy!Gen :
       /\ WF_proxyVars(moving = "proxy" /\ Proxy!Goroutine("p1", g))
       /\ WF_proxyVars(moving = "proxy" /\ Proxy!ServeReturns("p1", g) /\ ~proxy["p1"][g].open)

Spec == Init /\ [][Next]_vars /\ Fairness

(***************************************************************************)
(* What is checked of them together.                                       *)
(***************************************************************************)
\* Router.addressMoved: a request that reaches a child carries the name that child
\* knows, unless two pushes moved the name away and back between its readings.  The
\* router's deferred releases return one lease each, and none before the child is done;
\* a handler that returns has answered a client that is still there, once.
ServedOnce ==
  moving = "router" => /\ Router!TypeOK /\ Router!NameFitsChild
                       /\ Router!LeaseWhileServed /\ Router!AnsweredOnce

\* admissionQueue: a queued waiter has no signal pending, and one taken off has its own.
QueueMatchesSignals ==
  moving \in {"answered", "silent"} => Queue!TypeOK /\ Queue!QueueMatchesSignals

\* instanceClaims: the scale-up, its kept claims and the manual starts never ask for one
\* index at the same time, no way a start ends leaves its index claimed, and signals
\* queue only behind a running scale-up, at most one per key.
OneClaimant ==
  /\ moving = "claims" => Claims!TypeOK /\ Claims!OneClaimant
  /\ moving = "rivals" => Rivals!TypeOK /\ Rivals!OneClaimant
  /\ moving = "signals" => Signals!TypeOK /\ Signals!QueueIsBounded

\* proxy.Manager: only current generations hold a port, each has its goroutine, and what
\* Status reports of a wanted route is so.
ListenersAccounted ==
  moving = "proxy" => Proxy!TypeOK /\ Proxy!ListenersAccounted /\ Proxy!StatusTruthful

\* What no step may take back: a status line that was written (heartbeatWait), a signal
\* that was queued and not passed (followUp), and a listener whose predecessor on the
\* port ends late (retireServeGeneration).
NothingTakenBack ==
  Router!StatusIsFinal /\ Signals!FollowUpIsPassed /\ Proxy!RunningIsKept

\* admissionQueue: when running requests end, each request is served or refused in the
\* end, whichever release races an enqueue or reaches a waiter that just timed out; and
\* a deadline bounds the wait as a whole, although every re-check parks anew and no
\* running request ever ends.
EventuallyDecided ==
  /\ \A r \in {"r1", "r2", "r3", "r4"} : <>[](moving = "answered" => Queue!Decided(r))
  /\ <>[](moving = "silent" => ~Queue!Waiting("r3"))

\* Every wait ends: an abandoned request returns its lease (spliceWithCancel), a queued
\* one is decided, a claim is released and a signal has its pass (instance_scaler.go),
\* and Close of the proxy comes back.
RequestsEnd ==
  /\ Router!EventuallyReleased
  /\ EventuallyDecided
  /\ Signals!ClaimsReturn
  /\ Signals!EventuallyPassed
  /\ Proxy!CloseReturns
=============================================================================
