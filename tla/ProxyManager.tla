---------------------------- MODULE ProxyManager ----------------------------
(***************************************************************************)
(* The agent's TLS proxy (server-agent/internal/proxy): the manager that   *)
(* reconciles one listener per route, the goroutines that serve and drain  *)
(* the listeners, and the driver that fetches the routes from the gateway. *)
(*                                                                         *)
(* A proxy of a port is named by a generation: a listener stopped or       *)
(* replaced leaves goroutines behind that end later, when its successor    *)
(* may already serve.  A leaf stands for the bind host its SAN gives.      *)
(* The manager's mutex makes Apply, ReloadCert, Close and a generation's   *)
(* retirement single steps.                                                *)
(***************************************************************************)
EXTENDS Integers, FiniteSets

CONSTANTS
  Port,
  Upstream,    \* upstream URLs with a scheme and a host
  BadUpstream, \* one without
  Addr,        \* the bind hosts leaves name
  NoSAN,       \* the bind host of a leaf without a usable SAN
  NoLeaf, NoRoute, NoTag,
  Docs,        \* the route sets the gateway may serve: [Port -> Want]
  Confs,       \* the operator's routes and whether they override the gateway's
  MaxGen       \* generations of one port alive at a time (bound)

Want == Upstream \cup {BadUpstream, NoRoute}
Leaf == Addr \cup {NoSAN}
Gen == 1 .. MaxGen

VARIABLES
  conf,     \* cert_proxy_routes and its mode, fixed for the process
  served,   \* the routes the gateway serves now
  etag,     \* the validator of the last 200 answer: the routes it named
  desired,
  running,  \* the current generation of each port, 0 for none
  states,   \* the last observed state of each port, "" for none
  proxy,    \* the generations
  holder,   \* the leaf in memory
  taken,    \* the ports other programs hold
  closed

vars == <<conf, served, etag, desired, running, states, proxy, holder, taken, closed>>

RouteState == {"", "pending_leaf", "invalid_upstream", "pending_bind_host", "bind_failed", "active"}
Proxy == [up : Upstream \cup {NoRoute}, host : Addr \cup {NoSAN},
          open : BOOLEAN,      \* the listener holds its port
          accepting : BOOLEAN, \* Serve has not returned
          serving : BOOLEAN,   \* the serve goroutine runs
          draining : BOOLEAN]  \* the shutdown goroutine runs
Unused == [up |-> NoRoute, host |-> NoSAN, open |-> FALSE, accepting |-> FALSE,
           serving |-> FALSE, draining |-> FALSE]

TypeOK ==
  /\ conf \in Confs
  /\ served \in Docs
  /\ etag \in Docs \cup {NoTag}
  /\ desired \in [Port -> Want]
  /\ running \in [Port -> Gen \cup {0}]
  /\ states \in [Port -> RouteState]
  /\ proxy \in [Port -> [Gen -> Proxy]]
  /\ holder \in Leaf \cup {NoLeaf}
  /\ taken \subseteq Port
  /\ closed \in BOOLEAN

Init ==
  /\ conf \in Confs
  /\ served \in Docs
  /\ etag = NoTag
  /\ desired = [p \in Port |-> NoRoute]
  /\ running = [p \in Port |-> 0]
  /\ states = [p \in Port |-> ""]
  /\ proxy = [p \in Port |-> [g \in Gen |-> Unused]]
  /\ holder \in Leaf \cup {NoLeaf}
  /\ taken = {}
  /\ closed = FALSE

(***************************************************************************)
(* Reconciliation                                                          *)
(***************************************************************************)

Current(p) == proxy[p][running[p]]

\* The proxies reconcileLocked leaves alone.
kept(p, want) == running[p] # 0 /\ want[p] = Current(p).up

\* Where startProxyLocked ends for a wanted port.
startState(p, want, leaf) ==
  CASE leaf = NoLeaf -> "pending_leaf"
    [] want[p] = BadUpstream -> "invalid_upstream"
    [] leaf = NoSAN -> "pending_bind_host"
    [] p \in taken -> "bind_failed"
    [] OTHER -> "active"

starts(p, want, leaf) ==
  ~ kept(p, want) /\ want[p] # NoRoute /\ startState(p, want, leaf) = "active"

freeGens(p) == {g \in Gen : ~ proxy[p][g].serving /\ ~ proxy[p][g].draining}
newGen(p) == CHOOSE g \in freeGens(p) : TRUE

\* Mutant: the listener is closed only when the drain is over.
stopProxyLater(x) == [x EXCEPT !.draining = TRUE]

stopProxy(x) == [x EXCEPT !.open = FALSE, !.draining = TRUE]
\* A generation is stopped, started or left as it is.
proxyAfter(p, g, want, leaf) ==
  IF running[p] = g /\ ~ kept(p, want) THEN stopProxy(proxy[p][g])
  ELSE IF starts(p, want, leaf) /\ g = newGen(p)
       THEN [up |-> want[p], host |-> leaf, open |-> TRUE, accepting |-> TRUE,
             serving |-> TRUE, draining |-> FALSE]
       ELSE proxy[p][g]

\* A state is rewritten by a start, dropped with a stopped proxy, and stays
\* with a port that was neither running nor is wanted.
stateAfter(p, want, leaf) ==
  IF kept(p, want) THEN states[p]
  ELSE IF want[p] # NoRoute THEN startState(p, want, leaf)
  ELSE IF running[p] # 0 THEN "" ELSE states[p]

\* reconcileLocked, with the leaf in memory or, for want of one, what the
\* certificate directory gives.
reconcileLocked(want, inMemory, onDisk) ==
  LET leaf == IF inMemory = NoLeaf THEN onDisk ELSE inMemory
  IN IF closed
     THEN holder' = inMemory /\ UNCHANGED <<running, states, proxy>>
     ELSE /\ \A p \in Port : starts(p, want, leaf) => freeGens(p) # {}
          /\ holder' = leaf
          /\ running' = [p \in Port |-> IF kept(p, want) THEN running[p]
                                        ELSE IF starts(p, want, leaf) THEN newGen(p) ELSE 0]
          /\ states' = [p \in Port |-> stateAfter(p, want, leaf)]
          /\ proxy' = [p \in Port |-> [g \in Gen |-> proxyAfter(p, g, want, leaf)]]

(***************************************************************************)
(* The driver's two hooks                                                  *)
(***************************************************************************)

\* The gateway wins on a shared port unless the mode is override.
ResolveRoutes(doc) ==
  [p \in Port |-> IF doc[p] # NoRoute /\ (~ conf.override \/ conf.local[p] = NoRoute)
                  THEN doc[p] ELSE conf.local[p]]

\* SyncRoutes: a 200 is applied; a 304 (served = etag) or a failed fetch
\* changes nothing.
Apply(want) ==
  /\ desired' = want
  /\ \E onDisk \in Leaf \cup {NoLeaf} : reconcileLocked(want, holder, onDisk)

SyncRoutes ==
  /\ served # etag
  /\ etag' = served
  /\ Apply(ResolveRoutes(served))
  /\ UNCHANGED <<conf, served, taken, closed>>

\* An install put a new pair on disk; a pair that does not load (NoLeaf)
\* leaves the leaf in memory.
ReloadCert(leaf) ==
  /\ reconcileLocked(desired, IF leaf = NoLeaf THEN holder ELSE leaf, leaf)
  /\ UNCHANGED <<conf, served, etag, desired, taken, closed>>

Close ==
  /\ ~ closed
  /\ closed' = TRUE
  /\ desired' = [p \in Port |-> NoRoute]
  /\ running' = [p \in Port |-> 0]
  /\ proxy' = [p \in Port |-> [g \in Gen |->
                 IF running[p] = g THEN stopProxy(proxy[p][g]) ELSE proxy[p][g]]]
  /\ UNCHANGED <<conf, served, etag, states, holder, taken>>

(***************************************************************************)
(* The goroutines of a generation                                          *)
(***************************************************************************)

\* Serve returns: its listener was closed, or accepting failed for good.
ServeReturns(p, g) ==
  /\ proxy[p][g].accepting
  /\ proxy' = [proxy EXCEPT ![p][g].accepting = FALSE]
  /\ UNCHANGED <<conf, served, etag, desired, running, states, holder, taken, closed>>

\* retireServeGeneration: a superseded generation changes nothing.
superseded(p, g) == running[p] # g

\* Mutant: the generation that ends is taken for the current one of its port.
retireByPort(p, g) ==
  IF running[p] = 0
  THEN /\ proxy' = [proxy EXCEPT ![p][g].serving = FALSE]
       /\ UNCHANGED <<running, states>>
  ELSE /\ proxy' = [proxy EXCEPT ![p][g].serving = FALSE, ![p][running[p]].open = FALSE]
       /\ running' = [running EXCEPT ![p] = 0]
       /\ states' = [states EXCEPT ![p] = ""]

retireServeGeneration(p, g) ==
  IF superseded(p, g)
  THEN /\ proxy' = [proxy EXCEPT ![p][g].serving = FALSE]
       /\ UNCHANGED <<running, states>>
  ELSE /\ proxy' = [proxy EXCEPT ![p][g].serving = FALSE, ![p][g].open = FALSE]
       /\ running' = [running EXCEPT ![p] = 0]
       /\ states' = [states EXCEPT ![p] = ""]

ServeEnds(p, g) ==
  /\ proxy[p][g].serving
  /\ ~ proxy[p][g].accepting
  /\ retireServeGeneration(p, g)
  /\ UNCHANGED <<conf, served, etag, desired, holder, taken, closed>>

\* Shutdown returns: the connections are done or the grace is over.
drained(p, g) == proxy' = [proxy EXCEPT ![p][g].draining = FALSE]
DrainEnds(p, g) ==
  /\ proxy[p][g].draining
  /\ drained(p, g)
  /\ UNCHANGED <<conf, served, etag, desired, running, states, holder, taken, closed>>

(***************************************************************************)
(* The gateway and the host                                                *)
(***************************************************************************)

RoutesChange(doc) ==
  /\ doc # served
  /\ served' = doc
  /\ UNCHANGED <<conf, etag, desired, running, states, proxy, holder, taken, closed>>

\* Another program takes a free port, or gives it back.
PortTaken(p) ==
  /\ \A g \in Gen : ~ proxy[p][g].open
  /\ taken' = IF p \in taken THEN taken \ {p} ELSE taken \cup {p}
  /\ UNCHANGED <<conf, served, etag, desired, running, states, proxy, holder, closed>>

Goroutine(p, g) == ServeEnds(p, g) \/ DrainEnds(p, g)

Next ==
  \/ SyncRoutes
  \/ \E leaf \in Leaf \cup {NoLeaf} : ReloadCert(leaf)
  \/ Close
  \/ \E p \in Port, g \in Gen : ServeReturns(p, g) \/ Goroutine(p, g)
  \/ \E doc \in Docs : RoutesChange(doc)
  \/ \E p \in Port : PortTaken(p)

Spec == Init /\ [][Next]_vars

(***************************************************************************)
(* Properties                                                              *)
(***************************************************************************)

\* The ports in use are the current generations': a stopped generation holds
\* no port even while it drains, and a current one has a serve goroutine to
\* retire it.
ListenersAccounted ==
  \A p \in Port : \A g \in Gen :
    /\ proxy[p][g].open <=> running[p] = g
    /\ running[p] = g => proxy[p][g].serving

\* What Status reports for a wanted route is so: active exactly with a
\* current generation of the wanted upstream, pending for a leaf or for a
\* bind host only while the leaf in memory lacks it, invalid only for such an
\* upstream.
StatusTruthful ==
  ~ closed =>
    \A p \in Port : desired[p] # NoRoute =>
      /\ states[p] = "active" <=> running[p] # 0
      /\ running[p] # 0 => Current(p).up = desired[p]
      /\ states[p] = "pending_leaf" => holder = NoLeaf
      /\ states[p] = "pending_bind_host" => holder = NoSAN
      /\ states[p] = "invalid_upstream" => desired[p] = BadUpstream

\* A current generation goes only when its route was withdrawn or changed,
\* the manager was closed, or its own Serve returned: the late exit of a
\* generation it replaced never takes it down.
RunningIsKept ==
  [][\A p \in Port : running[p] # 0 /\ running'[p] # running[p] =>
       \/ desired'[p] # Current(p).up
       \/ ~ Current(p).accepting]_vars

\* Close comes back: every goroutine of every generation ends.
CloseReturns ==
  <>[](closed => \A p \in Port, g \in Gen : ~proxy[p][g].serving /\ ~proxy[p][g].draining)

\* SyncRoutes on a 304: "unchanged since the last apply; nothing to
\* reconcile".  Nothing is: every wanted route that can start is running.
NothingToReconcile ==
  ~ closed /\ served = etag =>
    \A p \in Port : ~ starts(p, desired, holder)

\* bindHost: the proxy binds exactly the address the certificate is issued
\* for.
BoundToLeaf == \A p \in Port : running[p] # 0 => Current(p).host = holder
=============================================================================
