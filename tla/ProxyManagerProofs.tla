------------------------- MODULE ProxyManagerProofs --------------------------
(***************************************************************************)
(* The TLS proxy's listeners, for every number of ports, upstreams and     *)
(* generations and every set of route documents.                           *)
(*                                                                         *)
(* The properties are not inductive by themselves: that a kept proxy is    *)
(* reported active rests on every current generation serving the upstream  *)
(* that is desired now, whether or not its port is asked about, and that   *)
(* no generation starts after Close on there being none then.              *)
(***************************************************************************)
EXTENDS ProxyManager, TLAPS

\* What the parameters stand for: the placeholders are no upstreams, and the documents
\* and the operator's routes name an upstream or none for each port.
Parameters ==
  /\ MaxGen \in Nat
  /\ BadUpstream \notin Upstream /\ NoRoute \notin Upstream /\ BadUpstream # NoRoute
  /\ NoLeaf \notin Leaf
  /\ Docs \subseteq [Port -> Want]
  /\ \A c \in Confs : c.local \in [Port -> Want]

\* A current generation serves what is desired of its port, and shows.
CurrentFits ==
  \A p \in Port : running[p] # 0 =>
    /\ ~closed
    /\ Current(p).up \in Upstream
    /\ Current(p).up = desired[p]
    /\ states[p] = "active"

PInv == TypeOK /\ ListenersAccounted /\ CurrentFits /\ StatusTruthful

\* The step of RunningIsKept.
Keeps ==
  \A p \in Port : running[p] # 0 /\ running'[p] # running[p] =>
       \/ desired'[p] # Current(p).up
       \/ ~ Current(p).accepting

\* A generation that is free when a port starts is found.
LEMMA NewGen ==
  ASSUME NEW p \in Port, freeGens(p) # {}
  PROVE  newGen(p) \in freeGens(p) /\ newGen(p) \in Gen
<1>1. newGen(p) \in freeGens(p) BY Zenon DEF newGen
<1> QED BY <1>1 DEF freeGens

\* The current generation of a port after reconciling.
After(p, want, leaf) == IF kept(p, want) THEN running[p]
                        ELSE IF starts(p, want, leaf) THEN newGen(p) ELSE 0

\* What reconciling does to one generation.
LEMMA ReconcileProxy ==
  ASSUME Parameters, PInv, NEW want \in [Port -> Want], NEW leaf \in Leaf \cup {NoLeaf},
         NEW p \in Port, starts(p, want, leaf) => freeGens(p) # {}
  PROVE  /\ After(p, want, leaf) \in Gen \cup {0}
         /\ \A g \in Gen :
              /\ proxyAfter(p, g, want, leaf) \in Proxy
              /\ proxyAfter(p, g, want, leaf).open <=> After(p, want, leaf) = g
              /\ After(p, want, leaf) = g => /\ proxyAfter(p, g, want, leaf).serving
                                             /\ proxyAfter(p, g, want, leaf).up = want[p]
                                             /\ want[p] \in Upstream
<1> DEFINE r == IF kept(p, want) THEN running[p]
                ELSE IF starts(p, want, leaf) THEN newGen(p) ELSE 0
           old(g) == proxy[p][g]
           new(g) == proxyAfter(p, g, want, leaf)
<1>0. /\ running[p] \in Gen \cup {0} /\ 0 \notin Gen /\ want[p] \in Want
      /\ \A g \in Gen : old(g) \in Proxy
  BY DEF PInv, TypeOK, Gen, Parameters
<1>1. \A g \in Gen : (old(g).open <=> running[p] = g) /\ (running[p] = g => old(g).serving)
  BY DEF PInv, ListenersAccounted
<1>2. starts(p, want, leaf) => /\ newGen(p) \in Gen /\ newGen(p) # running[p]
                               /\ ~kept(p, want)
                               /\ want[p] \in Upstream /\ leaf \in Addr
  <2>1. starts(p, want, leaf) => newGen(p) \in Gen /\ newGen(p) \in freeGens(p)
    BY NewGen
  <2>2. starts(p, want, leaf) => ~kept(p, want) /\ want[p] \in Upstream /\ leaf \in Addr
    BY <1>0 DEF starts, startState, Want, Leaf
  <2> QED BY <1>1, <2>1, <2>2 DEF freeGens
<1>3. r \in Gen \cup {0} BY <1>0, <1>2
<1>4. ASSUME NEW g \in Gen
      PROVE  /\ new(g) \in Proxy
             /\ new(g).open <=> r = g
             /\ r = g => new(g).serving /\ new(g).up = want[p] /\ want[p] \in Upstream
  <2>1. CASE running[p] = g /\ ~kept(p, want)
    <3>1. new(g) = [old(g) EXCEPT !.open = FALSE, !.draining = TRUE]
      BY <2>1 DEF proxyAfter, stopProxy
    <3>2. new(g) \in Proxy /\ new(g).open = FALSE BY <1>0, <3>1, Zenon DEF Proxy
    <3>3. r # g BY <1>0, <1>2, <2>1
    <3> QED BY <3>2, <3>3
  <2>2. CASE ~(running[p] = g /\ ~kept(p, want)) /\ starts(p, want, leaf) /\ g = newGen(p)
    <3> DEFINE x == [up |-> want[p], host |-> leaf, open |-> TRUE, accepting |-> TRUE,
                     serving |-> TRUE, draining |-> FALSE]
    <3>1. new(g) = x BY <2>2, Zenon DEF proxyAfter
    <3>2. want[p] \in Upstream /\ leaf \in Addr /\ r = g BY <1>2, <2>2
    <3>3. x \in Proxy BY <3>2, Zenon DEF Proxy
    <3>4. x.open = TRUE /\ x.serving = TRUE /\ x.up = want[p] BY Zenon
    <3> QED BY <3>1, <3>2, <3>3, <3>4
  <2>3. CASE ~(running[p] = g /\ ~kept(p, want)) /\ ~(starts(p, want, leaf) /\ g = newGen(p))
    <3>1. new(g) = old(g) BY <2>3, Zenon DEF proxyAfter
    <3>2. r = g <=> running[p] = g BY <1>0, <2>3
    <3>3. r = g => kept(p, want) BY <2>3, <3>2
    <3>4. r = g => old(g).up = want[p] /\ want[p] \in Upstream
      BY <1>0, <3>2, <3>3 DEF kept, Current, PInv, CurrentFits
    <3> QED BY <1>0, <1>1, <3>1, <3>2, <3>4
  <2> QED BY <2>1, <2>2, <2>3
<1> QED BY <1>3, <1>4, Zenon DEF After

\* Reconciling keeps the invariant, with the routes that are desired now.
LEMMA Reconciled ==
  ASSUME Parameters, PInv, NEW want \in [Port -> Want], desired' = want,
         NEW inMemory \in Leaf \cup {NoLeaf}, NEW onDisk \in Leaf \cup {NoLeaf},
         reconcileLocked(want, inMemory, onDisk), closed' = closed, taken' = taken,
         conf' = conf, served' \in Docs, etag' \in Docs \cup {NoTag}
  PROVE  PInv' /\ Keeps
<1>0. TypeOK BY DEF PInv
<1>9. PICK leaf \in Leaf \cup {NoLeaf} : leaf = IF inMemory = NoLeaf THEN onDisk ELSE inMemory
  OBVIOUS
<1>1. CASE closed
  <2>1. holder' = inMemory /\ UNCHANGED <<running, states, proxy>>
    BY <1>1 DEF reconcileLocked
  <2>2. \A p \in Port : running[p] = 0 BY <1>1 DEF PInv, CurrentFits
  <2>3. TypeOK' BY <1>0, <2>1 DEF TypeOK
  <2>4. ListenersAccounted' BY <2>1 DEF PInv, ListenersAccounted
  <2>5. CurrentFits' /\ StatusTruthful' BY <1>1, <2>1, <2>2 DEF CurrentFits, StatusTruthful
  <2> QED BY <2>1, <2>3, <2>4, <2>5 DEF PInv, Keeps
<1>2. CASE ~closed
  <2> DEFINE r(p) == IF kept(p, want) THEN running[p]
                     ELSE IF starts(p, want, leaf) THEN newGen(p) ELSE 0
             new(p, g) == proxyAfter(p, g, want, leaf)
  <2>1. /\ \A p \in Port : starts(p, want, leaf) => freeGens(p) # {}
        /\ holder' = leaf
        /\ running' = [p \in Port |-> r(p)]
        /\ states' = [p \in Port |-> stateAfter(p, want, leaf)]
        /\ proxy' = [p \in Port |-> [g \in Gen |-> new(p, g)]]
    BY <1>2, <1>9, Zenon DEF reconcileLocked
  <2>0. \A p \in Port : r(p) = After(p, want, leaf) BY Zenon DEF After
  <2>2. \A p \in Port :
          /\ r(p) \in Gen \cup {0}
          /\ \A g \in Gen : /\ new(p, g) \in Proxy
                            /\ new(p, g).open <=> r(p) = g
                            /\ r(p) = g => /\ new(p, g).serving /\ new(p, g).up = want[p]
                                           /\ want[p] \in Upstream
    <3> SUFFICES ASSUME NEW p \in Port
                 PROVE  /\ r(p) \in Gen \cup {0}
                        /\ \A g \in Gen :
                             /\ new(p, g) \in Proxy
                             /\ new(p, g).open <=> r(p) = g
                             /\ r(p) = g => /\ new(p, g).serving /\ new(p, g).up = want[p]
                                            /\ want[p] \in Upstream
      OBVIOUS
    <3>1. starts(p, want, leaf) => freeGens(p) # {} BY <2>1
    <3>2. /\ After(p, want, leaf) \in Gen \cup {0}
          /\ \A g \in Gen :
               /\ new(p, g) \in Proxy
               /\ new(p, g).open <=> After(p, want, leaf) = g
               /\ After(p, want, leaf) = g => /\ new(p, g).serving
                                              /\ new(p, g).up = want[p]
                                              /\ want[p] \in Upstream
      BY <3>1, ReconcileProxy, ZenonT(30)
    <3> HIDE DEF r, new
    <3> QED BY <2>0, <3>2, Zenon
  <2>3. \A p \in Port : kept(p, want) => r(p) = running[p] /\ running[p] # 0
    BY DEF kept
  <2>4. \A p \in Port : ~kept(p, want) => (r(p) # 0 <=> starts(p, want, leaf))
    <3> SUFFICES ASSUME NEW p \in Port, ~kept(p, want)
                 PROVE  r(p) # 0 <=> starts(p, want, leaf)
      OBVIOUS
    <3>1. starts(p, want, leaf) => r(p) \in Gen BY <2>1, NewGen
    <3>2. 0 \notin Gen BY DEF Gen
    <3> QED BY <3>1, <3>2
  <2>5. \A p \in Port : stateAfter(p, want, leaf) \in RouteState
    BY <1>0 DEF stateAfter, startState, RouteState, TypeOK
  <2> HIDE DEF r, new
  <2>6. /\ \A p \in Port : running'[p] = r(p) /\ states'[p] = stateAfter(p, want, leaf)
        /\ \A p \in Port : \A g \in Gen : proxy'[p][g] = new(p, g)
    BY <2>1
  <2>7. TypeOK'
    <3>1. running' \in [Port -> Gen \cup {0}] BY <2>1, <2>2
    <3>2. states' \in [Port -> RouteState] BY <2>1, <2>5
    <3>3. proxy' \in [Port -> [Gen -> Proxy]] BY <2>1, <2>2
    <3> QED BY <1>0, <2>1, <3>1, <3>2, <3>3 DEF TypeOK
  <2>8. ListenersAccounted' BY <2>2, <2>6 DEF ListenersAccounted
  <2>9. \A p \in Port : running'[p] # 0 =>
          /\ Current(p)' = new(p, r(p)) /\ r(p) \in Gen
          /\ new(p, r(p)).up = want[p] /\ want[p] \in Upstream
    BY <2>2, <2>6 DEF Current
  <2>10. \A p \in Port : /\ kept(p, want) => states'[p] = "active"
                         /\ ~kept(p, want) /\ want[p] # NoRoute =>
                              states'[p] = startState(p, want, leaf)
    BY <2>3, <2>6 DEF stateAfter, PInv, CurrentFits
  <2>11. \A p \in Port : want[p] # NoRoute => (states'[p] = "active" <=> running'[p] # 0)
    <3> SUFFICES ASSUME NEW p \in Port, want[p] # NoRoute
                 PROVE  states'[p] = "active" <=> running'[p] # 0
      OBVIOUS
    <3>1. CASE kept(p, want) BY <2>3, <2>6, <2>10, <3>1
    <3>2. CASE ~kept(p, want) BY <2>4, <2>6, <2>10, <3>2 DEF starts
    <3> QED BY <3>1, <3>2
  <2>12. CurrentFits'
    <3> SUFFICES ASSUME NEW p \in Port, running'[p] # 0
                 PROVE  /\ ~closed' /\ Current(p)'.up \in Upstream
                        /\ Current(p)'.up = desired'[p] /\ states'[p] = "active"
      BY DEF CurrentFits
    <3>1. want[p] # NoRoute BY <2>9 DEF Parameters
    <3> QED BY <1>2, <2>9, <2>11, <3>1
  <2>13. StatusTruthful'
    <3> SUFFICES ASSUME NEW p \in Port, want[p] # NoRoute
                 PROVE  /\ states'[p] = "active" <=> running'[p] # 0
                        /\ running'[p] # 0 => Current(p)'.up = want[p]
                        /\ states'[p] = "pending_leaf" => holder' = NoLeaf
                        /\ states'[p] = "pending_bind_host" => holder' = NoSAN
                        /\ states'[p] = "invalid_upstream" => want[p] = BadUpstream
      BY DEF StatusTruthful
    <3>1. /\ states'[p] = "pending_leaf" => holder' = NoLeaf
          /\ states'[p] = "pending_bind_host" => holder' = NoSAN
          /\ states'[p] = "invalid_upstream" => want[p] = BadUpstream
      BY <2>1, <2>10 DEF startState
    <3> QED BY <2>9, <2>11, <3>1
  <2>14. Keeps
    <3> SUFFICES ASSUME NEW p \in Port, running[p] # 0, running'[p] # running[p]
                 PROVE  want[p] # Current(p).up
      BY DEF Keeps
    <3> QED BY <2>3, <2>6 DEF kept
  <2> QED BY <2>7, <2>8, <2>12, <2>13, <2>14 DEF PInv
<1> QED BY <1>1, <1>2

LEMMA SyncRoutesKeeps ==
  ASSUME Parameters, PInv, SyncRoutes
  PROVE  PInv' /\ Keeps
<1> DEFINE want == ResolveRoutes(served)
<1>1. PICK onDisk \in Leaf \cup {NoLeaf} :
        /\ desired' = want /\ reconcileLocked(want, holder, onDisk)
        /\ etag' = served /\ UNCHANGED <<conf, served, taken, closed>>
  BY Zenon DEF SyncRoutes, Apply
<1>2. /\ conf \in Confs /\ served \in Docs /\ holder \in Leaf \cup {NoLeaf} BY DEF PInv, TypeOK
<1>3. want \in [Port -> Want] BY <1>2 DEF ResolveRoutes, Parameters
<1> HIDE DEF want
<1>4. served' \in Docs /\ etag' \in Docs \cup {NoTag} BY <1>1, <1>2
<1> QED BY <1>1, <1>2, <1>3, <1>4, Reconciled

LEMMA ReloadCertKeeps ==
  ASSUME Parameters, PInv, NEW leaf \in Leaf \cup {NoLeaf}, ReloadCert(leaf)
  PROVE  PInv' /\ Keeps
<1> DEFINE inMemory == IF leaf = NoLeaf THEN holder ELSE leaf
<1>1. /\ reconcileLocked(desired, inMemory, leaf)
      /\ UNCHANGED <<conf, served, etag, desired, taken, closed>>
  BY DEF ReloadCert
<1>2. /\ desired \in [Port -> Want] /\ inMemory \in Leaf \cup {NoLeaf}
      /\ served \in Docs /\ etag \in Docs \cup {NoTag}
  BY DEF PInv, TypeOK
<1> HIDE DEF inMemory
<1>3. served' \in Docs /\ etag' \in Docs \cup {NoTag} BY <1>1, <1>2
<1> QED BY <1>1, <1>2, <1>3, Reconciled

LEMMA CloseKeeps ==
  ASSUME Parameters, PInv, Close
  PROVE  PInv' /\ Keeps
<1> DEFINE new(p, g) == IF running[p] = g THEN stopProxy(proxy[p][g]) ELSE proxy[p][g]
<1>0. /\ closed' = TRUE /\ desired' = [p \in Port |-> NoRoute] /\ running' = [p \in Port |-> 0]
      /\ proxy' = [p \in Port |-> [g \in Gen |-> new(p, g)]]
      /\ UNCHANGED <<conf, served, etag, states, holder, taken>>
  BY DEF Close
<1>1. TypeOK BY DEF PInv
<1>2. \A p \in Port, g \in Gen : new(p, g) \in Proxy /\ new(p, g).open = FALSE
  <2> SUFFICES ASSUME NEW p \in Port, NEW g \in Gen
               PROVE  new(p, g) \in Proxy /\ new(p, g).open = FALSE
    OBVIOUS
  <2>1. proxy[p][g] \in Proxy /\ proxy[p][g].open \in BOOLEAN BY <1>1 DEF TypeOK, Proxy
  <2>2. CASE running[p] = g
    <3>1. new(p, g) = [proxy[p][g] EXCEPT !.open = FALSE, !.draining = TRUE]
      BY <2>2 DEF stopProxy
    <3> HIDE DEF new
    <3> QED BY <2>1, <3>1, Zenon DEF Proxy
  <2>3. CASE running[p] # g BY <2>1, <2>3 DEF PInv, ListenersAccounted
  <2> QED BY <2>2, <2>3
<1> HIDE DEF new
<1>3. 0 \notin Gen /\ NoRoute \in Want BY DEF Gen, Want
<1>4. TypeOK'
  <2>1. desired' \in [Port -> Want] /\ running' \in [Port -> Gen \cup {0}] BY <1>0, <1>3
  <2>2. proxy' \in [Port -> [Gen -> Proxy]] BY <1>0, <1>2
  <2> QED BY <1>0, <1>1, <2>1, <2>2 DEF TypeOK
<1>5. ListenersAccounted' BY <1>0, <1>2, <1>3 DEF ListenersAccounted
<1>6. CurrentFits' /\ StatusTruthful' BY <1>0 DEF CurrentFits, StatusTruthful
<1>7. Keeps BY <1>0 DEF Keeps, PInv, CurrentFits, Parameters
<1> QED BY <1>4, <1>5, <1>6, <1>7 DEF PInv

\* One generation's flags change; it stays open and up to its upstream.
LEMMA FlagKeeps ==
  ASSUME PInv, NEW p \in Port, NEW g \in Gen, NEW x \in Proxy,
         proxy' = [proxy EXCEPT ![p][g] = x],
         x.open = proxy[p][g].open, x.up = proxy[p][g].up,
         x.serving = proxy[p][g].serving \/ running[p] # g,
         UNCHANGED <<conf, served, etag, desired, running, states, holder, taken, closed>>
  PROVE  PInv' /\ Keeps
<1>0. TypeOK /\ proxy \in [Port -> [Gen -> Proxy]] BY DEF PInv, TypeOK
<1>1. /\ proxy' \in [Port -> [Gen -> Proxy]]
      /\ \A q \in Port : \A f \in Gen :
           proxy'[q][f] = IF q = p /\ f = g THEN x ELSE proxy[q][f]
  BY <1>0
<1>2. TypeOK' BY <1>0, <1>1 DEF TypeOK
<1>3. ListenersAccounted' BY <1>1 DEF PInv, ListenersAccounted
<1>4. \A q \in Port : running[q] # 0 => Current(q)'.up = Current(q).up
  BY <1>0, <1>1 DEF TypeOK, Current
<1>5. CurrentFits' BY <1>4 DEF PInv, CurrentFits
<1>6. StatusTruthful' BY <1>4 DEF PInv, StatusTruthful
<1> QED BY <1>2, <1>3, <1>5, <1>6 DEF PInv, Keeps

LEMMA GoroutineKeeps ==
  ASSUME PInv, NEW p \in Port, NEW g \in Gen, ServeReturns(p, g) \/ Goroutine(p, g)
  PROVE  PInv' /\ Keeps
<1> DEFINE y == proxy[p][g]
<1>0. /\ TypeOK /\ proxy \in [Port -> [Gen -> Proxy]] /\ y \in Proxy
      /\ proxy[p] \in [Gen -> Proxy]
  BY DEF PInv, TypeOK
<1>1. CASE ServeReturns(p, g)
  <2> DEFINE x == [y EXCEPT !.accepting = FALSE]
  <2>1. proxy' = [proxy EXCEPT ![p][g] = x] BY <1>0, <1>1 DEF ServeReturns
  <2>2. x \in Proxy /\ x.open = y.open /\ x.up = y.up /\ x.serving = y.serving
    BY <1>0, Zenon DEF Proxy
  <2> HIDE DEF x
  <2>3. UNCHANGED <<conf, served, etag, desired, running, states, holder, taken, closed>>
    BY <1>1 DEF ServeReturns
  <2> QED BY <2>1, <2>2, <2>3, FlagKeeps, Zenon
<1>2. CASE DrainEnds(p, g)
  <2> DEFINE x == [y EXCEPT !.draining = FALSE]
  <2>1. proxy' = [proxy EXCEPT ![p][g] = x] BY <1>0, <1>2 DEF DrainEnds, drained
  <2>2. x \in Proxy /\ x.open = y.open /\ x.up = y.up /\ x.serving = y.serving
    BY <1>0, Zenon DEF Proxy
  <2> HIDE DEF x
  <2>3. UNCHANGED <<conf, served, etag, desired, running, states, holder, taken, closed>>
    BY <1>2 DEF DrainEnds
  <2> QED BY <2>1, <2>2, <2>3, FlagKeeps, Zenon
<1>3. CASE ServeEnds(p, g) /\ superseded(p, g)
  <2> DEFINE x == [y EXCEPT !.serving = FALSE]
  <2>1. proxy' = [proxy EXCEPT ![p][g] = x] /\ UNCHANGED <<running, states>>
    BY <1>0, <1>3 DEF ServeEnds, retireServeGeneration
  <2>2. x \in Proxy /\ x.open = y.open /\ x.up = y.up BY <1>0, Zenon DEF Proxy
  <2>3. running[p] # g BY <1>3 DEF superseded
  <2> HIDE DEF x
  <2>4. UNCHANGED <<conf, served, etag, desired, running, states, holder, taken, closed>>
    BY <1>3, <2>1 DEF ServeEnds
  <2> QED BY <2>1, <2>2, <2>3, <2>4, FlagKeeps, Zenon
<1>4. CASE ServeEnds(p, g) /\ ~superseded(p, g)
  <2> DEFINE x == [y EXCEPT !.serving = FALSE, !.open = FALSE]
  <2>1. /\ proxy' = [proxy EXCEPT ![p][g] = x]
        /\ running' = [running EXCEPT ![p] = 0] /\ states' = [states EXCEPT ![p] = ""]
        /\ UNCHANGED <<conf, served, etag, desired, holder, taken, closed>>
        /\ ~y.accepting /\ running[p] = g
    BY <1>0, <1>4 DEF ServeEnds, retireServeGeneration, superseded
  <2>2. x \in Proxy /\ x.open = FALSE BY <1>0, Zenon DEF Proxy
  <2> HIDE DEF x
  <2>3. /\ proxy' \in [Port -> [Gen -> Proxy]]
        /\ \A q \in Port : \A f \in Gen :
             proxy'[q][f] = IF q = p /\ f = g THEN x ELSE proxy[q][f]
    BY <1>0, <2>1, <2>2
  <2>4. /\ running'[p] = 0 /\ states'[p] = ""
        /\ \A q \in Port \ {p} : running'[q] = running[q] /\ states'[q] = states[q]
    BY <1>0, <2>1 DEF TypeOK
  <2>5. 0 \notin Gen BY DEF Gen
  <2>6. TypeOK'
    <3>1. running' \in [Port -> Gen \cup {0}] /\ states' \in [Port -> RouteState]
      BY <1>0, <2>1 DEF TypeOK, RouteState
    <3> QED BY <1>0, <2>1, <2>3, <3>1 DEF TypeOK
  <2>7. ListenersAccounted'
    <3> SUFFICES ASSUME NEW q \in Port, NEW f \in Gen
                 PROVE  /\ proxy'[q][f].open <=> running'[q] = f
                        /\ running'[q] = f => proxy'[q][f].serving
      BY DEF ListenersAccounted
    <3>1. /\ proxy[q][f].open <=> running[q] = f
          /\ running[q] = f => proxy[q][f].serving
      BY DEF PInv, ListenersAccounted
    <3>2. CASE q = p /\ f = g
      BY <2>2, <2>3, <2>4, <2>5, <3>2
    <3>3. CASE q = p /\ f # g
      <4>1. proxy'[q][f] = proxy[q][f] BY <2>3, <3>3
      <4>2. ~proxy[q][f].open BY <2>1, <3>1, <3>3
      <4> QED BY <2>4, <2>5, <3>3, <4>1, <4>2
    <3>4. CASE q # p
      <4>1. proxy'[q][f] = proxy[q][f] /\ running'[q] = running[q] BY <2>3, <2>4, <3>4
      <4> QED BY <3>1, <4>1
    <3> QED BY <3>2, <3>3, <3>4
  <2>8. \A q \in Port \ {p} : running[q] # 0 => Current(q)' = Current(q)
    <3> SUFFICES ASSUME NEW q \in Port \ {p}, running[q] # 0
                 PROVE  proxy'[q][running'[q]] = proxy[q][running[q]]
      BY DEF Current
    <3>1. running'[q] = running[q] /\ running[q] \in Gen BY <1>0, <2>4 DEF TypeOK
    <3> QED BY <2>3, <3>1
  <2>9. CurrentFits'
    <3> SUFFICES ASSUME NEW q \in Port, running'[q] # 0
                 PROVE  /\ ~closed'
                        /\ Current(q)'.up \in Upstream
                        /\ Current(q)'.up = desired'[q]
                        /\ states'[q] = "active"
      BY DEF CurrentFits
    <3>1. q \in Port \ {p} BY <2>4
    <3>2. running[q] # 0 /\ states'[q] = states[q] /\ Current(q)' = Current(q)
      BY <2>4, <2>8, <3>1
    <3> QED BY <2>1, <3>2 DEF PInv, CurrentFits
  <2>10. StatusTruthful'
    <3> SUFFICES ASSUME ~closed', NEW q \in Port, desired'[q] # NoRoute
                 PROVE  /\ states'[q] = "active" <=> running'[q] # 0
                        /\ running'[q] # 0 => Current(q)'.up = desired'[q]
                        /\ states'[q] = "pending_leaf" => holder' = NoLeaf
                        /\ states'[q] = "pending_bind_host" => holder' = NoSAN
                        /\ states'[q] = "invalid_upstream" => desired'[q] = BadUpstream
      BY DEF StatusTruthful
    <3>1. CASE q = p BY <2>4, <3>1
    <3>2. CASE q # p
      <4>1. running'[q] = running[q] /\ states'[q] = states[q] BY <2>4, <3>2
      <4>2. running[q] # 0 => Current(q)' = Current(q) BY <2>8, <3>2
      <4> QED BY <2>1, <4>1, <4>2 DEF PInv, StatusTruthful
    <3> QED BY <3>1, <3>2
  <2>11. Keeps BY <2>1, <2>4 DEF Keeps, Current
  <2> QED BY <2>6, <2>7, <2>9, <2>10, <2>11 DEF PInv
<1> QED BY <1>1, <1>2, <1>3, <1>4 DEF Goroutine

LEMMA InitPInv ==
  ASSUME Parameters
  PROVE  Init => PInv
<1> SUFFICES ASSUME Init PROVE PInv
  OBVIOUS
<1>1. 0 \notin Gen /\ NoRoute \in Want /\ "" \in RouteState BY DEF Gen, Want, RouteState
<1>2. Unused \in Proxy /\ Unused.open = FALSE BY Zenon DEF Unused, Proxy
<1>3. \A p \in Port : running[p] = 0 /\ desired[p] = NoRoute BY DEF Init
<1>4. \A p \in Port : \A g \in Gen : proxy[p][g] = Unused BY DEF Init
<1>5. TypeOK BY <1>1, <1>2 DEF Init, TypeOK
<1>6. ListenersAccounted BY <1>1, <1>2, <1>3, <1>4 DEF ListenersAccounted
<1>7. CurrentFits /\ StatusTruthful BY <1>3 DEF CurrentFits, StatusTruthful
<1> QED BY <1>5, <1>6, <1>7 DEF PInv

LEMMA NextPInv ==
  ASSUME Parameters
  PROVE  PInv /\ [Next]_vars => PInv' /\ Keeps
<1> SUFFICES ASSUME PInv, [Next]_vars PROVE PInv' /\ Keeps
  OBVIOUS
<1>1. ASSUME UNCHANGED <<conf, etag, desired, running, states, proxy, holder, closed>>,
             served' \in Docs, taken' \subseteq Port
      PROVE  PInv' /\ Keeps
  <2>1. TypeOK' BY <1>1 DEF PInv, TypeOK
  <2>2. ListenersAccounted' BY <1>1 DEF PInv, ListenersAccounted
  <2>3. CurrentFits' BY <1>1 DEF PInv, CurrentFits, Current
  <2>4. StatusTruthful' BY <1>1 DEF PInv, StatusTruthful, Current
  <2> QED BY <1>1, <2>1, <2>2, <2>3, <2>4 DEF PInv, Keeps
<1>2. served \in Docs /\ taken \subseteq Port BY DEF PInv, TypeOK
<1>3. CASE UNCHANGED vars BY <1>1, <1>2, <1>3 DEF vars
<1>4. CASE \E doc \in Docs : RoutesChange(doc) BY <1>1, <1>2, <1>4 DEF RoutesChange
<1>5. CASE \E p \in Port : PortTaken(p) BY <1>1, <1>2, <1>5 DEF PortTaken
<1> QED BY <1>3, <1>4, <1>5, SyncRoutesKeeps, ReloadCertKeeps, CloseKeeps, GoroutineKeeps DEF Next

\* For every number of ports, upstreams and generations and all documents: the ports in
\* use are the current generations', each of which has its serve goroutine, and what
\* Status reports of a wanted route is so, whatever order pushes, certificate reloads,
\* Close and the late ends of replaced generations come in (reconcileLocked,
\* retireServeGeneration).
THEOREM ListenersAreTrue ==
  ASSUME Parameters
  PROVE  Spec => [](TypeOK /\ ListenersAccounted /\ StatusTruthful)
<1>1. Init => PInv BY InitPInv
<1>2. PInv /\ [Next]_vars => PInv' BY NextPInv
<1>3. PInv => TypeOK /\ ListenersAccounted /\ StatusTruthful BY DEF PInv
<1> QED BY <1>1, <1>2, <1>3, PTL DEF Spec

\* A current generation goes only when its route was withdrawn or changed, the manager
\* was closed or its own Serve returned: the late exit of a generation that it replaced
\* never takes it down (retireServeGeneration).
THEOREM CurrentStays ==
  ASSUME Parameters
  PROVE  Spec => RunningIsKept
<1>1. Init => PInv BY InitPInv
<1>2. PInv /\ [Next]_vars => PInv' BY NextPInv
<1>3. PInv /\ [Next]_vars =>
        [\A p \in Port : running[p] # 0 /\ running'[p] # running[p] =>
           \/ desired'[p] # Current(p).up
           \/ ~ Current(p).accepting]_vars
  BY NextPInv DEF Keeps
<1> QED BY <1>1, <1>2, <1>3, PTL DEF Spec, RunningIsKept
=============================================================================
