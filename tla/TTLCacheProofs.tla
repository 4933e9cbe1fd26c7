--------------------------- MODULE TTLCacheProofs ---------------------------
(***************************************************************************)
(* Proofs about TTLCache.  The inductive invariant says of every load in   *)
(* flight that it either belongs to an earlier generation or has read      *)
(* something no Invalidate has outdated.                                   *)
(***************************************************************************)
EXTENDS TTLCache, TLAPS

Fresh(x) ==
  /\ x.since <= acked
  /\ x.pc \in {"load", "publish"} => x.gen <= cache.gen
  /\ x.pc = "publish" => x.v >= x.since /\ (x.gen = cache.gen => x.v >= acked)
  /\ x.pc = "done" => x.v >= x.since

IInv ==
  /\ TypeOK
  /\ acked <= stored
  /\ cache.exp > 0 => cache.val >= acked
  /\ \A w \in Writer : writer[w].v <= stored
  /\ \A r \in Reader : Fresh(reader[r])

\* The empty cache is fresh (the zero Cache of cache.go).
LEMMA InitIInv == Init => IInv
  BY TTLCacheAssumption DEF Init, IInv, TypeOK, Call, Fresh

\* A step of get that leaves the cache alone keeps the invariant if the call stays
\* fresh.
LEMMA CallStep ==
  ASSUME IInv, NEW r \in Reader, NEW x \in Call, Fresh(x),
         reader' = [reader EXCEPT ![r] = x],
         UNCHANGED <<now, stored, cache, writer, acked>>
  PROVE  IInv'
<1>1. reader' \in [Reader -> Call]
  BY DEF IInv, TypeOK
<1>2. \A q \in Reader : Fresh(reader'[q])
  BY DEF IInv, TypeOK
<1> QED
  BY <1>1, <1>2 DEF IInv, TypeOK, Fresh

\* Every step of get keeps every load in flight fresh.
LEMMA ReadIInv ==
  ASSUME IInv, NEW r \in Reader, Read(r)
  PROVE  IInv'
<1>0. reader[r] \in Call /\ Fresh(reader[r])
  BY DEF IInv, TypeOK
<1>1. CASE Get(r)
  <2> DEFINE x == [reader[r] EXCEPT !.pc = "lock", !.now = now, !.since = acked]
  <2>1. x \in Call /\ x.pc = "lock" /\ x.since = acked
    BY <1>0, Zenon DEF IInv, TypeOK, Call
  <2>2. Fresh(x)
    BY <2>1 DEF IInv, TypeOK, Fresh
  <2> QED
    BY <1>1, <2>1, <2>2, CallStep, Zenon DEF Get
<1>2. CASE Hit(r)
  <2> DEFINE x == [reader[r] EXCEPT !.pc = "done", !.v = cache.val]
  <2>1. x \in Call /\ x.pc = "done" /\ x.v = cache.val /\ x.since = reader[r].since
    BY <1>0, Zenon DEF IInv, TypeOK, Call
  <2>2. cache.val >= acked
    BY <1>0, <1>2 DEF IInv, TypeOK, Call, Hit
  <2>3. Fresh(x)
    BY <1>0, <2>1, <2>2 DEF IInv, TypeOK, Call, Fresh
  <2> QED
    BY <1>2, <2>1, <2>3, CallStep, Zenon DEF Hit
<1>3. CASE Miss(r)
  <2> DEFINE x == [reader[r] EXCEPT !.pc = "load", !.gen = cache.gen]
  <2>1. x \in Call /\ x.pc = "load" /\ x.gen = cache.gen /\ x.since = reader[r].since
    BY <1>0, Zenon DEF IInv, TypeOK, Call
  <2>2. Fresh(x)
    BY <1>0, <2>1 DEF IInv, TypeOK, Fresh
  <2> QED
    BY <1>3, <2>1, <2>2, CallStep, Zenon DEF Miss
<1>4. CASE Load(r)
  <2> DEFINE x == [reader[r] EXCEPT !.pc = "publish", !.v = stored]
  <2>1. /\ x \in Call /\ x.pc = "publish" /\ x.v = stored
        /\ x.since = reader[r].since /\ x.gen = reader[r].gen
    BY <1>0, Zenon DEF IInv, TypeOK, Call
  <2>2. Fresh(x)
    BY <1>0, <1>4, <2>1 DEF IInv, TypeOK, Call, Fresh, Load
  <2> QED
    BY <1>4, <2>1, <2>2, CallStep, Zenon DEF Load
<1>5. CASE Publish(r)
  <2> DEFINE x == [reader[r] EXCEPT !.pc = "done"]
  <2>1. x \in Call /\ Fresh(x)
    BY <1>0, <1>5 DEF IInv, TypeOK, Call, Fresh, Publish
  <2>2. /\ reader' = [reader EXCEPT ![r] = x]
        /\ UNCHANGED <<now, stored, writer, acked>>
    BY <1>5 DEF Publish
  <2>3. PICK ttl \in 0..TTL :
          cache' = IF cache.gen = reader[r].gen THEN published(r, ttl) ELSE cache
    BY <1>5 DEF Publish
  <2>4. /\ cache' \in [val : Nat, exp : Nat, gen : Nat]
        /\ cache'.exp <= now + TTL
        /\ cache'.gen = cache.gen
    <3>1. CASE cache.gen = reader[r].gen
      <4>1. cache' = [cache EXCEPT !.val = reader[r].v, !.exp = now + ttl]
        BY <2>3, <3>1 DEF published
      <4>2. now + ttl \in Nat /\ now + ttl <= now + TTL /\ reader[r].v \in Nat
        BY <1>0, TTLCacheAssumption DEF IInv, TypeOK, Call
      <4> QED
        BY <4>1, <4>2, Zenon DEF IInv, TypeOK
    <3>2. CASE cache.gen # reader[r].gen
      BY <2>3, <3>2 DEF IInv, TypeOK
    <3> QED
      BY <3>1, <3>2
  <2>5. cache'.exp > 0 => cache'.val >= acked
    <3>1. CASE cache.gen = reader[r].gen
      <4>1. cache'.val = reader[r].v
        BY <2>3, <3>1 DEF IInv, TypeOK, published
      <4>2. reader[r].v >= acked
        BY <1>0, <1>5, <3>1 DEF Fresh, Publish
      <4> QED
        BY <4>1, <4>2
    <3>2. CASE cache.gen # reader[r].gen
      BY <2>3, <3>2 DEF IInv
    <3> QED
      BY <3>1, <3>2
  <2>6. reader' \in [Reader -> Call] /\ \A q \in Reader : Fresh(reader'[q])
    BY <2>1, <2>2 DEF IInv, TypeOK
  <2> QED
    BY <2>2, <2>4, <2>5, <2>6 DEF IInv, TypeOK, Fresh
<1>6. CASE Return(r)
  <2> DEFINE x == [reader[r] EXCEPT !.pc = "idle"]
  <2>1. x \in Call /\ Fresh(x)
    BY <1>0 DEF Call, Fresh
  <2> QED
    BY <1>6, <2>1, CallStep, Zenon DEF Return
<1> QED
  BY <1>1, <1>2, <1>3, <1>4, <1>5, <1>6 DEF Read

\* Invalidate leaves every load in flight with an earlier generation.
LEMMA WriteIInv ==
  ASSUME IInv, NEW w \in Writer, Write(w) \/ Invalidate(w)
  PROVE  IInv'
<1>1. CASE Write(w)
  BY <1>1 DEF Write, IInv, TypeOK, Fresh
<1>2. CASE Invalidate(w)
  <2>1. /\ acked' \in Nat /\ acked <= acked' /\ acked' <= stored
        /\ writer' \in [Writer -> [pc : {"idle", "invalidate"}, v : Nat]]
        /\ \A u \in Writer : writer'[u].v <= stored
        /\ UNCHANGED <<now, stored, reader>>
    BY <1>2 DEF Invalidate, IInv, TypeOK
  <2>2. /\ cache' \in [val : Nat, exp : Nat, gen : Nat]
        /\ cache'.exp = 0 /\ cache'.gen = cache.gen + 1
    BY <1>2 DEF Invalidate, IInv, TypeOK
  <2>3. \A q \in Reader : Fresh(reader[q])'
    BY <2>1, <2>2 DEF IInv, TypeOK, Call, Fresh
  <2> QED
    BY <2>1, <2>2, <2>3, TTLCacheAssumption DEF IInv, TypeOK
<1> QED
  BY <1>1, <1>2

\* A write elsewhere and the clock make nothing stale that was acknowledged here.
LEMMA EnvironmentIInv ==
  ASSUME IInv, WriteElsewhere \/ Tick
  PROVE  IInv'
  BY TTLCacheAssumption DEF IInv, TypeOK, Fresh, WriteElsewhere, Tick

\* The invariant holds of every behaviour of the cache.
THEOREM Inductive == Spec => []IInv
<1>1. IInv /\ [Next]_vars => IInv'
  <2> SUFFICES ASSUME IInv, [Next]_vars PROVE IInv'
    OBVIOUS
  <2>1. CASE UNCHANGED vars
    BY <2>1 DEF vars, IInv, TypeOK, Fresh
  <2>2. CASE Next
    BY <2>2, ReadIInv, WriteIInv, EnvironmentIInv DEF Next
  <2> QED
    BY <2>1, <2>2
<1> QED
  BY <1>1, InitIInv, PTL DEF Spec

\* Invalidate is not undone by a load that was in flight (the generation check of get),
\* and a get that began after a settings PUT returned answers with that setting or a
\* later one.
THEOREM CacheFresh == Spec => []CacheIsFresh
<1>1. IInv => TypeOK
  BY DEF IInv
<1>2. IInv => InvalidateSticks
  BY DEF IInv, TypeOK, InvalidateSticks
<1>3. IInv => GetSeesWrites
  BY DEF IInv, Fresh, GetSeesWrites
<1> QED
  BY <1>1, <1>2, <1>3, Inductive, PTL DEF CacheIsFresh
=============================================================================
