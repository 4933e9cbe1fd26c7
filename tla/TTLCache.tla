------------------------------ MODULE TTLCache ------------------------------
(***************************************************************************)
(* ttlcache.Cache: readers that load outside the lock, and writers that    *)
(* change the setting and then invalidate (a settings PUT).  The value     *)
(* loaded is the version of the setting in the store, which another        *)
(* gateway process may change without invalidating this cache.             *)
(***************************************************************************)
EXTENDS Naturals

CONSTANTS
  Reader, Writer,
  TTL,               \* the longest time a load chooses
  MaxTime, MaxWrites

ASSUME TTLCacheAssumption == TTL \in Nat /\ MaxTime \in Nat /\ MaxWrites \in Nat

VARIABLES
  now,
  stored,  \* the version in the store
  cache,   \* val, exp and gen of the cache
  reader,  \* the callers of get, their locals, and what was acked when they began
  writer,  \* the writers, and the version each has written
  acked    \* the latest version whose writer has returned

vars == <<now, stored, cache, reader, writer, acked>>

\* The locals of a call of get.
Call == [pc : {"idle", "lock", "load", "publish", "done"},
         now : Nat, gen : Nat, v : Nat, since : Nat]

TypeOK ==
  /\ now \in Nat /\ stored \in Nat /\ acked \in Nat
  /\ cache \in [val : Nat, exp : Nat, gen : Nat] /\ cache.exp <= now + TTL
  /\ reader \in [Reader -> Call]
  /\ writer \in [Writer -> [pc : {"idle", "invalidate"}, v : Nat]]

\* The zero time is before every other.
Init ==
  /\ now = 0 /\ stored = 0 /\ acked = 0
  /\ cache = [val |-> 0, exp |-> 0, gen |-> 0]
  /\ reader = [r \in Reader |-> [pc |-> "idle", now |-> 0, gen |-> 0, v |-> 0, since |-> 0]]
  /\ writer = [w \in Writer |-> [pc |-> "idle", v |-> 0]]

\* get reads the clock before it takes the lock.
Get(r) ==
  /\ reader[r].pc = "idle"
  /\ reader' = [reader EXCEPT ![r] = [@ EXCEPT !.pc = "lock", !.now = now, !.since = acked]]
  /\ UNCHANGED <<now, stored, cache, writer, acked>>

Hit(r) ==
  /\ reader[r].pc = "lock"
  /\ reader[r].now < cache.exp
  /\ reader' = [reader EXCEPT ![r] = [@ EXCEPT !.pc = "done", !.v = cache.val]]
  /\ UNCHANGED <<now, stored, cache, writer, acked>>

Miss(r) ==
  /\ reader[r].pc = "lock"
  /\ ~(reader[r].now < cache.exp)
  /\ reader' = [reader EXCEPT ![r] = [@ EXCEPT !.pc = "load", !.gen = cache.gen]]
  /\ UNCHANGED <<now, stored, cache, writer, acked>>

Load(r) ==
  /\ reader[r].pc = "load"
  /\ reader' = [reader EXCEPT ![r] = [@ EXCEPT !.pc = "publish", !.v = stored]]
  /\ UNCHANGED <<now, stored, cache, writer, acked>>

published(r, ttl) == [cache EXCEPT !.val = reader[r].v, !.exp = now + ttl]

\* Mutant: does not look at the generation.
PublishAnyway(r) ==
  /\ reader[r].pc = "publish"
  /\ reader' = [reader EXCEPT ![r] = [@ EXCEPT !.pc = "done"]]
  /\ \E ttl \in 0..TTL : cache' = published(r, ttl)
  /\ UNCHANGED <<now, stored, writer, acked>>

Publish(r) ==
  /\ reader[r].pc = "publish"
  /\ reader' = [reader EXCEPT ![r] = [@ EXCEPT !.pc = "done"]]
  /\ \E ttl \in 0..TTL :
       cache' = IF cache.gen = reader[r].gen THEN published(r, ttl) ELSE cache
  /\ UNCHANGED <<now, stored, writer, acked>>

Return(r) ==
  /\ reader[r].pc = "done"
  /\ reader' = [reader EXCEPT ![r] = [@ EXCEPT !.pc = "idle"]]
  /\ UNCHANGED <<now, stored, cache, writer, acked>>

Write(w) ==
  /\ writer[w].pc = "idle"
  /\ stored < MaxWrites
  /\ stored' = stored + 1
  /\ writer' = [writer EXCEPT ![w] = [pc |-> "invalidate", v |-> stored + 1]]
  /\ UNCHANGED <<now, cache, reader, acked>>

\* Invalidate ends the write.
Invalidate(w) ==
  /\ writer[w].pc = "invalidate"
  /\ writer' = [writer EXCEPT ![w].pc = "idle"]
  /\ cache' = [val |-> cache.val, exp |-> 0, gen |-> cache.gen + 1]
  /\ acked' = IF acked < writer[w].v THEN writer[w].v ELSE acked
  /\ UNCHANGED <<now, stored, reader>>

\* Another gateway process writes the setting.
WriteElsewhere ==
  /\ stored < MaxWrites
  /\ stored' = stored + 1
  /\ UNCHANGED <<now, cache, reader, writer, acked>>

Tick ==
  /\ now < MaxTime
  /\ now' = now + 1
  /\ UNCHANGED <<stored, cache, reader, writer, acked>>

Read(r) == Get(r) \/ Hit(r) \/ Miss(r) \/ Load(r) \/ Publish(r) \/ Return(r)

Next ==
  \/ \E r \in Reader : Read(r)
  \/ \E w \in Writer : Write(w) \/ Invalidate(w)
  \/ WriteElsewhere
  \/ Tick

Spec == Init /\ [][Next]_vars

(***************************************************************************)
(* Properties.                                                             *)
(***************************************************************************)
\* Invalidate is not undone: a load that started before it never brings the old value
\* back (the generation counter of get).
InvalidateSticks == now < cache.exp => cache.val >= acked

\* A get that began after a settings PUT returned never answers with what that PUT
\* replaced, whichever loads, expiries and other PUTs went on at the same time.
GetSeesWrites == \A r \in Reader : reader[r].pc = "done" => reader[r].v >= reader[r].since

\* What the callers of ttlcache.Get and Invalidate rely on: both of these.
CacheIsFresh == TypeOK /\ InvalidateSticks /\ GetSeesWrites
=============================================================================
