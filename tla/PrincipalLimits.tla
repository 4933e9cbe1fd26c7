--------------------------- MODULE PrincipalLimits ---------------------------
(***************************************************************************)
(* PrincipalLimiter (gateway/backend/internal/gateway/principal_limits.go) *)
(* and the two places that call it: admitPrincipal before a request is     *)
(* served and recordUsage after it. One principal, with a rate limit and   *)
(* one quota; tokens and cost go the way of the requests.                  *)
(*                                                                         *)
(* A request runs between locks: it reads the clock, then the cached       *)
(* configuration or the store, then its rate bucket, then the cached       *)
(* aggregate or the store. A read of the store and the write of the cache  *)
(* are two steps. The clock counts ticks; a rate bucket is Window ticks, a *)
(* calendar period Period ticks, a cache entry is fresh for TTL ticks.     *)
(***************************************************************************)
EXTENDS Naturals, FiniteSets

CONSTANTS
  Requests,   \* the requests of the principal
  Rate,       \* RateRequests: admissions in a bucket
  Quota,      \* RequestQuota: requests in a period
  Window, Period, TTL,
  MaxTime,    \* bound: the last tick
  Faults,     \* bound: reads and inserts of the store that fail
  None        \* no cache entry, no value yet

VARIABLES
  now,        \* the wall clock
  limited,    \* whether the store has limits for the principal
  changed,    \* when an administrator set them
  rows,       \* usage_events: request -> when its row was inserted
  cfgCache,   \* configCache: None or an entry
  agg,        \* aggCache of the quota's period: None or an entry
  bucket,     \* rateBuckets: None or the current bucket
  pc, t,      \* a request: where it is, and the time it read
  cfg, seen,  \* the configuration and the aggregate it goes by
  rated,      \* the requests that passed the rate check
  recorded,   \* requests whose Record is done -> when
  faults

vars == <<now, limited, changed, rows, cfgCache, agg, bucket, pc, t, cfg, seen,
          rated, recorded, faults>>
local == <<pc, t, cfg, seen>>
shared == <<now, limited, changed, rows, cfgCache, agg, bucket, rated, recorded, faults>>

Init ==
  /\ now = 0 /\ limited \in BOOLEAN /\ changed = 0
  /\ rows = [r \in Requests |-> None]
  /\ cfgCache = None /\ agg = None /\ bucket = None
  /\ pc = [r \in Requests |-> "new"] /\ t = [r \in Requests |-> 0]
  /\ cfg = [r \in Requests |-> FALSE] /\ seen = [r \in Requests |-> None]
  /\ rated = {} /\ recorded = [r \in Requests |-> None] /\ faults = 0

periodStart(x) == (x \div Period) * Period

Goes(r, where) == pc' = [pc EXCEPT ![r] = where]

\* A row was inserted at or after since.
aggregateSince(since) == Cardinality({r \in Requests : rows[r] # None /\ rows[r] >= since})

\* now.Sub(loadedAt) < cacheTTL; an entry younger than the reader is fresh.
Fresh(e, x) == e # None /\ x < e.at + TTL

Tick == now < MaxTime /\ now' = now + 1
        /\ UNCHANGED <<limited, changed, rows, cfgCache, agg, bucket, rated, recorded, faults, local>>

\* The administrator sets the limits.
SetLimits ==
  /\ ~limited /\ limited' = TRUE /\ changed' = now
  /\ UNCHANGED <<now, rows, cfgCache, agg, bucket, rated, recorded, faults, local>>

Fail == faults < Faults /\ faults' = faults + 1

(***************************************************************************)
(* Admit.                                                                  *)
(***************************************************************************)
Admit(r) ==
  /\ pc[r] = "new" /\ Goes(r, "config") /\ t' = [t EXCEPT ![r] = now]
  /\ UNCHANGED <<shared, cfg, seen>>

\* The configuration is known: without limits nothing else is checked.
Configured(r, c) ==
  /\ cfg' = [cfg EXCEPT ![r] = c]
  /\ Goes(r, IF c THEN "rate" ELSE "allowed")

configHit(r) ==
  /\ pc[r] = "config" /\ Fresh(cfgCache, t[r]) /\ Configured(r, cfgCache.cfg)
  /\ UNCHANGED <<shared, t, seen>>

configRead(r) ==
  /\ pc[r] = "config" /\ ~Fresh(cfgCache, t[r])
  /\ cfg' = [cfg EXCEPT ![r] = limited] /\ Goes(r, "configLoaded")
  /\ UNCHANGED <<shared, t, seen>>

\* A store that cannot be read lets the request through.
configFails(r) ==
  /\ pc[r] = "config" /\ ~Fresh(cfgCache, t[r]) /\ Fail /\ Goes(r, "open")
  /\ UNCHANGED <<now, limited, changed, rows, cfgCache, agg, bucket, rated, recorded, t, cfg, seen>>

configStore(r) ==
  /\ pc[r] = "configLoaded" /\ Configured(r, cfg[r])
  /\ cfgCache' = [cfg |-> cfg[r], at |-> t[r]]
  /\ UNCHANGED <<now, limited, changed, rows, agg, bucket, rated, recorded, faults, t, seen>>

\* The bucket of the request's own time; any other one is overwritten.
currentBucket(r) ==
  IF bucket # None /\ bucket.bucket = t[r] \div Window THEN bucket
  ELSE [bucket |-> t[r] \div Window, count |-> 0]

checkRate(r) ==
  /\ pc[r] = "rate"
  /\ LET b == currentBucket(r) IN
     IF b.count >= Rate
     THEN bucket' = b /\ Goes(r, "deniedRate") /\ UNCHANGED rated
     ELSE /\ bucket' = [b EXCEPT !.count = @ + 1]
          /\ Goes(r, "quota") /\ rated' = rated \cup {r}
  /\ UNCHANGED <<now, limited, changed, rows, cfgCache, agg, recorded, faults, t, cfg, seen>>

Decide(r, n) ==
  /\ seen' = [seen EXCEPT ![r] = n]
  /\ Goes(r, IF n >= Quota THEN "deniedQuota" ELSE "allowed")

FreshAgg(r) == Fresh(agg, t[r]) /\ agg.period = periodStart(t[r])

aggregateHit(r) ==
  /\ pc[r] = "quota" /\ FreshAgg(r) /\ Decide(r, agg.n)
  /\ UNCHANGED <<shared, t, cfg>>

aggregateRead(r) ==
  /\ pc[r] = "quota" /\ ~FreshAgg(r) /\ Goes(r, "aggLoaded")
  /\ seen' = [seen EXCEPT ![r] = aggregateSince(periodStart(t[r]))]
  /\ UNCHANGED <<shared, t, cfg>>

aggregateFails(r) ==
  /\ pc[r] = "quota" /\ ~FreshAgg(r) /\ Fail /\ Goes(r, "open")
  /\ UNCHANGED <<now, limited, changed, rows, cfgCache, agg, bucket, rated, recorded, t, cfg, seen>>

\* Mutant: the age of the sums counts from the write, not from the read.
aggregateStoreAtWrite(r) ==
  /\ pc[r] = "aggLoaded" /\ Decide(r, seen[r])
  /\ agg' = [n |-> seen[r], period |-> periodStart(t[r]), at |-> now]
  /\ UNCHANGED <<now, limited, changed, rows, cfgCache, bucket, rated, recorded, faults, t, cfg>>

aggregateStore(r) ==
  /\ pc[r] = "aggLoaded" /\ Decide(r, seen[r])
  /\ agg' = [n |-> seen[r], period |-> periodStart(t[r]), at |-> t[r]]
  /\ UNCHANGED <<now, limited, changed, rows, cfgCache, bucket, rated, recorded, faults, t, cfg>>

(***************************************************************************)
(* recordUsage: the row, then Record. A row that cannot be inserted is     *)
(* logged, and Record runs all the same.                                   *)
(***************************************************************************)
Insert(r) ==
  /\ pc[r] \in {"allowed", "open"} /\ Goes(r, "inserted")
  /\ \/ rows' = [rows EXCEPT ![r] = now] /\ UNCHANGED faults
     \/ Fail /\ UNCHANGED rows
  /\ UNCHANGED <<now, limited, changed, cfgCache, agg, bucket, rated, recorded, t, cfg, seen>>

\* The configuration Record goes by is the one in the cache now.
RecordConfig(r) ==
  /\ pc[r] = "inserted"
  /\ Goes(r, IF cfgCache # None /\ cfgCache.cfg THEN "bump" ELSE "done")
  /\ UNCHANGED <<shared, t, cfg, seen>>

Record(r) ==
  /\ pc[r] = "bump" /\ Goes(r, "done")
  /\ recorded' = [recorded EXCEPT ![r] = now]
  /\ agg' = IF agg # None /\ agg.period = periodStart(now) THEN [agg EXCEPT !.n = @ + 1] ELSE agg
  /\ UNCHANGED <<now, limited, changed, rows, cfgCache, bucket, rated, faults, t, cfg, seen>>

configFor(r) == configHit(r) \/ configRead(r) \/ configFails(r) \/ configStore(r)
aggregate(r) == aggregateHit(r) \/ aggregateRead(r) \/ aggregateFails(r) \/ aggregateStore(r)

Request(r) ==
  Admit(r) \/ configFor(r) \/ checkRate(r) \/ aggregate(r)
    \/ Insert(r) \/ RecordConfig(r) \/ Record(r)

Next == Tick \/ SetLimits \/ \E r \in Requests : Request(r)

Spec == Init /\ [][Next]_vars
-----------------------------------------------------------------------------
Places == {"new", "config", "configLoaded", "rate", "quota", "aggLoaded", "open", "allowed",
           "deniedRate", "deniedQuota", "inserted", "bump", "done"}

\* Types, and the rate counter's bound: checkRate counts no further than its limit.
TypeOK ==
  /\ now \in 0..MaxTime /\ limited \in BOOLEAN /\ faults \in 0..Faults
  /\ pc \in [Requests -> Places] /\ rated \subseteq Requests
  /\ bucket # None => bucket.count \in 0..Rate
  /\ cfgCache # None => cfgCache.cfg \in BOOLEAN /\ cfgCache.at \in 0..now
  /\ agg # None => agg.n \in Nat /\ agg.period <= agg.at /\ agg.at <= now

RatedIn(b) == {r \in rated : t[r] \div Window = b}

\* A request is denied for its rate only when its own window has had its full number of
\* admissions, however requests of two windows overtake each other (checkRate).
RateDenyJustified ==
  \A r \in Requests : pc[r] = "deniedRate" => Cardinality(RatedIn(t[r] \div Window)) >= Rate

\* A request that passed the quota goes by an aggregate no older than the cache's
\* lifetime: of the rows inserted in its period TTL or more before it came, there were
\* fewer than the quota. A slow read that is cached late does not stretch this, because
\* an entry is dated by the time its reader came (aggregate).
QuotaWithinTTL ==
  \A r \in Requests :
    pc[r] \in {"allowed", "inserted", "bump", "done"} /\ cfg[r] /\ seen[r] # None =>
      Cardinality({q \in Requests : rows[q] # None /\ rows[q] >= periodStart(t[r])
                                      /\ rows[q] + TTL <= t[r]}) < Quota

\* "A limit change takes up to CacheTTL to be observed by Admit", and no longer.
LimitWithinTTL ==
  \A r \in Requests :
    limited /\ pc[r] = "allowed" /\ ~cfg[r] => t[r] < changed + TTL

\* rateBucketState.count is "how many requests have been admitted in that bucket so far":
\* no window admits more than its number.
RateHolds == \A b \in 0..(MaxTime \div Window) : Cardinality(RatedIn(b)) <= Rate

\* "Record's population must match it exactly": a cached aggregate does not count more
\* requests than have a row in the table.
CountsRowsOnly == agg # None /\ faults = 0 => agg.n <= aggregateSince(agg.period)

\* "The next Admit reloads a correct aggregate from the store": a request that comes after
\* the Record of others in its period counts them.
SeesRecords ==
  \A r \in Requests :
    pc[r] \in {"allowed", "deniedQuota"} /\ seen[r] # None /\ faults = 0 =>
      seen[r] >= Cardinality({q \in Requests : recorded[q] # None /\ recorded[q] < t[r]
                                                 /\ recorded[q] >= periodStart(t[r])
                                                 /\ rows[q] >= periodStart(t[r])})
=============================================================================
