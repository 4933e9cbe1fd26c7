------------------------------ MODULE MCShared ------------------------------
(***************************************************************************)
(* What concurrent requests of the gateway share: a setting in a ttlcache, *)
(* the limits of a principal with their aggregate and rate bucket, and the *)
(* chats that runs write.  They share no state with one another, so a      *)
(* behaviour moves one of them, `moving', while the others stay in an      *)
(* initial state.                                                          *)
(***************************************************************************)
EXTENDS TTLCache, TLC

CONSTANTS Requests, None, NoRun, Gone

VARIABLES
  moving,
  clock, limited, changed, rows, cfgCache, agg, bucket, pc, t, cfg, seen, rated, recorded, faults,
  doc, slot, byID, run, ex, ck, view, put, del, puts

limitVars == <<clock, limited, changed, rows, cfgCache, agg, bucket, pc, t, cfg, seen,
               rated, recorded, faults>>
chatVars == <<doc, slot, byID, run, ex, ck, view, put, del, puts>>
allVars == <<moving, vars, limitVars, chatVars>>

\* One admission in a window of one tick, two requests in a period of two, and a store
\* that may fail once.
ByRate == INSTANCE PrincipalLimits WITH
  now <- clock, Rate <- 1, Quota <- 2, Window <- 1, Period <- 2, MaxTime <- 1, Faults <- 1

\* One request in a period that outlasts the run, and a rate that never binds.
ByQuota == INSTANCE PrincipalLimits WITH
  now <- clock, Rate <- 3, Quota <- 1, Window <- 4, Period <- 4, MaxTime <- 2, Faults <- 0

\* Two runs of any kind on one chat that may be deleted.
Turns == INSTANCE ChatRuns WITH
  Run <- {"r1", "r2"}, Chat <- {"c1"}, Viewer <- {}, Kind <- {"chat", "transcription", "voice"},
  MaxPerUser <- 2, Queue <- 1, VoiceEnds <- {"stop"}, MaxDeltas <- 1, MaxCheckpoints <- 1, MaxDrops <- 0,
  MaxPuts <- 0, MaxDeletes <- 1

\* Two text or voice runs whose session stops or closes at any point, and a client save.
Claims == INSTANCE ChatRuns WITH
  Run <- {"r1", "r2"}, Chat <- {"c1"}, Viewer <- {}, Kind <- {"chat", "voice"},
  MaxPerUser <- 2, Queue <- 1, VoiceEnds <- {"stop", "detach"}, MaxDeltas <- 1, MaxCheckpoints <- 0,
  MaxDrops <- 0, MaxPuts <- 1, MaxDeletes <- 0

\* One run and two tabs that fall behind, disconnect and reconnect.
Tabs == INSTANCE ChatRuns WITH
  Run <- {"r1"}, Chat <- {"c1"}, Viewer <- {"v1", "v2"}, Kind <- {"chat"}, MaxPerUser <- 2,
  Queue <- 2, VoiceEnds <- {"stop"}, MaxDeltas <- 3, MaxCheckpoints <- 0, MaxDrops <- 1,
  MaxPuts <- 0, MaxDeletes <- 0

AllInit ==
  /\ moving \in {"cache", "rate", "quota", "turns", "claims", "tabs"}
  /\ Init /\ ByRate!Init
  /\ (moving = "tabs" /\ Tabs!Init) \/ (moving # "tabs" /\ Turns!Init)
  /\ moving \notin {"rate", "quota"} => limited

\* Runs are interchangeable, and so are tabs: r1 is reserved first, v1 arrives first.
InTurn(off, a, b) == b # off => a # off

AllNext ==
  /\ UNCHANGED moving
  /\ \/ moving = "cache" /\ Next /\ UNCHANGED <<limitVars, chatVars>>
     \/ moving = "rate" /\ ByRate!Next /\ UNCHANGED <<vars, chatVars>>
     \/ moving = "quota" /\ ByQuota!Next /\ UNCHANGED <<vars, chatVars>>
     \/ /\ moving = "turns" /\ Turns!Next /\ UNCHANGED <<vars, limitVars>>
        /\ InTurn("off", ex'["r1"].pc, ex'["r2"].pc)
     \/ /\ moving = "claims" /\ Claims!Next /\ UNCHANGED <<vars, limitVars>>
        /\ InTurn("off", ex'["r1"].pc, ex'["r2"].pc)
     \/ /\ moving = "tabs" /\ Tabs!Next /\ UNCHANGED <<vars, limitVars>>
        /\ InTurn("off", view'["v1"].at, view'["v2"].at)

AllSpec == AllInit /\ [][AllNext]_allVars

Interchangeable == Permutations(Requests)

\* checkRate: no bucket counts beyond its limit, and a request is denied for its rate
\* only when its own window has had its full number of admissions, however requests of
\* two windows overtake each other.  aggregate, configFor: the rows a request that passed
\* the quota did not count are younger than the cache's lifetime, and one that came a
\* cache's lifetime after the limits were set is held to them.
LimitsAreTimely ==
  /\ moving = "rate" => ByRate!TypeOK /\ ByRate!RateDenyJustified
  /\ moving = "quota" => ByQuota!TypeOK /\ ByQuota!QuotaWithinTTL /\ ByQuota!LimitWithinTTL


\* finishRunWithParts, claimCommit, claimCancel: a run is reported completed only when
\* its answer was saved, and a voice run whose cancel won leaves nothing in the chat.
\* subscribe and finish carry a snapshot: a tab that was told the end of a run shows
\* exactly its answer.
EndIsTrue ==
  /\ moving = "claims" => /\ Claims!TypeOK /\ Claims!CompletedIsSaved
                          /\ Claims!CancelledVoiceLeavesNothing
  /\ moving = "tabs" => Tabs!TypeOK /\ Tabs!FinishedViewExact
=============================================================================
