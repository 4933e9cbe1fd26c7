------------------------------- MODULE Router -------------------------------
(***************************************************************************)
(* The agent's runtime router (server-agent/internal/runtime/router.go):   *)
(* a request names a model, the router reads that name as an address,      *)
(* asks the manager for a lease on a child, reads the address again, and   *)
(* relays the child's answer.  It covers the plain, the streaming and the  *)
(* live proxy, /ensure and the /upstream probe.                            *)
(*                                                                         *)
(* The model is one name that contains '#': under the running document it  *)
(* is the literal model of a spec, an instance address of another spec, or *)
(* nothing; a push may change that at any time.  The manager is taken from *)
(* how the router uses it: an ensure gives a lease on the child the name   *)
(* reads as at that moment, refuses, or gives up with its caller.          *)
(***************************************************************************)
EXTENDS Naturals, FiniteSets

CONSTANTS
  Request,      \* the requests being served
  MaxPushes     \* bound: configuration pushes

VARIABLES
  reading,      \* what the name reads as: literal, instance or unmanaged
  pushes,       \* pushes so far
  kind,         \* of each request: plain (or live), stream, ensure or probe
  at,           \* of each request: where its handler is
  addr,         \* the reading the request was built under (readAddress)
  seen,         \* pushes when that reading was taken
  child,        \* the child it holds a lease on or reaches, or none
  leases,       \* releases still owed by its handler
  status,       \* the status line written, or none
  inband,       \* errors written into an event stream
  client        \* whether its client is still there

vars == <<kind, reading, pushes, at, addr, seen, child, leases, status, inband, client>>

Kind == {"plain", "stream", "ensure", "probe"}
Reading == {"literal", "instance", "unmanaged"}

(* What a child is called in the bodies it understands. *)
Managed == {"literal", "instance"}

Streaming(r) == kind[r] = "stream"

(* Where a handler is while it holds a lease. *)
Leased == {"admitted", "opening", "first", "splice"}
Done(r) == at[r] = "done"

Init == /\ kind \in [Request -> Kind] /\ reading \in Reading /\ pushes = 0
        /\ at = [r \in Request |-> "read"]
        /\ addr = [r \in Request |-> "none"]
        /\ seen = [r \in Request |-> 0]
        /\ child = [r \in Request |-> "none"]
        /\ leases = [r \in Request |-> 0]
        /\ status = [r \in Request |-> "none"]
        /\ inband = [r \in Request |-> 0]
        /\ client = [r \in Request |-> TRUE]

-----------------------------------------------------------------------------
(* The environment. *)

Push == /\ pushes < MaxPushes
        /\ \E new \in Reading \ {reading} : reading' = new
        /\ pushes' = pushes + 1
        /\ UNCHANGED <<kind, at, addr, seen, child, leases, status, inband, client>>

Leave(r) == /\ client[r] /\ ~Done(r)
            /\ client' = [client EXCEPT ![r] = FALSE]
            /\ UNCHANGED <<kind, reading, pushes, at, addr, seen, child, leases, status, inband>>

-----------------------------------------------------------------------------
(* What the answers do.  A handler that has sent its status line can only  *)
(* report an error inside the stream (sseCommit).                          *)

(* commit: the status line of an event stream, once. *)
commit(r) == status' = [status EXCEPT ![r] = IF @ = "none" THEN "ok" ELSE @]

failPlain(r) == /\ status' = [status EXCEPT ![r] = "error"]
                /\ UNCHANGED inband

failInBand(r) == /\ inband' = [inband EXCEPT ![r] = @ + 1]
                 /\ UNCHANGED status

(* fail: an error status, or an error event when the status is already sent. *)
fail(r) == IF status[r] = "none"
           THEN failPlain(r)
           ELSE failInBand(r)

(* The handler returns; its deferred release runs. *)
Return(r) == /\ at' = [at EXCEPT ![r] = "done"]
             /\ leases' = [leases EXCEPT ![r] = 0]

Silently == UNCHANGED <<status, inband>>

-----------------------------------------------------------------------------
(* readAddress: the name is read, and the body is rewritten for the child  *)
(* it reads as.  The probe answers 404 for a name that is not managed; the *)
(* ensure endpoint leaves the reading to the manager.                      *)
readAddress(r) ==
  /\ at[r] = "read" /\ kind[r] # "probe"
  /\ addr' = [addr EXCEPT ![r] = reading]
  /\ seen' = [seen EXCEPT ![r] = pushes]
  /\ at' = [at EXCEPT ![r] = "ensuring"]
  /\ UNCHANGED <<kind, reading, pushes, child, leases, status, inband, client>>

(* EnsureServing or EnsureRunning: a lease on what the name reads as now. *)
Ensure(r) ==
  /\ at[r] = "ensuring" /\ reading \in Managed
  /\ child' = [child EXCEPT ![r] = reading]
  /\ leases' = [leases EXCEPT ![r] = 1]
  /\ at' = [at EXCEPT ![r] = "admitted"]
  /\ UNCHANGED <<kind, reading, pushes, addr, seen, status, inband, client>>

(* The ensure fails: not managed, not admitted, start failed, or the       *)
(* client has left.                                                        *)
EnsureFails(r) ==
  /\ at[r] = "ensuring"
  /\ fail(r) /\ Return(r)
  /\ UNCHANGED <<kind, reading, pushes, addr, seen, child, client>>

(* The wait for a child or for its first byte is bridged with heartbeats.  *)
Heartbeat(r) ==
  /\ Streaming(r) /\ at[r] \in {"ensuring", "opening", "first"}
  /\ status[r] = "none" /\ commit(r)
  /\ UNCHANGED <<kind, reading, pushes, at, addr, seen, child, leases, inband, client>>

\* Mutant: a name that reads differently is overlooked.
addressNeverMoves(r) == FALSE

(* addressMoved: the name reads differently than when the body was built. *)
addressMoved(r) == reading # addr[r]

(* ensureServing's second reading. *)
Recheck(r) ==
  /\ at[r] = "admitted" /\ kind[r] # "ensure"
  /\ IF addressMoved(r)
     THEN fail(r) /\ Return(r)
     ELSE /\ at' = [at EXCEPT ![r] = "opening"]
          /\ Silently /\ UNCHANGED leases
  /\ UNCHANGED <<kind, reading, pushes, addr, seen, child, client>>

(* /ensure wants no child: it releases at once, and answers a client that  *)
(* is still there.                                                         *)
serveEnsure(r) ==
  /\ at[r] = "admitted" /\ kind[r] = "ensure"
  /\ Return(r)
  /\ status' = [status EXCEPT ![r] = IF client[r] THEN "ok" ELSE @]
  /\ UNCHANGED <<kind, reading, pushes, addr, seen, child, inband, client>>

(* /upstream: the name and the port are two readings, and a probe starts   *)
(* nothing; the third reading refuses a name that moved between them.      *)
ProbeReads(r) ==
  /\ at[r] = "read" /\ kind[r] = "probe"
  /\ addr' = [addr EXCEPT ![r] = reading]
  /\ seen' = [seen EXCEPT ![r] = pushes]
  /\ IF reading \in Managed
     THEN at' = [at EXCEPT ![r] = "port"] /\ Silently /\ UNCHANGED leases
     ELSE fail(r) /\ Return(r)
  /\ UNCHANGED <<kind, reading, pushes, child, client>>

(* The child of the instance the name read as at first, if it runs. *)
ProbePort(r) ==
  /\ at[r] = "port"
  /\ \/ /\ child' = [child EXCEPT ![r] = addr[r]]
        /\ at' = [at EXCEPT ![r] = "admitted"]
        /\ Silently /\ UNCHANGED leases
     \/ fail(r) /\ Return(r) /\ UNCHANGED child
  /\ UNCHANGED <<kind, reading, pushes, addr, seen, client>>

-----------------------------------------------------------------------------
(* The child answers. *)

(* RoundTrip fails, or the child refuses the request with a status of its  *)
(* own: the status is passed on if none is written yet.                    *)
UpstreamFails(r) ==
  /\ at[r] = "opening"
  /\ fail(r) /\ Return(r)
  /\ UNCHANGED <<kind, reading, pushes, addr, seen, child, client>>

(* Plain, live and probe: the child's answer is copied to the client.      *)
Forward(r) ==
  /\ at[r] = "opening" /\ ~Streaming(r)
  /\ commit(r) /\ UNCHANGED inband /\ Return(r)
  /\ UNCHANGED <<kind, reading, pushes, addr, seen, child, client>>

openUpstreamStream(r) ==
  /\ at[r] = "opening" /\ Streaming(r)
  /\ at' = [at EXCEPT ![r] = "first"]
  /\ Silently
  /\ UNCHANGED <<kind, reading, pushes, addr, seen, child, leases, client>>

(* spliceUpstreamStream: the first read ends with bytes, with the end of   *)
(* the body, with an error, or because the client left and the body was    *)
(* closed under it.                                                        *)
firstRead(r) ==
  /\ at[r] = "first"
  /\ \/ commit(r) /\ UNCHANGED <<inband, leases>> /\ at' = [at EXCEPT ![r] = "splice"]
     \/ commit(r) /\ UNCHANGED inband /\ Return(r)
     \/ client[r] /\ fail(r) /\ Return(r)
     \/ ~client[r] /\ Silently /\ Return(r)
  /\ UNCHANGED <<kind, reading, pushes, addr, seen, child, client>>

(* The rest of the body: the end, an error, or the client leaving. *)
spliceWithCancel(r) ==
  /\ at[r] = "splice"
  /\ \/ Silently
     \/ fail(r)
  /\ Return(r)
  /\ UNCHANGED <<kind, reading, pushes, addr, seen, child, client>>

Step(r) == \/ readAddress(r) \/ Ensure(r) \/ EnsureFails(r) \/ Recheck(r)
           \/ serveEnsure(r) \/ ProbeReads(r) \/ ProbePort(r)
           \/ UpstreamFails(r) \/ Forward(r) \/ openUpstreamStream(r)
           \/ firstRead(r) \/ spliceWithCancel(r)

Next == Push \/ \E r \in Request : Step(r) \/ Heartbeat(r) \/ Leave(r)

Spec == Init /\ [][Next]_vars

-----------------------------------------------------------------------------
TypeOK ==
  /\ reading \in Reading /\ pushes \in 0..MaxPushes
  /\ at \in [Request -> {"read", "ensuring", "port", "admitted", "opening",
                         "first", "splice", "done"}]
  /\ addr \in [Request -> Reading \cup {"none"}]
  /\ child \in [Request -> Managed \cup {"none"}]
  /\ leases \in [Request -> 0..1]
  /\ status \in [Request -> {"none", "ok", "error"}]
  /\ client \in [Request -> BOOLEAN]

(* THE NAME FITS THE CHILD.  A request that reaches a child carries the    *)
(* name that child knows, unless two pushes moved the name away and back   *)
(* between its readings (addressMoved, and the remainder its comment       *)
(* states).                                                                *)
NameFitsChild ==
  \A r \in Request :
    at[r] \in {"opening", "first", "splice"} /\ child[r] # addr[r]
      => pushes >= seen[r] + 2

(* ONE RELEASE PER LEASE.  A handler that has returned owes no release,    *)
(* and one that reached a child through the manager still holds its lease  *)
(* (the deferred releases of every serve function).                        *)
LeaseWhileServed ==
  \A r \in Request :
    leases[r] = (IF at[r] \in Leased /\ kind[r] # "probe" THEN 1 ELSE 0)

(* ONE ANSWER.  A handler that returns has answered its client, unless the *)
(* client has left; an error event follows only a stream that was opened,  *)
(* and at most one is sent (sseCommit).                                    *)
AnsweredOnce ==
  \A r \in Request :
    /\ Done(r) /\ client[r] => status[r] # "none"
    /\ inband[r] <= (IF status[r] = "ok" /\ Streaming(r) /\ Done(r) THEN 1 ELSE 0)

(* A STATUS IS FINAL.  No step replaces a status line already written. *)
StatusIsFinal ==
  [][\A r \in Request : status[r] # "none" => status'[r] = status[r]]_vars

(* AN ABANDONED REQUEST ENDS with its lease returned, at whatever point    *)
(* its client left it (heartbeatWait, heartbeatWaitCtx, spliceWithCancel). *)
EventuallyReleased ==
  \A r \in Request : <>[](~client[r] => Done(r) /\ leases[r] = 0)
=============================================================================
