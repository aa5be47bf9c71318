--------------------------- MODULE GatewayClaims ---------------------------
(***************************************************************************)
(* The claims the ModelDeck gateway process keeps for the requests it      *)
(* proxies (gateway/app.py): the shared heavy-work capacity, the request   *)
(* ids that can be cancelled, and the capacity a diffusion job retains     *)
(* after its request has returned.  The gateway publishes its count in a   *)
(* file the supervisor reads before a model load.                          *)
(*                                                                         *)
(* The gateway runs one event loop; an action is the code of one coroutine *)
(* between two awaits.  asyncio's condition is only held without awaiting, *)
(* so a claim or a release is one step.                                    *)
(***************************************************************************)
EXTENDS Integers, FiniteSets

CONSTANTS
    Requests,    \* HTTP requests and speech connections, each made once
    Ids,         \* request ids the callers choose from
    Asks,        \* what each request may ask for
    Names,       \* the ids each request may have
    Hosts,       \* the thermal states considered
    Heavy,       \* configured_heavy_concurrency
    WritesFail,  \* whether publishing the count may raise OSError
    None         \* no request

HostStates == {"normal", "warm", "hot", "very_hot", "critical", "telemetry_degraded"}

\* JSON requests, diffusion jobs and streams go through proxy_request, speech
\* synthesis through proxy_binary_request, conversations through a web socket.
Kinds == {"json", "job", "stream", "binary", "speech"}

ASSUME GatewayAssumption ==
    /\ IsFiniteSet(Requests)
    /\ Asks \in [Requests -> SUBSET Kinds]
    /\ Names \in [Requests -> SUBSET Ids]
    /\ Hosts \subseteq HostStates
    /\ Heavy \in Nat \ {0}
    /\ WritesFail \in BOOLEAN
    /\ None \notin Requests

VARIABLES
    host,       \* the thermal state the gateway reads
    pc,         \* where each request is
    kind,       \* what it asks for
    rid,        \* its request_id
    active,     \* thermal_active_heavy
    file,       \* active_heavy_concurrency in the workload file
    owner,      \* active_request_workers: the request that holds each id
    jobClaims,  \* thermal_job_claims: the requests whose job holds capacity
    monitors,   \* running monitor_thermal_job tasks
    running,    \* jobs that still run in their Worker
    loading,    \* the thermal state in which the load in progress was admitted, or "none"
    leaked,     \* claims of requests that ended without giving them back
    stuck       \* ids of requests that ended without releasing them

claimVars == <<active, file, leaked>>
jobVars == <<jobClaims, monitors, running>>
envVars == <<host, loading>>
vars == <<envVars, pc, kind, rid, claimVars, owner, stuck, jobVars>>

\* The request has capacity of its own.
Holding == {"health", "sending", "cancelling", "reading", "streaming", "aborting", "closing",
            "talking", "leaving"}

\* The request has its id in active_request_workers.
Registered == {"sending", "cancelling", "reading", "streaming", "aborting", "closing"}

\* A stream's body is being forwarded, or a conversation goes on: nothing bounds
\* how long, the other side may read slowly and talk for ever.
Open == {"streaming", "talking"}

Holders == {r \in Requests : pc[r] \in Holding}

\* The heavy work that holds capacity: requests in flight, and jobs
Work == Cardinality(Holders) + Cardinality(jobClaims)

TypeOK ==
    /\ host \in HostStates
    /\ pc \in [Requests -> Holding \cup {"new", "queued", "done"}]
    /\ kind \in [Requests -> Kinds]
    /\ rid \in [Requests -> Ids]
    /\ active \in Nat /\ file \in Nat /\ leaked \in Nat
    /\ owner \in [Ids -> Requests \cup {None}]
    /\ jobClaims \subseteq Requests
    /\ monitors \subseteq Requests
    /\ running \subseteq Requests
    /\ loading \in {"none", "normal", "warm"}
    /\ stuck \subseteq Ids

\* lifespan publishes a count of zero.
Init ==
    /\ host \in Hosts
    /\ pc = [r \in Requests |-> "new"]
    /\ kind \in {k \in [Requests -> Kinds] : \A r \in Requests : k[r] \in Asks[r]}
    /\ rid \in {f \in [Requests -> Ids] : \A r \in Requests : f[r] \in Names[r]}
    /\ active = 0 /\ file = 0 /\ leaked = 0
    /\ owner = [i \in Ids |-> None]
    /\ jobClaims = {} /\ monitors = {} /\ running = {}
    /\ loading = "none"
    /\ stuck = {}

---------------------------------------------------------------------------
(* The shared capacity *)

\* capacity_for_state: the heavy_concurrency_limit of the snapshot
HeavyLimit(s) ==
    CASE s \in {"normal", "warm"} -> Heavy
      [] s \in {"hot", "telemetry_degraded"} -> 1
      [] OTHER -> 0

\* evaluate() for a request: some states refuse all of them, and all but NORMAL
\* refuse some, by the workload class and whether the request is automatic.
Refused(s) == s \in {"critical", "very_hot"}
MayRefuse(s) == s # "normal"

HasCapacity_OffByOne == active <= HeavyLimit(host)

HasCapacity == active < HeavyLimit(host)

Goto(r, label) == pc' = [pc EXCEPT ![r] = label]

\* publish_gateway_workload_activity with the count n
Publishes_OffByOne(n) == file' = n - 1

Publishes(n) == file' = n

\* release_thermal_capacity
Release ==
    /\ active' = IF active > 0 THEN active - 1 ELSE 0
    /\ UNCHANGED leaked

\* ... and the count is published.
ReleaseCapacity == Release /\ Publishes(active')

\* ... and the publication raises, with the count already decreased.
ReleaseRaises == WritesFail /\ Release /\ UNCHANGED file

\* claim_active_request and release_active_request
ClaimId(r) == owner' = [owner EXCEPT ![rid[r]] = r]
ReleaseId(r) == owner' = [owner EXCEPT ![rid[r]] = IF @ = r THEN None ELSE @]

---------------------------------------------------------------------------
(* proxy_request, proxy_binary_request, speech_conversation *)

\* One turn of the loop in claim_thermal_capacity.
Claim(r) ==
    /\ pc[r] \in {"new", "queued"}
    /\ \/ /\ MayRefuse(host)
          /\ Goto(r, "done")
          /\ UNCHANGED claimVars
       \/ /\ ~Refused(host) /\ HasCapacity
          /\ active' = active + 1
          /\ Publishes(active')
          /\ Goto(r, "health")
          /\ UNCHANGED leaked
       \/ /\ ~Refused(host) /\ ~HasCapacity
          /\ Goto(r, "queued")
          /\ UNCHANGED claimVars
    /\ UNCHANGED <<envVars, kind, rid, owner, stuck, jobVars>>

\* The count is increased before it is published: an OSError leaves it so.
ClaimRaises(r) ==
    /\ WritesFail
    /\ pc[r] \in {"new", "queued"}
    /\ ~Refused(host) /\ HasCapacity
    /\ active' = active + 1
    /\ leaked' = leaked + 1
    /\ Goto(r, "done")
    /\ UNCHANGED <<envVars, kind, rid, file, owner, stuck, jobVars>>

\* recovery_step_seconds have passed in the queue.
QueueTimesOut(r) ==
    /\ pc[r] = "queued"
    /\ Goto(r, "done")
    /\ UNCHANGED <<envVars, kind, rid, claimVars, owner, stuck, jobVars>>

\* The request ends here, with its capacity given back.
EndsReleasing(r) ==
    /\ ReleaseCapacity \/ ReleaseRaises
    /\ Goto(r, "done")
    /\ UNCHANGED <<envVars, kind, rid, jobVars>>

\* No candidate Worker is ready, or the id is in use: the claim is given back.
NotForwarded(r) ==
    /\ pc[r] = "health"
    /\ EndsReleasing(r)
    /\ UNCHANGED <<owner, stuck>>

\* A Worker is ready and, except for a speech connection, the id is free.
Forwarded_AnyId(r) ==
    /\ pc[r] = "health"
    /\ \/ kind[r] = "speech" /\ Goto(r, "talking") /\ UNCHANGED owner
       \/ kind[r] # "speech" /\ ClaimId(r) /\ Goto(r, "sending")
    /\ UNCHANGED <<envVars, kind, rid, claimVars, stuck, jobVars>>

Forwarded(r) ==
    /\ pc[r] = "health"
    /\ \/ kind[r] = "speech" /\ Goto(r, "talking") /\ UNCHANGED owner
       \/ kind[r] # "speech" /\ owner[rid[r]] = None /\ ClaimId(r) /\ Goto(r, "sending")
    /\ UNCHANGED <<envVars, kind, rid, claimVars, stuck, jobVars>>

\* send_with_disconnect_check returned the Worker's response.  A diffusion Worker
\* has started its job.
Responded(r) ==
    /\ pc[r] = "sending" /\ kind[r] \in {"json", "job", "stream"}
    /\ Goto(r, IF kind[r] = "stream" THEN "streaming" ELSE "reading")
    /\ running' = IF kind[r] = "job" THEN running \cup {r} ELSE running
    /\ UNCHANGED <<envVars, kind, rid, claimVars, owner, stuck, jobClaims, monitors>>

\* The deadline passed, the client left or the task was cancelled: the Worker is
\* asked to stop first.
Interrupted(r) ==
    /\ pc[r] = "sending" /\ kind[r] # "binary"
    /\ Goto(r, "cancelling")
    /\ UNCHANGED <<envVars, kind, rid, claimVars, owner, stuck, jobVars>>

\* The error paths of proxy_request release the capacity before the id, so an
\* OSError leaves the id behind.
Failed(r) ==
    /\ pc[r] = "cancelling" \/ (pc[r] = "sending" /\ kind[r] # "binary")
    /\ Goto(r, "done")
    /\ \/ ReleaseCapacity /\ ReleaseId(r) /\ UNCHANGED stuck
       \/ ReleaseRaises /\ stuck' = stuck \cup {rid[r]} /\ UNCHANGED owner
    /\ UNCHANGED <<envVars, kind, rid, jobVars>>

\* The finally blocks of proxy_binary_request and of proxy_request release the id
\* first.
Finished(r) ==
    /\ \/ pc[r] = "sending" /\ kind[r] = "binary"
       \/ pc[r] = "reading"
    /\ ReleaseId(r)
    /\ EndsReleasing(r)
    /\ UNCHANGED stuck

\* The response of /v1/diffuse names a job: the job keeps the capacity.
Retained(r) ==
    /\ pc[r] = "reading" /\ kind[r] = "job"
    /\ jobClaims' = jobClaims \cup {r}
    /\ monitors' = monitors \cup {r}
    /\ ReleaseId(r)
    /\ Goto(r, "done")
    /\ UNCHANGED <<envVars, kind, rid, claimVars, stuck, running>>

\* forward_stream: a stream that fails or that the client leaves is cancelled in
\* the Worker first; one that the Worker completed is not.
StreamAborts(r) ==
    /\ pc[r] = "streaming"
    /\ Goto(r, "aborting")
    /\ UNCHANGED <<envVars, kind, rid, claimVars, owner, stuck, jobVars>>

StreamCompletes(r) ==
    /\ pc[r] = "streaming"
    /\ Goto(r, "closing")
    /\ UNCHANGED <<envVars, kind, rid, claimVars, owner, stuck, jobVars>>

\* release_gateway_claims, once the response and the client are closed
StreamEnds(r) ==
    /\ pc[r] \in {"aborting", "closing"}
    /\ ReleaseId(r)
    /\ EndsReleasing(r)
    /\ UNCHANGED stuck

\* A release that lies behind an await is never reached when that await is
\* cancelled: the call to the Worker in the error paths of proxy_request, that
\* call and the two closes in the finally block of forward_stream.  And a
\* response whose body nobody iterates has no finally block to run at all.
\* The capacity and the id stay behind.
Abandoned(r) ==
    /\ pc[r] \in {"cancelling", "streaming", "aborting", "closing"}
    /\ Goto(r, "done")
    /\ leaked' = leaked + 1
    /\ stuck' = stuck \cup {rid[r]}
    /\ UNCHANGED <<envVars, kind, rid, active, file, owner, jobVars>>

\* One side of the conversation ends it, or the other fails.
SpeechLeft(r) ==
    /\ pc[r] = "talking"
    /\ Goto(r, "leaving")
    /\ UNCHANGED <<envVars, kind, rid, claimVars, owner, stuck, jobVars>>

\* The upstream connection is closed; the finally block gives the capacity back.
SpeechEnds(r) ==
    /\ pc[r] = "leaving"
    /\ EndsReleasing(r)
    /\ UNCHANGED <<owner, stuck>>

---------------------------------------------------------------------------
(* Diffusion jobs *)

\* release_thermal_job_capacity: only the first of several releases counts.
ReleaseJob_Always(r) ==
    /\ jobClaims' = jobClaims \ {r}
    /\ ReleaseCapacity \/ ReleaseRaises

ReleaseJob(r) ==
    IF r \in jobClaims
    THEN /\ jobClaims' = jobClaims \ {r}
         /\ ReleaseCapacity \/ ReleaseRaises
    ELSE UNCHANGED <<jobClaims, claimVars>>

\* The job completes, fails, is cancelled or dies with its Worker.
JobEnds(r) ==
    /\ r \in running
    /\ running' = running \ {r}
    /\ UNCHANGED <<envVars, pc, kind, rid, claimVars, owner, stuck, jobClaims, monitors>>

\* monitor_thermal_job saw the job end or lost its Worker; or its deadline passed,
\* and the job may still run.
MonitorEnds_NoDeadline(r) ==
    /\ r \in monitors \ running
    /\ monitors' = monitors \ {r}
    /\ ReleaseJob(r)
    /\ UNCHANGED <<envVars, pc, kind, rid, owner, stuck, running>>

MonitorEnds(r) ==
    /\ r \in monitors
    /\ monitors' = monitors \ {r}
    /\ ReleaseJob(r)
    /\ UNCHANGED <<envVars, pc, kind, rid, owner, stuck, running>>

\* A client's status request finds the job ended.
JobPolled(r) ==
    /\ kind[r] = "job" /\ pc[r] = "done" /\ r \notin running
    /\ ReleaseJob(r)
    /\ UNCHANGED <<envVars, pc, kind, rid, owner, stuck, monitors, running>>

\* The Worker accepts a client's cancellation; the job stops later.
JobCancelled(r) ==
    /\ r \in running /\ pc[r] = "done"
    /\ ReleaseJob(r)
    /\ UNCHANGED <<envVars, pc, kind, rid, owner, stuck, monitors, running>>

---------------------------------------------------------------------------
(* The gateway process and the rest of the host *)

\* The gateway process ends and starts again; jobs go on in their Workers.
GatewayRestarts ==
    /\ \E r \in Requests : pc[r] # "new"
    /\ pc' = [r \in Requests |-> IF pc[r] = "new" THEN "new" ELSE "done"]
    /\ active' = 0 /\ file' = 0 /\ leaked' = 0
    /\ owner' = [i \in Ids |-> None]
    /\ stuck' = {}
    /\ jobClaims' = {} /\ monitors' = {}
    /\ UNCHANGED <<envVars, kind, rid, running>>

\* The thermal snapshot changes, or is too old.
HostChanges(s) ==
    /\ s # host
    /\ host' = s
    /\ UNCHANGED <<loading, pc, kind, rid, claimVars, owner, stuck, jobVars>>

\* The supervisor's start() is admitted by the published count.
LoadBegins ==
    /\ loading = "none"
    /\ host = "normal" \/ (host = "warm" /\ file = 0)
    /\ loading' = host
    /\ UNCHANGED <<host, pc, kind, rid, claimVars, owner, stuck, jobVars>>

LoadEnds ==
    /\ loading # "none"
    /\ loading' = "none"
    /\ UNCHANGED <<host, pc, kind, rid, claimVars, owner, stuck, jobVars>>

---------------------------------------------------------------------------
\* The request's coroutine moves on.
Step(r) ==
    \/ Claim(r) \/ ClaimRaises(r) \/ QueueTimesOut(r)
    \/ NotForwarded(r) \/ Forwarded(r)
    \/ Responded(r) \/ Interrupted(r) \/ Failed(r) \/ Finished(r) \/ Retained(r)
    \/ StreamAborts(r) \/ StreamCompletes(r) \/ StreamEnds(r) \/ Abandoned(r)
    \/ SpeechLeft(r) \/ SpeechEnds(r)

Next ==
    \/ \E r \in Requests : Step(r) \/ JobEnds(r) \/ MonitorEnds(r) \/ JobPolled(r) \/ JobCancelled(r)
    \/ GatewayRestarts
    \/ \E s \in Hosts : HostChanges(s)
    \/ LoadBegins \/ LoadEnds

Spec == Init /\ [][Next]_vars

\* Every await of a request and of a monitor is bounded by a time-out, but for those
\* of an open stream or conversation.  A queued request that is woken again and
\* again reaches its deadline.
Fairness ==
    \A r \in Requests :
        /\ WF_vars(QueueTimesOut(r))
        /\ WF_vars(pc[r] \in Holding \ Open /\ Step(r))
        /\ WF_vars(MonitorEnds(r))

FairSpec == Spec /\ Fairness

---------------------------------------------------------------------------
(* Properties *)

\* The count is the requests in flight that hold capacity, the jobs that retain
\* it and the claims that stay behind on the two kinds of exit that lose them: an
\* OSError while claiming (ClaimRaises), a stream or clean-up that is abandoned
\* (Abandoned).  Every other path through the proxies, the monitors, client polls
\* and cancellations gives back exactly what it took, once.
ClaimsAccounted == active = Work + leaked

\* However requests queue and jobs outlive their requests, the work that holds
\* capacity never exceeds the configured limit, and it only grows within the limit
\* of the present thermal state: claims held when the host got hotter are kept, but
\* their late releases admit nothing above the shrunken limit.
SharedLimit ==
    /\ [](Work <= Heavy)
    /\ [][Work' > Work => Work' <= HeavyLimit(host)]_vars

\* The supervisor is never told of less heavy work than holds capacity, also after
\* the file could not be written.
FileCoversWork == file >= Work

\* A cancellation by id reaches the one request in flight that owns it: the owner
\* of an id is registered under it, unless an OSError (Failed) or a stream or clean-up that was
\* abandoned left the id behind.
OwnersAreInFlight ==
    /\ \A i \in Ids \ stuck : owner[i] # None =>
           pc[owner[i]] \in Registered /\ rid[owner[i]] = i
    /\ \A r \in Requests : pc[r] \in Registered => owner[rid[r]] = r

\* No request sits on capacity: one that holds some ends, or has a stream or a
\* conversation that is open to its client, and when that is left or completed it
\* ends too.  A job's claim is released, also when the job itself never ends.
CapacityComesBack ==
    \A r \in Requests :
        /\ pc[r] \in Holding \ Open ~> pc[r] \notin Holding \ Open
        /\ r \in jobClaims ~> r \notin jobClaims
============================================================================
