--------------------------- MODULE RouteResolution ---------------------------
(***************************************************************************)
(* How the gateway turns a public name into a Worker process               *)
(* (gateway/app.py, gateway/resolution.py).  A request takes a snapshot of *)
(* the active route, asks the candidates for their health in order, and    *)
(* posts to the port of the first that is ready; what listens on that port *)
(* may have changed since.  A diffusion job is later found again through   *)
(* the gateway's memory, its table, or by asking every candidate.          *)
(*                                                                         *)
(* One public name, whose candidates are text-diffusion Workers.  Each     *)
(* request is made once; the job it starts has the request's name.         *)
(***************************************************************************)
EXTENDS Naturals, Sequences

CONSTANTS
    Workers, PortOf,  \* the Workers' definitions and the port each one has
    Requests,         \* POSTs that start a job
    Polls,            \* polls, cancellations and subscriptions in progress
    Discoveries,      \* calls of /v1/models and /v1/routes
    Routes,           \* bound: the routes that may be published
    InitialRows,      \* what the rows may be at first
    None

VARIABLES
    row,        \* the row of each Worker: "live", "archived", "invalid" or "missing"
    route,      \* worker_ids of the active revision's capability
    listener,   \* the Worker whose process listens on each port, or None
    condition,  \* of each Worker's process: "loading", "ready" or "busy"
    request, poll, discovery,
    job,        \* each request's job: the Worker whose process has it, and its state
    memo,       \* job_routes
    assigned,   \* gateway_job_assignments
    released    \* ghost: jobs whose assignment was deleted on purpose, or never made

world == <<row, route, listener, condition>>
jobVars == <<job, memo, assigned, released>>
routeVars == <<world, request, poll, discovery, jobVars>>

ListeningPorts == {PortOf[w] : w \in Workers}
NoJob == [home |-> None, state |-> "none"]

\* ResolvedRoute.resolve: a row that is missing, invalid or archived is configured but is not
\* a candidate.  Candidates are places in the list of ids, and are asked from the first on.
Candidates(ids) == {i \in DOMAIN ids : row[ids[i]] = "live"}

IsFirst(i, places) == i \in places /\ \A k \in places : i <= k

\* A request while it asks for health and once it has chosen; a poll; a discovery.
Probing(ids, left, cands, busy) ==
    [pc |-> "probing", ids |-> ids, left |-> left, cands |-> cands, busy |-> busy]
Chosen(ids, cands, worker, moved) ==
    [pc |-> "ready", ids |-> ids, cands |-> cands, worker |-> worker, moved |-> moved]
Resolving(q, left, by, role) ==
    [pc |-> "resolving", ids |-> q.ids, left |-> left, worker |-> q.worker, by |-> by, role |-> role,
     moved |-> q.moved]
Refused(code, ids) == [pc |-> "answered", code |-> code, ids |-> ids]
Asking(op, j, w) == [pc |-> "asking", op |-> op, job |-> j, worker |-> w]
Searching(op, j, ids, left, silent) ==
    [pc |-> "searching", op |-> op, job |-> j, ids |-> ids, left |-> left, silent |-> silent]
Looking(ids, cands, left, ready) ==
    [pc |-> "looking", ids |-> ids, cands |-> cands, left |-> left, ready |-> ready]

RouteTypesOK ==
    /\ row \in [Workers -> {"live", "archived", "invalid", "missing"}]
    /\ route \in Routes
    /\ \A p \in ListeningPorts : listener[p] \in {w \in Workers : PortOf[w] = p} \cup {None}
    /\ condition \in [Workers -> {"loading", "ready", "busy"}]
    /\ \A r \in Requests : request[r].pc \in {"new", "probing", "ready", "resolving", "answered"}
    /\ \A c \in Polls : poll[c].pc \in {"idle", "searching", "asking", "answered"}
    /\ \A d \in Discoveries : discovery[d].pc \in {"new", "looking", "told"}
    /\ job \in [Requests -> [home : Workers \cup {None},
                            state : {"none", "running", "ended", "lost"}]]
    /\ memo \in [Requests -> Workers \cup {None}] /\ assigned \in [Requests -> Workers \cup {None}]
    /\ released \subseteq Requests

---------------------------------------------------------------------------
(* What a process answers *)

Waiting(r) == request[r].pc = "ready"

\* A bug: any process that is ready will do.
Answers_AnyIdentity(w) ==
    LET v == listener[PortOf[w]]
    IN {[ready |-> FALSE, busy |-> FALSE, worker |-> None]} \cup
       (IF v = None THEN {}
        ELSE {[ready |-> condition[v] = "ready", busy |-> condition[v] = "busy", worker |-> v]})

\* worker_health: what listens on the Worker's port answers with its own identity, and
\* whatever it says of being busy is kept.  Nothing answers in time: None.
Answers(w) ==
    LET v == listener[PortOf[w]]
    IN {[ready |-> FALSE, busy |-> FALSE, worker |-> None]} \cup
       (IF v = None THEN {}
        ELSE {[ready |-> v = w /\ condition[v] = "ready", busy |-> condition[v] = "busy", worker |-> v]})

Has(w, j) == listener[PortOf[w]] # None /\ job[j].home = listener[PortOf[w]]

\* GET /v1/jobs/{id} at the Worker's port.
JobAnswers(w, j) ==
    {"silent"} \cup (IF listener[PortOf[w]] = None THEN {}
                     ELSE IF Has(w, j) THEN {job[j].state} ELSE {"unknown"})

\* resolve_job_worker takes the first answer that is not 404.
IsHome(answer) == answer \notin {"silent", "unknown"}

---------------------------------------------------------------------------
(* Requests: proxy_request and diffuse_request *)

\* The route is resolved before the body is read and before the request waits for capacity.
Resolves(r) ==
    /\ request[r].pc = "new"
    /\ request' = [request EXCEPT ![r] =
           IF Candidates(route) = {} THEN Refused("unavailable", route)
           ELSE Probing(route, Candidates(route), Candidates(route), TRUE)]
    /\ UNCHANGED <<world, poll, discovery, jobVars>>

\* route_role: the first of the configured Workers is the primary.
RouteRole(q, w) == IF Head(q.ids) = w THEN "primary" ELSE "backup"

Probes(r) ==
    LET q == request[r] IN
    /\ q.pc = "probing"
    /\ \E i \in q.left : IsFirst(i, q.left) /\ \E h \in Answers(q.ids[i]) :
           request' = [request EXCEPT ![r] =
               IF h.ready THEN Chosen(q.ids, q.cands, q.ids[i], FALSE)
               ELSE Probing(q.ids, q.left \ {i}, q.cands, q.busy /\ h.busy)]
    /\ UNCHANGED <<world, poll, discovery, jobVars>>

\* 429 if every health said busy, 503 otherwise.
NoneReady(r) ==
    /\ request[r].pc = "probing" /\ request[r].left = {}
    /\ request' = [request EXCEPT ![r] =
           Refused(IF request[r].busy THEN "busy" ELSE "unavailable", request[r].ids)]
    /\ UNCHANGED <<world, poll, discovery, jobVars>>

\* The POST reaches what listens now, or nothing.
Sends(r) ==
    LET q == request[r]
        v == listener[PortOf[q.worker]] IN
    /\ q.pc = "ready"
    /\ IF v = None \/ condition[v] # "ready"
       THEN /\ request' = [request EXCEPT ![r] = Refused("failed", q.ids)]
            /\ UNCHANGED jobVars
       ELSE /\ request' = [request EXCEPT ![r] =
                    Resolving(q, q.cands, v, RouteRole(q, q.worker))]
            /\ job' = [job EXCEPT ![r] = [home |-> v, state |-> "running"]]
            /\ UNCHANGED <<memo, assigned, released>>
    /\ UNCHANGED <<world, poll, discovery>>

Served(q) == [pc |-> "answered", code |-> "ok", ids |-> q.ids, worker |-> q.worker,
              by |-> q.by, role |-> q.role, moved |-> q.moved]

\* diffuse_request looks for the job it has just started among its candidates, and
\* saves where it found it; if nobody owned to it the answer goes out all the same.
FindsItsJob(r) ==
    LET q == request[r] IN
    /\ q.pc = "resolving"
    /\ \/ /\ q.left = {}
          /\ request' = [request EXCEPT ![r] = Served(q)]
          /\ released' = released \cup {r}
          /\ UNCHANGED <<job, memo, assigned>>
       \/ \E i \in q.left : IsFirst(i, q.left) /\ \E answer \in JobAnswers(q.ids[i], r) :
            IF IsHome(answer)
            THEN /\ request' = [request EXCEPT ![r] = Served(q)]
                 /\ memo' = [memo EXCEPT ![r] = q.ids[i]]
                 /\ assigned' = [assigned EXCEPT ![r] = q.ids[i]]
                 /\ UNCHANGED <<job, released>>
            ELSE /\ request' = [request EXCEPT ![r] = Resolving(q, q.left \ {i}, q.by, q.role)]
                 /\ UNCHANGED jobVars
    /\ UNCHANGED <<world, poll, discovery>>

---------------------------------------------------------------------------
(* Polls, cancellations and subscriptions of a job *)

Started(j) == request[j].pc = "answered" /\ request[j].code = "ok"

\* resolve_job_worker up to its first request: the memory, then the table, whose row
\* may be archived and must be valid, then the candidates of the active routes.
AsksFor(c, j, op) ==
    /\ poll[c].pc = "idle" /\ Started(j)
    /\ CASE memo[j] # None ->
              /\ poll' = [poll EXCEPT ![c] = Asking(op, j, memo[j])]
              /\ UNCHANGED memo
         [] memo[j] = None /\ assigned[j] # None /\ row[assigned[j]] \in {"live", "archived"} ->
              /\ poll' = [poll EXCEPT ![c] = Asking(op, j, assigned[j])]
              /\ memo' = [memo EXCEPT ![j] = assigned[j]]
         [] memo[j] = None /\ assigned[j] # None /\ row[assigned[j]] = "invalid" ->
              /\ UNCHANGED poll  \* an error
              /\ UNCHANGED memo
         [] OTHER ->
              /\ poll' = [poll EXCEPT ![c] = Searching(op, j, route, Candidates(route), FALSE)]
              /\ UNCHANGED memo
    /\ UNCHANGED <<world, request, discovery, job, assigned, released>>

Searches(c) ==
    LET q == poll[c] IN
    /\ q.pc = "searching"
    /\ \E i \in q.left : IsFirst(i, q.left) /\ \E answer \in JobAnswers(q.ids[i], q.job) :
           IF IsHome(answer)
           THEN /\ poll' = [poll EXCEPT ![c] = Asking(q.op, q.job, q.ids[i])]
                /\ memo' = [memo EXCEPT ![q.job] = q.ids[i]]
                /\ assigned' = [assigned EXCEPT ![q.job] = q.ids[i]]
           ELSE /\ poll' = [poll EXCEPT ![c] =
                       Searching(q.op, q.job, q.ids, q.left \ {i}, q.silent \/ answer = "silent")]
                /\ UNCHANGED <<memo, assigned>>
    /\ UNCHANGED <<world, request, discovery, job, released>>

SearchFails(c) ==
    /\ poll[c].pc = "searching" /\ poll[c].left = {}
    /\ poll' = [poll EXCEPT ![c] = [pc |-> "answered", op |-> poll[c].op, job |-> poll[c].job,
                   code |-> IF poll[c].silent THEN "perhaps" ELSE "unknown"]]
    /\ UNCHANGED <<world, request, discovery, jobVars>>

\* A poll whose answer is terminal and a cancellation that got an answer delete the
\* assignment; a Worker answers 200 to the cancellation of a job it does not have.
JobAnswered(c) ==
    LET q == poll[c] IN
    /\ q.pc = "asking"
    /\ \E answer \in JobAnswers(q.worker, q.job) :
        LET over == (q.op = "poll" /\ answer = "ended") \/ (q.op = "cancel" /\ answer # "silent") IN
        /\ poll' = [poll EXCEPT ![c] = [pc |-> "idle"]]
        /\ assigned' = IF over THEN [assigned EXCEPT ![q.job] = None] ELSE assigned
        /\ released' = IF over THEN released \cup {q.job} ELSE released
    /\ UNCHANGED <<world, request, discovery, job, memo>>

Returns(c) ==
    /\ poll[c].pc = "answered"
    /\ poll' = [poll EXCEPT ![c] = [pc |-> "idle"]]
    /\ UNCHANGED <<world, request, discovery, jobVars>>

---------------------------------------------------------------------------
(* Discovery: active_route_records, worker_states, model_discovery_record *)

Looks(d) ==
    /\ discovery[d].pc = "new"
    /\ discovery' = [discovery EXCEPT ![d] = Looking(route, Candidates(route), Candidates(route), {})]
    /\ UNCHANGED <<world, request, poll, jobVars>>

Sees(d) ==
    LET q == discovery[d] IN
    /\ q.pc = "looking"
    /\ \E i \in q.left : IsFirst(i, q.left) /\ \E h \in Answers(q.ids[i]) :
           discovery' = [discovery EXCEPT ![d] =
               Looking(q.ids, q.cands, q.left \ {i}, IF h.ready THEN q.ready \cup {i} ELSE q.ready)]
    /\ UNCHANGED <<world, request, poll, jobVars>>

\* The first ready candidate is selected, "primary_ready" if it is the first
\* configured Worker, which may not be a candidate.
Record(q) ==
    LET selected == IF q.ready = {} THEN None ELSE q.ids[CHOOSE i \in q.ready : IsFirst(i, q.ready)]
    IN [pc |-> "told", ids |-> q.ids, selected |-> selected,
        primary |-> IF 1 \in q.cands THEN Head(q.ids) ELSE None,
        reason |-> IF selected = None THEN "no_ready_worker"
                   ELSE IF selected = Head(q.ids) THEN "primary_ready" ELSE "backup_ready"]

Tells(d) ==
    /\ discovery[d].pc = "looking" /\ discovery[d].left = {}
    /\ discovery' = [discovery EXCEPT ![d] = Record(discovery[d])]
    /\ UNCHANGED <<world, request, poll, jobVars>>

---------------------------------------------------------------------------
(* The rest of the system *)

\* The process behind a port goes or comes; the jobs it had are lost, and whoever is
\* about to use the port is marked.
Listens(p, w) ==
    /\ listener' = [listener EXCEPT ![p] = w]
    /\ job' = [j \in Requests |-> IF job[j].home # None /\ job[j].home = listener[p]
                                  THEN [home |-> None, state |-> "lost"] ELSE job[j]]
    /\ request' = [r \in Requests |-> IF Waiting(r) /\ PortOf[request[r].worker] = p
                                      THEN Chosen(request[r].ids, request[r].cands, request[r].worker, TRUE)
                                      ELSE request[r]]

Dies(p) ==
    /\ listener[p] # None /\ Listens(p, None)
    /\ UNCHANGED <<row, route, condition, poll, discovery, memo, assigned, released>>

Launches(w) ==
    /\ row[w] = "live" /\ listener[PortOf[w]] = None
    /\ Listens(PortOf[w], w)
    /\ condition' = [condition EXCEPT ![w] = "loading"]
    /\ UNCHANGED <<row, route, poll, discovery, memo, assigned, released>>

\* It gets ready, and busy with something else for a while.
ChangesCondition(w) ==
    /\ listener[PortOf[w]] = w
    /\ condition' = [condition EXCEPT ![w] = IF @ = "ready" THEN "busy" ELSE "ready"]
    /\ UNCHANGED <<row, route, listener, request, poll, discovery, jobVars>>

JobEnds(j) ==
    /\ job[j].state = "running"
    /\ job' = [job EXCEPT ![j].state = "ended"]
    /\ UNCHANGED <<world, request, poll, discovery, memo, assigned, released>>

\* Archiving removes the process first; a new Worker may be given the port.
RetiresWorker(w) ==
    /\ row[w] = "live" /\ listener[PortOf[w]] # w
    /\ row' = [row EXCEPT ![w] = "archived"]
    /\ UNCHANGED <<route, listener, condition, request, poll, discovery, jobVars>>

AddsWorker(w) ==
    /\ row[w] = "missing"
    /\ \A v \in Workers : row[v] = "live" => PortOf[v] # PortOf[w]
    /\ row' = [row EXCEPT ![w] = "live"]
    /\ UNCHANGED <<route, listener, condition, request, poll, discovery, jobVars>>

Reroutes(ids) ==
    /\ ids # route
    /\ route' = ids
    /\ UNCHANGED <<row, listener, condition, request, poll, discovery, jobVars>>

\* The gateway forgets job_routes; what it was doing is lost with it.  A later version
\* of the program may not accept a document.
GatewayStartsAgain ==
    /\ \A r \in Requests : request[r].pc \in {"new", "answered"}
    /\ \A c \in Polls : poll[c].pc \in {"idle", "answered"}
    /\ memo' = [j \in Requests |-> None]
    /\ memo # memo'
    /\ \/ UNCHANGED row
       \/ \E w \in Workers : row[w] = "live" /\ row' = [row EXCEPT ![w] = "invalid"]
    /\ UNCHANGED <<route, listener, condition, request, poll, discovery, job, assigned, released>>

---------------------------------------------------------------------------

RoutesInit ==
    /\ row \in InitialRows
    /\ route \in Routes
    /\ listener = [p \in ListeningPorts |-> None] /\ condition = [w \in Workers |-> "loading"]
    /\ request = [r \in Requests |-> [pc |-> "new"]] /\ poll = [c \in Polls |-> [pc |-> "idle"]]
    /\ discovery = [d \in Discoveries |-> [pc |-> "new"]]
    /\ job = [r \in Requests |-> NoJob]
    /\ memo = [r \in Requests |-> None] /\ assigned = [r \in Requests |-> None] /\ released = {}

RoutesNext ==
    \/ \E r \in Requests : Resolves(r) \/ Probes(r) \/ NoneReady(r) \/ Sends(r) \/ FindsItsJob(r)
    \/ \E c \in Polls, j \in Requests, op \in {"poll", "cancel", "events"} : AsksFor(c, j, op)
    \/ \E c \in Polls : Searches(c) \/ SearchFails(c) \/ JobAnswered(c) \/ Returns(c)
    \/ \E d \in Discoveries : Looks(d) \/ Sees(d) \/ Tells(d)
    \/ \E p \in ListeningPorts : Dies(p)
    \/ \E w \in Workers : Launches(w) \/ ChangesCondition(w) \/ RetiresWorker(w) \/ AddsWorker(w)
    \/ \E j \in Requests : JobEnds(j)
    \/ \E ids \in Routes : Reroutes(ids)
    \/ GatewayStartsAgain

RoutesSpec == RoutesInit /\ [][RoutesNext]_routeVars

---------------------------------------------------------------------------

\* A Worker process took the request.
Processed(q) == q.pc = "resolving" \/ (q.pc = "answered" /\ q.code = "ok")

\* The Worker that an answer's headers name is the one that did the work, unless the
\* process behind its port was replaced between its health and the request
\* (proxy_request, app.py:749 and 790).
ServedByItsWorker ==
    \A r \in Requests : Processed(request[r]) => request[r].by = request[r].worker \/ request[r].moved

\* The header of an answer and the discovery record of the same route do not disagree
\* on whether a Worker is the primary, whichever Workers were usable at the time
\* (route_role, model_discovery_record).
RolesAgree ==
    \A r \in Requests, d \in Discoveries :
        (/\ Processed(request[r]) /\ discovery[d].pc = "told"
         /\ request[r].ids = discovery[d].ids /\ request[r].worker = discovery[d].selected)
            => (request[r].role = "primary") = (discovery[d].reason = "primary_ready")

\* Where the gateway looks for a job is the port of the process that has it, for as long
\* as that process lives (resolve_job_worker).
JobsAreFound ==
    \A j \in Requests : job[j].home # None =>
        /\ memo[j] # None => PortOf[memo[j]] = PortOf[job[j].home]
        /\ assigned[j] # None => PortOf[assigned[j]] = PortOf[job[j].home]

\* A job that was found when it was started, and neither cancelled nor seen to end, is not
\* reported unknown while its process has it, whatever was published or restarted
\* since (app.py:515).
KnownJobsAreNotUnknown ==
    \A c \in Polls :
        (/\ poll[c].pc = "answered" /\ poll[c].code \in {"unknown", "perhaps"}
         /\ poll[c].job \notin released)
            => job[poll[c].job].home = None

=============================================================================
