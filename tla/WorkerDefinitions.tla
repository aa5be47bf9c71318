-------------------------- MODULE WorkerDefinitions --------------------------
(***************************************************************************)
(* The Worker definitions of the management API (v2_api.py): rows of the   *)
(* store, the definitions in memory and the supervisor's registry, which   *)
(* must say the same; the Routing Profiles, policies and evidence that     *)
(* refer to them; and the service's restarts, which load only the rows     *)
(* whose runtime is trusted.  One Model and one of its capabilities.       *)
(*                                                                         *)
(* A handler runs without interruption but where it awaits: a creation     *)
(* while it verifies a release, an archiving while it waits for the lock   *)
(* of a Worker that a start holds, a qualification while the Worker works. *)
(***************************************************************************)
EXTENDS Naturals

CONSTANTS
    Workers,   \* ids create_worker may draw
    Names, Ports,
    Profiles,  \* Routing Profiles
    Bindings,  \* bound: the sets of Workers a profile's capability may have
    Tested,    \* those whose qualification is "tested-working"
    Calls,     \* API requests in progress
    None

ASSUME DefinitionsAssumption ==
    /\ Bindings \subseteq SUBSET Workers /\ {} \in Bindings
    /\ \A ws \in Bindings : \A v \in ws, w \in Workers : (ws \ {v}) \cup {w} \in Bindings
    /\ None \notin Names

VARIABLES
    row,         \* the workers table: "none", "live" or "archived"
    name, port,  \* of the document of each row
    known,       \* worker_definitions: the name of each Worker in memory, or None
    registered,  \* supervisor.workers
    state,       \* in the supervisor: "down" is STOPPED or FAILED, "held" the same while
                 \* a start holds the Worker's lock
    policy,      \* the Model and the capability, when allowed
    draft, live, \* the Workers of each profile's draft and active revision
    revs,        \* the published revisions
    qualified,   \* the Workers with matching tested-working evidence
    call,        \* what each request awaits
    ignored,     \* ghost: the Workers some start of the service ignored
    unchecked    \* ghost: the Workers archived after waiting for a start, and those of
                 \* the routes a rollback activated again

tables == <<row, name, port>>
memory == <<known, registered>>
routes == <<draft, live, revs>>
ghosts == <<ignored, unchecked>>
definitionVars == <<tables, memory, state, policy, routes, qualified, call, ghosts>>

Known == {w \in Workers : known[w] # None}
LiveRows == {w \in Workers : row[w] = "live"}

Idle == [op |-> "idle"]
Verifying(n, old) == [op |-> "verifying", name |-> n, replaces |-> old]
Removing(w) == [op |-> "removing", worker |-> w]
Probing(w) == [op |-> "probing", worker |-> w]
Recording(w, ok) == [op |-> "recording", worker |-> w, ok |-> ok]
Asking(p, before) == [op |-> "asking", profile |-> p, before |-> before]

DefinitionTypesOK ==
    /\ row \in [Workers -> {"none", "live", "archived"}]
    /\ name \in [Workers -> Names \cup {None}] /\ known \in [Workers -> Names \cup {None}]
    /\ port \in [Workers -> Ports \cup {0}]
    /\ registered \subseteq Workers
    /\ state \in [Workers -> {"down", "held", "starting", "ready"}]
    /\ policy \subseteq {"model", "capability"}
    /\ draft \in [Profiles -> Bindings] /\ live \in [Profiles -> Bindings]
    /\ revs \in [Profiles -> SUBSET Bindings]
    /\ qualified \subseteq Workers
    /\ \A c \in Calls : call[c] \in {Idle} \cup {Verifying(n, w) : n \in Names, w \in Workers \cup {None}}
            \cup {Removing(w) : w \in Workers} \cup {Probing(w) : w \in Workers}
            \cup {Recording(w, ok) : w \in Workers, ok \in BOOLEAN}
            \cup {Asking(p, before) : p \in Profiles, before \in [Profiles -> Bindings]}
    /\ ignored \subseteq Workers /\ unchecked \subseteq Workers

DefinitionsInit ==
    /\ row = [w \in Workers |-> "none"]
    /\ name = [w \in Workers |-> None] /\ port = [w \in Workers |-> 0]
    /\ known = [w \in Workers |-> None] /\ registered = {}
    /\ state = [w \in Workers |-> "down"]
    /\ policy = {"model", "capability"}
    /\ draft = [p \in Profiles |-> {}] /\ live = [p \in Profiles |-> {}] /\ revs = [p \in Profiles |-> {}]
    /\ qualified = {}
    /\ call = [c \in Calls |-> Idle]
    /\ ignored = {} /\ unchecked = {}

Awaits(c, what) == call' = [call EXCEPT ![c] = what]
Allowed == policy = {"model", "capability"}

---------------------------------------------------------------------------
(* create_worker and replace_worker *)

\* Everything that is checked before the release is verified.
Creates(c, n, old) ==
    /\ call[c] = Idle
    /\ old \in Known \cup {None}
    /\ \A w \in Known : known[w] # n
    /\ Allowed
    /\ Awaits(c, Verifying(n, old))
    /\ UNCHANGED <<tables, memory, state, policy, routes, qualified, ghosts>>

\* _worker_records keeps the rows that are in memory, also when it is asked for the
\* archived ones.
UsedPorts == {port[w] : w \in Known}
FreePorts == Ports \ UsedPorts

\* The row is inserted, which fails if another live row has the name; the Worker is
\* registered and remembered.
SavesWorker(w, n) ==
    /\ row[w] = "none" /\ \A v \in LiveRows : name[v] # n
    /\ \E p \in FreePorts : (\A q \in FreePorts : p <= q) /\ port' = [port EXCEPT ![w] = p]
    /\ row' = [row EXCEPT ![w] = "live"] /\ name' = [name EXCEPT ![w] = n]
    /\ known' = [known EXCEPT ![w] = n]
    /\ registered' = registered \cup {w}
    /\ state' = [state EXCEPT ![w] = "down"]

\* A bug: the replaced Worker stays in the drafts.
Rebinds_Keeps(old, new) ==
    draft' = [p \in Profiles |-> IF old \in draft[p] THEN draft[p] \cup {new} ELSE draft[p]]

\* rebind_routing_profile_drafts
Rebinds(old, new) ==
    draft' = [p \in Profiles |->
                IF old \in draft[p] THEN (draft[p] \ {old}) \cup {new} ELSE draft[p]]

\* replace_worker: the new Worker takes the place of the old one in the drafts, if asked to.
Replaces(old, new) == Rebinds(old, new) \/ UNCHANGED draft

\* The release is sound: what was checked before is not checked again.
Created(c) ==
    /\ call[c].op = "verifying"
    /\ \E w \in Workers :
          /\ SavesWorker(w, call[c].name)
          /\ Replaces(call[c].replaces, w)
    /\ Awaits(c, Idle)
    /\ UNCHANGED <<policy, live, revs, qualified, ghosts>>

\* The release is not sound, no port is free, or the row cannot be inserted.
CreationFails(c) ==
    /\ call[c].op = "verifying"
    /\ Awaits(c, Idle)
    /\ UNCHANGED <<tables, memory, state, policy, routes, qualified, ghosts>>

\* A bug: the definition in memory keeps its name.
Renames_RowOnly(w, n) ==
    /\ w \in Known /\ \A v \in LiveRows \ {w} : name[v] # n
    /\ name' = [name EXCEPT ![w] = n]
    /\ UNCHANGED <<row, port, memory, state, policy, routes, qualified, call, ghosts>>

Renames(w, n) ==
    /\ w \in Known /\ \A v \in LiveRows \ {w} : name[v] # n
    /\ name' = [name EXCEPT ![w] = n]
    /\ known' = [known EXCEPT ![w] = n]
    /\ UNCHANGED <<row, port, registered, state, policy, routes, qualified, call, ghosts>>

---------------------------------------------------------------------------
(* archive_worker *)

\* A bug: a route that is only live does not keep a Worker.
Archivable_DraftsOnly(w) ==
    /\ \A p \in Profiles : w \notin draft[p]
    /\ state[w] \in {"down", "held"}

\* _worker_usage: drafts and live revisions keep a Worker, old revisions do not.
Archivable(w) ==
    /\ \A p \in Profiles : w \notin draft[p] \cup live[p]
    /\ state[w] \in {"down", "held"}

Removes(w) ==
    /\ registered' = registered \ {w}
    /\ row' = [row EXCEPT ![w] = "archived"]
    /\ known' = [known EXCEPT ![w] = None]

Archives(w) ==
    /\ w \in Known /\ Archivable(w) /\ state[w] # "held"
    /\ Removes(w)
    /\ UNCHANGED <<name, port, state, policy, routes, qualified, call, ghosts>>

\* A start holds the lock of the Worker, whose state it has not changed yet.
ArchiveWaits(c, w) ==
    /\ call[c] = Idle
    /\ w \in Known /\ Archivable(w) /\ state[w] = "held"
    /\ Awaits(c, Removing(w))
    /\ UNCHANGED <<tables, memory, state, policy, routes, qualified, ghosts>>

\* remove_profile has the lock and looks at the process again, not at the routes.
ArchiveResumes(c) ==
    /\ call[c].op = "removing"
    /\ LET w == call[c].worker IN
       /\ state[w] \in {"down", "ready"}
       /\ IF w \in registered /\ state[w] = "down"
          THEN Removes(w) /\ unchecked' = unchecked \cup {w}
          ELSE UNCHANGED <<registered, row, known, unchecked>>
    /\ Awaits(c, Idle)
    /\ UNCHANGED <<name, port, state, policy, routes, qualified, ignored>>

---------------------------------------------------------------------------
(* The Worker's process, as the supervisor runs it *)

\* start() holds the lock while it stops other Workers.
StartWaits(w) ==
    /\ w \in registered /\ state[w] = "down"
    /\ state' = [state EXCEPT ![w] = "held"]
    /\ UNCHANGED <<tables, memory, policy, routes, qualified, call, ghosts>>

StartGoesOn(w) ==
    /\ state[w] = "held"
    /\ \E s \in {"starting", "down"} : state' = [state EXCEPT ![w] = s]
    /\ UNCHANGED <<tables, memory, policy, routes, qualified, call, ghosts>>

StartEnds(w) ==
    /\ state[w] = "starting"
    /\ \E s \in {"ready", "down"} : state' = [state EXCEPT ![w] = s]
    /\ UNCHANGED <<tables, memory, policy, routes, qualified, call, ghosts>>

\* stop(), or the process exits.
Ends(w) ==
    /\ state[w] = "ready"
    /\ state' = [state EXCEPT ![w] = "down"]
    /\ UNCHANGED <<tables, memory, policy, routes, qualified, call, ghosts>>

---------------------------------------------------------------------------
(* qualify_worker_capability: evidence about the definition read at the start *)

Qualifies(c, w) ==
    /\ call[c] = Idle
    /\ w \in Known /\ Allowed /\ state[w] = "ready"
    /\ Awaits(c, Probing(w))
    /\ UNCHANGED <<tables, memory, state, policy, routes, qualified, ghosts>>

\* The probe of the capability is answered by a Worker that runs, or fails.
ProbeEnds(c) ==
    /\ call[c].op = "probing"
    /\ \E ok \in {FALSE, state[call[c].worker] = "ready"} : Awaits(c, Recording(call[c].worker, ok))
    /\ UNCHANGED <<tables, memory, state, policy, routes, qualified, ghosts>>

\* The host is probed meanwhile; a thermal breach turns a success into a failure.  A
\* failure is recorded too and takes nothing from an earlier success: the evidence
\* status looks for any success with the Worker's configuration.
Records(c) ==
    /\ call[c].op = "recording"
    /\ \/ UNCHANGED qualified
       \/ call[c].ok /\ qualified' = qualified \cup {call[c].worker}
    /\ Awaits(c, Idle)
    /\ UNCHANGED <<tables, memory, state, policy, routes, ghosts>>

---------------------------------------------------------------------------
(* Routing Profiles and policies *)

SavesDraft(p, ws) ==
    /\ \A w \in ws : row[w] # "none"
    /\ draft' = [draft EXCEPT ![p] = ws]
    /\ UNCHANGED <<tables, memory, state, policy, live, revs, qualified, call, ghosts>>

\* validate_routing_profile
Valid(p, ws) ==
    /\ ws \subseteq Known
    /\ ws # {} => Allowed
    /\ p \in Tested => ws \subseteq qualified

\* A revision without Workers is not kept: its activation would be a deactivation.
Publishes(p) ==
    /\ Valid(p, draft[p])
    /\ live' = [live EXCEPT ![p] = draft[p]]
    /\ revs' = [revs EXCEPT ![p] = @ \cup ({draft[p]} \ {{}})]
    /\ UNCHANGED <<tables, memory, state, policy, draft, qualified, call, ghosts>>

Reactivates(p, ws) ==
    /\ ws \in revs[p] /\ Valid(p, ws)
    /\ live' = [live EXCEPT ![p] = ws]
    /\ UNCHANGED <<tables, memory, state, policy, draft, revs, qualified, call, ghosts>>

Deactivates(p) ==
    /\ live' = [live EXCEPT ![p] = {}]
    /\ UNCHANGED <<tables, memory, state, policy, draft, revs, qualified, call, ghosts>>

\* The publication of a guided setup: draft and revision, and then the gateway is asked
\* whether the route answers.
PublishesSetup(c, p, ws) ==
    /\ call[c] = Idle /\ ws # {} /\ Valid(p, ws)
    /\ draft' = [draft EXCEPT ![p] = ws]
    /\ live' = [live EXCEPT ![p] = ws]
    /\ revs' = [revs EXCEPT ![p] = @ \cup {ws}]
    /\ Awaits(c, Asking(p, live))
    /\ UNCHANGED <<tables, memory, state, policy, qualified, ghosts>>

\* It does.  Or it does not, and what was live before is activated again, unvalidated.
GatewayAnswers(c) ==
    /\ call[c].op = "asking"
    /\ \/ UNCHANGED <<live, unchecked>>
       \/ /\ live' = [p \in Profiles |->
                        IF call[c].before[p] # {} THEN call[c].before[p]
                        ELSE IF p = call[c].profile THEN {} ELSE live[p]]
          /\ unchecked' = unchecked \cup UNION {call[c].before[p] : p \in Profiles}
    /\ Awaits(c, Idle)
    /\ UNCHANGED <<tables, memory, state, policy, draft, revs, qualified, ignored>>

Allows(what) ==
    /\ policy' = policy \cup {what}
    /\ UNCHANGED <<tables, memory, state, routes, qualified, call, ghosts>>

\* _capability_policy_references: the drafts and live revisions whose Workers are in memory.
References == {p \in Profiles : Known \cap (draft[p] \cup live[p]) # {}}

\* A capability with references cannot be disallowed, nor a Model with Workers in memory.
Disallows(what) ==
    /\ what = "capability" => References = {}
    /\ what = "model" => Known = {}
    /\ policy' = policy \ {what}
    /\ UNCHANGED <<tables, memory, state, routes, qualified, call, ghosts>>

---------------------------------------------------------------------------
\* The service is restarted; rows whose runtime is not trusted now are ignored.
RestartsService(trusted) ==
    /\ registered' = LiveRows \cap trusted
    /\ known' = [w \in Workers |-> IF w \in registered' THEN name[w] ELSE None]
    /\ state' = [w \in Workers |-> "down"]
    /\ call' = [c \in Calls |-> Idle]
    /\ ignored' = ignored \cup (LiveRows \ trusted)
    /\ UNCHANGED <<tables, policy, routes, qualified, unchecked>>

DefinitionsNext ==
    \/ \E c \in Calls :
          \/ \E n \in Names, old \in Workers \cup {None} : Creates(c, n, old)
          \/ Created(c) \/ CreationFails(c) \/ ArchiveResumes(c) \/ ProbeEnds(c) \/ Records(c)
          \/ \E w \in Workers : ArchiveWaits(c, w) \/ Qualifies(c, w)
          \/ \E p \in Profiles, ws \in Bindings : PublishesSetup(c, p, ws)
          \/ GatewayAnswers(c)
    \/ \E w \in Workers :
          \/ \E n \in Names : Renames(w, n)
          \/ Archives(w) \/ StartWaits(w) \/ StartGoesOn(w) \/ StartEnds(w) \/ Ends(w)
    \/ \E p \in Profiles :
          \/ \E ws \in Bindings : SavesDraft(p, ws) \/ Reactivates(p, ws)
          \/ Publishes(p) \/ Deactivates(p)
    \/ \E what \in {"model", "capability"} : Allows(what) \/ Disallows(what)
    \/ \E trusted \in SUBSET Workers : RestartsService(trusted)

DefinitionsSpec == DefinitionsInit /\ [][DefinitionsNext]_definitionVars

---------------------------------------------------------------------------
(* Properties *)

\* Memory, the registry and the table say the same, whatever handlers were between
\* their awaits, and a name means one Worker.
DefinitionsAgree ==
    /\ registered = Known /\ Known \subseteq LiveRows
    /\ \A w \in Known : known[w] = name[w]
    /\ \A v, w \in LiveRows : name[v] = name[w] => v = w

\* "Worker port is already assigned": no two Workers of the registry have one port, but for
\* those an earlier start of the service ignored, whose ports are given away.
PortsAreUniqueUnlessIgnored ==
    \A v, w \in registered : port[v] = port[w] => v = w \/ {v, w} \cap ignored # {}

\* A live route names an archived Worker only if its archiving had to wait for a start,
\* or if the rollback of a publication brought the route back.
RoutesNameWorkers == \A p \in Profiles : \A w \in live[p] : row[w] = "archived" => w \in unchecked

\* What is live was qualified, and stays permitted: a permission cannot be taken away
\* under a route, except from Workers that the service ignored, archived late or restored.
RoutesStayPermitted ==
    \A p \in Profiles : \A w \in live[p] :
        /\ p \in Tested => w \in qualified
        /\ Allowed \/ w \in ignored \cup unchecked
=============================================================================
