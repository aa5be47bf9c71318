------------------------------ MODULE Registry ------------------------------
(***************************************************************************)
(* The registry of Workers beside the gateway that resolves its routes.    *)
(* The management application changes definitions, profiles and evidence   *)
(* (WorkerDefinitions); requests, jobs and discovery meet whatever rows,   *)
(* routes and processes are there (RouteResolution, which lets them change *)
(* at any time and has Workers of its own).                                *)
(***************************************************************************)
EXTENDS WorkerDefinitions, Sequences

CONSTANTS
    RouteWorkers, PortOf, Routes, InitialRows, Requests, Polls, Discoveries  \* RouteResolution

ASSUME RoutesAssumption ==
    /\ None \notin RouteWorkers
    /\ Routes \subseteq Seq(RouteWorkers)
    /\ InitialRows \subseteq [RouteWorkers -> {"live", "archived", "invalid", "missing"}]

VARIABLES rows, route, listener, condition, request, poll, discovery, job, memo, assigned, released

R == INSTANCE RouteResolution WITH Workers <- RouteWorkers, row <- rows

requests == <<rows, route, listener, condition, request, poll, discovery, job, memo, assigned, released>>

RegistryInit == DefinitionsInit /\ R!RoutesInit

RegistryNext ==
    \/ DefinitionsNext /\ UNCHANGED requests
    \/ R!RoutesNext /\ UNCHANGED definitionVars

RegistrySpec == RegistryInit /\ [][RegistryNext]_<<definitionVars, requests>>

---------------------------------------------------------------------------
(* Properties *)

\* Types of the two modules.
RegistryTypesOK == DefinitionTypesOK /\ R!RouteTypesOK

\* A port has one Worker, but for those the service ignored; a live route names Workers that
\* exist and are permitted and qualified, but for those archived late or brought back by a
\* rollback (_next_port, _worker_usage, validate_routing_profile).
PublishedRoutesHold == PortsAreUniqueUnlessIgnored /\ RoutesNameWorkers /\ RoutesStayPermitted

\* An answer comes from the Worker it names, in the role that discovery reports; a job is looked
\* for where it is, and is not reported unknown while its process has it (proxy_request,
\* resolve_job_worker, model_discovery_record).
RequestsReachTheirWorker ==
    R!ServedByItsWorker /\ R!RolesAgree /\ R!JobsAreFound /\ R!KnownJobsAreNotUnknown
=============================================================================
