# ModelDeck in TLA+

ModelDeck runs local inference models ("Workers") as isolated processes on one
machine, decides by temperature how much of them may run, and serves them to
clients through a gateway. This directory holds a formal model of the parts of
it that are hard to get right: TLA+ modules translated from the source, TLC
configurations that check them on small instances, and TLAPS proofs of what
matters most for every size. Paths below are relative to `backend/modeldeck/`.

`PROJECT.json` is the index: which definition models which lines, what each run
checks, which change of the code each property would notice, the hazards the
properties are for, and the theorems. To repeat: `tlc -workers 2 -config
Setups.cfg MCSetups.tla`, `tlapm SetupProofs.tla`.

## 1. Inventory of the system

Two processes matter. The **management service** (`main.py`, `v2_api.py`,
`supervisor/service.py`, `thermal.py`, `compatibility/store.py`) runs one asyncio
event loop, owns the Workers and the SQLite store, and listens on port 3600. The
**gateway** (`gateway/app.py`) runs another loop in another process, answers
clients, and reads the store. They share the store and two small files in the
data directory: the thermal snapshot (service to gateway) and the workload count
(gateway to service). Workers are one process each, with an HTTP server.

| Part | State | Operations | What is hard | Correct when |
|---|---|---|---|---|
| Worker supervisor, `supervisor/service.py` | `workers` (process, state, tasks), a lock per Worker, one load lock | start, stop, restart, stop_all, critical_stop_all, register/remove_profile, exit watchers | every `await` is a scheduling point; the critical stop takes no lock; removal deletes a lock; start stops other Workers while holding locks | no process is lost or doubled, exclusive Workers never overlap, states tell the truth, nothing deadlocks, shutdown leaves nothing |
| Thermal policy, `thermal.py` | state machine, last reading, recovery readings, published snapshot | poll, critical handler, status, admission of loads | sensors drop out, polls are late, writes fail, the service restarts, the gateway sees an old file | heat is never understated, recovery obeys hysteresis, old views expire |
| Gateway claims, `gateway/app.py` | `thermal_active_heavy`, `active_request_workers`, `thermal_job_claims`, the workload file | claim, queue, forward, stream, retain for a job, monitor, cancel, release | about twenty exits of a request, each with its own release code; jobs outlive requests; files fail | what is taken is given back once, the limit holds, ids reach the right request |
| Route resolution, `gateway/resolution.py`, `adapters.py` | none beyond the store's live routes | pick a Worker, probe, fall back | busy and dying Workers | at most one Worker serves a request |
| Routing Profiles, `compatibility/store.py` | drafts, revisions, live revisions | save, publish, activate, deactivate, discard, delete | several writers; activation checks against all live profiles | a public name reaches one live profile; what is live was published |
| Capability setups, `v2_api.py` | a document per setup, a task per setup, a FIFO lock | create, run, cancel, retry, publish, roll back, reconcile, shut down | whole-document saves of stale copies; commits one after the other; crashes between them | a setup ends, its Worker is kept, cancels count, rollbacks restore |
| Worker definitions API, `v2_api.py` | `workers` rows, `worker_definitions` | create, rename, replace, archive | checks before an await, two registries | no route names an archived Worker |
| Worker processes, `workers/*.py`, `llama_runtime.py` | an inference lock, cancel flags by request id, job tables, child servers | infer, stream, cancel, warm up, shut down | cancel races completion; blocking generation in threads | a cancel reaches its request only; a shutdown ends |
| Launches, `registry.py`, `capabilities.py`, `runtime_trust.py`, `hf_cache.py`, `supervisor/service.py` | stored definitions, installed manifests, approved candidates | classify a snapshot, create a definition, build a command; install a manifest | five tables that must agree, across releases; installers that die or overlap | what was accepted starts, under a reviewed policy; what is loaded was approved |
| Q4 release tools, `scripts/q4/` | the files of a checkpoint, a report, a release | convert, materialise, evaluate, package, verify | interrupted runs, kept shards, hard links | a Worker loads one whole conversion |
| SceneChat trial, `scenechat_runner.py`, `scenechat_direct.py` | a journal, the loaded Worker, abort flags of two monitor threads | the schedule, cooldowns, attempts, aborts, clean-up | aborts from other threads at any line | an aborted attempt is no success, nothing stays loaded |
| Data directory, `state_archive.py`, `state_export.py`, `state_import.py`, `migrate_v*.py`, `compatibility/store.py` | the directory, its backups, an archive | upgrade at start, migrate, export, import | commands beside services, a death at each step | no state is lost, activations survive |
| Worker logs, `supervisor/service.py`, `main.py` | records in memory, a file, streams that count | append, compact, begin a session, follow | counts over a memory that wraps | file is memory, nothing twice |
| Desktop window, `desktop/` | page, threads, questions, systemd | start, restart, stop, wait, update | clicks whose threads cross | what is shown is true |
| Mock Worker, Docker bridge, management UI | | | a test double; a byte relay; rendering | |

Interactions: the UI and scripts call the management API; `start` asks the thermal
machine and, through the workload file, the gateway; the thermal poll loop awaits
`critical_stop_all`; a setup's task calls `create_worker`, `supervisor.start` and
the qualification; a publication writes the routing tables the gateway reads and
asks the gateway whether the route answers.

The hazards of this code, each at its line with the properties that cover it or
the reason none does, are listed in `PROJECT.json` under `hazards`.

## 2. Modules

| Module | Models | Extends |
|---|---|---|
| `Supervisor`, `MCSupervisor`, `SupervisorProofs` | the supervisor, the callers of it, service shutdown, the critical handler | |
| `ThermalMachine`, `MCThermal`, `ThermalProofs` | the thermal state machine, its poll loop, the snapshot file and its two readers | |
| `GatewayClaims`, `MCGateway`, `GatewayProofs` | capacity and request-id claims of the gateway | |
| `RoutingProfiles`, `RoutingProofs` | the routing tables of the store, as an abstract specification `RoutingSpec` of what any caller may do to them | |
| `CapabilitySetups`, `MCSetups`, `SetupProofs` | guided setups, from request to publication, with crashes | `RoutingProfiles` |
| `WorkerProtocol` | abstract specification of what a Worker promises about the requests it accepts | |
| `SlotWorkers` | synthesis, translation, recognition, embedding and SceneChat Workers: one slot, deadlines, cancellations, hung threads | implements `WorkerProtocol` |
| `AutoregressiveWorker` | Transformers Workers: lock, cancellation table, streams, generation threads, prefix cache | implements `WorkerProtocol` |
| `DiffusionJobs` | diffusion Workers: jobs, their threads, the frames their subscribers share | implements `WorkerProtocol` |
| `LlamaWorker` | the Worker around a llama.cpp server: the child against requests, streams, cancellations and shutdown | |
| `WorkerDefinitions` | rows, memory and registry of Workers, their ports, the profiles and permissions that refer to them | |
| `RouteResolution` | a request's snapshot, probes, choice and post; the search for a job; discovery | |
| `WorkerLaunches` | cache scan, templates, definitions and launch builders | |
| `ManifestTrust` | the installer of manifests and the service that trusts them | |
| `Q4Release` | the four tools of a Q4 release and the verification of a download | |
| `SceneChatTrial` | the experiment runner, its safety monitor and its journal | |
| `StateFiles` | upgrade, migration, export and import of the data directory | |
| `WorkerLogs` | memory, file and streams of a Worker's log | |
| `DesktopShell` | the desktop window, its threads and systemd | |
| `InferenceWorkers`, `MCWorkers`, `WorkerProofs` | the four Worker runtimes together: what all of them promise | the four above, by `INSTANCE` |
| `Registry`, `MCRegistry`, `RegistryProofs` | definitions and routes together | the two above, by `INSTANCE` |
| `Host`, `MCHost`, `HostProofs` | everything around the services | the seven above, by `INSTANCE` |

`InferenceWorkers`, `Registry` and `Host` hold several components. Properties that are
about one question of several components are conjoined there and named for the question,
with the parts in their comments. In a run a variable (`runtime`, `part`) names the component that
takes steps, chosen in the initial states: the components share no state there, so
the run is the union of their state spaces. `InferenceWorkers`, `Registry` and `Host` take any values of
their constants; `MCWorkers` gives them, and `MCRegistry` and `MCHost` add the variable `part`, so that their
behaviours are some of those of `RegistrySpec` and `HostSpec`, in which the components' steps interleave freely and
about which the theorems are. A definition whose name ends in
`_Word` beside a modelled definition is that definition with a plausible mistake;
nothing uses it but the mutants of `PROJECT.json`.

### Supervisor

A *task* is a coroutine that calls the supervisor; `pc[t]` names the await it is at,
and an action is the code from one await to the next. `loadLock` and `lock` are the
asyncio locks; a lock belongs to a *generation* of a Worker's entry, because
`remove_profile` drops the lock object and a Worker registered again has a new one.
`proc[w]` is `worker.process`, `live` the set of processes that really run: that
they agree is a property, not an assumption. `Setup` tasks are those the service's
shutdown cancels. `thermal` is only what start() needs of the host. `Leftovers` are
listeners an earlier service left on a port.

The model has a few more scheduling points than the code: taking a free lock and
each turn of a loop over `self.workers` are steps of their own although asyncio would
not switch there. This adds interleavings and takes none away; a run that exhibits a defect
must not use them, so `supervisor_removed` runs under `AwaitSpec` of `MCSupervisor`, in which
nobody else steps while a coroutine is at an await that would not suspend it: there the removal happens
while the start waits for a load lock that another start holds.
A start whose launch builder raises a `ValueError` ends in FAILED; an `OSError` of
the directories it creates (`service.py:578`) is caught nowhere and leaves VALIDATING. A watcher task may
record an exit late, after the Worker was started again: `requires-python` admits
versions in which `process.wait()` returns a turn after the return code is set.

Left out: the event queue and snapshots for display; the log is `WorkerLogs`. `READY` is
written after the warm-up answered whatever happened meanwhile (`service.py:242`), and is
corrected by the next refresh.

### ThermalMachine

`state`, `readings` and `reading` are the machine's; ages replace `time.monotonic`
differences and are capped just above the largest value they are compared with
(`StateCap`, `StaleCap`, `PollCap`). `poll` is where `poll_once` is; it is `"dead"`
after the write of the snapshot raised, because `_run` catches nothing and nothing
restarts it. `recent` is a ghost: the last readings accepted since telemetry was
lost. Temperatures enter only through the seven thresholds, so one value per band
is enough. Left out: sensor discovery and choice, the display counters, the reader of
an external host policy, `enabled = False`.

### GatewayClaims

An action is the code of a request's coroutine between two awaits; the asyncio
condition is never held across an await except in `wait`, so claims and releases are
single steps. `pc[r]` covers the paths of `proxy_request` (JSON, stream and job),
`proxy_binary_request` and the speech conversation. `leaked` and `stuck` are ghosts
that count what two kinds of exit cost: an `OSError` of the workload file (a claim counted before the
write that fails, an id whose release comes after it), and an abandoned stream or clean-up (`Abandoned`:
the releases of `forward_stream` stand behind the call to the Worker and two closes, each of which may be
cancelled, and a response whose body is never iterated has no `finally` that runs). The properties say that
there are no others. A job's monitor, a client's poll and a
client's cancel race for the job's claim. Routing is reduced to "forwarded or not".

### RoutingProfiles

`draft`, `revs` and `live` are the three tables. Every operation is one SQLite
transaction and one action. A document is the function from public names (already
folded to one case) to the primary Worker. `RoutingNext` is the promise of the store:
any document, any profile, any order.

### CapabilitySetups

`doc[s]` holds the fields of a setup's document that steer it; `mem` the copy the
running task works on, `copy[s]` what a cancel request read before it awaited,
`pub[s].read` what a publication read. Since `save_capability_setup` writes whole
documents, which copy is written when is the heart of the model. `queue` and `runner`
are the waiters and the holder of `setup_lock`. Code that commits several
transactions without awaiting is one action per commit; `Busy` keeps other handlers
out, and `Stops` (kill or shutdown) may come between. `Restarts` is
`reconcile_setups`. The operator's own changes to the tables are `Edit`.

Choices: states that no other code can observe before the next commit
("applying-policy", "verifying-identity") are skipped. The re-activations of a
rollback come in any order, because the code's order is that of wall-clock
timestamps. One publication and one awaiting cancel per setup are considered at a
time. `stranded` names setups whose publication died of an exception that nothing catches: a rollback
that meets a name conflict (`RestoreRaises`), or a smoke test that raises something else than an
`HTTPException`, as the tool rehearsal does for an answer of an unexpected shape (`SmokeRaises`). They stay in
"verifying-route" until a restart. Left out: previews and their fingerprints, evidence, policy rows, the event
stream, archiving and replacing Workers (see `WorkerDefinitions`), and a profile
name's format.

### Workers

`WorkerProtocol` has a phase per request and the set of requests somebody asked to
stop: an answer is given once, one inference is active at a time, and a request ends
as cancelled only if it was asked to. Three modules implement it (`INSTANCE ... WITH`
maps `phase` to their program counters); llama.cpp Workers leave inference to the
child server and have invariants of their own.

`SlotWorkers` has one model for five Workers; `worker` says which, and guards such as
`worker \in GivesUp` hold where their sources differ: who can interrupt the work (a
flag the thread polls, a process that is killed, nothing), whether the Worker gives up on a
thread after the grace period, and what state it then shows. The smoke tests of a speech and of a translation
Worker compute beside the slot (`smokes`); what the slot promises is about requests, and that nothing at all
begins beside a thread that was given up. In `AutoregressiveWorker` a
loop action is a coroutine between two awaits and a thread action the code between two forward
passes; a closed stream leaves its thread behind (`OverlapOnlyAfterLeaving` says that this is the
only way to two threads in one model). Its requests carry the ids of their clients, and two with one id may be in
flight together, since the gateway forgets an id at its own time-out: the later one takes over the entry of
the cancellation table and the first to end removes it. The ghost `shared` names the requests this happened to. In
`DiffusionJobs` drafts are posted to the loop one by one and the final frames replace them, while a failure is
recorded at once, before drafts that are still posted; all subscribers share one event. In
`LlamaWorker` a client that leaves cancels its coroutine at every await, so the restart
that it begins gets as far as its first await.

### WorkerDefinitions and RouteResolution

`row`, `name`, `port` are the table, `known` the definitions in memory, `registered` the
supervisor; `call[c]` is what a handler carries over an await (a creation that verifies a
release, an archiving that waits for a lock, a qualification, a publication that asks the
gateway). Two ghosts name what the code lets happen: `ignored`, the rows a start did not
load because their runtime was not trusted, and `unchecked`, the Workers archived after
a late lock or whose route a rollback restored without checks. In `RouteResolution` a
request takes the snapshot of a route, probes, waits, and posts to a port on which another
process may listen by then; a job is found again in memory, in the table, or by asking.

### Around the services

`WorkerLaunches` copies the tables of five source files as sets of rows and as operators on ids, and asks
whether what one accepts the next can start. `ManifestTrust` and `Q4Release` have
one action per file written, renamed or linked, and every tool may die between two; `CoreIds` are the ids of the
packaged templates, which a local manifest may reuse until the service refuses it. `SceneChatTrial`
has a program counter for the main thread and one for each monitor; stop and start
requests travel on their own, and a start that the runner gives up (a time-out, an interrupt) while it waits for the load
lock is carried out all the same. The ghost `overtaken` says that the clean-up's stop was answered before it. `StateFiles` gives each directory an identity (`of`), so
that "nothing is lost" can be said. `WorkerLogs` numbers records; streams know only how
many they sent. `DesktopShell` has the threads of the clicks, the callbacks they
post, and systemd, which finishes its last command later.

## 3. Runs

| Run | Instance | States | Shows |
|---|---|---|---|
| `supervisor_lifecycle` | 2 exclusive Workers of which one is registered at first, 2 callers, removal and registration, ports in use, 1 launch per Worker and 1 critical stop at a time, interchangeable callers | 4.2 M | processes are tracked, exclusive Workers are alone |
| `supervisor_liveness` | 2 Workers, 2 callers of which one is a setup that shutdown cancels, fair | 0.48 M | every call returns; a shutdown leaves nothing |
| `supervisor_removed` (violation) | 3 callers, coroutines that switch only where they wait | | a queued start launches a removed Worker |
| `supervisor_critical` (violation) | 2 callers | | an admitted launch outlives the critical stop |
| `thermal_machine` | 8 temperature bands, recovery count and dwell 3, freshness 4, polls late by up to 2, failing writes, restarts, fair | 209 k | hysteresis (and that it is by readings), freshness, return to normal |
| `gateway_claims` | 3 requests of all kinds, 2 ids, limit 2, hosts normal/warm/hot, abandoned streams and clean-ups, failing writes, restarts, fair | 181 k | claims are accounted for and come back |
| `capability_setups` | 2 setups, 2 names, 3 profiles, 2 revisions each, up to 3 of crash, pause, retry, cancel and operator edits, raising smoke tests, fair | 286 k | routes, Workers, cancels, rollbacks, settling |
| `setups_rollback` (violation) | 4 operator edits | | a rollback undoes another profile's publication |
| `setups_fifo` (violation) | 1 crash | | after a restart the newest setup runs first |
| `workers` | 3 requests beside a smoke test (2 diffusion jobs with 2 subscribers; 2 llama.cpp calls, 2 cancellations and 5 children; 3 generations, two of them with one id, and 2 prefixes), fair | 439 k | the protocol, cancellation, the cache, recovery |
| `registry` | 2 Workers, 2 names, 2 ports, 1 profile that needs qualification and 1 request; the same with 2 requests and no profile; 3 Workers of which 2 share a port, with a request and a poll; a discovery | 2.0 M | memory, store and supervisor agree; routes name what exists; answers come from whom they name |
| `host` | nine parts, see below | 2.1 M | launches, releases, trials, data, logs, window |

The parts of `host`: four local templates and two revisions of a candidate; two installers
of two contents of one file and of at most one package besides, and one of three packages of which two share
an id and a third reuses a packaged one; two
shards, two conversions, two materialisations one at a time, or one beside the others;
a schedule of three requests on two Workers, with and without a Worker; two importers, two
directories and two timestamps; a log memory of 3, 6 records, 3 sessions and a client;
two threads at once and three in the life of a window.

Bounds. Two Workers are all an exclusive conflict, a nested stop and a re-used lock
need; a third would only repeat one of the two. Two callers exhaust the two lock
levels (one holds, one waits), and the removal race has its run with three. A second
launch of the same Worker repeats the first with an old watcher about; the theorems
cover it, and any number. Three requests
against a limit of two make one wait; two ids among three requests force a
duplicate. Two setups and a profile of the operator's are the least with which a
rollback, a publication and an edit meet; the shared budget of three incidents keeps
the run small, and covers every triple of them (`Budget`). `MaxRevision` bounds
publications only, `MaxSpawn` and `MaxCritical` launches and critical phases.
A third Worker in `registry` is what lets one port have two
owners; a log memory of 3 wraps twice in 6 records; a schedule of three rows has a
change of Worker and a repetition; two importers and two seconds are the least with which
two backups collide. `CHECK_DEADLOCK FALSE` is set where the system may come to rest: when every budget is
spent and nobody calls.

Fairness. The event loop runs every ready callback and every await is bounded by a
time-out or a killed process's death, which is weak fairness of each coroutine's
steps. It is strong where something may be enabled again and again without staying
so: asyncio.Lock serves its waiters first come, first served, so a waiter whose lock
is free repeatedly gets it (`Supervisor`), and a handler in the middle of its commits
disables the others only in the model's finer steps (`CapabilitySetups`). No caller
has to call, no process has to exit by itself, nobody has to retry, cancel or publish. An open stream and an open
conversation of the gateway have no time-out, so no fairness makes them end; only once one is left or completed
do its clean-up's steps follow (`Open`). The thread of a smoke test beside a Worker's slot may hang.
The service is restarted by its operator after it stopped (`WF_vars(Restarts)`). The
thermal poll loop is fair only as long as it lives. Worker processes: the loop runs its
coroutines, and a thread that computes ends, except in the Workers that give up on
one, where it may hang for ever (`SlotFairness`); a terminated child exits, a living one
need not; nobody has to cancel, leave or send a request. `WorkersRecover` is one
formula for all four runtimes, since fairness binds only the one that runs. The
modules of `registry` and `host` state no liveness: their loops end with their
operators' calls.

### Findings

Four runs exhibit a difference between the code and what its comments, messages,
tests or documents say; `PROJECT.json` quotes each. In short: a queued start launches
a Worker that was removed meanwhile (`supervisor_removed`); a launch admitted before
the critical stop survives it (`supervisor_critical`); a
rollback writes over other profiles (`setups_rollback`); the durable queue is
reversed by a restart (`setups_fifo`).

What the models show besides, where nothing in the repository says otherwise or a
property has to except it:

- *Supervisor and thermal.* Losing telemetry in the critical state raises the limit of heavy work from that
  of the critical state to that of the degraded one. A model load is admitted once; inference is
  admitted during it, although the refusal at `thermal.py:499` speaks of overlap. An idle gateway never refreshes
  the workload file, so a load on a warm host is then refused as if inference ran.
- *Supervisor.* A start whose launch builder raises an `OSError` leaves its Worker in VALIDATING, with no process and nobody
  starting it, until the next start, stop or shutdown.
- *Gateway.* A streamed response whose body is never iterated, and one whose clean-up is cancelled at an await, keep
  their capacity and their id for the life of the gateway.
- *Setups.* A cancel acknowledged while a Worker starts or qualifies is lost at the task's
  next save (`v2_api.py:434` looks at the task's own copy). A rollback that raises, and a tool rehearsal whose
  answer is not of the expected shape (`v2_api.py:1933`), leave their setup in "verifying-route", the latter with
  the new routes live. A service that dies between creating a Worker and recording its id
  leaves a Worker whose name refuses every retry.
- *Definitions.* An archiving that waited for a start does not look at routes again; a rollback
  restores routes without checks; ports of ignored rows are given away. A replacement
  without a dtype hands on the definition's (`v2_api.py:765`), which for a llama.cpp Worker is none
  that a request may have. In `capability_evidence_status` an older success outweighs a newer failure.
- *Workers.* Embedding Workers advertise cancellation and have no `/cancel`; the smoke routes of
  synthesis and translation compute beside the slot. Two requests of a Transformers Worker with one id share one entry of the
  cancellation table, and a cancellation may reach neither; the gateway lets a retry after its time-out do that. All event clients of a Worker share one
  queue and take each other's events.
- *Launches.* The FP8 chat template is offered to plain causal models that its builder refuses; the
  opus directions and the image chat of the scene runtimes are accepted and never provided;
  a local llama.cpp template need not name a `runtime_profile`, and creating its Worker then ends in a
  `KeyError` (`profiles/local.py:151`); approving another revision with the same digest overwrites the candidate's manifest. Concurrent installers can
  lose an entry, or leave a file that its entry does not match, after which the service does not start. The
  installer compares ids with none: a manifest that reuses the id of a packaged template is installed, and then keeps the
  service from starting.
- *Q4.* A shard of the right size is kept from an earlier conversion, hard-linked shards are rewritten by
  a later one, the report names the base only, and expert shards are validated by size.
- *Trial.* After an abort between a cooldown's check and the start request a Worker still starts and one
  attempt runs (compare `docs/SCENECHAT_EXPERIMENT_RUNBOOK.md:83`). A start request that times out or is interrupted
  while it is queued at the load lock starts its Worker after the clean-up's stop was answered. The direct path's `clear()` can
  take an abort back.
- *Data directory.* An export that is killed leaves a tar whose readable prefix can be imported; a
  second service that had read the schema before the first upgraded it re-activates a
  profile the user deactivated; an open connection follows its directory into a backup; the test for
  running services is made once, at the beginning.
- *Logs and window.* A stream stalls once a session fills the memory. `IncompleteRead` escapes
  `read_management_health` and the window stays at "Starting". A development window may restart the
  packaged target through the update question. Threads that cross can show a console over
  stopped services, or "stopped" over running ones.

## 4. Proofs

| Module | Theorems | Invariant |
|---|---|---|
| `SupervisorProofs` | `TypeCorrect`, `ProcessesAreTracked`, `ExclusiveAlone`, `IdleIsDead`, `BusyIsStarted`, `RecordsAreTrue`, `ShutdownIsClean` | `IInv`, in five layers |
| `ThermalProofs` | `TypeCorrect`, `SeverityCoversReading`, `LoadsAreFresh`, `GatewayFollows`, `RecoveryIsCounted` | `TypeOK /\ NeverUnderstated /\ LoadsOnFreshReadings /\ FileIsOlder`, and `Counted` for the hysteresis |
| `RoutingProofs` | `RoutingInvariance`, `NamesAreUnambiguous`, `LiveWasPublished` | `RoutingInv` |
| `SetupProofs` | `SetupsImplementRouting`, `SetupsKeepNamesUnambiguous`, `SetupsServeWhatWasPublished`, `SetupsAreTyped`, `SetupsHaveRunners`, `NothingIsLost`, `RollbacksRestore` | `SetupInv` for the first three, `ServiceInv` |
| `GatewayProofs` | `TypeCorrect`, `ClaimsAreAccounted`, `LimitIsShared`, `FileIsCovering`, `OwnersStayInFlight` | `GatewayInv` |
| `WorkerProofs` | `WorkersAreTyped`, `WorkersComputeOneRequest`, `CancellationsReach`, `AnswersBelong`, `WorkersImplementProtocol`, and for the slot alone `SlotComputesOneRequest`, `SlotImplementsProtocol` | `WorkersInv`, which has `SlotInv` as a part |
| `RegistryProofs` | `RegistryIsTyped`, `RegistryAgrees`, `RoutesHold`, `RequestsAreServed`, and for the definitions alone `TablesAgree`, `PortsAreUnique`, `RoutesHaveWorkers`, `RoutesArePermitted` | `RegistryInv == DefinitionsInv /\ RoutesInv` |
| `HostProofs` | `HostInvariant`, `HostIsTyped`, `LaunchesAreAlwaysTrusted`, `ReleasesAreAlwaysWhole`, `TrialsAreAlwaysSafe`, `RecordsAreAlwaysKept` | `HostInv`, of seven parts: `LaunchInv`, `ManifestInv`, `Q4Inv`, `TrialInv`, `StateInv`, `LogInv`, `WindowInv` |

All hold for any number (finite where the module counts) of Workers, callers, requests, setups, profiles,
names, local templates, manifests, installers, layers, schedules, importers, log records and window threads, and
any configuration that the named assumptions of the modules admit; these are the constructors' own checks (`ConfigAssumption` is
`ThermalPolicyConfig.__post_init__`), that a bound is a bound of something
(`DefinitionsAssumption`, `Q4Assumption`, `LogAssumption`), that a schedule is of Workers (`TrialAssumption`), or
that two things are not the same thing (`ManifestAssumption`, `StateAssumption`).

*Supervisor.* The invariants are not inductive: that a Worker has one process
depends on who holds its lock, and the critical handler holds none. `IInv` first fixes
the types and which operand each program counter implies, then who holds which lock
(a coroutine past the acquisition holds the lock of the generation it waited for), then
that a launch finds no process and a stop only the one it waits for, which is where
the critical handler has to be shown harmless, which Workers the exclusive
loop has already cleared, and last what a shutdown has done so far (`ShutsDown`): once the service
has left "serving", every coroutine that is left belongs to the shutdown's `stop_all`, and the Workers
which its loop has passed are dead; that no coroutine can start one again behind it is what
`ShutdownIsClean` rests on. All of it speaks of Workers that were not removed; the run
`supervisor_removed` shows why it must.

*Thermal.* `NeverUnderstated` is nearly inductive. `GatewayCatchesUp` needs
`FileIsOlder`: a snapshot of another state was published before the machine entered
the present one, hence is at least as old. `RecoveryIsCounted` is an action property from
`Counted`: the readings the machine counts are the last ones of its history, in a row, all
below the threshold of the state it is in, through the history's shift when it is full.

*Routing and setups.* `SetupsImplementRouting` is a refinement: `Spec` of the setups,
with all its tasks, requests and crashes, implements `RoutingSpec` (the mapping is the
identity, the tables being shared). Each step must be an operation with its guard: a
rollback's `Activate` must name an existing revision long after it was read, which
`PubOK` states and `RevisionsStay` (revisions are never dropped) preserves. Names and
liveness of revisions then follow from the theorems about `RoutingSpec` alone.

What is said of the setups themselves needs the service's whole state, `ServiceInv`, in five parts beside
`SetupInv`: the types (`ServiceTypes`); that one handler is amid its commits and none while the service is
down (`LockOK`); that a setup which is being carried on has a task or a publication, that only the holder of
`setup_lock` is in a working state, and that each setup the service is concerned with is in the order of
creation from which a restart queues (`TasksOK`); that every copy which may still be saved, of a task, a cancel
or a publication, knows the Worker that the stored document knows (`WorkersOK`), without which a stale save could
forget it; and what a rollback in progress has restored and has still to restore (`RollbackOK`).
`UnfinishedHasRunner` and `NothingIsForgotten` come from the second and third, `RollbackRestores`, an
action property, from the last.

*Gateway.* The counter equals a sum of cardinalities, so each step needs to know that it
adds or removes exactly one holder or job: `Labels` and `OneMore`, `OneLess` reduce that to set
facts. Not inductive alone is that a job is released once: monitor, poll and cancel each look whether
the claim is still there, and `GatewayInv` ties a claim to the program counter of the
request it came from. An abandoned exit moves a claim from its holder to `leaked` and its id to `stuck`, in the same
step, which keeps both sums. `LimitIsShared` is a bound and an action property: a release of a claim that the present limit
would no longer admit makes no room for another.

*Workers.* That one request computes at a time is not inductive: a thread that outlived its grace period has
no slot. `SlotInv` says that a request that computes either holds the slot or keeps it shut (the
state in which the Worker refuses, and in which a smoke test does not begin either), and that the slot's holder is at work. The refinement then shows for every
action a step of `WorkerProtocol` or none, under the mapping of `SlotProtocol`. The other runtimes need
invariants of the same kind: in `AutoregressiveWorker`, who holds the inference lock and which generation each entry of
the cancellation table belongs to; in `DiffusionJobs`, that one thread runs and that the frames a subscriber
has seen are the first ones of its job; in `LlamaWorker`, which child a request was posted to. A cancellation
reaches its request because the entry of an id in flight is that of its one request; of two that were in flight
together (`shared`) it is said of neither, and the set only grows, so that the proof needs nothing about the order in which
they end. That
`TotalSteps` is at least 1 is the check at `workers/text_diffusion_worker.py:47`.

*Definitions.* `DefinitionsAgree` needs that a name in a request is a name and that every live row is in
memory or was ignored; the ports need that rows and registry agree; routes need in addition that what a
rollback would restore was qualified when it was read, which is a statement about the awaiting request
(`CallOK`). `DefinitionsAssumption` says that an empty profile is a binding and that replacing
one Worker of a binding gives a binding, as the code's replacement does.

*Routes.* `RequestsAreServed` is about snapshots that age: a request which chose a Worker found it on the
port it posts to, or the ghost `moved` marks it; a Worker that answers a search for a job has the job. The invariant
follows the job: one that was started and not released is in the table, with a row that isn't missing, so that only
a released job can be searched for in vain.

*Host.* `HostInv` is the conjunction of an inductive invariant for each part. `HostSteps` shows that a step of the
host is for each part a step of its own or none, and the parts are then proved one by one.

*Launches.* The properties quantify over tables, not over what a state machine reached, so the work is in lemmas about
the rows: what the runtime of a packaged row needs of its family, its cache and its policy (`RowOK`), what each
kind of discovered Model may support (`ModelOK`), and that a template which a capability lists can serve it
(`OfferedTemplatesProvide`). The invariant then says that what is registered under a packaged id is the packaged row
(`RegistrationsOK`): a local template may not take a packaged id, which is why a stored definition still finds the policy
it was accepted with after a restart with other local templates.

*Manifests.* While no two installers overlapped, `Orderly` says for each step of the one that runs what it
has already written. An installer that dies leaves a file without an entry at worst; that the next one finds its
file absent or equal is what keeps an entry from outliving its file. What the service has loaded are then files that match
their entries and whose ids are nobody else's, the packaged templates' included (`Sound`); a refusal is traced to a file
touched by hand, an overlap of installers, or ids that two installed packages, or one and the packaged templates, share.

*Q4 releases.* `VerifiedWasBuilt` needs `BuiltOK`: sums are written last and from what the packager hashed, so that
sums without a build that ended do not exist, though the files beside them may be anything by then. One conversion
per checkpoint is proved for tools that never met (`AloneOK`): the converter's manifest says "converting" until every shard is
of the conversion, the materialiser only starts on a complete one, and its output is a prefix of the copy (`CopiesOK`).

*Trials.* The monitor, the main thread and the stop and start requests they leave behind meet in `WorkersOK`: only the current
Worker runs or may still be launched, and once the cleanup's own stop was answered none does, unless that stop
overtook a start which the main thread had given up in the queue. `LateOK` fixes
the one attempt that an abort may overtake, `JournalOK` what is written before and after the row of the program counter.

*Data directory.* `PlacesOK` says where the identities are: each that was the data directory is in one place, the
directory or a backup, and what an importer will place is new. `ActiveOK` carries the activation through the versions:
the table of the single active profile has it until the table of active profiles exists.

*Logs.* `TailsAreInOrder` is not inductive: a stream knows a count, not a number. The invariant says that what a
stream would send next, the records from its count on, is newer than what it has sent (`StreamsAhead`), and where the last
one sent is found in what is shown (`StreamsFit`). What a session's filter leaves of the log is stated by four lemmas about
`Those`. They are inductions over the sequence, done by hand: a smallest prefix for which the claim failed would follow
one for which it holds (`UpTo`, from the library's `WFMin`).

*Desktop window.* A window that says "starting" or "stopping" has a thread, a callback or a question still to come
(`WaitsForOne`); where threads did not cross there is one of them at a time (`OneAtATime`), so that a "stopped" is about
the last command.

Every invariant and every action property that a passing run checks is the statement of one of these theorems, and so
are both refinements. Model-checked only are the five properties under fairness, which are out of the prover's reach:
`EveryCallReturns`, `CapacityComesBack`, `ReturnsToNormal`, `SetupsSettle` and `WorkersRecover`; and that the four
`violation` runs' properties fail.

## 5. Not modelled

- The mock Worker, a test double; the Docker bridge, a byte relay; the management UI, rendering.
- The Worker event queue, Moshiko's full-duplex conversation, the runtimes' installation.
- Tokenising, prompts, tool-call parsing, audio and text processing, denoising and scores: data the
  properties do not tell apart. Adapters, metrics and diagnostics of the gateway.
- Sensor discovery and choice, the reader of an external host policy, the probe of the hardware.
- The columns that each migration rewrites, beyond the activations they keep; `cutover_v2.ps1`, which has no
  version check of its own.
- Operator scripts other than those of the Q4 release.
- One composition: the load admission across supervisor, thermal machine and gateway. Each side is
  modelled with the other as an environment that may do anything the file format admits, which
  covers the composed behaviours but not their liveness.

What further work would model and prove first: that composition, with the invariant that a load is admitted only on
a snapshot that is fresh at the gateway and at the supervisor.
