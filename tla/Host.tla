--------------------------------- MODULE Host ---------------------------------
(***************************************************************************)
(* What surrounds the running services on a host: launches of Models, the  *)
(* manifests that are trusted, the tools that make a Q4 release, the       *)
(* evaluation trials, the data directory, a Worker's log and the desktop   *)
(* window.  Their processes share nothing but the host: a step of one      *)
(* leaves the others as they are.                                          *)
(***************************************************************************)
EXTENDS Naturals, Sequences

CONSTANTS
    None, Empty, Broken, Other,
    LocalTemplates, Revisions,                              \* WorkerLaunches
    Manifests, FileOf, IdsOf, CoreIds, Installers,          \* ManifestTrust
    Layers, MaxConversions, MaxMaterialised, MaxBuilds, Together,   \* Q4Release
    Schedule,                                               \* SceneChatTrial
    Importers, Stamps, MaxStates,                           \* StateFiles
    Clients, MaxKept, MaxRecords, MaxSessions,              \* WorkerLogs
    Threads, MaxClicks                                      \* DesktopShell

VARIABLES
    registrations, approved, definition, process, reapproved,
    file, fileTmp, registry, registryTmp, installer, service, loaded, touched, overlapped, installed,
    dir, linked, report, converter, materialiser, packager, evaluating, conversions, materialised,
    builds, published, worker, built, mixed, together,
    path, main, current, block, running, start, stops, aborted, monitor, cancelled, exiting, journal,
    failed, late, lost, overtaken,
    data, backups, archive, exporter, importer, services, made, held, raced, cut,
    session, sessions, logs, logFile, written, tail,
    development, page, known, thread, posted, dialogs, kept, seen, clicks, crossed, unanswered,
    package, server, job

W == INSTANCE WorkerLaunches WITH worker <- definition
M == INSTANCE ManifestTrust
Q == INSTANCE Q4Release WITH overlapped <- together
T == INSTANCE SceneChatTrial WITH loaded <- block
S == INSTANCE StateFiles WITH service <- services
G == INSTANCE WorkerLogs
D == INSTANCE DesktopShell

ASSUME ManifestAssumption == None \notin Manifests /\ Other \notin Manifests /\ None # Other

ASSUME Q4Assumption ==
    /\ Layers \in Nat \ {0}
    /\ MaxConversions \in Nat /\ MaxMaterialised \in Nat /\ MaxBuilds \in Nat

ASSUME TrialAssumption ==
    /\ Schedule \in Seq(T!Workers)
    /\ None \notin T!Workers \cup {"queued", "launching", "success", "failure"}

ASSUME StateAssumption ==
    /\ MaxStates \in Nat \ {0}
    /\ None # Empty /\ None # Broken /\ None \notin BOOLEAN
    /\ None \notin S!StateRecords /\ Empty \notin S!StateRecords /\ Broken \notin S!StateRecords

ASSUME LogAssumption == MaxKept \in Nat \ {0} /\ MaxRecords \in Nat /\ MaxSessions \in Nat

launches == <<registrations, approved, definition, process, reapproved>>
manifests == <<file, fileTmp, registry, registryTmp, installer, service, loaded, touched, overlapped,
               installed>>
release == <<dir, linked, report, converter, materialiser, packager, evaluating, conversions,
             materialised, builds, published, worker, built, mixed, together>>
trial == <<path, main, current, block, running, start, stops, aborted, monitor, cancelled, exiting,
           journal, failed, late, lost, overtaken>>
state == <<data, backups, archive, exporter, importer, services, made, held, raced, cut>>
log == <<session, sessions, logs, logFile, written, tail>>
desktop == <<development, page, known, thread, posted, dialogs, kept, seen, clicks, crossed,
             unanswered, package, server, job>>
hostVars == <<launches, manifests, release, trial, state, log, desktop>>

HostInit ==
    /\ W!LaunchesInit /\ M!ManifestInit /\ Q!Q4Init /\ T!TrialInit
    /\ S!StateInit /\ G!LogsInit /\ D!DesktopInit

LaunchesStep == W!LaunchesNext /\ UNCHANGED <<manifests, release, trial, state, log, desktop>>
ManifestsStep == M!ManifestNext /\ UNCHANGED <<launches, release, trial, state, log, desktop>>
ReleaseStep == Q!Q4Next /\ UNCHANGED <<launches, manifests, trial, state, log, desktop>>
TrialStep == T!TrialNext /\ UNCHANGED <<launches, manifests, release, state, log, desktop>>
StateStep == S!StateNext /\ UNCHANGED <<launches, manifests, release, trial, log, desktop>>
LogStep == G!LogsNext /\ UNCHANGED <<launches, manifests, release, trial, state, desktop>>
DesktopStep == D!DesktopNext /\ UNCHANGED <<launches, manifests, release, trial, state, log>>

HostNext ==
    LaunchesStep \/ ManifestsStep \/ ReleaseStep \/ TrialStep \/ StateStep \/ LogStep \/ DesktopStep

HostSpec == HostInit /\ [][HostNext]_hostVars

---------------------------------------------------------------------------
(* Properties *)

\* Types of the modules that have a type invariant: a directory, a row or a file is in a state
\* that the code can read.
HostTypesOK ==
    /\ M!ManifestTypesOK /\ Q!Q4TypesOK /\ T!TrialTypesOK /\ S!StateTypesOK
    /\ G!LogTypesOK /\ D!DesktopTypesOK

\* A Worker runs under a reviewed policy; an accepted one can be started and counts for its
\* capability (WorkerLaunches).  The service loads approved manifests; an installation stays; a
\* refusal to start has a cause (ManifestTrust).
LaunchesAreTrusted ==
    /\ W!PoliciesAreReviewed /\ W!OfferedWorkersStart /\ W!WorkersProvideTheirCapability
    /\ M!LoadedIsApproved /\ M!InstalledStays /\ M!RefusalsHaveACause

\* What a Worker loads or a release offers was built whole, from one conversion (Q4Release).
ReleasesAreWhole == Q!VerifiedWasBuilt /\ Q!AcceptedIsOneConversion /\ Q!WorkerHasARelease

\* An aborted trial records no success and leaves no Worker (SceneChatTrial).
TrialsAreSafe == T!AbortedAttemptsFail /\ T!RunsEndStopped /\ T!OneWorkerAtATime /\ T!JournalIsAPrefix

\* The data directory and its activations survive migrations, upgrades and imports (StateFiles);
\* a log's file follows its memory and its streams its sessions (WorkerLogs); the desktop window
\* shows a result that is true (DesktopShell).
RecordsAreKept ==
    /\ S!NothingIsLost /\ S!ActivationSurvives /\ S!ImportsAreWhole
    /\ G!FileIsMemory /\ G!TailsAreInOrder /\ G!TailsAreComplete
    /\ D!WindowsSettle /\ D!OldBuildsAreKept /\ D!StoppedIsTrue
=============================================================================
