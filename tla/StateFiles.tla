----------------------------- MODULE StateFiles -----------------------------
(***************************************************************************)
(* The data directory as a whole.  Two services open its database when     *)
(* they start, and upgrade it; commands migrate it from older schemas,     *)
(* export it to an archive and import an archive or a directory in its     *)
(* place.  The commands look for running services only when they begin,    *)
(* and each may die at any step.                                           *)
(***************************************************************************)
EXTENDS Naturals

CONSTANTS
    Importers,
    Stamps,      \* seconds, which name the backups
    MaxStates,   \* bounds the directories ever made
    Empty, Broken, None

Services == {"management", "gateway"}

VARIABLES
    data,        \* the data directory: absent (None), Empty or a state
    backups,     \* the state in each backup, or None
    archive,     \* the archive, at first of another machine: None, Broken or a state
    exporter,    \* None, or the state that is being exported
    importer,    \* what each import does
    service,     \* "down", "starting" with what it saw, "up" or "degraded"
    made,        \* directories made so far
    held,        \* ghost: the states that ever were the data directory
    raced,       \* ghost: states a service upgraded on a reading that was too old
    cut          \* ghost: an export died, or an import read an archive in the making

stateVars == <<data, backups, archive, exporter, importer, service, made, held, raced, cut>>

Off == [pc |-> "off"]
Phase(p) == [phase |-> p]
IsState(d) == d \notin {None, Empty, Broken}

\* A version 0 database has no tables and version 1 none that says its version.  The active
\* profile is a row of active_routing_profiles, of the singleton table where that table does
\* not exist (live is None), or the active Event (version 2).  "wanted" is a ghost: whether
\* the user has the profile active.
State(of, version, live, singleton, wanted) ==
    [of |-> of, version |-> version, live |-> live, singleton |-> singleton, wanted |-> wanted,
     files |-> "all"]
StateRecords == [of : Nat, version : 0..6, live : BOOLEAN \cup {None}, singleton : BOOLEAN,
                 wanted : BOOLEAN, files : {"all", "cut"}]

Fresh(of) == State(of, 0, None, FALSE, FALSE)
IsOld(d) ==
    \/ \E v \in {2, 3, 4}, p \in BOOLEAN : d = State(1, v, None, p, p)
    \/ \E v \in {4, 5, 6}, p \in BOOLEAN : d = State(1, v, p, TRUE, p)
    \/ d = State(1, 1, None, FALSE, FALSE)

StateTypesOK ==
    /\ made \in 0..MaxStates /\ held \subseteq 1..MaxStates /\ raced \subseteq held
    /\ data \in {None, Empty} \/ data.version \in 0..6
    /\ archive \in {None, Broken} \/ archive.version \in {4, 5}

StateInit ==
    /\ data \in {None, Empty} \/ IsOld(data)
    /\ backups = [b \in Stamps |-> None]
    /\ archive \in {None, State(0, 4, None, TRUE, TRUE)}
    /\ exporter = None /\ importer = [i \in Importers |-> Off]
    /\ service = [s \in Services |-> Phase("down")]
    /\ made = IF IsState(data) THEN 1 ELSE 0
    /\ held = 1..made /\ raced = {} /\ cut = FALSE

Becomes(d) ==
    /\ data' = d
    /\ held' = IF IsState(d) THEN held \cup {d.of} ELSE held
Files == <<data, backups, held>>
Tools == <<archive, exporter, importer>>
Counters == <<made, raced, cut>>

\* Assert-ModelDeckServicesStopped
ServicesStopped == \A s \in Services : service[s].phase = "down"

---------------------------------------------------------------------------
(* Services *)

Supported == {0, 4, 5}

\* mkdir and the first query of initialise_v5, which creates a database where none is.
BeginsService(s) ==
    /\ service[s].phase = "down"
    /\ IF IsState(data)
       THEN UNCHANGED <<Files, made>>
       ELSE made < MaxStates /\ made' = made + 1 /\ Becomes(Fresh(made')) /\ UNCHANGED backups
    /\ LET d == data' IN
       service' = [service EXCEPT ![s] =
            IF d.version \in Supported THEN [phase |-> "starting", opened |-> d.of, migrates |-> d.live = None]
            ELSE Phase("degraded")]
    /\ UNCHANGED <<Tools, raced, cut>>

\* A bug: the singleton's profile is made live at every start.
Upgraded_Always(d, migrates) ==
    [d EXCEPT !.version = 5, !.live = d.singleton \/ d.live = TRUE]

\* The transaction: tables that are missing, version 5, and the singleton's profile when the
\* table of active profiles was missing before.
Upgraded(d, migrates) ==
    [d EXCEPT !.version = 5, !.live = d.live = TRUE \/ (migrates /\ d.singleton)]

\* The open connection follows its file into a backup.
UpgradesService(s) ==
    /\ service[s].phase = "starting"
    /\ LET v == service[s]
           Opened(d) == IsState(d) /\ d.of = v.opened
           After(d) == IF Opened(d) THEN Upgraded(d, v.migrates) ELSE d IN
       /\ data' = After(data)
       /\ backups' = [b \in Stamps |-> After(backups[b])]
       /\ raced' = IF v.migrates /\ \E d \in {data} \cup {backups[b] : b \in Stamps} : Opened(d) /\ d.live # None
                   THEN raced \cup {v.opened} ELSE raced
    /\ service' = [service EXCEPT ![s] = Phase("up")]
    /\ UNCHANGED <<held, Tools, made, cut>>

StopsService(s) ==
    /\ service[s].phase # "down"
    /\ service' = [service EXCEPT ![s] = Phase("down")]
    /\ UNCHANGED <<Files, Tools, Counters>>

\* publish or activate, and deactivate, which leaves the singleton table as it is.
SetsActive(p) ==
    /\ service["management"].phase = "up"
    /\ IsState(data) /\ data.live # None /\ data.live # p
    /\ data' = [data EXCEPT !.live = p, !.wanted = p, !.singleton = p \/ data.singleton]
    /\ UNCHANGED <<backups, held, Tools, service, Counters>>

---------------------------------------------------------------------------
(* Migrations; the scripts stop the services and copy the database before *)

\* A migration is one transaction, or nothing.
Migrates(from) ==
    /\ ServicesStopped
    /\ IsState(data) /\ data.version = from
    /\ data' = [data EXCEPT !.version = from + 1]
    /\ UNCHANGED <<backups, held, Tools, service, Counters>>

\* The active Event becomes the row of the singleton table, and the capability policy is made
\* from what is active; the row stays.
MigratesV2 == Migrates(2)
MigratesV3 == Migrates(3)

\* cutover_v2.ps1 moves the database away, whatever its version, and creates one.
CutsOver(b) ==
    /\ ServicesStopped /\ IsState(data) /\ backups[b] = None /\ made < MaxStates
    /\ backups' = [backups EXCEPT ![b] = data]
    /\ made' = made + 1 /\ Becomes(Upgraded(Fresh(made'), TRUE))
    /\ UNCHANGED <<Tools, service, raced, cut>>

---------------------------------------------------------------------------
(* Exports *)

\* A bug: the version is not looked at.
Importable_AnyVersion(d) == IsState(d)

\* validate_state_directory
Importable(d) == IsState(d) /\ d.version \in {4, 5}

\* A reader of the archive in the making sees nothing that it can use, or a prefix that ends
\* after some file.
Prefixes(d) == {Broken, [d EXCEPT !.files = "cut"]}

BeginsExport ==
    /\ ServicesStopped /\ exporter = None /\ archive = None
    /\ Importable(data)
    /\ exporter' = data
    /\ archive' \in Prefixes(data)
    /\ UNCHANGED <<Files, importer, service, Counters>>

\* What changed meanwhile may be in the archive, or not, or make its database unusable.
EndsExport ==
    /\ exporter # None /\ exporter' = None
    /\ archive' \in IF data = exporter THEN {data}
                    ELSE {exporter, Broken} \cup {d \in {data} : Importable(d)}
    /\ UNCHANGED <<Files, importer, service, Counters>>

\* A bug: the partial file stays.
ExportFails_KeepsFile ==
    /\ exporter # None /\ exporter' = None
    /\ UNCHANGED <<Files, archive, importer, service, Counters>>

ExportFails ==
    /\ exporter # None /\ exporter' = None
    /\ archive' = None
    /\ UNCHANGED <<Files, importer, service, Counters>>

ExporterDies ==
    /\ exporter # None /\ exporter' = None
    /\ cut' = TRUE
    /\ UNCHANGED <<Files, archive, importer, service, made, raced>>

\* The user removes the archive.
Discards ==
    /\ archive # None /\ exporter = None /\ archive' = None
    /\ UNCHANGED <<Files, exporter, importer, service, Counters>>

---------------------------------------------------------------------------
(* Imports *)

\* Who imports a state wants what it has.
Copy(d, of) == [d EXCEPT !.of = of, !.wanted = IF d.live = None THEN @ ELSE d.live]

\* The source, an archive or a directory, is copied and the copy validated; whether the
\* destination has content was looked at before.
BeginsImport(i, replace) ==
    /\ importer[i] = Off /\ ServicesStopped /\ made < MaxStates
    /\ IsState(data) => replace
    /\ \E source \in {archive} \cup {backups[b] : b \in Stamps} :
        /\ Importable(source)
        /\ cut' = (cut \/ (source = archive /\ exporter # None))
        /\ made' = made + 1
        /\ importer' = [importer EXCEPT ![i] =
                [pc |-> "staged", existing |-> IsState(data), staged |-> Copy(source, made')]]
    /\ UNCHANGED <<Files, archive, exporter, service, raced>>

ImporterStays == UNCHANGED <<archive, exporter, service, Counters>>
EndsImport(i) == importer' = [importer EXCEPT ![i] = Off]

\* A bug: what is there is removed when it was empty at first.
MovesAside_RemovesTree(i, b) ==
    /\ importer[i].pc = "staged"
    /\ IF importer[i].existing /\ data # None
       THEN backups[b] = None /\ backups' = [backups EXCEPT ![b] = data]
       ELSE UNCHANGED backups
    /\ data' = None
    /\ importer' = [importer EXCEPT ![i].pc = "place"]
    /\ ImporterStays /\ UNCHANGED held

\* A destination that had content becomes the backup of this second, unless there is one; the
\* other is removed, which fails if it has content by now.
MovesAside(i, b) ==
    /\ importer[i].pc = "staged"
    /\ IF data = None \/ (data = Empty /\ ~importer[i].existing)
       THEN data' = None /\ importer' = [importer EXCEPT ![i].pc = "place"] /\ UNCHANGED backups
       ELSE IF importer[i].existing /\ backups[b] = None
       THEN /\ backups' = [backups EXCEPT ![b] = data]
            /\ data' = None /\ importer' = [importer EXCEPT ![i].pc = "place"]
       ELSE EndsImport(i) /\ UNCHANGED <<data, backups>>
    /\ ImporterStays /\ UNCHANGED held

\* A directory is renamed over nothing or over an empty one only.
PlacesState(i) ==
    /\ importer[i].pc = "place"
    /\ IF IsState(data) THEN UNCHANGED <<data, held>> ELSE Becomes(importer[i].staged)
    /\ EndsImport(i)
    /\ ImporterStays /\ UNCHANGED backups

ImporterDies(i) ==
    /\ importer[i] # Off
    /\ EndsImport(i)
    /\ ImporterStays /\ UNCHANGED Files

StateNext ==
    \/ \E s \in Services : BeginsService(s) \/ UpgradesService(s) \/ StopsService(s)
    \/ \E p \in BOOLEAN : SetsActive(p)
    \/ MigratesV2 \/ MigratesV3
    \/ \E b \in Stamps : CutsOver(b)
    \/ BeginsExport \/ EndsExport \/ ExportFails \/ ExporterDies \/ Discards
    \/ \E i \in Importers :
          \/ \E replace \in BOOLEAN : BeginsImport(i, replace)
          \/ \E b \in Stamps : MovesAside(i, b)
          \/ PlacesState(i) \/ ImporterDies(i)

StateSpec == StateInit /\ [][StateNext]_stateVars

---------------------------------------------------------------------------
(* Properties *)

States == {d \in {data} \cup {backups[b] : b \in Stamps} : IsState(d)}

\* Whatever was the data directory is there or in a backup, whichever services and commands ran
\* at once and wherever one died ("the previous destination is moved alongside it").
NothingIsLost == held \subseteq {d.of : d \in States}

\* The profile that is active before migrations and upgrades is live after them, and one that the
\* user deactivated is not, unless a second service had looked for the table before the first
\* created it.
ActivationSurvives == \A d \in States : d.version = 5 /\ d.of \notin raced => d.live = d.wanted

\* A state that lacks files came from an archive whose export was killed or still ran.
ImportsAreWhole == (\E d \in States : d.files = "cut") => cut
=============================================================================
