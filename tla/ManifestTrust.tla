---------------------------- MODULE ManifestTrust ----------------------------
(***************************************************************************)
(* Locally installed runtime manifests (registry.py).  The installer is a  *)
(* command of its own, which may run beside another and may die; it        *)
(* replaces the manifest's file and then the trust registry, each through  *)
(* a temporary file with a fixed name.  The service reads both only when   *)
(* it starts, and does not start if they disagree.                         *)
(***************************************************************************)
EXTENDS Naturals

CONSTANTS
    Manifests,   \* valid manifests whose digest the operator approved
    FileOf,      \* package and version, which name the file
    IdsOf,       \* the ids of the templates in a manifest
    CoreIds,     \* the ids of the packaged templates
    Installers,
    Other,       \* any other content of a file
    None

Files == {FileOf[m] : m \in Manifests}

VARIABLES
    file,        \* the content of each file in the trust directory
    fileTmp,     \* and of its .json.tmp
    registry,    \* trust.json: the content whose digest each entry has
    registryTmp, \* trust.json.tmp, or None
    installer,   \* each run of the installer
    service,     \* "down", "up" or "refused"
    loaded,      \* the manifests of runtime_registrations
    touched,     \* ghost: files somebody edited or removed
    overlapped,  \* ghost: some installers ran at the same time
    installed    \* ghost: manifests whose installer ended, with nobody beside it

directory == <<file, fileTmp, registry, registryTmp>>
manifestVars == <<directory, installer, service, loaded, touched, overlapped, installed>>

NoEntries == [f \in Files |-> None]
Idle == [pc |-> "idle"]
Running == {i \in Installers : installer[i].pc # "idle"}

ManifestTypesOK ==
    /\ file \in [Files -> Manifests \cup {Other, None}]
    /\ fileTmp \in [Files -> Manifests \cup {None}]
    /\ registry \in [Files -> Manifests \cup {None}]
    /\ registryTmp \in {None} \cup [Files -> Manifests \cup {None}]
    /\ service \in {"down", "up", "refused"} /\ loaded \subseteq Manifests \cup {Other}

ManifestInit ==
    /\ file = NoEntries /\ fileTmp = NoEntries
    /\ registry = NoEntries /\ registryTmp = None
    /\ installer = [i \in Installers |-> Idle]
    /\ service = "down" /\ loaded = {}
    /\ touched = {} /\ overlapped = FALSE /\ installed = {}

At(i, pc) == installer[i].pc = pc
Moves(i, pc) == installer' = [installer EXCEPT ![i].pc = pc]
Ends(i) == installer' = [installer EXCEPT ![i] = Idle]
Observers == <<service, loaded, touched>>

\* Digest, schema and package id are right, and the version is not installed with
\* another content.
Installs(i, m) ==
    /\ At(i, "idle")
    /\ file[FileOf[m]] \in {None, m}
    /\ installer' = [installer EXCEPT ![i] = [pc |-> "write", manifest |-> m]]
    /\ overlapped' = (overlapped \/ Running # {})
    /\ UNCHANGED <<directory, Observers, installed>>

WritesFile(i) ==
    /\ At(i, "write")
    /\ fileTmp' = [fileTmp EXCEPT ![FileOf[installer[i].manifest]] = installer[i].manifest]
    /\ Moves(i, "replace")
    /\ UNCHANGED <<file, registry, registryTmp, Observers, overlapped, installed>>

\* The temporary file may be another installer's, or gone, which is an error.
ReplacesFile(i) ==
    LET f == FileOf[installer[i].manifest] IN
    /\ At(i, "replace")
    /\ IF fileTmp[f] = None
       THEN Ends(i) /\ UNCHANGED <<file, fileTmp>>
       ELSE /\ file' = [file EXCEPT ![f] = fileTmp[f]]
            /\ fileTmp' = [fileTmp EXCEPT ![f] = None]
            /\ Moves(i, "read")
    /\ UNCHANGED <<registry, registryTmp, Observers, overlapped, installed>>

\* The entry of this file is replaced, the others are kept as they were read.
ReadsRegistry(i) ==
    LET m == installer[i].manifest IN
    /\ At(i, "read")
    /\ installer' = [installer EXCEPT ![i] = [pc |-> "register", manifest |-> m,
                                             entries |-> [registry EXCEPT ![FileOf[m]] = m]]]
    /\ UNCHANGED <<directory, Observers, overlapped, installed>>

WritesRegistry(i) ==
    /\ At(i, "register")
    /\ registryTmp' = installer[i].entries
    /\ Moves(i, "publish")
    /\ UNCHANGED <<file, fileTmp, registry, Observers, overlapped, installed>>

ReplacesRegistry(i) ==
    /\ At(i, "publish")
    /\ IF registryTmp = None
       THEN UNCHANGED <<registry, registryTmp, installed>>
       ELSE /\ registry' = registryTmp
            /\ registryTmp' = None
            /\ installed' = IF overlapped THEN installed ELSE installed \cup {installer[i].manifest}
    /\ Ends(i)
    /\ UNCHANGED <<file, fileTmp, Observers, overlapped>>

\* A bug: the registry is published before the file is there.
InstallerStep_RegistryFirst(i) ==
    \/ /\ At(i, "write")
       /\ registry' = [registry EXCEPT ![FileOf[installer[i].manifest]] = installer[i].manifest]
       /\ Moves(i, "replace")
       /\ UNCHANGED <<file, fileTmp, registryTmp, Observers, overlapped, installed>>
    \/ /\ At(i, "replace")
       /\ file' = [file EXCEPT ![FileOf[installer[i].manifest]] = installer[i].manifest]
       /\ Ends(i)
       /\ UNCHANGED <<fileTmp, registry, registryTmp, Observers, overlapped, installed>>

\* install_runtime_manifest after its checks
InstallerStep(i) ==
    WritesFile(i) \/ ReplacesFile(i) \/ ReadsRegistry(i) \/ WritesRegistry(i) \/ ReplacesRegistry(i)

InstallerDies(i) ==
    /\ installer[i].pc # "idle"
    /\ Ends(i)
    /\ UNCHANGED <<directory, Observers, overlapped, installed>>

\* Somebody edits or removes a file; one file, which is the bound.
Touches(f) ==
    /\ touched \subseteq {f}
    /\ \E c \in {Other, None} : file[f] # c /\ file' = [file EXCEPT ![f] = c]
    /\ touched' = touched \cup {f}
    /\ UNCHANGED <<fileTmp, registry, registryTmp, installer, service, loaded, overlapped, installed>>

Entries == {f \in Files : registry[f] # None}

\* A bug: only local packages are compared with each other.
Sound_LocalOnly ==
    /\ \A f \in Entries : file[f] = registry[f]
    /\ \A f, g \in Entries : IdsOf[registry[f]] \cap IdsOf[registry[g]] # {} => f = g

\* _trusted_local_registrations and the test for duplicate ids, which the installer does not
\* make: a local package may reuse an id of the packaged templates or of another package.
Sound ==
    /\ \A f \in Entries : file[f] = registry[f] /\ IdsOf[registry[f]] \cap CoreIds = {}
    /\ \A f, g \in Entries : IdsOf[registry[f]] \cap IdsOf[registry[g]] # {} => f = g

ServiceStarts ==
    /\ service # "up"
    /\ IF Sound THEN service' = "up" /\ loaded' = {file[f] : f \in Entries}
       ELSE service' = "refused" /\ loaded' = {}
    /\ UNCHANGED <<directory, installer, touched, overlapped, installed>>

ServiceStops ==
    /\ service = "up"
    /\ service' = "down" /\ loaded' = {}
    /\ UNCHANGED <<directory, installer, touched, overlapped, installed>>

ManifestNext ==
    \/ \E i \in Installers :
          \/ \E m \in Manifests : Installs(i, m)
          \/ InstallerStep(i) \/ InstallerDies(i)
    \/ \E f \in Files : Touches(f)
    \/ ServiceStarts \/ ServiceStops

ManifestSpec == ManifestInit /\ [][ManifestNext]_manifestVars

---------------------------------------------------------------------------
(* Properties *)

\* The service runs only templates of manifests whose digest was approved, whatever became of
\* the files ("Startup fails closed if a trusted file is missing, changed"), and knows each
\* template under an id of its own.
LoadedIsApproved ==
    /\ loaded \subseteq Manifests
    /\ \A m \in loaded : IdsOf[m] \cap CoreIds = {}
    /\ \A m, n \in loaded : IdsOf[m] \cap IdsOf[n] # {} => m = n

\* An installation that ended while no two installers ran stays: later ones, complete or not,
\* keep its file and its entry, unless somebody touches the file.
InstalledStays ==
    ~overlapped => \A m \in installed : FileOf[m] \in touched \/
                      (file[FileOf[m]] = m /\ registry[FileOf[m]] = m)

\* The service refuses to start for a reason: a file was touched, installers overlapped, or an
\* approved package that is in place reuses an id of the packaged templates or of another one
\* in place.  An installer that died is none.
RefusalsHaveACause ==
    LET present == {m \in Manifests : m \in {file[f] : f \in Files}} IN
    service = "refused" =>
        \/ touched # {} \/ overlapped
        \/ \E m \in present : IdsOf[m] \cap CoreIds # {}
        \/ \E m, n \in present : FileOf[m] # FileOf[n] /\ IdsOf[m] \cap IdsOf[n] # {}
=============================================================================
