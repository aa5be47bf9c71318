\* Launches, manifests, Q4 releases, SceneChat trials, the data directory, logs and the window.
SPECIFICATION MCSpec
CONSTANTS
    None = None
    Empty = Empty
    Broken = Broken
    Other = "other"
    LocalTemplates <- MCTemplates
    Revisions <- MCRevisions
    Manifests <- MCManifests
    FileOf <- MCFileOf
    IdsOf <- MCIdsOf
    CoreIds = {"core"}
    Installers = {1, 2}
    Layers = 2
    MaxConversions = 2
    MaxMaterialised = 2
    MaxBuilds = 1
    Together = TRUE
    Schedule <- MCSchedule
    Importers = {1, 2}
    Stamps = {1, 2}
    MaxStates = 2
    Clients = {"c"}
    MaxKept = 3
    MaxRecords = 6
    MaxSessions = 3
    Threads = {1, 2}
    MaxClicks = 3
INVARIANTS
    HostTypesOK
    LaunchesAreTrusted
    ReleasesAreWhole
    TrialsAreSafe
    RecordsAreKept
CHECK_DEADLOCK FALSE
