\* Worker definitions, profiles, evidence and ports; routes, jobs and discovery.
SPECIFICATION MCSpec
CONSTANTS
    w1 = w1
    w2 = w2
    n1 = n1
    n2 = n2
    p1 = p1
    c1 = c1
    c2 = c2
    c3 = c3
    v1 = v1
    v2 = v2
    v3 = v3
    None = None
    Workers <- MCWorkerSet
    Names <- MCNames
    Bindings <- MCBindings
    Ports = {1, 2}
    Profiles = {p1}
    Tested = {p1}
    Calls = {c1, c2, c3}
    RouteWorkers <- MCRouteWorkers
    PortOf <- MCPortOf
    Routes <- MCRoutes
    InitialRows <- MCInitialRows
    Requests = {"r"}
    Polls = {"c"}
    Discoveries = {"d"}
SYMMETRY MCSymmetry
INVARIANTS
    RegistryTypesOK
    DefinitionsAgree
    PublishedRoutesHold
    RequestsReachTheirWorker
CHECK_DEADLOCK FALSE
