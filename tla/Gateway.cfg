\* Every kind of request, failing writes, restarts and any thermal state.
SPECIFICATION FairSpec
CONSTANTS
    r1 = r1
    r2 = r2
    r3 = r3
    i1 = i1
    i2 = i2
    None = None
    Requests <- MCRequests
    Ids <- MCIds
    Asks <- MCAsks
    Names <- MCNames
    Hosts = {"normal", "warm", "hot"}
    Heavy = 2
    WritesFail = TRUE
INVARIANTS
    TypeOK
    ClaimsAccounted
    FileCoversWork
    OwnersAreInFlight
PROPERTIES
    SharedLimit
    CapacityComesBack
CHECK_DEADLOCK FALSE
