SPECIFICATION FairSpec
CONSTANTS
    s1 = s1
    s2 = s2
    g1 = g1
    g2 = g2
    o = o
    a = a
    b = b
    w = w
    Setups = {s1, s2}
    Profiles = {g1, g2, o}
    Names = {a, b}
    Workers = {s1, s2, w}
    Nobody = Nobody
    NoDraft = NoDraft
    NoSetup = NoSetup
    NoProfile = NoProfile
    MaxRevision = 2
    Own <- MCOwn
    Wanted <- MCWanted
    OperatorDocs <- MCOperatorDocs
    Budget <- MCBudget
INVARIANTS
    TypeOK
    NoAmbiguousNames
    UnfinishedHasRunner
PROPERTIES
    RoutingSafe
    NothingIsForgotten
    RollbackRestores
    SetupsSettle
CHECK_DEADLOCK FALSE
