\* Every kind of Worker: cancellations, deadlines, crashes, left streams, a shared prefix cache.
SPECIFICATION WorkersSpec
CONSTANTS
    r1 = r1
    r2 = r2
    r3 = r3
    s1 = s1
    s2 = s2
    i1 = i1
    i2 = i2
    p1 = p1
    p2 = p2
    None = None
    Smokes <- MCSmokes
    Requests <- MCRequests
    Streams <- MCStreams
    Ids <- MCIds
    IdOf <- MCIdOf
    Prefixes <- MCPrefixes
    PrefixOf <- MCPrefixOf
    Jobs <- MCJobs
    Subscribers <- MCSubscribers
    Follows <- MCFollows
    TotalSteps = 2
    MaxDrafts <- MCMaxDrafts
    LlamaRequests = {1, 2}
    LlamaStreams = {1}
    CancelCalls = {3, 4}
    MaxChildren = 5
INVARIANTS
    WorkerTypesOK
    OneAtATime
    CancellationReaches
    AnswersAreTheirOwn
PROPERTIES
    OneRequestComputes
    WorkersKeepProtocol
    WorkersRecover
CHECK_DEADLOCK FALSE
