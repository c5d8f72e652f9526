SPECIFICATION FairSpec
CONSTANTS
    Claims <- MCClaims
    MaxUnits = 2
    Facets = {"adoption", "alternatives", "costs"}
    Workers = 2
    Threads = {"t1", "t2", "t3"}
    Payloads = {"a", "b", "old", "long"}
    Programs <- MCPrograms
    Tokens <- MCTokens
    Limit = 5
    Reusable = {"old"}
    TooLong = {"long"}
    TechOrder <- MCTechOrder
    ViewOrder <- MCViewOrder
    Searches = 2
    BatchSize = 2
    Concurrency = 2
    PoolThreads = {"t1", "t2"}
    QueueSize = 2
CHECK_DEADLOCK FALSE
INVARIANTS
    AnswerIsSound
    MergeIsSound
    AdmissionIsSound
    GraphIsSound
    TraceIsSound
PROPERTIES
    PaidAllOrNothing
    EveryCallEnds
