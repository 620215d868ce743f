SPECIFICATION Spec
CONSTANTS
    Nodes = {n1, n2}
    Nobody = Nobody
    TTL = 3
    Latency = 0
    StopDelay = 1
    Timely = TRUE
    RedisTimeouts = FALSE
    DefaultLimit = 1
    BatchSize = 1
    LookbackHours = 0
    PollingInterval = 1
    IdsInOrder = TRUE
    TimesInOrder = TRUE
    StdoutMayFail = FALSE
    SendMayFail = FALSE
    MaxEventID = 2
    MaxTime = 1
    MaxTerms = 3
    MaxFaults = 2
    MaxFailures = 1
INVARIANTS
    GapAtMostOneBatch
PROPERTIES
    ImplementsFeed
    WorksUnderLock
