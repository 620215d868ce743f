SPECIFICATION Spec
CONSTANTS
    Nodes = {n1}
    Nobody = Nobody
    TTL = 2
    Latency = 0
    StopDelay = 0
    Timely = TRUE
    RedisTimeouts = FALSE
    DefaultLimit = 1
    BatchSize = 1
    LookbackHours = 0
    PollingInterval = 0
    IdsInOrder = TRUE
    TimesInOrder = TRUE
    StdoutMayFail = FALSE
    SendMayFail = FALSE
    MaxEventID = 2
    MaxTime = 1
    MaxTerms = 3
    MaxFaults = 0
    MaxFailures = 0
INVARIANTS
    RunsOnceAndExits
