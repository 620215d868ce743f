SPECIFICATION FairSpec
CONSTANTS
    Nodes = {n1, n2}
    Nobody = Nobody
    TTL = 2
    Latency = 0
    StopDelay = 0
    Timely = TRUE
    RedisTimeouts = FALSE
    DefaultLimit = 1
    BatchSize = 1
    LookbackHours = 0
    PollingInterval = 1
    IdsInOrder = TRUE
    TimesInOrder = TRUE
    StdoutMayFail = FALSE
    SendMayFail = FALSE
    MaxEventID = 2
    MaxTime = 1
    MaxTerms = 2
    MaxFaults = 1
    MaxFailures = 1
PROPERTIES
    EventuallyDelivered
