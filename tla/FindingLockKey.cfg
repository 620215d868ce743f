SPECIFICATION FairSpec
CONSTANTS
    Nodes = {n1, n2}
    Nobody = Nobody
    TTL = 2
    Latency = 0
    StopDelay = 0
    Timely = TRUE
    RunOnce = FALSE
    RedisTimeouts = TRUE
    MaxFaults = 0
PROPERTIES
    EnvironmentsApart
