SPECIFICATION Spec
CONSTANTS
    Nodes = {n1, n2}
    Nobody = Nobody
    TTL = 7
    Latency = 1
    StopDelay = 1
    Timely = TRUE
    RunOnce = TRUE
    RedisTimeouts = FALSE
    MaxFaults = 3
INVARIANTS
    TypeOK
    OneLeader
    LeaderHoldsLock
    HeartbeatGuardsTerm
    ExitsOnlyOnShutdown
SYMMETRY NodeSymmetry
