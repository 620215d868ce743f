SPECIFICATION Spec
CONSTANTS
    Nodes = {n1, n2}
    Nobody = Nobody
    TTL = 8
    Latency = 1
    StopDelay = 1
    Timely = TRUE
    RunOnce = TRUE
    RedisTimeouts = TRUE
    MaxFaults = 2
INVARIANTS
    OneLeader
SYMMETRY NodeSymmetry
