SPECIFICATION Spec
CONSTANTS
    Nodes = {n1}
    DefaultLimit = 2
    BatchSize = 2
    LookbackHours = 0
    PollingInterval = 1
    IdsInOrder = TRUE
    TimesInOrder = TRUE
    StdoutMayFail = TRUE
    SendMayFail = FALSE
    MaxEventID = 3
    MaxTime = 3
    MaxRuns = 2
    MaxFaults = 0
INVARIANTS
    NoEventLost
