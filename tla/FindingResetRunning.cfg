SPECIFICATION OperatorSpec
CONSTANTS
    Nodes = {n1}
    DefaultLimit = 1
    BatchSize = 1
    LookbackHours = 0
    PollingInterval = 1
    IdsInOrder = TRUE
    TimesInOrder = TRUE
    StdoutMayFail = FALSE
    SendMayFail = FALSE
    MaxEventID = 3
    MaxTime = 2
    MaxRuns = 3
    MaxFaults = 0
    WhileStopped = FALSE
    MaxEdits = 2
INVARIANTS
    ReprocessesEverything
