SPECIFICATION Spec
CONSTANTS
    Nodes = {n1, n2}
    DefaultLimit = 2
    BatchSize = 2
    LookbackHours = 0
    PollingInterval = 1
    IdsInOrder = TRUE
    TimesInOrder = TRUE
    StdoutMayFail = FALSE
    SendMayFail = TRUE
    MaxEventID = 4
    MaxTime = 3
    MaxRuns = 2
    MaxFaults = 1
INVARIANTS
    TypeOK
    NoEventLost
    TotalMatchesPosition
SYMMETRY NodeSymmetry
