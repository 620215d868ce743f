SPECIFICATION FairSpec
CONSTANTS
    Nodes = {n1}
    DefaultLimit = 2
    BatchSize = 0
    LookbackHours = 0
    PollingInterval = 0
    IdsInOrder = FALSE
    TimesInOrder = FALSE
    StdoutMayFail = TRUE
    SendMayFail = FALSE
    MaxEventID = 3
    MaxTime = 2
    MaxRuns = 3
    MaxFaults = 0
PROPERTIES
    PositionNeverRegresses
    CoveredNeverResent
    RunOnceDrains
    RunOnceReturns
CHECK_DEADLOCK FALSE
