SPECIFICATION MetricsFairSpec
CONSTANTS
    Nodes = {n1}
    DefaultLimit = 2
    BatchSize = 2
    LookbackHours = 1
    PollingInterval = 1
    IdsInOrder = TRUE
    TimesInOrder = TRUE
    StdoutMayFail = FALSE
    SendMayFail = TRUE
    MaxEventID = 2
    MaxTime = 2
    MaxRuns = 2
    MaxFaults = 1
    Writers = 2
INVARIANTS
    SavedReachedAll
    CopiesAreTrue
    MetricsAreTrue
PROPERTIES
    ImplementsFeed
    AllWritersGetIt
    PollTimeKeepsUp
