SPECIFICATION FairSpec
CONSTANTS
    Drivers = {"sqlite", "other"}
    Unset = Unset
    StartLimitBurst = 3
    RestartDelayed = FALSE
    MaxTrouble = 1
PROPERTIES
    FailureIsRestarted
