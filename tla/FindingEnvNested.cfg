SPECIFICATION Spec
CONSTANTS
    Drivers = {"sqlite", "other"}
    Unset = Unset
    StartLimitBurst = 3
    RestartDelayed = FALSE
    MaxTrouble = 2
INVARIANTS
    EnvOverrides
