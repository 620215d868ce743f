SPECIFICATION Spec
CONSTANTS
    DefaultLimit = 2
    Accounts = {a1, a2}
    Activities = {peer_added}
    MaxEventID = 3
    MaxTime = 2
    Keys = {key, other}
    MetaKeys = {"event_id", "level", "target_id", "unparsable"}
    Values = {"", "x"}
    Layouts = {"techdoc", "lab", "v1"}
    Consumers = {a, b}
    Writers = {w1, w2}
    MaxPosition = 2
INVARIANTS
    PageIsSound
    PageLeavesNoHole
    CountIsReadable
    EnrichmentKeepsEvents
    EmailIdentifies
    KeyIsUsed
    DriversAgree
    LineKeepsOwners
    RowsServeTheirOwners
CHECK_DEADLOCK FALSE
