SPECIFICATION Spec
CONSTANTS
    DefaultLimit = 2
    Accounts = {a1, a2}
    Activities = {peer_added}
    MaxEventID = 3
    MaxTime = 2
    Keys = {key, other}
    MetaKeys = {"event_id"}
    Values = {""}
    Layouts = {"lab"}
    Consumers = {a}
    Writers = {w1}
    MaxPosition = 1
INVARIANTS
    LegacyServed
CHECK_DEADLOCK FALSE
