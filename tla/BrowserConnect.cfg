SPECIFICATION FairSpec
CONSTANTS
    Relays = {a, b}
    Direct = direct
    None = none
    Refusable = {b}
    MaxQueue = 1
    MaxWrites = 2
INVARIANTS
    NothingLeft
    OneTunnel
PROPERTIES
    GivesUpLast
    Progress
CHECK_DEADLOCK FALSE
