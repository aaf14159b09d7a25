SPECIFICATION FairSpec
CONSTANTS
    Conns = {c}
    MaxConnections = 1
CHECK_DEADLOCK FALSE
INVARIANTS
    SessionIsSound
    NothingLeft
PROPERTY
    ThreadsEnd
