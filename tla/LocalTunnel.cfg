SPECIFICATION FairSpec
CONSTANTS
    Clients = {c1, c2}
    Servers = {s1}
    None = none
    ClientFrames = 2
    ServerFrames = 1
    MaxPending = 1
    HighWater = 1
INVARIANTS
    SessionIsSound
    PairIsOrdered
PROPERTY
    Progress
CHECK_DEADLOCK FALSE
