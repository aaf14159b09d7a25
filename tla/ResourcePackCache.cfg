SPECIFICATION PackFairSpec
CONSTANTS
    r1 = r1
    r2 = r2
    r3 = r3
    k1 = k1
    k2 = k2
    Requests = {r1, r2, r3}
    Streaming = {r1, r3}
    Keys = {k1, k2}
    Wanted <- MCWanted
    None = none
    MaxEntries = 2
    MaxBytes = 1
    MaxAttempts = 2
INVARIANTS
    CacheIsSound
    SharedDownload
PROPERTY
    Progress
CHECK_DEADLOCK FALSE
