SPECIFICATION Spec
CONSTANTS
    Regions = {r}
    Moved = {m}
    Values = {v}
    Zero = zero
    Absent = absent
    Placeholder = placeholder
    MaxSize = 2
    PatchLimit = 1
    FaultKinds = {"append", "flush"}
    Faulty = {r}
    MaxWrites = 2
    MaxFaults = 1
    MaxCrashes = 1
CHECK_DEADLOCK FALSE
INVARIANTS
    IndexIsSound
    AckSurvives
    CopiesAgree
PROPERTY
    ImplementsFiles
