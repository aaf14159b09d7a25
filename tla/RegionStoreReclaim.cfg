SPECIFICATION Spec
CONSTANTS
    Regions = {}
    Moved = {m}
    Values = {v, w}
    Zero = zero
    Absent = absent
    Placeholder = placeholder
    MaxSize = 1
    PatchLimit = 1
    FaultKinds = {"append", "flush"}
    Faulty = {m}
    MaxWrites = 2
    MaxFaults = 1
    MaxCrashes = 0
CHECK_DEADLOCK FALSE
PROPERTY
    ReclaimIsSafe
