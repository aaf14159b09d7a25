SPECIFICATION RelaySpec
CONSTANTS
    ParserLimit = 5
    MaxTargets = 2
    Others = 1
INVARIANTS
    InsertedFits
    PhaseCatchesUp
    NeverStuck
    NothingLeft
CHECK_DEADLOCK FALSE
