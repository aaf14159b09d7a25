CONSTANTS
    Sizes = {0, 3}
    FrameBudget = 2
    MaxYield = 1
    SliceHigh = 2
    SliceLow = 1
    FrameHigh = 3
    FrameLow = 1
    BytesHigh = 4
    BytesLow = 2
    MaxFrames = 3
    MaxBytes = 6
    PacketHigh = 2
    PacketLow = 0
    GraceRetries = 1
SPECIFICATION FairSpec
INVARIANTS InputIsBounded DrainedKeepsTail NeverStuck
PROPERTIES ImplementsRelay Progress
CHECK_DEADLOCK FALSE
