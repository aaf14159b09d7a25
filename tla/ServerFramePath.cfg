SPECIFICATION FairSpec
CONSTANTS
    Stream <- MCStream
    HighWater = 2
    FrameBudget = 2
INVARIANTS
    ExactlyOnceInOrder
    NeverStuck
PROPERTIES
    ImplementsRelay
    AllDelivered
