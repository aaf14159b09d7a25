SPECIFICATION LeaseFairSpec
CONSTANTS
    n1 = n1
    n2 = n2
    Nodes <- TwoNodes
    MaximumNodes = 1
    MaxStarts = 2
    MaxRequests = 2
INVARIANTS
    WithinCapacity
    OneRequestAtATime
PROPERTY
    EventuallyForgotten
