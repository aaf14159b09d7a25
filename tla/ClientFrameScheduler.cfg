SPECIFICATION FairSpec
CONSTANTS
    t1 = t1
    t2 = t2
    t3 = t3
    Tunnels <- MCTunnels
    Budget = 1
    WorkLimit = 2
INVARIANTS
    QueueIsSound
    NoLostWakeup
PROPERTIES
    NeverOvertaken
    RunnableGetsTurn
CHECK_DEADLOCK FALSE
