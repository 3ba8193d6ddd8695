SPECIFICATION FairSpec
CONSTANTS
    c1 = c1
    c2 = c2
    session = session
    Session <- session
    Collectors <- MCCollectors
    Following <- MCFollowing
    Capacity = 2
    MaxBatch = 2
    MaxAttempts = 1
INVARIANTS
    NothingLostInFlight
    DurablePrefix
    CleanStop
    LossBound
PROPERTIES
    JoinedStaySilent
    ImplementsLog
    StopReturns
    EventuallyDurable
CHECK_DEADLOCK FALSE
