SPECIFICATION FairSpec
CONSTANTS
    MaxSessions = 2
    MaxFaults = 3
INVARIANTS
    RunningIsAccounted
    EveryGapIsExplained
PROPERTY
    DatabaseIsReleased
CHECK_DEADLOCK FALSE
