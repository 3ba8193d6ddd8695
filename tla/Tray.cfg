SPECIFICATION FairSpec
CONSTANT
    MaxCommands = 5
INVARIANTS
    EventsTellTheStory
    ViewConverges
    LatestIsReported
    ExitStopsSession
PROPERTY
    ExitCompletes
CHECK_DEADLOCK FALSE
