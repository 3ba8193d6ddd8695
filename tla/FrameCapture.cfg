SPECIFICATION FairSpec
CONSTANTS
    MaxRows = 3
    MaxFaults = 2
INVARIANTS
    ReaderOutlivesChild
    HealthTellsTheEnd
PROPERTIES
    StopPassesOrLeaks
