SPECIFICATION FairSpec
CONSTANTS
    s1 = s1
    s2 = s2
    s3 = s3
    t1 = t1
    t2 = t2
    NoSession = NoSession
    NoName = NoName
    Sessions <- MCThree
    Stamps <- MCOneStamp
    MaxCopies = 4
    MaxFaults = 3
INVARIANTS
    TypeOK
    DistinctFolders
    FinishedIsWhole
    RecoveredIsMarked
    SweepIsComplete
    RenamedIsComplete
PROPERTIES
    ImplementsStore
    FoundIsRecovered
    StopAnswers
