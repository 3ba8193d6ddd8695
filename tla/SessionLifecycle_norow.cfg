SPECIFICATION Spec
CONSTANTS
    s1 = s1
    s2 = s2
    s3 = s3
    t1 = t1
    t2 = t2
    NoSession = NoSession
    NoName = NoName
    Sessions <- MCTwo
    Stamps <- MCTwoStamps
    MaxCopies = 4
    MaxFaults = 1
INVARIANTS
    SweepSucceeds
