SPECIFICATION Spec
CONSTANTS
    e1 = e1
    e2 = e2
    Events = {e1, e2}
    Notable = {e1}
    Overlap = 1
    Slack = 2
    MaxLag = 1
    PollSeconds = 2
    MaxTime = 4
    MaxFails = 1
INVARIANTS
    PollsLeaveNoGap
    RecordedTwiceOnlyAtTheSeam
    LastMomentsRecorded
PROPERTIES
    DisorderBounded
