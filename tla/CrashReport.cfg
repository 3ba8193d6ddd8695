SPECIFICATION Spec
CONSTANTS
    h1 = h1
    h2 = h2
    Hangs = {h1, h2}
    Minute = 2
    Before = 2
    After = 2
    Grace = 2
    Match = 1
    Limit = 3
    MaxMarkers = 1
    MaxRefused = 1
    MaxTime = 3
    MaxDrift = 1
SYMMETRY Symmetry
INVARIANTS
    HangIsShown
    SkewBounded
    HistoryIsNotEvidence
    HangIsCounted
