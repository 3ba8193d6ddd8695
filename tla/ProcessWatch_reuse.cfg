SPECIFICATION Spec
CONSTANTS
    p1 = p1
    p2 = p2
    Pids = {p1, p2}
    NoPid = NoPid
    MaxStarts = 3
    MaxSeconds = 2
SYMMETRY Symmetry
INVARIANT
    BookmarkedExitsWereInFront
