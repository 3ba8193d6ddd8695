SPECIFICATION Spec
CONSTANTS
    root = root
    crashes = crashes
    session = session
    top = top
    dump = dump
    own = own
    Files <- MCFiles
    Dirs <- MCDirs
    Parent <- MCParent
    Roots = {root}
    SessionDir = session
    Sizes = {1, 3}
    MaxScanDepth = 2
    MaxScanFiles = 2
    MaxCopyFileBytes = 2
    MaxTotalCopyBytes = 1
    MaxWrites = 2
    MaxFaults = 1
INVARIANTS
    NothingOldRecorded
    EveryChangeRecorded
    CopiesWithinLimit
