SPECIFICATION FairSpec
CONSTANTS
    HeadSize = 1
    ChunkSize = 2
    FileSizes = {1, 3, 5}
    FirstSnapshot = 2
    LeaderLast = 2
    FollowerLast = 1
    MaxLast = 4
    MaxSnapshots = 1
    MaxFailures = 3
    MaxLate = 2
    MaxTerms = 1
\* A deposed leader's thread sleeps.
CHECK_DEADLOCK FALSE
INVARIANT
    InstalledIsWhole
    MatchIsStored
PROPERTY
    StoredStays
    CatchesUp
