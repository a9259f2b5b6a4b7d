SPECIFICATION FairSpec
CONSTANTS
    Ids = {p1, p2}
    MaxParallel = 1
    MaxRuns = 2
    MaxKeys = 3
    Reissue = FALSE
INVARIANTS
    TypeOK
    ParallelLimit
    KeyPerPipeline
    Tracked
    ShutdownReachesAll
    TerminateSound
PROPERTIES
    IsPool
    NoLateStart
    StopsWhenAsked
    CancelHonoured
