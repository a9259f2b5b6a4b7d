SPECIFICATION FairSpec
CONSTANTS
    Layouts <- AllLayouts
    MaxFaults = 2
    Panics = TRUE
INVARIANTS
    TypeOK
    StageOrder
    SidecarOutlivesJobs
    ServerInformed
PROPERTIES
    ConfigStable
    FinalStays
    CancelStopsUnlessAbandoned
    FailureReported
CHECK_DEADLOCK FALSE
