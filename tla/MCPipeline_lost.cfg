SPECIFICATION FairSpec
CONSTANTS
    Layouts <- TwoStages
    MaxFaults = 1
    Panics = FALSE
PROPERTY CancelStops
CHECK_DEADLOCK FALSE
