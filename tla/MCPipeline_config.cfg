SPECIFICATION Spec
CONSTANTS
    Layouts <- TwoStages
    MaxFaults = 0
    Panics = FALSE
INVARIANT CommandsNeedConfig
CHECK_DEADLOCK FALSE
