SPECIFICATION FairSpec
CONSTANTS
    MaxLives = 3
    MaxLost = 2
INVARIANTS
    TypeOK
    RegisteredOnce
    Authenticated
    CleanStart
    VersionKnown
PROPERTY StopHonoured
CHECK_DEADLOCK FALSE
