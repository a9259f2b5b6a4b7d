SPECIFICATION Spec
CONSTANTS
    Names <- MCNames
    OsEnv <- MCOsEnv
    Hub = "Hub"
    DefaultImage <- MCDefaultImage
    BrokenAuths = {"broken"}
    AuthsOf <- MCAuthsOf
INVARIANTS
    JobsAsWritten
    LayersInOrder
    SecretsMasked
    PulledAsMeant
CHECK_DEADLOCK FALSE
