SPECIFICATION AuthSpec
CONSTANTS
    Names <- MCNames
    OsEnv <- MCOsEnv
    Hub = "Hub"
    DefaultImage <- MCDefaultImage
    BrokenAuths = {"broken"}
    AuthsOf <- MCAuthsOf
INVARIANT AuthSpecified
CHECK_DEADLOCK FALSE
