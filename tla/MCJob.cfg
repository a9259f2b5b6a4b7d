SPECIFICATION FairSpec
CONSTANTS
    Modes = {"docker", "shell"}
    Count = 2
    MaxOutput = 2
INVARIANTS
    TypeOK
    CommandsInSequence
    LogFaithful
    ContainerReleased
PROPERTY NothingLingers
