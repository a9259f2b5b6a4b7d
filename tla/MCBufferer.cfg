SPECIFICATION FairSpec
CONSTANTS
    Writers = {w1, w2}
    Closers = {c1, c2}
    Nobody = Nobody
    ChanSize = 1
    FlushSize = 2
    MaxWrites = 2
INVARIANTS
    TypeOK
    NoPanic
    CloseFlushes
PROPERTIES
    IsLogStream
    CallsReturn
CHECK_DEADLOCK FALSE
