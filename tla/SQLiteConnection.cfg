SPECIFICATION FairSpec
CONSTANTS
    SQLs = {"a", "b", "begin"}
    Cacheable = {"a", "b"}
    Signals = {s1}
    NoSignal = NoSignal
    CacheSize = 1
    MaxDepth = 3
INVARIANTS
    InUseIsKept
    NoStatementLost
    CanceledWhileAttached
PROPERTIES
    CancelEndsStatement
CHECK_DEADLOCK FALSE
