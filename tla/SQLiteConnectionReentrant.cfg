SPECIFICATION Spec
CONSTANTS
    SQLs = {"a", "b", "begin"}
    Cacheable = {"a", "b"}
    Signals = {s1, s2}
    NoSignal = NoSignal
    CacheSize = 1
    MaxDepth = 3
INVARIANTS
    StatementsPrivate
CHECK_DEADLOCK FALSE
