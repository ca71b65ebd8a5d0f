SPECIFICATION Spec
CONSTANTS
    t1 = t1
    t2 = t2
    t3 = t3
    w1 = w1
    w2 = w2
    w3 = w3
    Threads = {t1, t2, t3}
    Waiters = {w1, w2, w3}
    Connections = {c1, c2, c3}
    None = None
    JournalModes = {FALSE, TRUE}
    WALPoolSize = 2
    Requests <- MixedRequests
    Cancellable = {}
    Leaky = {}
    Reconfigurations = {"inPlace", "openFlags", "wal"}
    MaxNonce = 1
INVARIANTS
    OnePrimary
    ExclusiveOwnership
    ConfigurationPropagated
PROPERTIES
    GrantsByPriority
CHECK_DEADLOCK FALSE
SYMMETRY Symmetry
