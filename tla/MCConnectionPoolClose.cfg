SPECIFICATION Spec
CONSTANTS
    t1 = t1
    t2 = t2
    t3 = t3
    w1 = w1
    w2 = w2
    w3 = w3
    Threads = {t1, t2}
    Waiters = {w1, w2}
    Connections = {c1, c2}
    None = None
    JournalModes = {FALSE}
    WALPoolSize = 1
    Requests <- OnlyPrimary
    Cancellable = {}
    Leaky = {}
    Reconfigurations = {}
    MaxNonce = 1
INVARIANTS
    NoConnectionLost
CHECK_DEADLOCK FALSE
