SPECIFICATION FairSpec
CONSTANTS
    t1 = t1
    t2 = t2
    t3 = t3
    w1 = w1
    w2 = w2
    w3 = w3
    Threads = {t1, t2, t3}
    Waiters = {w1, w2}
    Connections = {c1, c2}
    None = None
    JournalModes = {FALSE}
    WALPoolSize = 1
    Requests <- OnlyPrimary
    Cancellable = {t1}
    Leaky = {t2}
    Reconfigurations = {}
    MaxNonce = 2
INVARIANTS
    NoStrandedWaiter
    CancelFindsWaiter
PROPERTIES
    OnlyOwnSignalCancels
    EveryWaitEnds
CHECK_DEADLOCK FALSE
