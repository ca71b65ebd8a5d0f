SPECIFICATION Spec
CONSTANTS
    Threads = {t1, t2}
    None = None
    MaxDepth = 2
    MaxBegins = 3
    MaxWrites = 2
    MaxCloses = 1
    Faults = {"endRefused"}
INVARIANT PromisedIsDurable
CHECK_DEADLOCK FALSE
