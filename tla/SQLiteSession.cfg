SPECIFICATION FairSpec
CONSTANTS
    Threads = {t1, t2}
    None = None
    MaxDepth = 2
    MaxBegins = 3
    MaxWrites = 2
    MaxCloses = 2
    Faults = {"autoRollback"}
INVARIANTS
    HeldForTransaction
    PromisedIsDurable
    DeniedIsGone
    PoolOutlivesCalls
PROPERTIES
    LentInTurn
    EveryWaiterServed
CHECK_DEADLOCK FALSE
