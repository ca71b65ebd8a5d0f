SPECIFICATION FairSpec
CONSTANTS
    Clients = {c1, c2, c3}
    None = None
    PoolSize = 1
    QueueSize = 1
    HasAddress = {TRUE, FALSE}
INVARIANTS
    RegisteredWhileServed
    SnapshotComplete
    PortReleased
    AcceptLoopSurvives
PROPERTIES
    NoLateClient
    CloseCompletes
    DisconnectFreesWorker
