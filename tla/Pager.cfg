SPECIFICATION FairSpec
CONSTANTS
    Conns = {c1, c2}
    Processes = {{c1}, {c2}}
    PageCount = 2
    InitialSizes = {0, 1}
    MaxTxns = 3
    MaxCrashes = 1
    Faults = {"io", "power", "attached"}
    FaultsWhenEmpty = FALSE
    Nobody = Nobody
    NoView = NoView
INVARIANTS
    LockedAsNeeded
    WriteAhead
PROPERTIES
    IsAtomicDatabase
    WriterIsServed
