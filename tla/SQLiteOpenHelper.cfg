SPECIFICATION FairSpec
CONSTANTS
    Helpers = {h1, h2}
    Readers = {h1}
    Services = {s1}
    Processes = {{h1, s1}, {h2}}
    NewVersion = 3
    MinimumSupportedVersion = 2
    InitialVersions = {1, 2}
    MaxCrashes = 1
    None = None
INVARIANTS
    NothingLeftOpen
    MigratedAtomically
    OpenedIsCurrent
PROPERTIES
    EveryCallReturns
