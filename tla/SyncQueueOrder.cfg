\* Two versions of one document; a sync fails once; the process keeps running.
SPECIFICATION FairSpec
CONSTANTS
    d1 = d1
    d2 = d2
    d3 = d3
    n1 = n1
    shared = shared
    alice = alice
    bob = bob
    Docs = {d1, d2}
    Shared = shared
    NameOf <- OneName
    ScopeOf <- AllShared
    NoJob = NoJob
    NoDoc = NoDoc
    MaxEvents = 3
    MaxFailures <- SyncFailsOnce
    MaxFaults <- NoOutage
    MaxCrashes = 0
    FloatExponents = 1024
INVARIANTS
    TypeOK
    SettledMeansInSync
PROPERTIES
    KeepsPromise
    CatchesUp
CHECK_DEADLOCK FALSE
