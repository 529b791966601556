\* A deletion fails once and is retried after newer events of its document.
SPECIFICATION Spec
CONSTANTS
    d1 = d1
    d2 = d2
    d3 = d3
    n1 = n1
    shared = shared
    alice = alice
    bob = bob
    Docs = {d1}
    Shared = shared
    NameOf <- OneName
    ScopeOf <- AllShared
    NoJob = NoJob
    NoDoc = NoDoc
    MaxEvents = 3
    MaxFailures <- DeleteFailsOnce
    MaxFaults <- NoOutage
    MaxCrashes = 0
    FloatExponents = 1024
INVARIANT RetriesKeepOrder
CHECK_DEADLOCK FALSE
