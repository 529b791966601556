\* Two users' documents of one name; a stop, outages of Neo4j, a failing deletion.
SPECIFICATION FairSpec
CONSTANTS
    d1 = d1
    d2 = d2
    d3 = d3
    n1 = n1
    shared = shared
    alice = alice
    bob = bob
    Docs = {d1, d2}
    Shared = shared
    NameOf <- OneName
    ScopeOf <- TwoUsers
    NoJob = NoJob
    NoDoc = NoDoc
    MaxEvents = 3
    MaxFailures <- DeleteFailsOnce
    MaxFaults <- OneOutageEach
    MaxCrashes = 1
    FloatExponents = 1024
INVARIANTS
    WaitingJobsArePersisted
    RestartLosesNoSync
PROPERTIES
    OtherScopesUntouched
    CatchesUpAfterRestart
CHECK_DEADLOCK FALSE
