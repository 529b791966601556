SPECIFICATION Spec
CONSTANTS
    n1 = n1
    n2 = n2
    Norms = {n1, n2}
    Callers = {n1, n2}
    Ttl = 1
    Pause = 1
    MaxTime = 1
    Setups <- MCSetups
    Votes = 3
    Agreement = 2
    Permits = 1
INVARIANTS
    TypeOK
    EarlyStopSound
    AutoIsConfirmed
    OutageOnlyBlocks
PROPERTIES
    NoLoadWhileFresh
    PlanEnds
CHECK_DEADLOCK FALSE
