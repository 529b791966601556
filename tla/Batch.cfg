SPECIFICATION BatchSpec
CONSTANTS
    MaxUnits = 3
INVARIANTS
    StatusTellsTruth
PROPERTIES
    LockIsGivenBack
CHECK_DEADLOCK FALSE
