SPECIFICATION Spec
CONSTANTS
    Ids <- MCIds
    Listed <- MCListed
    Other = "other"
    Labels <- MCLabels
    Rule <- MCRule
    Near <- MCNear
    TopK = 2
    Hashed <- MCHashed
    Stored <- MCStored
    Passes <- MCPasses
    Page = 2
    Batch = 1
    MaxEvents = 2
INVARIANTS
    TypeOK
    VectorEmbedsKind
PROPERTIES
    VectorsCatchUp
CHECK_DEADLOCK FALSE
