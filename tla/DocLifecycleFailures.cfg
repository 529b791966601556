\* One document, synced and reconciled by the worker; editions bring new clause ids.
SPECIFICATION FairSpec
CONSTANTS
    c1 = c1
    c2 = c2
    c3 = c3
    a = a
    b = b
    worker = worker
    admin = admin
    Clauses = {c1, c2, c3}
    Texts = {a, b}
    NoText = NoText
    Norms = {a, b}
    Editions <- TwoEditions
    Actors = {worker}
    Ops <- EverythingButNamed
    InterruptedAt <- Nowhere
    MaxDisturbances = 2
INVARIANTS
    TypeOK
    UnchangedIsWhole
PROPERTIES
    LostOnlyToNewResult
    AlwaysWholeAgain
    RemovedIsForgotten
CHECK_DEADLOCK FALSE
