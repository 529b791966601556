\* One document, its jobs cut short anywhere.
SPECIFICATION FairSpec
CONSTANTS
    c1 = c1
    c2 = c2
    c3 = c3
    a = a
    b = b
    worker = worker
    admin = admin
    Clauses = {c1, c2, c3}
    Texts = {a, b}
    NoText = NoText
    Norms = {a, b}
    Editions <- NewIds
    Actors = {worker}
    Ops <- QueueOnly
    InterruptedAt <- Anywhere
    MaxDisturbances = 1
INVARIANTS
    UnchangedIsWhole
PROPERTIES
    AlwaysWholeAgain
CHECK_DEADLOCK FALSE
