\* One document, an edition changes the text of a clause that keeps its id.
SPECIFICATION Spec
CONSTANTS
    c1 = c1
    c2 = c2
    c3 = c3
    a = a
    b = b
    worker = worker
    admin = admin
    Clauses = {c1, c2, c3}
    Texts = {a, b}
    NoText = NoText
    Norms = {a, b}
    Editions <- EditedInPlace
    Actors = {worker}
    Ops <- EverythingButNamed
    InterruptedAt <- Nowhere
    MaxDisturbances = 0
INVARIANTS
    UnchangedIsWhole
CHECK_DEADLOCK FALSE
