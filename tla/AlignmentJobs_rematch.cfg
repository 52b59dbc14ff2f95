CONSTANTS
    b1 = b1
    e1 = e1
    a1 = a1
    p1 = p1
    p2 = p2
    Books = {b1}
    Pairs = {p1, p2}
    EbookOnly = {}
    AudioOnly = {}
    SameText = FALSE
    MaxRetries = 2
    Starts <- RematchedTwice
    None = None
SPECIFICATION Spec
INVARIANTS MapFitsPairing
