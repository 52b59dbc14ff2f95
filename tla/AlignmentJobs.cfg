CONSTANTS
    b1 = b1
    e1 = e1
    a1 = a1
    p1 = p1
    p2 = p2
    Books = {b1, e1, a1}
    Pairs = {p1, p2}
    EbookOnly = {e1}
    AudioOnly = {a1}
    SameText = TRUE
    MaxRetries = 2
    Starts <- Explored
    None = None
SPECIFICATION Spec
INVARIANTS TypeOK ProcessingIsWorkedOn FailedCanRetry ActiveHasMap
PROPERTIES NoGhost RecoveryYields PendingSettles RetriesEnd
