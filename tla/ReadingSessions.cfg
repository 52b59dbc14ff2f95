CONSTANTS
    l1 = l1
    l2 = l2
    Leaders = {l1, l2}
    grimmory = grimmory
    bookorbit = bookorbit
    Order <- BothOrder
    Checking = {bookorbit}
    Gap = 1
    Patience = 2
    MaxSession = 3
    MaxExplained = 2
    RetryWindow = 2
    KeepFor = 3
    Limit = 1
    Reading = 3
    Horizon = 9
    Plans <- Explored
    None = None
SPECIFICATION FairSpec
INVARIANTS TypeOK SessionsDisjoint PostedOnce GivenUpForCause
PROPERTIES TimeIsKept EverySessionSettles
CHECK_DEADLOCK FALSE
