CONSTANTS
    Bridge = bridge
    Exact = h1
    Setups <- Installs
    NoRow = NoRow
    NoUser = NoUser
    NoDev = NoDev
    u1 = u1
    u2 = u2
    d1 = d1
    d2 = d2
    h1 = h1
    h2 = h2
    s1 = s1
    s2 = s2
SPECIFICATION Spec
SYMMETRY ReaderSymmetry
INVARIANT TypeOK
PROPERTIES AnswersArePrivate RewindNeedsReadingOn ClaimedPositionStands
PROPERTIES RewindTakesEffect ClearReadsAsStart
