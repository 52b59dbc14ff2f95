CONSTANTS
    Devices = {d1, d2}
    Known = {d2}
    Repairing = {}
    Bounds <- Mixed
    None = None
SPECIFICATION FairSpec
INVARIANTS TypeOK OnlyTheReaderDeletes
PROPERTIES TombstonesStand DeletionArrives SiteAgrees CardAgrees
