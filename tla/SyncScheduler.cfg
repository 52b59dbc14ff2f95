CONSTANTS
    Users = {u1}
    NoUser = NoUser
    Books = {b1}
    Callers = {c1}
    Workers = {w1, w2}
    Clearers = {k1}
    Daemon = daemon
    NoThread = NoThread
    NoReq = NoReq
SPECIFICATION FairSpec
INVARIANTS TypeOK LockDiscipline ReplayFlagMatchesWorker
PROPERTY KeepsItsPromise
PROPERTY EveryRequestAnswered
