SPECIFICATION FairSpec
CONSTANTS
    c1 = c1
    c2 = c2
    p1 = p1
    p2 = p2
    t1 = t1
    x1 = x1
    Pushers = {p1, p2}
    Poppers = {c1, c2}
    Viewers = {}
    Pollers = {x1}
    Terminators = {t1}
    Resumers = {}
    Capacity = 2
    BlockIn = TRUE
    MaxReads = 0
    MaxItems = 4
INVARIANTS
    TypeOK
    NoAssertFails
    NothingLost
    InOrder
    NoLostWakeUp
PROPERTIES
    ImplementsFifo
    Delivered
    TerminateReleases
