SPECIFICATION Spec
CONSTANTS
    c1 = c1
    p1 = p1
    p2 = p2
    r1 = r1
    t1 = t1
    v1 = v1
    x1 = x1
    Pushers = {p1, p2}
    Poppers = {c1}
    Viewers = {v1}
    Pollers = {x1}
    Terminators = {t1}
    Resumers = {r1}
    Capacity = 1
    BlockIn = TRUE
    MaxReads = 0
    MaxItems = 3
SYMMETRY Interchangeable
INVARIANTS
    NoAssertFails
CHECK_DEADLOCK FALSE
