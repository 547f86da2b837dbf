SPECIFICATION VariantSpec
CONSTANTS
    c1 = c1
    c2 = c2
    p1 = p1
    p2 = p2
    t1 = t1
    v1 = v1
    x1 = x1
    Pushers = {p1, p2}
    Poppers = {c1, c2}
    SecondPopper = c2
    Viewers = {v1}
    Pollers = {x1}
    Terminators = {t1}
    Resumers = {}
    Capacity = 2
    BlockIn = TRUE
    MaxReads = 1
    MaxItems = 4
INVARIANTS
    FramesReadInFull
PROPERTIES
    RingIsFifo
