SPECIFICATION FairSpec
CONSTANTS
    a1 = a1
    a2 = a2
    Agents = {a1, a2}
    MaxRequests = 2
    MaxNotes = 1
    MaxRestarts = 1
INVARIANTS
    TypeOK
    ReadOnce
    RepliesMatch
PROPERTIES
    EveryRequestAnswered
CHECK_DEADLOCK FALSE
