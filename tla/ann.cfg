SPECIFICATION Spec
CONSTANTS
    Chunk = 4
    Sizes = {4, 5, 6, 7, 8, 9, 10, 11, 12, 13}
    MaxPackets = 6
    SeqNos = 8
    Stamps = 64
    FirstAmounts <- SomeAmounts
INVARIANTS
    TypeOK
    PlayableByHeader
    CopiesInRange
    NumberedInTurn
CHECK_DEADLOCK FALSE
