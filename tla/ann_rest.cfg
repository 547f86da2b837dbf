SPECIFICATION Spec
CONSTANTS
    Chunk = 4
    Sizes = {6}
    MaxPackets = 5
    SeqNos = 8
    Stamps = 64
    FirstAmounts <- SomeAmounts
INVARIANTS KeepsTheRest
CHECK_DEADLOCK FALSE
