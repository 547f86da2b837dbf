SPECIFICATION Spec
CONSTANTS
    Tracks = 3
    MaxPackets = 2
    MaxLength = 1
    MaxDelay = 0
INVARIANTS
    CountsFinishedInputs
