SPECIFICATION FairSpec
CONSTANTS
    Tracks = 3
    MaxPackets = 3
    MaxLength = 2
    MaxDelay = 1
INVARIANTS
    TypeOK
    NeverBehind
    HearsTheOthers
    NeverRefused
    NothingUnheard
PROPERTIES
    Terminates
