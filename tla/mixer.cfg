SPECIFICATION FairSpec
CONSTANTS
    Tracks = 3
    MaxPackets = 4
    MaxDelay = 2
    FrameSize <- UnlikeFrames
INVARIANTS
    TypeOK
    CountedOnce
    Bounded
    FinishedWithoutDelay
PROPERTIES
    Terminates
