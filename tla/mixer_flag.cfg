SPECIFICATION Spec
CONSTANTS
    Tracks = 3
    MaxPackets = 2
    MaxDelay = 1
    FrameSize <- UnlikeFrames
INVARIANTS
    FinishedAtEnd
