SPECIFICATION Spec
CONSTANTS
    Conversions <- ConversionsTried
    NoPts <- No
    NoLimit <- All
    DupLimit = 6
    MaxWaits = 2
    DeltaThreshold = 100
    ErrorThreshold = 300
    BackStep = 4
CHECK_DEADLOCK FALSE
INVARIANTS
    TypeOK
    WellStamped
    InSync
    NothingLost
PROPERTIES
    Terminates
