SPECIFICATION Spec
CONSTANTS
    Tracks = 3
    MaxFailures = 2
INVARIANTS
    TypeOK
    DefinedUnlessIgnored
    OwnMix
    WholeFiles
    NothingLeft
