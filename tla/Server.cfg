\* Two acquisitions of two messages, pipe of one message, at most two packages.
SPECIFICATION FairSpec
CONSTANTS
    ArraySize = 3
    PipeCap = 1
    InputLength = 2
    MaxConfig = 2
    MaxBatch = 2
    MaxSession = 2
    MaxFile = 1
    HumanPaced = TRUE
    StoreLate = FALSE
INVARIANTS
    OnMeansRunning
    NothingLost
    NoStaleFeed
    BusFileWhole
    
PROPERTIES
    EventuallyDispatched
    ImplementsAcquisition
