\* Blocks may fail, writes may fail, minor ids may be wild.
SPECIFICATION Spec
CONSTANTS
    Layout <- MCLayout
    Schedule <- MCSchedule
    RTNo = 12
    TotalMinor = 2
    MinIdMsg = 0
    FrameEnclose = TRUE
    InsertDummy = TRUE
    StoreData = TRUE
    BlocksFail = TRUE
    WildIds <- ZeroId
    DiskFails = TRUE
    MaxCycle = 5
    MaxSession = 2
INVARIANTS
    MaskMatchesData
    FrameInArrivalOrder
    FileInOrder
PROPERTIES
    PostsMoveForward
CHECK_DEADLOCK FALSE
