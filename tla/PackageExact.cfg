\* Every message arrives, writes succeed, minor ids may be wild.
SPECIFICATION Spec
CONSTANTS
    Layout <- MCLayout
    Schedule <- MCSchedule
    RTNo = 12
    TotalMinor = 3
    MinIdMsg = 0
    FrameEnclose = TRUE
    InsertDummy = TRUE
    StoreData = TRUE
    BlocksFail = FALSE
    WildIds <- ZeroId
    DiskFails = FALSE
    MaxCycle = 10
    MaxSession = 2
INVARIANTS
    PostedMajorExact
    FileIsTheBus
CHECK_DEADLOCK FALSE
