\* Messages with a bad block status word are dropped.
SPECIFICATION Spec
CONSTANTS
    Layout <- MCLayout
    Schedule <- MCSchedule
    RTNo = 12
    TotalMinor = 2
    MinIdMsg = 0
    FrameEnclose = TRUE
    InsertDummy = TRUE
    StoreData = TRUE
    BlocksFail = TRUE
    WildIds <- ZeroId
    DiskFails = TRUE
    MaxCycle = 5
    MaxSession = 2
INVARIANTS
    NoTornFrame
CHECK_DEADLOCK FALSE
