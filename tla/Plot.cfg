SPECIFICATION PlotSpec
CONSTANTS
    ArraySize = 4
    Steps = {1, 6, 150}
    Values <- ColumnValues
    Sizes = {small, large}
    FirstSize = small
    MaxRows = 9
    CheckSteps = {1, 6}
    CheckRows = 5
    Fields <- TwoPackages
    Column = 2
    Block = 4
    FifoSize = 4
    Garbage = {"nul", "text"}
    Polls = 3
INVARIANTS
    PictureWhole
    TicksMatch
    SegmentsRight
PROPERTY
    RowsInOrder
CHECK_DEADLOCK FALSE
