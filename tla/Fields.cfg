\* Two packages of two fields, a group of up to two names made once, more fields
\* than the panels have rows; five minor frames on the bus.
SPECIFICATION FieldsSpec
CONSTANTS
    Table <- TwoTables
    GroupNames = {"new", "rates_filtered"}
    LongNames = {"rates_filtered"}
    FieldLimit = 3
    GroupLimit = 2
    MAX_ROWS = 2
    MaxOpenings = 1
    BYTE = 4
    word_count <- TwoCounts
    frame_enclose = TRUE
    num_dummy_chars = 2
    msgsts_word_pos = 3
    total_minor_cycles = 2
    minid_pos = 4
    MIDDLE = 2
    Heap = {0, 3}
    Words = {6, 13}
    BusFields <- ElevenFields
    MaxFrames = 5
    MaxCalls = 5
    ArrayTable <- ThreeRows
    ArrayJunk = {"", "rate", "?"}
INVARIANTS
    SelectionSound
    GroupsShown
    PanelsAgree
    ShownIsSent
    FieldsKept
CHECK_DEADLOCK FALSE
