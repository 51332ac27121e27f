SPECIFICATION PhutilsSpec
CONSTANTS
    Files <- MenuFiles
    Tags = {"a", "b"}
    MAX_MENU_LEVEL = 2
    MaxCalls = 2
    Texts = {"a", "b", "c"}
    CHAR_MAX = 2
    MaxSaves = 3
    MaxMishaps = 3
    BoxTags = {"s", "t"}
    AtTexts = {"c"}
    COMBO_LIST_MAX = 2
    MaxCuts = 2
    MAX_ROWS = 2
    MAX_COLUMN = 4
    Messages <- PrintedMessages
    Numbers = {0, 1, 2}
    Limits <- WidgetLimits
    Colors = {"black", "blue"}
    Err_Color = "red"
    MaxObjects = 2
    Inputs <- TypedInputs
    Words = {"p", "q"}
    Values = {0, 1}
    PanelCalls = 3
    WidgetCalls = 4
    DialogCalls = 4
INVARIANTS
    MenuIsTheFile
    HandlerOfMenu
    SelectionSurvives
    FirstSaveWins
    RedHasOwner
PROPERTIES
    RowsApart
    AnswerIsTheUsers
CHECK_DEADLOCK FALSE
