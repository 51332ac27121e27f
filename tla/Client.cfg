\* Two packages, two loops of either window, more details than a CONFIG_MSG holds,
\* server restarts; three servers, names of up to three characters.
SPECIFICATION ClientSpec
CONSTANTS
    Packages = {NIM, VIK}
    MaxPkg = 3
    ArraySize = 5
    ServerDies = TRUE
    OpenFails = TRUE
    MaxLoops = 2
    FileNames <- MCNames
    NameSize = 5
    MaxServers = 3
INVARIANTS
    FirstAnalysisOwn
    DrawsOpenWindow
    QuietWhenIdle
    ReportIsTrue
PROPERTIES
    GuiResponsive
CHECK_DEADLOCK FALSE
