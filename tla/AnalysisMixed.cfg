\* The server is not killed, and every name that is typed can be opened.
SPECIFICATION Spec
CONSTANTS
    Packages = {NIM, VIK}
    MaxPkg = 3
    ArraySize = 6
    ServerDies = FALSE
    OpenFails = FALSE
    MaxLoops = 2
INVARIANTS
    OwnFrames
SYMMETRY Symmetry
CHECK_DEADLOCK FALSE
