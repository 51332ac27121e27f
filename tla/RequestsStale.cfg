SPECIFICATION Spec
CONSTANTS
    Names <- MCNames
    NameSize = 5
    MaxServers = 3
INVARIANT FailureIsSaid
CHECK_DEADLOCK FALSE
