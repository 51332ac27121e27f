\* Two terminals with two subaddresses, four messages per acquisition; three
\* slots, four major frames; a bus file of three messages opened twice while it
\* grows; two lists of combinations.
SPECIFICATION ReadersSpec
CONSTANTS
    RTs = {1, 2}
    SAs = {1, 2}
    MaxMessages = 4
    Slots = {1, 2, 3}
    MaxMajor = 4
    Files = {1}
    Commands = {10273, 11330, 40992}
    Found <- MCFound
    Block = 4
    Garbage = {0, 10273}
    ListSize = 25
    MaxBusMessages = 3
    MaxOpens = 2
INVARIANTS
    CountersAddUp
    SnapshotOrdered
    FirstListComplete
    OutputFaithful
PROPERTIES
    ImplementsRegister
    SelectsTheTexts
CHECK_DEADLOCK FALSE
