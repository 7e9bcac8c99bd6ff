CONSTANTS
    Calls = 3
    Limits = {0, 1, 2, 4}
    Capacity = 1
    MaxPreliminary = 1
    Modes = {TRUE, FALSE}
SPECIFICATION FairSpec
INVARIANTS
    AtMostLimit
    NothingLost
    CancellationIsFatal
PROPERTIES
    BatchEnds
CHECK_DEADLOCK FALSE
