CONSTANTS
    Capacity = 3
    Window = 2
    MaxSteps = 3
    MaxContent = 2
    Replay = 2
    TotalTimeout = TRUE
    StepTimeout = TRUE
    MayStop = TRUE
    MayFail = TRUE
    MayTruncate = TRUE
SPECIFICATION FairSpec
INVARIANTS
    NoWaitCycle
    OkIsComplete
    AbortHookOnce
    TerminalAgrees
PROPERTIES
    CompletionResolves
    KeepsPromise
CHECK_DEADLOCK FALSE
