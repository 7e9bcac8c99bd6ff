\* One automatic retry and one asked for by the callback; up to four parts.
CONSTANTS
    Settings <- MCSettings
    Calls = {c1}
    StreamRetries <- MCRetries
SPECIFICATION FairSpec
INVARIANTS
    ProcessorAccepts
    FinishedStepIsTheAttempts
    NothingLeftOfAbandonedAttempt
    CallbackToldOnce
PROPERTIES
    StalledStreamEnds
CHECK_DEADLOCK FALSE
