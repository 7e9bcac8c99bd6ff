SPECIFICATION Spec
CONSTANTS
    Requests = {r1, r2}
    MaxRounds = 1
    Prompted = {r1}
    Impatient = {r2}
    MayEnd = TRUE
INVARIANTS
    NoLeak
    OwnResult
PROPERTIES
    NoneLeftHanging
CHECK_DEADLOCK FALSE
