\* Three views, one of which is read only when its consumer likes.
CONSTANTS
    Views = {v1, v2, v3}
    Eager = {v1, v2}
    MaxEvents = 2
SPECIFICATION FairSpec
INVARIANTS
    NoLostWakeup
PROPERTIES
    KeepsBroadcast
CHECK_DEADLOCK FALSE
