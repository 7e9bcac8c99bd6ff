SPECIFICATION Spec
CONSTANTS
    Calls = {c1, c2}
    MaxResponses = 2
    Detection = {TRUE, FALSE}
    OutboundBuffer = 1
    EventBuffer = 1
    MaxAudio = 1
    MayClose = TRUE
INVARIANTS
    OneFollowUpPerResponse
PROPERTIES
    FollowUpComesOrIsLost
    CloseEnds
    FollowUpAfterDone
CHECK_DEADLOCK FALSE
