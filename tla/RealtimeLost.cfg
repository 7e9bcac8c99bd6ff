SPECIFICATION Spec
CONSTANTS
    Calls = {c1, c2}
    MaxResponses = 2
    Detection = {TRUE}
    OutboundBuffer = 4
    EventBuffer = 1
    MaxAudio = 0
    MayClose = FALSE
PROPERTIES
    FollowUpComes
CHECK_DEADLOCK FALSE
