\* An initialize and a notification, one inbound stream, a session that is replaced once.
CONSTANTS
    Initializes = {initialize}
    Requests = {}
    Notifications = {notification}
    Inbounds = {i1}
    Opener = i1
    SsePosts = {initialize, notification}
    MaxSession = 2
    MaxEvents = 2
    MaxRetries = 1
    MaxRedirects = 1
SPECIFICATION Spec
INVARIANTS
    ReplacementRetained
    InboundInOrder
    OneFlow
PROPERTIES
    CloseSettles
CHECK_DEADLOCK FALSE
