SPECIFICATION Spec
CONSTANTS
    Calls = {c1, c2}
    StopAfter = 3
    MaxInvocations = 3
    MaxFailures = 1
    HostedStatus = {"none", "approved", "denied", "user"}
INVARIANTS
    OpenCallsMatchHostedDenials
    RunsAsDecided
    OneReply
CHECK_DEADLOCK FALSE
