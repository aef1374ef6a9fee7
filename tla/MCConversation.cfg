SPECIFICATION Spec
CONSTANTS
    Socket = {window, phone}
    Nobody = nobody
    MaxSent = 3
    MaxRequests = 2
INVARIANT MessageHasOnePlace
INVARIANT CloseLosesNothing
PROPERTY SentIsRun
CHECK_DEADLOCK FALSE
