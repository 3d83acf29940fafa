CONSTANTS
    None = None
    Close = Close
    Streams = {r1}
    MaxChunks = 2
    MaxReconnects = 1
SPECIFICATION Spec
CHECK_DEADLOCK FALSE
INVARIANTS TypeOK RefusedCloses
PROPERTIES TwoPipes ClosedRemoteIsDisabled CloseReachesLocal
