CONSTANTS
    p1 = p1
    p2 = p2
    e1 = e1
    e2 = e2
    Peers = {p1, p2}
    Endpoints = {e1, e2}
    Routes <- MCApart
    Shared = {p2}
    Other = Other
    Streams = {1, 2}
    Close = Close
    MaxReplies = 1
    MaxReconnects = 1
SPECIFICATION Spec
CHECK_DEADLOCK FALSE
INVARIANTS TypeOK FaithfulReachTheirs OneStreamAtATime InOrder RefusedCloses RefusedIsLeft
PROPERTIES DatagramsArrive EndStopsForwarding
