CONSTANTS
    p1 = p1
    p2 = p2
    e1 = e1
    e2 = e2
    Peers = {p1, p2}
    Endpoints = {e1, e2}
    Routes <- MCRoutes
    Shared = {}
    Other = Other
    Streams = {1, 2}
    Close = Close
    MaxReplies = 0
    MaxReconnects = 0
SPECIFICATION Spec
CHECK_DEADLOCK FALSE
INVARIANTS EndpointsApart
