CONSTANTS
    None = None
    Conns = {s1, s2}
    Streams = {r1}
    PortRange = {1}
    ClaimLists <- MCOneClaim
    Reconnects = TRUE
SPECIFICATION StreamsSpec
INVARIANTS TypeOK OneHolder
PROPERTIES NoResurrection DeadClientLeaves GoneListenersStop DeadOrTakenOverWait OrphansEnd
