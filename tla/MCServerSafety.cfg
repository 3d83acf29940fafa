CONSTANTS
    None = None
    Conns = {s1, s2, s3}
    Streams = {r1}
    PortRange = {1}
    ClaimLists <- MCOneClaim
    Reconnects = TRUE
SPECIFICATION StreamsSafety
SYMMETRY Symmetry
INVARIANTS StreamsTypeOK DedicatedUnlessFreed ListenersSurvive ForeignWasTakenOver CutClientsLeave PortsAccounted
