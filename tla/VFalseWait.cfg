CONSTANTS
    None = None
    Conns = {s1, s2}
    PortRange = {1}
    ClaimLists <- MCOneClaim
    Reconnects = TRUE
SPECIFICATION SafetySpec
PROPERTIES OnlyDeadSocketsWait
