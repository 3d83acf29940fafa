CONSTANTS
    None = None
    Conns = {s1, s2, s3}
    PortRange = {1, 2}
    ClaimLists <- MCSharedClaims
    Reconnects = FALSE
SPECIFICATION SafetySpec
SYMMETRY ConnSymmetry
INVARIANTS DedicatedPorts
