CONSTANTS
    None = None
    Conns = {s1, s2, s3}
    PortRange = {1}
    ClaimLists <- MCOneClaim
    Reconnects = TRUE
SPECIFICATION SafetySpec
SYMMETRY ConnSymmetry
INVARIANTS NoForeignListener
