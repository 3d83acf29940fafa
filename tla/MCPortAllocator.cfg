CONSTANTS
    RangeStart = 10
    RangeEnd = 13
    ClaimLists <- MCClaimLists
    AnyPort = {9, 10, 11, 12, 13}
SPECIFICATION Spec
INVARIANTS TypeOK NeverRollsBack GrantIsSound
PROPERTIES ImplementsTable
