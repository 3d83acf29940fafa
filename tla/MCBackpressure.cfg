CONSTANTS
    c1 = c1
    c2 = c2
    Clients <- MCClients
    Expired <- MCExpired
    Room = 1
SPECIFICATION Spec
INVARIANTS TypeOK
PROPERTIES StuckIsForever OnlyTwoStalls
CHECK_DEADLOCK FALSE
