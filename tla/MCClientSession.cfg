CONSTANTS
    Ids = {id1, id2}
    None = None
SPECIFICATION Spec
INVARIANTS TypeOK TasksEndFirst SendsToCurrent
PROPERTIES OneIdentity ComesBack CancelStops
