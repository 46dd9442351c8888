SPECIFICATION Spec
CONSTANTS
    Clients = {c1, c2}
    SpawnMayFail = FALSE
INVARIANTS
    FailedStartReturns
CHECK_DEADLOCK FALSE
