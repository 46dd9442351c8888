SPECIFICATION Spec
CONSTANTS
    Clients = {c1, c2}
    SpawnMayFail = FALSE
INVARIANTS
    SettledExclude
CHECK_DEADLOCK FALSE
