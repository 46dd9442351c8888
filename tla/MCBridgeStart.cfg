SPECIFICATION Spec
CONSTANTS
    Clients = {c1, c2}
    SpawnMayFail = TRUE
PROPERTIES
    AckedStartRuns
CHECK_DEADLOCK FALSE
