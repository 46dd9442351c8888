SPECIFICATION Spec
CONSTANTS
    Clients = {c1, c2}
    SpawnMayFail = FALSE
PROPERTIES
    AckedStopIsOver
CHECK_DEADLOCK FALSE
