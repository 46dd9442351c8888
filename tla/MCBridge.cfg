SPECIFICATION FairSpec
CONSTANTS
    Clients = {c1, c2}
    SpawnMayFail = TRUE
CHECK_DEADLOCK FALSE
INVARIANTS
    SourcesExclude
    NoAbort
    NoLineRace
PROPERTIES
    StopHolds
    StartHolds
    CommandReturns
    ImplementsModes
