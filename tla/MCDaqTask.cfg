SPECIFICATION FairSpec
CONSTANTS
    Callers = {acq, op1}
    Handles = {h1, h2}
    None = None
    AnalogRetries = 2
    CounterRetries = 1
INVARIANTS
    TypeOK
    NoLeak
    AnalogSerial
PROPERTIES
    StealsOnlyWhenStale
    MutexReleased
