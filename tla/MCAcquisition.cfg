SPECIFICATION FairSpec
CONSTANTS
    NbRows = 8
    Analog <- MCAnalog
    Counter <- MCCounter
    Output <- MCOutput
    NbRelays = 2
    Channel <- MCChannel
    LineSize = 11
    SimSize = 10
    ReplySize = 1
    NbRegisters = 12
    MaxPasses = 3
INVARIANTS
    TypeOK
    PassIsWhole
    CounterIsWhole
    NoPartialPass
    LeftoverOnlyInTail
    RelaysInStep
PROPERTIES
    PassEnds
