SPECIFICATION Spec
CONSTANTS
    NbRows = 2
    Analog <- MCTwo
    Counter = {}
    Output = {}
    NbRelays = 2
    Channel <- MCTwoChannel
    LineSize = 2
    SimSize = 3
    ReplySize = 2
    NbRegisters = 3
    MaxPasses = 2
INVARIANTS
    ReplyIsWhole
