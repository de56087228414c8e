SPECIFICATION StreamSpec
CONSTANTS
    SeqSpace = 16
    CycleSpace = 4
    TsSpace = 16
    MaxPackets = 2
    Adaptive = FALSE
    InitialDelay = 1
    MinDelay = 0
    MaxDelay = 1
    MaxReceived = 11
    None = None
    Jumps = {1, 3, 5, 7, 8, 9, 11, 13, 14, 15}
    MaxNumber = 10
    Networks <- MCNetworks
INVARIANTS
    ResyncBounded
PROPERTIES
    ImplementsOrderedPlayout
    EveryPacketLeaves
