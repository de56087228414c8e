SPECIFICATION StreamSpec
CONSTANTS
    SeqSpace = 16
    CycleSpace = 4
    TsSpace = 16
    MaxPackets = 3
    Adaptive = FALSE
    InitialDelay = 1
    MinDelay = 0
    MaxDelay = 1
    MaxReceived = 7
    None = None
    Jumps = {}
    MaxNumber = 6
    Networks <- LateRolloverNetworks
PROPERTIES
    RestartOnlyAfterSender
