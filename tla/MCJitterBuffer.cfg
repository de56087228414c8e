SPECIFICATION Spec
CONSTANTS
    SeqSpace = 8
    CycleSpace = 2
    TsSpace = 1
    MaxPackets = 2
    Adaptive = TRUE
    InitialDelay = 1
    MinDelay = 0
    MaxDelay = 1
    MaxReceived = 5
    None = None
INVARIANTS
    WithinCapacity
    NothingStranded
PROPERTIES
    PauseNotConcealed
