SPECIFICATION MCSpec
CONSTANTS
    Rates = {8, 16, 44}
    Supported = {8, 16}
    frame_len <- MCFrameLen
    MaxInput = 4
    None = None
    Callers = {t1, t2, t3}
    Devices = {mic, usb}
    Bursts = {1, 4, 9}
    DeviceRate = 20
    MaxSampled = 30
    NoOne = NoOne
    Ratios <- MCRatios
    Chunk = 4
    Inputs = {1, 3, 9}
    MaxResampled = 40
    Spoken <- MCSpoken
    Calls <- MCCalls
    MaxSamples = 12
    NoSample = NoSample
    Descriptions <- MCDescriptions
    MaxPackets = 3
    Nothing = Nothing
INVARIANTS
    DevicesAgree
    HeldBack
    EnumeratorAlive
    BuffersFresh
    ResampledInTime
    TandemStable
    InStep
    PeersAgree
    AudioKeepsTime
CHECK_DEADLOCK FALSE
