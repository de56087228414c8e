\* Two recordings, the second of which may replace the first; and three
\* digits on one clock whose timestamp wraps during the call.
SPECIFICATION MCSpec
CONSTANTS
    PreBuffer = 4
    MaxBuffer = 5
    FrameBlocks = {2, 3}
    CallbackBlocks = 2
    MaxFrames = 3
    MaxRecordings = 2
    MaxRxFrames = 2
    None = None
    SeqSpace = 8
    TsSpace = 16
    FirstSeqs = {6}
    FirstStamps = {0, 13}
    Ratio = 1
    DtmfPackets = 2
    EndCopies = 2
    MaxPresses = 3
    MaxPacketized = 7
    NoDigit = NoDigit
    Reorder = 4
INVARIANTS
    SavedWhole
    NoFrameMissed
    EventsInOrder
    DigitsOnce
PROPERTIES
    PreBufferLasts
