\* The first packet to arrive is from before the sender's first rollover.
SPECIFICATION StreamSpec
CONSTANTS
    Sources = {1, 2}
    SeqSpace = 6
    RocSpace = 3
    WindowSize = 3
    MaxSources = 1
    MaxWire = 14
    None = None
    FirstSeqs = {3, 4}
    Reorder = 2
    Gap = 1
    MaxAny = 4
INVARIANTS
    NoFalseReplay
    WindowExact
    AcceptedWasSent
    AcceptedOnce
    GenuineAuthenticates
