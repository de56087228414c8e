SPECIFICATION Spec
CONSTANTS
    SeqSpace = 6
    CycleSpace = 4
    FirstSeqs = {4}
    Reorder = 2
    Gap = 1
    MaxNumber = 9
    MaxShort = 2
    NoNumber = NoNumber
    MaxRtcp = 2
    Sources = {1, 2}
    IndexSpace = 5
    WindowSize = 3
    MaxSources = 1
    None = None
    Servers = 3
    MaxAddress = 3
    Public = 1
    MaxForeign = 1
    NoAddress = NoAddress
    Sessions = {s1, s2}
    MaxPort = 3
    Free = Free
    Other = Other
    Headers <- MCHeaders
    Payloads <- MCPayloads
    Ssrc <- MCSsrc
    Losses <- MCLosses
    NoHeader = NoHeader
INVARIANTS
    HighestIsNewest
    RtcpReplayExact
    StunOwnAnswer
    PortsPaired
    WireAgreed
PROPERTIES
    LossTold
    PeerIsReported
    StunEnds
    PortsReleased
CHECK_DEADLOCK FALSE
