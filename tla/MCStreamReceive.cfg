\* With SRTP and without: datagrams of every shape, from the SDP's host and
\* from elsewhere, of two SSRCs.
SPECIFICATION ReceiveSpec
CONSTANTS
    SeqSpace = 4
    CycleSpace = 2
    TsSpace = 16
    MaxPackets = 2
    Adaptive = FALSE
    InitialDelay = 1
    MinDelay = 0
    MaxDelay = 1
    MaxReceived = 2
    None = None
    Addresses = {sdp, nat, elsewhere}
    SdpHost = {sdp, nat}
    Ssrcs = {0, 1}
    Seqs = {0, 2}
    RtpTimeout = 1
INVARIANTS
    MediaBelongs
PROPERTIES
    SilenceReported
