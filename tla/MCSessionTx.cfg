\* Microphone, keepalive and a digit at once across a rollover of the
\* sequence number, with mute, unmute and stop at any time.
SPECIFICATION Spec
CONSTANTS
    SeqSpace = 16
    RocSpace = 4
    TsSpace = 16
    FirstSeqs = {14}
    Punches = 1
    Durations = 2
    EndCopies = 2
    Digits = {d1}
    CallbackFrames = 1
    MaxClaims = 2
    Mic = Mic
    Keepalive = Keepalive
INVARIANTS
    OneStream
    DigitWhole
    NoOverrun
PROPERTIES
    StopEnds
