\* Two digits, with audio between them or without.
SPECIFICATION Spec
CONSTANTS
    SeqSpace = 16
    RocSpace = 4
    TsSpace = 16
    FirstSeqs = {0}
    Punches = 1
    Durations = 1
    EndCopies = 1
    Digits = {d1, d2}
    CallbackFrames = 1
    MaxClaims = 3
    Mic = Mic
    Keepalive = Keepalive
INVARIANTS
    PressesTold
