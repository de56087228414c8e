\* The senders meet at a rollover of the sequence number.
SPECIFICATION Spec
CONSTANTS
    SeqSpace = 4
    RocSpace = 4
    TsSpace = 16
    FirstSeqs = {2}
    Punches = 1
    Durations = 1
    EndCopies = 1
    Digits = {}
    CallbackFrames = 1
    MaxClaims = 3
    Mic = Mic
    Keepalive = Keepalive
INVARIANTS
    RocOfStream
