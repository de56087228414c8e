---------------------------- MODULE JitterBuffer ----------------------------
(***************************************************************************)
(* The jitter buffer of src/jitter.rs: received packets keyed by extended  *)
(* sequence number, taken out in order after a start-up delay.             *)
(*                                                                         *)
(* Integers keep their shape and lose their size: a sequence number is     *)
(* below SeqSpace (2^16 in the code), the cycle count below CycleSpace     *)
(* (2^16), so a key is below SeqSpace * CycleSpace (2^32), and a timestamp *)
(* below TsSpace (2^32).  Timestamps count packets instead of samples: a   *)
(* sender stamps packet n with n, so a timestamp also identifies the       *)
(* payload it travels with.                                                *)
(*                                                                         *)
(* Time is what should_start_playout sees of it: the ticks since           *)
(* base_time, saturated at DelayCap.  The floating-point jitter estimate   *)
(* is abstracted to an arbitrary target delay within the bounds at each    *)
(* adaptation, since any estimate may have been observed.                  *)
(***************************************************************************)
EXTENDS Integers, FiniteSetsExt

CONSTANTS
    SeqSpace,      \* number of sequence numbers, 2^16
    CycleSpace,    \* number of cycle counts, 2^16
    TsSpace,       \* number of timestamps, 2^32
    MaxPackets,    \* config.max_packets
    Adaptive,      \* TRUE for JitterMode::Adaptive, FALSE for Fixed
    InitialDelay,  \* delay_ms or target_ms
    MinDelay,      \* min_ms
    MaxDelay,      \* max_ms
    MaxReceived,   \* bound: packets pushed between two resets
    None           \* Option::None

ASSUME SpaceAssumption ==
    /\ SeqSpace \in Nat \ {0}
    /\ CycleSpace \in Nat \ {0}
    /\ TsSpace \in Nat \ {0}

ASSUME ConfigAssumption ==
    /\ MaxPackets \in Nat
    /\ Adaptive \in BOOLEAN
    /\ MinDelay \in Nat /\ InitialDelay \in Nat /\ MaxDelay \in Nat
    /\ MinDelay <= MaxDelay  \* u32::clamp panics otherwise
    /\ MaxReceived \in Nat

SeqNumber == 0 .. SeqSpace - 1
Cycle == 0 .. CycleSpace - 1
ExtendedSeq == 0 .. SeqSpace * CycleSpace - 1
Timestamp == 0 .. TsSpace - 1
Packet == [key : ExtendedSeq, timestamp : Timestamp, synthesized : BOOLEAN]

ASSUME NoneAssumption == None \notin Nat /\ None \notin Packet

\* No delay is longer, so elapsed time may saturate here.
DelayCap == IF InitialDelay > MaxDelay THEN InitialDelay ELSE MaxDelay

VARIABLES
    packets,         \* extended sequence number -> timestamp of the packet
    playout_seq,     \* next extended sequence number to play, or None
    seq_cycles,      \* sequence number cycles
    last_seq,        \* last sequence number buffered, or None
    current_delay,   \* start-up delay, in ticks
    base_timestamp,  \* timestamp of the first packet, or None
    waited,          \* ticks since base_time, or None before the first packet
    stats,           \* the four packet counters
    out              \* what the last call handed out: None or a packet

vars == <<packets, playout_seq, seq_cycles, last_seq, current_delay,
          base_timestamp, waited, stats, out>>

Keys == DOMAIN packets

TypeOK ==
    /\ \E K \in SUBSET ExtendedSeq : packets \in [K -> Timestamp]
    /\ playout_seq \in ExtendedSeq \cup {None}
    /\ seq_cycles \in Cycle
    /\ last_seq \in SeqNumber \cup {None}
    /\ current_delay \in 0 .. DelayCap
    /\ base_timestamp \in Timestamp \cup {None}
    /\ waited \in (0 .. DelayCap) \cup {None}
    /\ stats \in [received : Nat, dropped : Nat, lost : Nat, played : Nat]
    /\ out \in Packet \cup {None}

Init ==
    /\ packets = [k \in {} |-> 0]
    /\ playout_seq = None
    /\ seq_cycles = 0
    /\ last_seq = None
    /\ current_delay = InitialDelay
    /\ base_timestamp = None
    /\ waited = None
    /\ stats = [received |-> 0, dropped |-> 0, lost |-> 0, played |-> 0]
    /\ out = None

-----------------------------------------------------------------------------
(* Helpers *)

\* The largest gap treated as loss or lateness, not as a sender restart.
discontinuity == IF MaxPackets > 1 THEN MaxPackets ELSE 1

\* The cycle count after seeing seq when the last one buffered was last.
ExtendedCycles(last, seq) ==
    IF last - seq > SeqSpace \div 2 THEN (seq_cycles + 1) % CycleSpace
    ELSE IF seq - last > SeqSpace \div 2
         THEN (seq_cycles + CycleSpace - 1) % CycleSpace
    ELSE seq_cycles

\* The first packet is its own predecessor.
PreviousSeq(seq) == IF base_timestamp = None THEN seq ELSE last_seq

extend_seq(seq) == ExtendedCycles(PreviousSeq(seq), seq) * SeqSpace + seq

BehindPlayout(key) == playout_seq # None /\ key < playout_seq

\* Mutants: no packet is late; every packet behind playout is.
NeverLate(key) == FALSE
AlwaysLate(key) == BehindPlayout(key)

IsLate(key) == BehindPlayout(key) /\ playout_seq - key <= discontinuity

IsRestart(key) == BehindPlayout(key) /\ playout_seq - key > discontinuity

\* A mutant: room is made one packet too late.
MadeRoomLate(K) ==
    IF Cardinality(K) > MaxPackets /\ K # {} THEN K \ {Min(K)} ELSE K

\* The keys left once the oldest has made room for one more packet.
MadeRoom(K) ==
    IF Cardinality(K) >= MaxPackets /\ K # {} THEN K \ {Min(K)} ELSE K

\* The packet counters move by so much.
Count(received, dropped, lost, played) ==
    stats' = [received |-> stats.received + received,
              dropped  |-> stats.dropped + dropped,
              lost     |-> stats.lost + lost,
              played   |-> stats.played + played]

\* A mutant: playout waits for a second packet, however long that takes.
should_start_playoutOnSecond ==
    /\ Cardinality(Keys) > 1
    /\ waited # None
    /\ waited >= current_delay

should_start_playout ==
    /\ Keys # {}
    /\ waited # None
    /\ waited >= current_delay

\* The timestamp pop gives a synthesized packet (target is playout_seq then).
estimate_timestamp(target, playout) ==
    (base_timestamp + (target - playout)) % TsSpace

Clamp(x, low, high) == IF x < low THEN low ELSE IF x > high THEN high ELSE x

AtLeastOne(x) == IF x > 1 THEN x ELSE 1

\* One adaptation towards a target: up by a quarter, down by an eighth.
AdaptedDelay(target) ==
    LET up   == current_delay + AtLeastOne((target - current_delay) \div 4)
        down == current_delay - AtLeastOne((current_delay - target) \div 8)
        next == IF target > current_delay THEN up
                ELSE IF target < current_delay THEN down ELSE current_delay
    IN  Clamp(next, MinDelay, MaxDelay)

adapt_delay ==
    IF Adaptive
    THEN \E target \in MinDelay .. MaxDelay :
            current_delay' = AdaptedDelay(target)
    ELSE UNCHANGED current_delay

-----------------------------------------------------------------------------
(* push_at *)

\* What every push does before it decides what to do with the packet.
Arrive(seq, ts) ==
    /\ stats.received < MaxReceived
    /\ base_timestamp' = IF base_timestamp = None THEN ts ELSE base_timestamp
    /\ seq_cycles' = ExtendedCycles(PreviousSeq(seq), seq)
    /\ out' = None
    /\ UNCHANGED current_delay

\* A packet just behind playout is dropped.  Only the first packet can set
\* last_seq on this path, and it never takes it.
PushLate(seq, ts) ==
    /\ Arrive(seq, ts)
    /\ IsLate(extend_seq(seq))
    /\ Count(1, 1, 0, 0)
    /\ UNCHANGED <<packets, playout_seq, last_seq, waited>>

\* Any other packet is buffered, over one with the same key if there is one,
\* after the oldest has been dropped if the buffer is full.  One far behind
\* playout first empties the buffer and starts playout over.
PushBuffered(seq, ts) ==
    LET key     == extend_seq(seq)
        restart == IsRestart(key)
        before  == IF restart THEN {} ELSE Keys
        room    == MadeRoom(before)
    IN  /\ Arrive(seq, ts)
        /\ ~IsLate(key)
        /\ packets' = [k \in room \cup {key} |->
                          IF k = key THEN ts ELSE packets[k]]
        /\ playout_seq' = IF restart THEN None ELSE playout_seq
        /\ waited' = IF restart \/ waited = None THEN 0 ELSE waited
        /\ last_seq' = seq
        /\ Count(1, IF room = before THEN 0 ELSE 1, 0, 0)

Push(seq, ts) == PushLate(seq, ts) \/ PushBuffered(seq, ts)

-----------------------------------------------------------------------------
(* pop_at *)

\* Where playout stands when pop looks for a packet: it starts at the oldest
\* packet once the delay has passed.
PlayoutStart == IF playout_seq # None THEN playout_seq ELSE Min(Keys)

PlayoutReady == playout_seq # None \/ should_start_playout

\* The buffered keys at or past seq.
AtOrPast(seq) == {k \in Keys : k >= seq}

\* Hands out target, and moves playout past it.
HandOut(target, timestamp, synthesized) ==
    /\ out' = [key |-> target, timestamp |-> timestamp,
               synthesized |-> synthesized]
    /\ playout_seq' = (target + 1) % (SeqSpace * CycleSpace)
    /\ adapt_delay
    /\ UNCHANGED <<seq_cycles, last_seq, base_timestamp, waited>>

\* A mutant: the newest packet is handed out instead of the next one.
PopPacketNewest ==
    /\ PlayoutReady
    /\ AtOrPast(PlayoutStart) # {}
    /\ LET next == Max(AtOrPast(PlayoutStart))
       IN  /\ HandOut(next, packets[next], FALSE)
           /\ packets' = [k \in Keys \ {next} |-> packets[k]]
           /\ Count(0, 0, 0, 1)

\* The next packet is there, or is so far ahead that playout skips to it.
PopPacket ==
    /\ PlayoutReady
    /\ AtOrPast(PlayoutStart) # {}
    /\ LET next == Min(AtOrPast(PlayoutStart))
       IN  /\ next = PlayoutStart \/ next - PlayoutStart > discontinuity
           /\ HandOut(next, packets[next], FALSE)
           /\ packets' = [k \in Keys \ {next} |-> packets[k]]
           /\ Count(0, 0, 0, 1)

\* A mutant: a packet is concealed although nothing has arrived after it.
PopLostPaused ==
    /\ PlayoutReady
    /\ PlayoutStart \notin Keys
    /\ HandOut(PlayoutStart, estimate_timestamp(PlayoutStart, PlayoutStart), TRUE)
    /\ Count(0, 0, 1, 1)
    /\ UNCHANGED packets

\* The next packet is missing and a later one has arrived: conceal it.
PopLost ==
    /\ PlayoutReady
    /\ AtOrPast(PlayoutStart) # {}
    /\ LET next == Min(AtOrPast(PlayoutStart))
       IN  next # PlayoutStart /\ next - PlayoutStart <= discontinuity
    /\ HandOut(PlayoutStart, estimate_timestamp(PlayoutStart, PlayoutStart), TRUE)
    /\ Count(0, 0, 1, 1)
    /\ UNCHANGED packets

\* Nothing to play: still buffering, or the stream has paused.
PopNothing ==
    /\ ~PlayoutReady \/ AtOrPast(PlayoutStart) = {}
    /\ out' = None
    /\ UNCHANGED <<packets, playout_seq, seq_cycles, last_seq, current_delay,
                   base_timestamp, waited, stats>>

Pop == PopPacket \/ PopLost \/ PopNothing

-----------------------------------------------------------------------------
(* reset, flush, and the clock *)

reset ==
    /\ packets' = [k \in {} |-> 0]
    /\ playout_seq' = None
    /\ seq_cycles' = 0
    /\ last_seq' = None
    /\ current_delay' = InitialDelay
    /\ base_timestamp' = None
    /\ waited' = None
    /\ stats' = [received |-> 0, dropped |-> 0, lost |-> 0, played |-> 0]
    /\ out' = None

flush ==
    /\ packets' = [k \in {} |-> 0]
    /\ out' = None
    /\ UNCHANGED <<playout_seq, seq_cycles, last_seq, current_delay,
                   base_timestamp, waited, stats>>

Tick ==
    /\ waited # None
    /\ waited < DelayCap
    /\ waited' = waited + 1
    /\ UNCHANGED <<packets, playout_seq, seq_cycles, last_seq, current_delay,
                   base_timestamp, stats, out>>

Next ==
    \/ \E seq \in SeqNumber, ts \in Timestamp : Push(seq, ts)
    \/ Pop
    \/ reset
    \/ flush
    \/ Tick

Spec == Init /\ [][Next]_vars

-----------------------------------------------------------------------------
(* Properties: they hold whatever arrives, in whatever order *)

\* The buffer never holds more than max_packets (one, if that is zero),
\* whatever is pushed: duplicates, restarts and wraps of the key included.
WithinCapacity == Cardinality(Keys) <= discontinuity

\* No buffered packet is behind playout: pop never strands one below the
\* range it searches, not even when the extended sequence number wraps.
NothingStranded == playout_seq # None => \A k \in Keys : k >= playout_seq

\* The counters never count a packet twice: what was dropped, played from
\* the buffer or is still in it was received, and only played slots are lost.
CountersConsistent ==
    /\ stats.lost <= stats.played
    /\ stats.dropped + (stats.played - stats.lost) + Cardinality(Keys)
          <= stats.received

\* A pause is not concealed: pop synthesizes a packet only with a later one
\* still buffered, within a buffer's worth.
PauseNotConcealed ==
    [][out' # None /\ out'.synthesized
         => \E k \in Keys' : k > out'.key /\ k - out'.key <= discontinuity]_out
=============================================================================
