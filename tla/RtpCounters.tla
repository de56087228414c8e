---------------------------- MODULE RtpCounters -----------------------------
(***************************************************************************)
(* The received-packet statistics of src/rtp/stats.rs: record_received,    *)
(* called by the receive thread for every packet, and snapshot, which      *)
(* reads the same atomics without a lock.  SessionRtcp adds the two that   *)
(* call them.                                                              *)
(*                                                                         *)
(* A stream numbered 0, 1, 2... arrives over a network that loses and      *)
(* reorders (not duplicates: the code counts a copy as a packet).          *)
(*                                                                         *)
(* Every access is Relaxed, so those to different atomics may be seen in   *)
(* either order: record_received's count and its tracking (which only the  *)
(* receive thread reads back), and the two loads snapshot subtracts.       *)
(***************************************************************************)
EXTENDS Integers, FiniteSets

CONSTANTS
    SeqSpace,    \* number of sequence numbers, 2^16
    CycleSpace,  \* cycles that fit above the sequence number, 2^16
    FirstSeqs,   \* sequence numbers the sender may start from
    Reorder,     \* bound: how far behind the newest one a packet may arrive
    Gap,         \* bound: packets skipped (lost, or still to come) at a time
    MaxNumber,   \* bound: highest packet number sent
    NoNumber     \* no packet, or no snapshot under way

ASSUME CountersAssumption ==
    /\ SeqSpace \in Nat \ {0} /\ CycleSpace \in Nat \ {0}
    /\ FirstSeqs \subseteq 0 .. SeqSpace - 1
    /\ Reorder \in Nat /\ Gap \in Nat /\ MaxNumber \in Nat
    /\ NoNumber \notin Nat

WordSpace == SeqSpace * CycleSpace  \* a u32

VARIABLES
    packets_received, highest_seq, expected_packets,  \* the atomics
    initialized, base_seq,
    first_seq,   \* sequence number of packet 0
    arrived,     \* numbers of the packets that have arrived
    base,        \* history: the first of them to arrive, or NoNumber
    recording,   \* the packet record_received was last called with, or NoNumber
    todo,        \* what it still has to do with it: "count", "track"
    loaded,      \* what snapshot has loaded first and its value, or NoNumber
    lost,        \* packets_lost of the last snapshot
    missing,     \* history: packets missing when the snapshot began
    during       \* history: packets recorded since it began, or half recorded
                 \* then; NoNumber once nobody uses the snapshot

tracking == <<highest_seq, expected_packets, initialized, base_seq>>
arrivals == <<first_seq, arrived, base, recording>>
snapshots == <<loaded, lost, missing, during>>
countersVars == <<packets_received, tracking, arrivals, todo, snapshots>>

CountersInit ==
    /\ packets_received = 0
    /\ highest_seq = 0
    /\ expected_packets = 0
    /\ initialized = FALSE
    /\ base_seq = 0
    /\ first_seq \in FirstSeqs
    /\ arrived = {}
    /\ base = NoNumber
    /\ recording = NoNumber
    /\ todo = {}
    /\ loaded = NoNumber
    /\ lost = 0
    /\ missing = 0
    /\ during = NoNumber

SeqOf(number) == (first_seq + number) % SeqSpace

Newest == IF arrived = {} THEN -1
          ELSE CHOOSE n \in arrived : \A m \in arrived : m <= n

Arrivals ==
    {n \in 0 .. MaxNumber : /\ n \notin arrived
                            /\ n >= Newest - Reorder
                            /\ n <= Newest + 1 + Gap}

-----------------------------------------------------------------------------
(* record_received *)

\* The receive thread calls record_received.
Receive(number) ==
    /\ todo = {}
    /\ todo' = {"count", "track"}
    /\ arrived' = arrived \cup {number}
    /\ base' = IF base = NoNumber THEN number ELSE base
    /\ recording' = number
    /\ during' = IF during = NoNumber THEN NoNumber ELSE during + 1
    /\ UNCHANGED <<packets_received, tracking, first_seq, loaded, lost, missing>>

CountReceived ==
    /\ "count" \in todo
    /\ packets_received' = packets_received + 1
    /\ todo' = todo \ {"count"}
    /\ UNCHANGED <<tracking, arrivals, snapshots>>

\* A mutant: a late packet from before a rollover counts as a new cycle.
NewCyclesForward(seq) ==
    LET prev   == highest_seq % SeqSpace
        cycles == highest_seq \div SeqSpace
    IN  IF prev - seq > SeqSpace \div 2 \/ seq - prev > SeqSpace \div 2
        THEN cycles + 1 ELSE cycles

\* The cycle count seq belongs to, a wrapping u32.
NewCycles(seq) ==
    LET prev   == highest_seq % SeqSpace
        cycles == highest_seq \div SeqSpace
    IN  IF prev - seq > SeqSpace \div 2 THEN cycles + 1
        ELSE IF seq - prev > SeqSpace \div 2 THEN (cycles - 1) % WordSpace
        ELSE cycles

\* The shift drops the cycles that do not fit.
Extended(seq) == (NewCycles(seq) % CycleSpace) * SeqSpace + seq

IsHigher(seq) ==
    Extended(seq) > highest_seq \/ NewCycles(seq) > highest_seq \div SeqSpace

TrackFirst ==
    /\ "track" \in todo
    /\ ~initialized
    /\ initialized' = TRUE
    /\ base_seq' = SeqOf(recording)
    /\ highest_seq' = SeqOf(recording)
    /\ expected_packets' = 1
    /\ todo' = todo \ {"track"}
    /\ UNCHANGED <<packets_received, arrivals, snapshots>>

\* The packets from the first one up to this one.
Expected(extended) == (extended - base_seq + 1) % WordSpace

TrackNext ==
    LET seq == SeqOf(recording)
    IN  /\ "track" \in todo
        /\ initialized
        /\ IF IsHigher(seq)
           THEN /\ highest_seq' = Extended(seq)
                /\ expected_packets' = Expected(Extended(seq))
           ELSE UNCHANGED <<highest_seq, expected_packets>>
        /\ todo' = todo \ {"track"}
        /\ UNCHANGED <<packets_received, initialized, base_seq, arrivals, snapshots>>

-----------------------------------------------------------------------------
(* snapshot *)

Tracked == IF "track" \in todo THEN arrived \ {recording} ELSE arrived

NewestTracked == CHOOSE n \in Tracked : \A m \in Tracked : m <= n

\* The packets missing from the first one up to the newest.
Missing ==
    IF Tracked = {} THEN 0 ELSE Cardinality((base .. NewestTracked) \ arrived)

\* snapshot loads one of the two counters...
SnapshotBegins ==
    /\ loaded = NoNumber
    /\ \/ loaded' = <<"received", packets_received>>
       \/ loaded' = <<"expected", expected_packets>>
    /\ missing' = Missing
    /\ during' = IF todo = {} THEN 0 ELSE 1
    /\ UNCHANGED <<packets_received, tracking, arrivals, todo, lost>>

\* saturating_sub
Lost(expected, received) ==
    IF expected > received THEN expected - received ELSE 0

\* ...and then the other.
SnapshotEnds ==
    /\ loaded # NoNumber
    /\ lost' = IF loaded[1] = "received" THEN Lost(expected_packets, loaded[2])
               ELSE Lost(loaded[2], packets_received)
    /\ loaded' = NoNumber
    /\ UNCHANGED <<packets_received, tracking, arrivals, todo, missing, during>>

snapshot == SnapshotBegins \/ SnapshotEnds

-----------------------------------------------------------------------------
(* Properties *)

\* The extended highest sequence number is that of the newest packet, over
\* any number of rollovers and late packets from before them, and expected
\* packets are counted from the first one to arrive up to it.
HighestIsNewest ==
    initialized =>
        /\ highest_seq = (SeqOf(base) + NewestTracked - base) % WordSpace
        /\ expected_packets = NewestTracked - base + 1
=============================================================================
