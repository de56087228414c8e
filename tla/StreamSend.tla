----------------------------- MODULE StreamSend -----------------------------
(***************************************************************************)
(* The sending side of a headless stream, src/stream.rs: StreamCore's      *)
(* queue_dtmf and packetize.  Every 20 ms frame becomes one audio packet,  *)
(* or the next event packet of the digit being sent in its place.          *)
(*                                                                         *)
(* The audio timestamp moves by Ratio each frame and the event clock runs  *)
(* Ratio times slower, so that a frame is one tick of the event clock      *)
(* (Ratio is 1 for an 8 kHz codec, 6 for Opus with events at 8 kHz).  A    *)
(* digit is the number of its press.  telephone-event is negotiated, a     *)
(* frame has the right size and SRTP cannot fail on a packet built here.   *)
(***************************************************************************)
EXTENDS Integers, Sequences

CONSTANTS
    SeqSpace,     \* number of sequence numbers, 2^16
    TsSpace,      \* number of timestamps, 2^32
    FirstSeqs,    \* what rand::random() may give seq
    FirstStamps,  \* what rand::random() may give timestamp
    Ratio,        \* audio clock rate over event clock rate
    DtmfPackets,  \* dtmf_packets
    EndCopies,    \* copies of the end packet, 3
    MaxPresses,   \* bound: digits queued
    MaxPacketized, \* bound: frames packetized
    NoDigit       \* no digit, Option::None

ASSUME SendAssumption ==
    /\ SeqSpace \in Nat \ {0} /\ TsSpace \in Nat \ {0}
    /\ FirstSeqs \subseteq 0 .. SeqSpace - 1 /\ FirstStamps \subseteq 0 .. TsSpace - 1
    /\ Ratio \in Nat \ {0}
    /\ DtmfPackets \in Nat /\ EndCopies \in Nat \ {0}
    /\ MaxPresses \in Nat /\ MaxPacketized \in Nat
    /\ NoDigit \notin Nat /\ NoDigit \notin [press : Nat, timestamp : Nat, sent : Nat]

VARIABLES
    seq, timestamp,  \* of the next packet, on the audio clock
    marker,          \* whether the next audio packet starts a talkspurt
    dtmf,            \* digits waiting to be sent
    dtmf_sending,    \* the digit being sent, or NoDigit
    presses,         \* history: digits queued so far
    packetized,      \* history: frames packetized so far
    sent             \* history: the datagrams, in order

sendVars == <<seq, timestamp, marker, dtmf, dtmf_sending, presses, packetized, sent>>

SendInit ==
    /\ seq \in FirstSeqs
    /\ timestamp \in FirstStamps
    /\ marker = TRUE
    /\ dtmf = <<>>
    /\ dtmf_sending = NoDigit
    /\ presses = 0
    /\ packetized = 0
    /\ sent = <<>>

queue_dtmf ==
    /\ presses < MaxPresses
    /\ presses' = presses + 1
    /\ dtmf' = Append(dtmf, presses + 1)
    /\ UNCHANGED <<seq, timestamp, marker, dtmf_sending, packetized, sent>>

-----------------------------------------------------------------------------
(* packetize *)

\* The audio timestamp on the event clock.
dtmf_timestamp == timestamp \div Ratio

\* A mutant: the next queued digit replaces the one being sent.
SendingNext ==
    IF dtmf_sending # NoDigit /\ dtmf = <<>> THEN dtmf_sending
    ELSE [press |-> Head(dtmf), timestamp |-> dtmf_timestamp, sent |-> 0]

\* The digit this frame is about: the one being sent, or the next queued.
Sending ==
    IF dtmf_sending # NoDigit THEN dtmf_sending
    ELSE [press |-> Head(dtmf), timestamp |-> dtmf_timestamp, sent |-> 0]

\* The count of packets after which a digit ends.
LastReport == IF DtmfPackets > 1 THEN DtmfPackets ELSE 1

\* n packets that differ only in their sequence numbers go out.
finish(n, packet) ==
    /\ sent' = sent \o [i \in 1 .. n |->
                          [packet EXCEPT !.seq = (seq + i - 1) % SeqSpace]]
    /\ seq' = (seq + n) % SeqSpace

\* The clock runs on whatever the frame carried.
FrameDone ==
    /\ packetized < MaxPacketized
    /\ packetized' = packetized + 1
    /\ timestamp' = (timestamp + Ratio) % TsSpace
    /\ UNCHANGED presses

PacketizeEvent ==
    LET report == Sending.sent + 1
        end    == report >= LastReport
    IN  /\ dtmf_sending # NoDigit \/ dtmf # <<>>
        /\ finish(IF end THEN EndCopies ELSE 1,
                  [press |-> Sending.press, seq |-> seq,
                   ts |-> Sending.timestamp, marker |-> report = 1,
                   report |-> report, end |-> end])
        /\ dtmf' = IF dtmf_sending = NoDigit THEN Tail(dtmf) ELSE dtmf
        /\ dtmf_sending' = IF end THEN NoDigit ELSE [Sending EXCEPT !.sent = report]
        /\ marker' = TRUE
        /\ FrameDone

PacketizeAudio ==
    /\ dtmf_sending = NoDigit
    /\ dtmf = <<>>
    /\ finish(1, [press |-> 0, seq |-> seq, ts |-> timestamp, marker |-> marker,
                  report |-> 0, end |-> FALSE])
    /\ marker' = FALSE
    /\ UNCHANGED <<dtmf, dtmf_sending>>
    /\ FrameDone

packetize == PacketizeEvent \/ PacketizeAudio

SendNext == queue_dtmf \/ packetize

-----------------------------------------------------------------------------
(* Properties *)

\* A digit that is over had its end sent EndCopies times.
EndsRepeated ==
    \A d \in 1 .. presses :
        LET ends == {i \in DOMAIN sent : sent[i].press = d /\ sent[i].end}
        IN  ends = {} \/ \E i \in ends : ends = i .. i + EndCopies - 1

\* Digits are sent one after another in the order they were queued, each
\* with one timestamp, reports counting up from 1, and the end repeated
\* EndCopies times; and audio resumes with a marker.
EventsInOrder ==
    /\ EndsRepeated
    /\ \A i \in 1 .. Len(sent) - 1 :
           LET p == sent[i]
               q == sent[i + 1]
           IN  /\ q.seq = (p.seq + 1) % SeqSpace
               /\ q.press > 0 /\ q.press = p.press =>
                     /\ q.ts = p.ts
                     /\ q.report = IF p.end THEN p.report ELSE p.report + 1
               /\ q.press > 0 /\ q.press # p.press =>
                     /\ p.press = 0 \/ p.end
                     /\ q.report = 1
                     /\ \A j \in 1 .. i : sent[j].press < q.press
               /\ q.press = 0 => (q.marker <=> p.press > 0)
=============================================================================
