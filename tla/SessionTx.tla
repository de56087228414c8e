----------------------------- MODULE SessionTx ------------------------------
(***************************************************************************)
(* The sending side of a MediaSession, src/session.rs: three kinds of      *)
(* thread put packets on one RTP stream.                                   *)
(*                                                                         *)
(*   - the microphone callback (Mic) of run_audio_tx, while not muted;     *)
(*   - the keepalive thread (Keepalive): first Punches NAT punch packets,  *)
(*     then a silence packet every 20 ms while muted;                      *)
(*   - one task per DTMF digit (Digits), spawned by send_dtmf.             *)
(*                                                                         *)
(* They share the atomic counters tx_seq and tx_ts, the SRTP context       *)
(* behind its mutex, and the flags running and muted.  Each atomic         *)
(* operation and each critical section is one step.  All are Relaxed, but  *)
(* on one location each: read-modify-writes never collide, and a flag is   *)
(* seen a bounded time after it is stored, which the interleaving covers.  *)
(*                                                                         *)
(* A timestamp counts packets (one rtp_ts_stride each); the event clock is *)
(* the audio clock.  The call is encrypted; protect_rtp cannot fail on     *)
(* these packets and no lock is poisoned.  A bounded number of sequence    *)
(* numbers is handed out.                                                  *)
(***************************************************************************)
EXTENDS SenderRoc, FiniteSets

CONSTANTS
    TsSpace,         \* number of timestamps, 2^32
    FirstSeqs,       \* what rand::random() may give tx_seq
    Punches,         \* NAT punch packets, 5
    Durations,       \* reports per digit, 3
    EndCopies,       \* copies of the last report, 3
    Digits,          \* send_dtmf calls
    CallbackFrames,  \* bound: packets one microphone callback completes
    MaxClaims,       \* bound: audio packets, but for punches, are begun below it
    Mic, Keepalive   \* the two audio threads

ASSUME SessionAssumption ==
    /\ TsSpace \in Nat \ {0}
    /\ FirstSeqs \subseteq SeqNumber
    /\ Punches \in Nat /\ Durations \in Nat \ {0} /\ EndCopies \in Nat \ {0}
    /\ CallbackFrames \in Nat /\ MaxClaims \in Nat
    /\ Mic # Keepalive /\ {Mic, Keepalive} \cap Digits = {}

Audio == {Mic, Keepalive}
Thread == Audio \cup Digits
EventPackets == Durations - 1 + EndCopies

VARIABLES
    running, muted,  \* the flags
    stream,          \* whether the input stream is still open
    tx_seq, tx_ts,   \* the shared counters
    tx_srtp,         \* the SRTP context's send state
    pc,              \* thread -> what it does next
    left,            \* thread -> packets it still has to send
    hand,            \* thread -> the packet it is building
    wire,            \* packets sent, or handed to the runtime that sends them
    claims,          \* history: sequence numbers handed out
    overrun          \* history: audio thread -> packets begun since it last
                     \* had reason to send

flags == <<running, muted, stream>>
counters == <<tx_seq, tx_ts, tx_srtp>>
vars == <<flags, counters, pc, left, hand, wire, claims, overrun>>

Init ==
    /\ running = TRUE
    /\ muted = FALSE
    /\ stream = TRUE
    /\ tx_seq \in FirstSeqs
    /\ tx_ts = 0
    /\ tx_srtp = NewSendState
    /\ pc = [t \in Thread |-> "idle"]
    /\ left = [t \in Thread |-> IF t = Mic THEN 0
                                ELSE IF t = Keepalive THEN Punches
                                ELSE EventPackets]
    /\ hand = [t \in Thread |-> [from |-> t, number |-> 0, seq |-> 0, ts |-> 0,
                                 roc |-> 0, marker |-> FALSE, report |-> 0]]
    /\ wire = {}
    /\ claims = 0
    /\ overrun = [t \in Audio |-> 0]

Goto(thread, step) == pc' = [pc EXCEPT ![thread] = step]

-----------------------------------------------------------------------------
(* When a thread starts a packet *)

\* An audio packet may be begun: the bound on the model's behaviours.  (Punch
\* packets are few anyhow.)
Room == claims < MaxClaims

\* A mutant: the callback does not look at muted.
MicCallbackMuted(frames) ==
    /\ pc[Mic] = "idle"
    /\ stream /\ running
    /\ Room
    /\ left' = [left EXCEPT ![Mic] = frames]
    /\ Goto(Mic, "seq")
    /\ UNCHANGED <<flags, counters, hand, wire, claims, overrun>>

\* The device calls back with data for so many packets.
MicCallback(frames) ==
    /\ pc[Mic] = "idle"
    /\ stream /\ running /\ ~muted
    /\ Room
    /\ left' = [left EXCEPT ![Mic] = frames]
    /\ Goto(Mic, "seq")
    /\ UNCHANGED <<flags, counters, hand, wire, claims, overrun>>

\* A mutant: with nothing to send, unmuted, the thread does not look at running.
RunningOrUnmuted == running \/ ~muted

\* What the keepalive thread reads before a packet and before a sleep.
keepalive_running == running

\* The head of either keepalive loop: a punch packet, or a sleep.
KeepaliveLoop ==
    /\ pc[Keepalive] = "idle"
    /\ Goto(Keepalive, IF ~keepalive_running THEN "done"
                       ELSE IF left[Keepalive] > 0 THEN "seq" ELSE "sleep")
    /\ UNCHANGED <<flags, counters, left, hand, wire, claims, overrun>>

\* After the sleep the flags are looked at again.
KeepaliveWake ==
    /\ pc[Keepalive] = "sleep"
    /\ keepalive_running /\ muted => Room
    /\ Goto(Keepalive, IF ~keepalive_running THEN "done"
                       ELSE IF muted THEN "seq" ELSE "idle")
    /\ UNCHANGED <<flags, counters, left, hand, wire, claims, overrun>>

\* The timestamp of the event is taken when the digit is sent.
send_dtmf(digit) ==
    /\ pc[digit] = "idle"
    /\ hand' = [hand EXCEPT ![digit].ts = tx_ts]
    /\ Goto(digit, "seq")
    /\ UNCHANGED <<flags, counters, left, wire, claims, overrun>>

-----------------------------------------------------------------------------
(* Building, protecting and sending one packet *)

\* Whether an audio thread should be sending at all.
HasReason(thread) ==
    IF thread = Mic THEN running /\ ~muted
    ELSE running /\ (muted \/ left[Keepalive] > 0)

\* A thread begins a packet: one more without reason?
Overrun(thread) ==
    IF thread \notin Audio \/ HasReason(thread) THEN overrun
    ELSE [overrun EXCEPT ![thread] = @ + 1]

\* A mutant: the last report is not repeated as such.
ReportCounting(digit) == EventPackets - left[digit] + 1

\* The report a digit's packet carries: 1, 2... and copies of the last.
Report(digit) ==
    IF left[digit] <= EndCopies THEN Durations
    ELSE EventPackets - left[digit] + 1

\* A mutant: a digit's packet reads the sequence number without claiming it.
ClaimSeqLoaded(thread) ==
    /\ pc[thread] = "seq"
    /\ tx_seq' = IF thread \in Digits THEN tx_seq ELSE (tx_seq + 1) % SeqSpace
    /\ hand' = [hand EXCEPT ![thread].seq = tx_seq, ![thread].number = claims]
    /\ claims' = claims + 1
    /\ overrun' = Overrun(thread)
    /\ Goto(thread, IF thread \in Audio THEN "ts" ELSE "protect")
    /\ UNCHANGED <<flags, tx_ts, tx_srtp, left, wire>>

\* fetch_add on the sequence number.  A digit's packet is then complete.
ClaimSeq(thread) ==
    /\ pc[thread] = "seq"
    /\ tx_seq' = (tx_seq + 1) % SeqSpace
    /\ hand' = [hand EXCEPT ![thread].seq = tx_seq,
                            ![thread].number = claims,
                            ![thread].marker = thread \in Digits
                                                 /\ left[thread] = EventPackets,
                            ![thread].report = IF thread \in Digits
                                               THEN Report(thread) ELSE 0]
    /\ claims' = claims + 1
    /\ overrun' = Overrun(thread)
    /\ Goto(thread, IF thread \in Audio THEN "ts" ELSE "protect")
    /\ UNCHANGED <<flags, tx_ts, tx_srtp, left, wire>>

\* fetch_add on the timestamp.
ClaimTs(thread) ==
    /\ pc[thread] = "ts"
    /\ tx_ts' = (tx_ts + 1) % TsSpace
    /\ hand' = [hand EXCEPT ![thread].ts = tx_ts]
    /\ Goto(thread, "protect")
    /\ UNCHANGED <<flags, tx_seq, tx_srtp, left, wire, claims, overrun>>

\* protect_rtp, under the context's lock.
Protect(thread) ==
    /\ pc[thread] = "protect"
    /\ tx_srtp' = Protected(tx_srtp, hand[thread].seq)
    /\ hand' = [hand EXCEPT ![thread].roc = NextRoc(tx_srtp, hand[thread].seq)]
    /\ Goto(thread, "send")
    /\ UNCHANGED <<flags, tx_seq, tx_ts, left, wire, claims, overrun>>

\* The packet goes out; then the thread's next one, or the end of its work.
Send(thread) ==
    LET more == IF left[thread] > 0 THEN left[thread] - 1 ELSE 0
    IN  /\ pc[thread] = "send"
        /\ wire' = wire \cup {hand[thread]}
        /\ left' = [left EXCEPT ![thread] = more]
        /\ Goto(thread, IF thread = Keepalive THEN "idle"
                        ELSE IF more > 0 THEN "seq"
                        ELSE IF thread = Mic THEN "idle" ELSE "done")
        /\ UNCHANGED <<flags, counters, hand, claims, overrun>>

-----------------------------------------------------------------------------
(* The application and the TX thread *)

set_mute(mute) ==
    /\ muted' = mute
    /\ overrun' = IF running
                  THEN [overrun EXCEPT ![IF mute THEN Keepalive ELSE Mic] = 0]
                  ELSE overrun
    /\ UNCHANGED <<running, stream, counters, pc, left, hand, wire, claims>>

stop ==
    /\ running' = FALSE
    /\ UNCHANGED <<muted, stream, counters, pc, left, hand, wire, claims, overrun>>

\* The TX thread polls running, then drops the input stream.
CloseStream ==
    /\ ~running
    /\ stream
    /\ stream' = FALSE
    /\ UNCHANGED <<running, muted, counters, pc, left, hand, wire, claims, overrun>>

PacketStep(thread) ==
    ClaimSeq(thread) \/ ClaimTs(thread) \/ Protect(thread) \/ Send(thread)

Next ==
    \/ \E frames \in 1 .. CallbackFrames : MicCallback(frames)
    \/ KeepaliveLoop
    \/ KeepaliveWake
    \/ \E digit \in Digits : send_dtmf(digit)
    \/ \E thread \in Thread : PacketStep(thread)
    \/ \E mute \in BOOLEAN : set_mute(mute)
    \/ stop
    \/ CloseStream

\* Threads and tasks that have started keep being scheduled.
Fairness ==
    /\ \A thread \in Thread : WF_vars(PacketStep(thread))
    /\ WF_vars(KeepaliveLoop)
    /\ WF_vars(KeepaliveWake)
    /\ WF_vars(CloseStream)

Spec == Init /\ [][Next]_vars /\ Fairness

-----------------------------------------------------------------------------
(* Properties *)

\* The threads that hold a sequence number not sent yet.
Holding == {t \in Thread : pc[t] \in {"ts", "protect", "send"}}

\* The three senders form one stream: each sequence number handed out is on
\* one packet, sent or being built, and on no other, and none is skipped.
OneStream ==
    LET numbered == wire \cup {hand[t] : t \in Holding}
    IN  claims <= SeqSpace =>
            /\ Cardinality({p.seq : p \in numbered}) = Cardinality(numbered)
            /\ Cardinality(numbered) = claims

\* A digit reaches the wire whole and in order whatever audio is sent in
\* between: one timestamp, reports that never go back as the sequence numbers
\* go up, the marker on the first packet only, the last report EndCopies times.
DigitWhole ==
    \A d \in Digits :
        LET event == {p \in wire : p.from = d}
        IN  /\ \A p, q \in event :
                  /\ p.ts = q.ts
                  /\ p.number < q.number => p.report <= q.report /\ ~q.marker
            /\ pc[d] = "done" =>
                  /\ Cardinality(event) = EventPackets
                  /\ \E p \in event : p.marker
                  /\ Cardinality({p \in event : p.report = Durations}) = EndCopies

\* Neither audio thread runs on: after mute, unmute or stop the microphone
\* finishes the callback it is in, the keepalive thread the packet it is on.
NoOverrun == overrun[Mic] <= CallbackFrames /\ overrun[Keepalive] <= 1

\* A stopped session goes quiet: the input stream is closed, the keepalive
\* thread ends, and no thread is left in the middle of a packet.
StopEnds ==
    ~running ~> /\ ~stream
                /\ pc[Keepalive] = "done"
                /\ \A t \in Thread : pc[t] \in {"idle", "done"}

\* The first sequence number, from what has been handed out since.
FirstSeq == (tx_seq - claims) % SeqSpace

\* Every packet is protected with the rollover counter of its place in the
\* stream, the one its receiver will work out: the senders' packets form one
\* stream for SRTP too.
RocOfStream ==
    \A p \in wire : p.roc = ((FirstSeq + p.number) \div SeqSpace) % RocSpace

\* One press is one event timestamp, and two presses have two, however soon
\* they follow each other: that is how the receiver in src/stream.rs tells a
\* new press from another packet of the last one.
PressesTold ==
    \A p, q \in wire :
        p.from \in Digits /\ q.from \in Digits => (p.ts = q.ts <=> p.from = q.from)
=============================================================================
