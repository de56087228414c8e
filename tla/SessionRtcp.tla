---------------------------- MODULE SessionRtcp -----------------------------
(***************************************************************************)
(* The statistics of a media session at work, src/session.rs: the receive  *)
(* arm of run_audio_rx, which records what arrives, and run_rtcp, the task *)
(* that reports it to the peer every five seconds while it goes on.        *)
(*                                                                         *)
(* Between the snapshot and the receiver report the task waits for the     *)
(* sender report to be sent, and packets arrive.  A session without keys   *)
(* counts any datagram of four bytes or more: it is then taken to receive  *)
(* the peer's packets only.  Sent counts, timestamps, jitter, the bytes of *)
(* reports and the jitter buffer are left out here.                        *)
(***************************************************************************)
EXTENDS RtpCounters, Sequences

CONSTANT
    MaxRtcp       \* bound: RTCP packets the peer sends

ASSUME RtcpAssumption == MaxRtcp \in Nat

VARIABLES
    serving,      \* the running flag
    learned,      \* learned_remote: "none", "peer" or "other"
    phase,        \* where the RTCP task is
    received,     \* packets_received of its snapshot
    remote_ssrc,  \* the peer's SSRC, 0 while unknown
    inbox,        \* RTCP packets in the socket, by packet type
    heard,        \* RTCP packets the peer has sent
    report        \* what the receiver report of this round says, or NoNumber

rtcpTask == <<phase, received, remote_ssrc, inbox, report>>
rtcpVars == <<countersVars, rtcpTask, serving, learned, heard>>

RtcpInit ==
    /\ CountersInit
    /\ serving = TRUE
    /\ learned = "none"
    /\ phase = "sleep"
    /\ received = 0
    /\ remote_ssrc = 0
    /\ inbox = <<>>
    /\ heard = 0
    /\ report = NoNumber

-----------------------------------------------------------------------------
(* run_audio_rx *)

\* The first datagram tells where to send to, before it is authenticated.
Learn(from) == learned' = IF learned = "none" THEN from ELSE learned

\* A packet of the peer is recorded, whatever its payload type.
ReceiveMedia ==
    /\ serving
    /\ \E number \in Arrivals : Receive(number)
    /\ Learn("peer")
    /\ UNCHANGED <<rtcpTask, serving, heard>>

\* A mutant: what does not authenticate is counted all the same.
CountRefused ==
    /\ serving /\ todo = {}
    /\ Learn("other")
    /\ packets_received' = packets_received + 1
    /\ UNCHANGED <<tracking, arrivals, todo, snapshots, rtcpTask, serving, heard>>

\* A datagram that unprotect_rtp refuses, or too short for a sequence number.
ReceiveRefused ==
    /\ serving /\ todo = {}
    /\ Learn("other")
    /\ UNCHANGED <<countersVars, rtcpTask, serving, heard>>

\* The rest of record_received.
Record ==
    /\ CountReceived \/ TrackFirst \/ TrackNext
    /\ UNCHANGED <<rtcpTask, serving, learned, heard>>

-----------------------------------------------------------------------------
(* run_rtcp *)

\* After each sleep the flag is looked at again.
Wake ==
    /\ phase = "sleep"
    /\ phase' = IF serving THEN "snapshot" ELSE "ended"
    /\ UNCHANGED <<countersVars, serving, learned, heard,
                   received, remote_ssrc, inbox, report>>

\* The snapshot and the sender report, which is always sent.
SendSr ==
    /\ phase = "snapshot"
    /\ \/ SnapshotBegins /\ UNCHANGED <<phase, received>>
       \/ /\ SnapshotEnds
          /\ received' = IF loaded[1] = "received" THEN loaded[2] ELSE packets_received
          /\ phase' = IF remote_ssrc # 0 THEN "rr" ELSE "receive"
    /\ UNCHANGED <<serving, learned, heard, remote_ssrc, inbox, report>>

\* checked_div, and the cast to u8.
LossFraction(lost_packets, expected) ==
    IF expected = 0 THEN 0 ELSE ((lost_packets * 256) \div expected) % 256

\* expected_packets is loaded again, long after the snapshot.
LossReport(expected) ==
    [lost |-> Lost(expected, received), expected |-> expected,
     fraction |-> LossFraction(Lost(expected, received), expected)]

SendRr ==
    /\ phase = "rr"
    /\ report' = LossReport(expected_packets)
    /\ phase' = "receive"
    /\ UNCHANGED <<countersVars, serving, learned, heard,
                   received, remote_ssrc, inbox>>

\* A mutant: a peer that only listens, and sends receiver reports, is not seen.
SenderOnly(packet) == IF packet = "sr" THEN 1 ELSE remote_ssrc

\* Sender and receiver reports carry the SSRC of the peer.  A packet that
\* unprotect_rtcp refuses is read as it came.
SsrcFrom(packet) == IF packet \in {"sr", "rr"} THEN 1 ELSE remote_ssrc

\* At most one packet is read, none when 50 ms pass without one; what the
\* round has computed is then gone.
ReceiveRtcp ==
    /\ phase = "receive"
    /\ IF inbox = <<>> THEN UNCHANGED <<remote_ssrc, inbox>>
       ELSE remote_ssrc' = SsrcFrom(Head(inbox)) /\ inbox' = Tail(inbox)
    /\ phase' = "sleep"
    /\ received' = 0 /\ report' = NoNumber
    /\ lost' = 0 /\ missing' = 0 /\ during' = NoNumber
    /\ UNCHANGED <<packets_received, tracking, arrivals, todo, loaded,
                   serving, learned, heard>>

RtcpTask == Wake \/ SendSr \/ SendRr \/ ReceiveRtcp

-----------------------------------------------------------------------------

\* stop, or drop.
StopServing ==
    /\ serving
    /\ serving' = FALSE
    /\ UNCHANGED <<countersVars, rtcpTask, learned, heard>>

\* The peer sends an RTCP packet (external).
PeerSends(packet) ==
    /\ heard < MaxRtcp
    /\ heard' = heard + 1
    /\ inbox' = Append(inbox, packet)
    /\ UNCHANGED <<countersVars, serving, learned, phase, received,
                   remote_ssrc, report>>

RtcpNext ==
    \/ ReceiveMedia
    \/ ReceiveRefused
    \/ Record
    \/ RtcpTask
    \/ StopServing
    \/ \E packet \in {"sr", "rr", "other"} : PeerSends(packet)

-----------------------------------------------------------------------------
(* Properties *)

\* Packets that came from before the first one, counted as received too.
Early == Cardinality({n \in arrived : n < base})

\* A snapshot taken while packets arrive hides no loss: it reports every
\* packet missing when it began, but for those recorded meanwhile and the
\* early ones.  The receiver report puts its count from before the sender
\* report was sent together with an expectation from after it: the loss told
\* to the peer is off by no more than what was recorded in between, whatever
\* was lost, reordered or refused, and its fraction says "no loss" only if
\* that rounds to nothing, or if nothing had been received at the snapshot,
\* when 256 wraps to 0.
LossTold ==
    [][/\ loaded # NoNumber /\ loaded' = NoNumber => missing <= lost' + during + Early
       /\ phase = "rr" /\ phase' = "receive" =>
             /\ report'.lost <= Missing + during
             /\ missing <= report'.lost + during + Early
             /\ report'.fraction = 0 /\ report'.lost > 0 /\ received > 0 =>
                   report'.lost * 256 < report'.expected]_rtcpVars

\* A peer that reports is reported to, unless the session stops: what it
\* sends is read in the end, one packet every five seconds, whatever else it
\* has sent before, and the next round then sends the receiver report.
PeerIsReported ==
    (\E i \in DOMAIN inbox : inbox[i] \in {"sr", "rr"})
        ~> (report # NoNumber \/ ~serving)
=============================================================================
