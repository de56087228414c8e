--------------------------- MODULE StreamReceive ----------------------------
(***************************************************************************)
(* The receiving side of a headless stream, src/stream.rs: what StreamCore *)
(* does with a datagram (ingest, admit) and at a playout tick (playout),   *)
(* on top of the jitter buffer.                                            *)
(*                                                                         *)
(* A datagram is what admit tells apart: its shape (which check it fails,  *)
(* or what it carries), the address it came from, its SSRC, sequence       *)
(* number and timestamp, and whether the peer protected it (nobody does    *)
(* without SRTP).  An SSRC's packet seq has timestamp ssrc * SeqSpace +    *)
(* seq, so a timestamp also names the SSRC.                                *)
(*                                                                         *)
(* SRTP is what Srtp shows it to be: a packet is decrypted if the peer     *)
(* protected it and its index was not accepted before (or is not too old,  *)
(* which ends the same way).  Counters and decoded samples are left out,   *)
(* and an audio packet carries a payload (playout takes one without for a  *)
(* lost packet).                                                           *)
(***************************************************************************)
EXTENDS JitterBuffer, Sequences

Time == INSTANCE WrappingTime

CONSTANTS
    Addresses,   \* where datagrams come from
    SdpHost,     \* the addresses of the host the SDP named
    Ssrcs,       \* SSRCs, 0 .. n
    Seqs,        \* sequence numbers that arrive
    RtpTimeout   \* rtp_timeout, in ticks

ASSUME ReceiveAssumption ==
    /\ SdpHost \subseteq Addresses
    /\ None \notin Addresses
    /\ Ssrcs \subseteq Nat /\ Seqs \subseteq SeqNumber
    /\ \A s \in Ssrcs : (s + 1) * SeqSpace <= TsSpace
    /\ RtpTimeout \in Nat \ {0}

\* short: no RTP header; rtcp: RTCP on the RTP port; bad: bad padding, or an
\* event under four bytes; other: another payload type; event: an event that
\* is no digit.
Unread == {"short", "rtcp"}
Shape == Unread \cup {"bad", "other", "audio", "digit", "event"}

VARIABLES
    keyed,        \* whether the stream was given an SrtpPair
    latched,      \* the address media comes from, or None
    remote_ssrc,  \* its SSRC, or None
    last_dtmf,    \* last_dtmf_timestamp, or None
    playing,      \* whether audio has started
    heard,        \* the inbound SRTP context: packets accepted
    silent,       \* ticks since last_packet or started, or None before both
    unreported,   \* ticks since last_timeout, or None before the first
    result,       \* what the last call returned
    events,       \* the events of the last playout
    origin        \* history: timestamp -> who sent the packet pushed with it

peer == <<latched, remote_ssrc, last_dtmf, playing>>
clocks == <<silent, unreported>>
receiveVars == <<vars, keyed, peer, heard, clocks, result, events, origin>>

Datagram == [shape : Shape, from : Addresses, ssrc : Ssrcs, seq : Seqs,
             genuine : IF keyed THEN BOOLEAN ELSE {FALSE}]

\* One datagram stands for all of a shape that is dropped unread, and one
\* from each address for all that do not authenticate.
Plain(d) == d.ssrc = 0 /\ d.seq = CHOOSE q \in Seqs : TRUE
Arriving ==
    {d \in Datagram :
        /\ d.shape \in Unread =>
              Plain(d) /\ ~d.genuine /\ d.from = CHOOSE a \in Addresses : TRUE
        /\ keyed /\ ~d.genuine /\ d.shape \notin Unread =>
              Plain(d) /\ d.shape = "audio"}

ReceiveInit ==
    /\ Init
    /\ keyed \in BOOLEAN
    /\ latched = None
    /\ remote_ssrc = None
    /\ last_dtmf = None
    /\ playing = FALSE
    /\ heard = {}
    /\ silent = None
    /\ unreported = None
    /\ result = "none"
    /\ events = <<>>
    /\ origin = [ts \in {} |-> None]

-----------------------------------------------------------------------------
(* The checks of admit, in order *)

Stamp(d) == d.ssrc * SeqSpace + d.seq

\* A mutant: without SRTP any address may be latched.
UntrustedLater(from) == latched # None /\ from # latched

Untrusted(from) ==
    IF latched # None THEN from # latched ELSE ~keyed /\ from \notin SdpHost

\* The datagram is read as far as SRTP.
Reaches(d) == d.shape \notin Unread /\ ~Untrusted(d.from)

\* The packet is available in the clear.
Decrypts(d) ==
    /\ Reaches(d)
    /\ keyed => d.genuine /\ <<d.ssrc, d.seq>> \notin heard

\* Decrypting a packet moves the replay window, whatever becomes of it.
Hear(d) == heard' = IF keyed THEN heard \cup {<<d.ssrc, d.seq>>} ELSE heard

\* ingest starts the clock the timeout runs from.
Start == silent' = IF silent = None THEN 0 ELSE silent

\* A mutant: a dropped datagram counts as a sign of life.
DroppedAlive(why) ==
    /\ result' = why
    /\ silent' = 0
    /\ UNCHANGED <<vars, keyed, peer, unreported, events, origin>>

Dropped(why) ==
    /\ result' = why
    /\ Start
    /\ UNCHANGED <<vars, keyed, peer, unreported, events, origin>>

DropMalformed(d) ==
    d.shape = "short" /\ Dropped("malformed") /\ UNCHANGED heard

DropMuxed(d) == d.shape = "rtcp" /\ Dropped("payload") /\ UNCHANGED heard

DropSource(d) ==
    /\ d.shape \notin Unread
    /\ Untrusted(d.from)
    /\ Dropped("source")
    /\ UNCHANGED heard

DropSrtp(d) ==
    /\ Reaches(d)
    /\ ~Decrypts(d)
    /\ Dropped(IF d.genuine THEN "replayed" ELSE "unauthenticated")
    /\ UNCHANGED heard

DropPayload(d) ==
    /\ Decrypts(d)
    /\ d.shape \in {"bad", "other"}
    /\ Hear(d)
    /\ Dropped(IF d.shape = "other" THEN "payload" ELSE "malformed")

-----------------------------------------------------------------------------
(* What admit does with a packet it trusts *)

SsrcChanged(d) == remote_ssrc # None /\ d.ssrc # remote_ssrc

\* The last event's timestamp, forgotten with the SSRC it came from.
LastDtmf(d) == IF SsrcChanged(d) THEN None ELSE last_dtmf

Trusted(d) ==
    /\ Decrypts(d)
    /\ Hear(d)
    /\ latched' = IF latched = None THEN d.from ELSE latched
    /\ remote_ssrc' = d.ssrc
    /\ playing' = (playing /\ ~SsrcChanged(d))
    /\ silent' = 0
    /\ UNCHANGED <<keyed, unreported, events>>

\* A push into a buffer that has just been reset.
PushAfterReset(seq, ts) ==
    /\ packets' = [k \in {seq} |-> ts]
    /\ playout_seq' = None
    /\ seq_cycles' = 0
    /\ last_seq' = seq
    /\ current_delay' = InitialDelay
    /\ base_timestamp' = ts
    /\ waited' = 0
    /\ stats' = [received |-> 1, dropped |-> 0, lost |-> 0, played |-> 0]
    /\ out' = None

IngestAudio(d) ==
    /\ d.shape = "audio"
    /\ Trusted(d)
    /\ IF SsrcChanged(d) THEN PushAfterReset(d.seq, Stamp(d))
       ELSE Push(d.seq, Stamp(d))
    /\ origin' = [ts \in DOMAIN origin \cup {Stamp(d)} |->
                     IF ts = Stamp(d) THEN [from |-> d.from, genuine |-> d.genuine]
                     ELSE origin[ts]]
    /\ last_dtmf' = LastDtmf(d)
    /\ result' = "ok"

NewPress(d) == LastDtmf(d) = None \/ Time!After(Stamp(d), LastDtmf(d))

\* An event packet: a digit is reported for the first packet of its press.
IngestDtmf(d) ==
    LET press == d.shape = "digit" /\ NewPress(d)
    IN  /\ d.shape \in {"digit", "event"}
        /\ Trusted(d)
        /\ IF SsrcChanged(d) THEN reset ELSE UNCHANGED vars
        /\ last_dtmf' = IF press THEN Stamp(d) ELSE LastDtmf(d)
        /\ result' = IF press THEN "digit" ELSE "ok"
        /\ UNCHANGED origin

ingest(d) ==
    \/ DropMalformed(d) \/ DropMuxed(d) \/ DropSource(d)
    \/ DropSrtp(d) \/ DropPayload(d)
    \/ IngestAudio(d) \/ IngestDtmf(d)

-----------------------------------------------------------------------------
(* playout, and time *)

\* Ticks since the last packet (or the start), and since a report of it.
SilentFor == IF silent = None THEN 0 ELSE silent
SinceReported ==
    IF unreported = None \/ unreported > SilentFor THEN SilentFor ELSE unreported

TimedOut == SinceReported >= RtpTimeout

Frame ==
    IF out' # None
    THEN <<IF out'.synthesized THEN "concealed" ELSE "received">>
    ELSE IF playing THEN <<"silence">> ELSE <<>>

playout ==
    /\ Pop
    /\ events' = (IF TimedOut THEN <<"timeout">> ELSE <<>>) \o Frame
    /\ unreported' = IF TimedOut THEN 0 ELSE unreported
    /\ playing' = (playing \/ out' # None)
    /\ result' = "playout"
    /\ Start
    /\ UNCHANGED <<keyed, latched, remote_ssrc, last_dtmf, heard, origin>>

Older(age) == IF age = None \/ age = RtpTimeout THEN age ELSE age + 1

TimePasses ==
    /\ waited' = IF waited = None \/ waited = DelayCap THEN waited ELSE waited + 1
    /\ silent' = Older(silent)
    /\ unreported' = Older(unreported)
    /\ result' = "none"
    /\ UNCHANGED <<packets, playout_seq, seq_cycles, last_seq, current_delay,
                   base_timestamp, stats, out, keyed, peer, heard, events, origin>>

ReceiveNext ==
    \/ \E d \in Arriving : ingest(d)
    \/ playout
    \/ TimePasses

\* recv_frame polls the ticker, and time passes.
ReceiveSpec ==
    /\ ReceiveInit
    /\ [][ReceiveNext]_receiveVars
    /\ WF_receiveVars(playout)
    /\ WF_receiveVars(TimePasses)

-----------------------------------------------------------------------------
(* Properties *)

\* Whatever datagrams arrive, the audio waiting to be played is the latched
\* peer's: its address, its current SSRC, authenticated if the call is keyed;
\* and without keys only the SDP's host can become that peer.
MediaBelongs ==
    /\ \A k \in Keys :
          LET sender == origin[packets[k]]
          IN  /\ packets[k] \div SeqSpace = remote_ssrc
              /\ sender.from = latched
              /\ keyed => sender.genuine
    /\ latched # None /\ ~keyed => latched \in SdpHost

\* Either packets keep being accepted or the silence keeps being reported:
\* datagrams that are dropped never hold a timeout back.
SilenceReported ==
    \/ []<>(result \in {"ok", "digit"})
    \/ []<>(result = "playout" /\ \E i \in DOMAIN events : events[i] = "timeout")
=============================================================================
