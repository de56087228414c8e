------------------------------- MODULE RtpWire ------------------------------
(***************************************************************************)
(* RTP and RTCP on the wire: src/rtp/header.rs, src/rtp/mod.rs and         *)
(* src/rtp/rtcp.rs, with the two other places that read a header for       *)
(* themselves, rtp_header_len of src/srtp.rs and admit of src/stream.rs.   *)
(*                                                                         *)
(* A datagram is a sequence of bytes.  A u16 or u32 is the tuple of its    *)
(* bytes, most significant first; the numbers that are computed with (the  *)
(* words of an extension, the loss of a report) are numbers.  The NTP time *)
(* of a sender report is left out of its eight bytes.                      *)
(***************************************************************************)
EXTENDS Integers, Sequences

CONSTANTS
    Headers,   \* the headers a sender may build
    Payloads,  \* the payloads it may put after one
    Ssrc,      \* SSRCs, as tuples of four bytes
    Losses,    \* cumulative losses a report may carry
    NoHeader   \* parse returned None

\* A field of a byte: the values it has, from the bit of that weight up.
Bits(byte, weight, values) == (byte \div weight) % values
Flag(b, value) == IF b THEN value ELSE 0

-----------------------------------------------------------------------------
(* RtpHeader *)

Byte == 0 .. 255
Word(n) == [1 .. n -> Byte]

\* extension_data is the whole extension, its four-byte head included, or <<>>.
Header == [padding : BOOLEAN, extension : BOOLEAN, marker : BOOLEAN, payload_type : 0 .. 127,
           sequence : Word(2), timestamp : Word(4), ssrc : Word(4),
           csrc : Seq(Word(4)), extension_data : Seq(Byte)]

WellFormed(h) ==
    /\ Len(h.csrc) <= 15
    /\ h.extension = (h.extension_data # <<>>)
    /\ h.extension => /\ Len(h.extension_data) >= 4
                      /\ Len(h.extension_data)
                             = 4 + 4 * (h.extension_data[3] * 256 + h.extension_data[4])

ASSUME HeadersAssumption ==
    /\ \A h \in Headers : h \in Header /\ WellFormed(h)
    /\ Payloads \subseteq Seq(Byte) /\ Ssrc \subseteq Word(4) /\ Losses \subseteq Nat
    /\ NoHeader \notin Header

\* The CSRCs, one after the other.
CsrcBytes(csrc) ==
    [i \in 1 .. 4 * Len(csrc) |-> csrc[1 + ((i - 1) \div 4)][1 + ((i - 1) % 4)]]

to_bytes(h) ==
    <<2 * 64 + Flag(h.padding, 32) + Flag(h.extension, 16) + (Len(h.csrc) % 16),
      Flag(h.marker, 128) + (h.payload_type % 128)>>
        \o h.sequence \o h.timestamp \o h.ssrc \o CsrcBytes(h.csrc) \o h.extension_data

header_length(h) == 12 + 4 * Len(h.csrc) + Len(h.extension_data)

CsrcEnd(data) == 12 + 4 * Bits(data[1], 1, 16)
\* A mutant: the extension's length is read from its profile.
ProfileRead(data) == CsrcEnd(data) + 4 + 4 * (data[CsrcEnd(data) + 1] * 256 + data[CsrcEnd(data) + 2])

ExtensionEnd(data) == CsrcEnd(data) + 4 + 4 * (data[CsrcEnd(data) + 3] * 256 + data[CsrcEnd(data) + 4])

Fields(data) ==
    [padding |-> Bits(data[1], 32, 2) = 1, extension |-> Bits(data[1], 16, 2) = 1,
     marker |-> data[2] >= 128, payload_type |-> data[2] % 128,
     sequence |-> SubSeq(data, 3, 4), timestamp |-> SubSeq(data, 5, 8), ssrc |-> SubSeq(data, 9, 12),
     csrc |-> [i \in 1 .. Bits(data[1], 1, 16) |-> SubSeq(data, 9 + 4 * i, 12 + 4 * i)],
     extension_data |-> IF Bits(data[1], 16, 2) = 0 THEN <<>>
                        ELSE SubSeq(data, CsrcEnd(data) + 1, ExtensionEnd(data))]

Refused(data) ==
    \/ Len(data) < 12
    \/ Bits(data[1], 64, 4) # 2
    \/ Len(data) < CsrcEnd(data)
    \/ /\ Bits(data[1], 16, 2) = 1
       /\ Len(data) < CsrcEnd(data) + 4 \/ Len(data) < ExtensionEnd(data)

parse(data) == IF Refused(data) THEN NoHeader ELSE Fields(data)

\* parse_rtp and RtpPacket::parse: the header, and what follows it.
parse_rtp(data) ==
    LET h == parse(data)
    IN  IF h = NoHeader \/ header_length(h) > Len(data) THEN NoHeader
        ELSE [header |-> h, payload |-> SubSeq(data, header_length(h) + 1, Len(data))]

\* srtp.rs reads the header on its own, to know what to encrypt.
rtp_header_len(packet) ==
    LET plain == 12 + 4 * Bits(packet[1], 1, 16)
        words == packet[plain + 3] * 256 + packet[plain + 4]
        len   == IF Bits(packet[1], 16, 2) = 0 THEN plain ELSE plain + 4 + 4 * words
    IN  IF packet = <<>> \/ (Bits(packet[1], 16, 2) = 1 /\ Len(packet) < plain + 4) THEN -1
        ELSE IF Len(packet) >= len THEN len ELSE -1

\* admit takes a datagram for RTCP on the RTP port.
LooksLikeRtcp(data) == data[2] % 128 \in 72 .. 76

-----------------------------------------------------------------------------
(* RTCP *)

RtcpTypes == 200 .. 204

parse_rtcp(data) ==
    IF Len(data) < 8 \/ Bits(data[1], 64, 4) # 2 \/ data[2] \notin RtcpTypes THEN NoHeader
    ELSE [packet_type |-> data[2], ssrc |-> SubSeq(data, 5, 8)]

Zeros(n) == [i \in 1 .. n |-> 0]
build_rtcp_sr(ssrc, packets, octets, rtp_ts) ==
    <<128, 200, 0, 6>> \o ssrc \o Zeros(8) \o rtp_ts \o packets \o octets

\* cumulative_lost goes out in 24 bits, beside the fraction's eight.
LossSpace == 16777216

LossWord(fraction, lost) ==
    <<fraction, (lost \div 65536) % 256, (lost \div 256) % 256, lost % 256>>

build_rtcp_rr(ssrc, remote, fraction, lost, highest, jitter) ==
    <<129, 201, 0, 7>> \o ssrc \o remote \o LossWord(fraction, lost) \o highest \o jitter \o Zeros(8)

build_rtcp_bye(ssrc) == <<129, 203, 0, 1>> \o ssrc

-----------------------------------------------------------------------------
(* A datagram is built, and may arrive cut short or with another first byte *)

VARIABLES
    built,     \* what was built, or NoHeader
    datagram,  \* the bytes
    intact     \* nothing has happened to them

wireVars == <<built, datagram, intact>>

WireInit == built = NoHeader /\ datagram = <<>> /\ intact = TRUE

BuildRtp(h, payload) ==
    /\ built = NoHeader
    /\ built' = [kind |-> "rtp", header |-> h, payload |-> payload]
    /\ datagram' = to_bytes(h) \o payload
    /\ UNCHANGED intact

BuildRtcp(kind, ssrc, remote, fraction, lost) ==
    /\ built = NoHeader
    /\ built' = [kind |-> kind, ssrc |-> ssrc, fraction |-> fraction, lost |-> lost]
    /\ datagram' = CASE kind = "sr" -> build_rtcp_sr(ssrc, remote, remote, remote)
                     [] kind = "rr" -> build_rtcp_rr(ssrc, remote, fraction, lost, remote, ssrc)
                     [] kind = "bye" -> build_rtcp_bye(ssrc)
    /\ UNCHANGED intact

Cut(n) ==
    /\ intact /\ n < Len(datagram)
    /\ datagram' = SubSeq(datagram, 1, n)
    /\ intact' = FALSE
    /\ UNCHANGED built

Garble(byte) ==
    /\ intact /\ datagram # <<>> /\ byte # datagram[1]
    /\ datagram' = [datagram EXCEPT ![1] = byte]
    /\ intact' = FALSE
    /\ UNCHANGED built

WireNext ==
    \/ \E h \in Headers, payload \in Payloads : BuildRtp(h, payload)
    \/ \E kind \in {"sr", "rr", "bye"}, ssrc, remote \in Ssrc, fraction \in {0, 255}, lost \in Losses :
          BuildRtcp(kind, ssrc, remote, fraction, lost)
    \/ \E n \in 0 .. 40 : Cut(n)
    \/ \E byte \in 0 .. 255 : Garble(byte)

-----------------------------------------------------------------------------
(* Properties *)

\* A report says what it is, whose and how long, its loss in 24 bits beside
\* the fraction; and sharing the RTP port it is known from RTP, unless the RTP
\* payload type is one of 72 to 76.
ReportAgreed ==
    IF built.kind = "rtp"
    THEN parse_rtcp(datagram) # NoHeader => LooksLikeRtcp(datagram)
    ELSE /\ LooksLikeRtcp(datagram)
         /\ parse_rtcp(datagram).ssrc = built.ssrc
         /\ Len(datagram) = 4 * (datagram[3] * 256 + datagram[4] + 1)
         /\ built.kind = "rr" =>
               /\ datagram[13] = built.fraction
               /\ (datagram[14] * 256 + datagram[15]) * 256 + datagram[16] = built.lost % LossSpace

\* What was built is what is parsed, and whatever arrives, header.rs and
\* srtp.rs read the same header off it: SRTP encrypts from exactly where the
\* parser finds the payload, and refuses exactly what it refuses.
WireAgreed ==
    /\ built # NoHeader /\ intact =>
          /\ ReportAgreed
          /\ built.kind = "rtp" =>
                parse_rtp(datagram) = [header |-> built.header, payload |-> built.payload]
    /\ datagram # <<>> /\ Bits(datagram[1], 64, 4) = 2 =>
          LET h == parse(datagram)
          IN  IF h = NoHeader THEN rtp_header_len(datagram) = -1
              ELSE rtp_header_len(datagram) = header_length(h)
=============================================================================
