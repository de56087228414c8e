---------------------------- MODULE CodecSession ----------------------------
(***************************************************************************)
(* The codec an SDP gives, src/codec/mod.rs, and the packets that are then *)
(* coded and decoded with it, by the framing of each codec.                *)
(*                                                                         *)
(* A session description is the sequence of its lines that matter:         *)
(*   [line |-> "audio", pts]            m=audio, its payload types         *)
(*   [line |-> "media"]                 another m= line                    *)
(*   [line |-> "rtpmap", pt, name, rate]                                   *)
(* A payload type over 255 is a token that does not parse as one, a rate   *)
(* of 0 one that does not parse.  The peer sends what it described: on     *)
(* each payload type the codec of its own rtpmap in the audio section, or  *)
(* of RFC 3551 without one.  Sample values are in G711 and G722; here a    *)
(* payload is its codec, its bytes and the samples it stands for.          *)
(***************************************************************************)
EXTENDS Integers, SequencesExt

CONSTANTS
    Descriptions,  \* the session descriptions a peer may send
    MaxPackets,    \* bound: packets sent
    Nothing        \* no codec

-----------------------------------------------------------------------------
(* The codecs *)

CodecType == {"Pcmu", "Pcma", "G729", "G722", "Opus"}

clock_rate == [c \in CodecType |-> IF c = "Opus" THEN 48000 ELSE 8000]
pcm_rate == [c \in CodecType |->
    CASE c = "Opus" -> 48000 [] c = "G722" -> 16000 [] OTHER -> 8000]

PacketMs == 20
pcm_samples_per_packet(c) == (pcm_rate[c] * PacketMs) \div 1000

\* A mutant: the timestamp advances by the samples of a packet.
TicksOfSamples(c) == pcm_samples_per_packet(c)

rtp_ticks_per_packet(c) == (clock_rate[c] * PacketMs) \div 1000

StaticTypes == [pt \in {0, 8, 18, 9, 111} |->
    CASE pt = 0 -> "Pcmu" [] pt = 8 -> "Pcma" [] pt = 18 -> "G729" [] pt = 9 -> "G722" [] pt = 111 -> "Opus"]
from_payload_type(pt) == IF pt \in DOMAIN StaticTypes THEN StaticTypes[pt] ELSE Nothing

Names == [Pcmu |-> {"pcmu", "g711u"}, Pcma |-> {"pcma", "g711a"}, G722 |-> {"g722", "g.722"},
          G729 |-> {"g729", "g.729", "g729a", "g.729a", "g729b", "g.729b"}, Opus |-> {"opus"}]
from_name(name) ==
    IF \E c \in CodecType : name \in Names[c]
    THEN CHOOSE c \in CodecType : name \in Names[c] ELSE Nothing

-----------------------------------------------------------------------------
(* The negotiation *)

Parses(pt) == pt <= 255

\* The payload types of the first audio section that has any, and tokens
\* between them that are passed over.
HasTypes(l) == l.line = "audio" /\ \E i \in DOMAIN l.pts : Parses(l.pts[i])
FirstAudio(sdp) == SelectInSeq(sdp, HasTypes)
Offered(sdp) == IF FirstAudio(sdp) = 0 THEN <<>> ELSE sdp[FirstAudio(sdp)].pts

\* The first rtpmap of the payload type that parses, anywhere in the text.
Maps(l, pt) == l.line = "rtpmap" /\ l.pt = pt /\ l.rate > 0
RtpmapOf(sdp, pt) == SelectInSeq(sdp, LAMBDA l : Maps(l, pt))

Mapped(name, rate) ==
    LET c == from_name(name)
    IN  IF c # Nothing /\ clock_rate[c] = rate THEN c ELSE Nothing

\* A mutant: a static payload type is taken by its number, whatever is mapped.
StaticFirst(sdp, pt) ==
    LET map == RtpmapOf(sdp, pt)
    IN  IF pt \in DOMAIN StaticTypes \/ map = 0 THEN from_payload_type(pt)
        ELSE Mapped(sdp[map].name, sdp[map].rate)

CodecOf(sdp, pt) ==
    LET map == RtpmapOf(sdp, pt)
    IN  IF map = 0 THEN from_payload_type(pt)
        ELSE Mapped(sdp[map].name, sdp[map].rate)

negotiate_codec_with_pt(sdp) ==
    LET offered == Offered(sdp)
        chosen  == SelectInSeq(offered, LAMBDA pt : Parses(pt) /\ CodecOf(sdp, pt) # Nothing)
    IN  IF chosen = 0 THEN Nothing
        ELSE [codec |-> CodecOf(sdp, offered[chosen]), pt |-> offered[chosen]]

\* negotiate_codec falls back to PCMU.
negotiate_codec(sdp) ==
    LET answer == negotiate_codec_with_pt(sdp)
    IN  IF answer = Nothing THEN "Pcmu" ELSE answer.codec

\* Line j is in the media section that line i opens, or is in.
InSection(sdp, i, j) ==
    i <= j /\ \A k \in i + 1 .. j : sdp[k].line \notin {"audio", "media"}

\* The codec the peer's first audio section gives a payload type, by the first
\* map if it has several.
PeerMeans(sdp, pt) ==
    LET maps == {j \in DOMAIN sdp : InSection(sdp, FirstAudio(sdp), j) /\ Maps(sdp[j], pt)}
        own  == {j \in maps : \A k \in maps : j <= k}
        Means(c) == IF maps = {} THEN pt \in DOMAIN StaticTypes /\ StaticTypes[pt] = c
                    ELSE \E j \in own : sdp[j].name \in Names[c] /\ sdp[j].rate = clock_rate[c]
    IN  IF \E c \in CodecType : Means(c) THEN CHOOSE c \in CodecType : Means(c)
        ELSE Nothing

Line == [line : {"audio"}, pts : Seq(Nat)] \cup [line : {"media"}] \cup
        [line : {"rtpmap"}, pt : Nat, name : STRING, rate : Nat]

ASSUME DescriptionsAssumption == Descriptions \subseteq Seq(Line)

ASSUME NothingAssumption ==
    /\ Nothing \notin CodecType /\ Nothing \notin Descriptions
    /\ \A c \in CodecType, pt \in 0 .. 255 : Nothing # [codec |-> c, pt |-> pt]

-----------------------------------------------------------------------------
(* Framing: the payload of n samples and the samples of a payload *)

ValidFrameLengths == {120, 240, 480, 960, 1920, 2880}

\* G.729 in frames of ten bytes; what is left of the last frame is dropped.
G729Encode(n) == [codec |-> "G729", bytes |-> (n \div 80) * 10, samples |-> n]
G729Decode(payload) == (payload.bytes \div 10) * 80

\* Opus refuses what is no frame; another codec's packet is an error.
OpusEncode(n) ==
    [codec |-> "Opus", bytes |-> IF n \in ValidFrameLengths THEN 80 ELSE 0,
     samples |-> IF n \in ValidFrameLengths THEN n ELSE 0]
OpusDecode(payload) == IF payload.codec = "Opus" THEN payload.samples ELSE 0

\* The encoder of create_encoder, holding nothing, and of create_decoder how
\* many samples come out of the decoder.
Encode(c, n) ==
    CASE c \in {"Pcmu", "Pcma"} -> [codec |-> c, bytes |-> n, samples |-> n]
      [] c = "G722" -> [codec |-> c, bytes |-> n \div 2, samples |-> n]
      [] c = "G729" -> G729Encode(n)
      [] c = "Opus" -> OpusEncode(n)

Decode(c, payload) ==
    CASE c \in {"Pcmu", "Pcma"} -> payload.bytes
      [] c = "G722" -> payload.bytes * 2
      [] c = "G729" -> G729Decode(payload)
      [] c = "Opus" -> OpusDecode(payload)

\* AudioDecoder::conceal_loss: silence, FEC or extrapolation, of as many.
conceal_loss(c, samples) == samples

-----------------------------------------------------------------------------
(* A call *)

VARIABLES
    sdp,        \* what the peer described, or Nothing
    config,     \* what was negotiated
    timestamp,  \* the peer's RTP timestamp
    sent,       \* packets it has sent
    arriving,   \* packets on their way, in order
    next,       \* the sequence number to be played next
    frames,     \* the samples of each frame played, before it is resized
    codecs      \* history: the codecs packets were coded with and decoded with

codecVars == <<sdp, config, timestamp, sent, arriving, next, frames, codecs>>

CodecInit ==
    /\ sdp = Nothing /\ config = Nothing
    /\ timestamp = 0 /\ sent = 0 /\ arriving = <<>>
    /\ next = 0 /\ frames = <<>> /\ codecs = {}

Negotiate(description) ==
    /\ sdp = Nothing
    /\ sdp' = description
    /\ config' = negotiate_codec_with_pt(description)
    /\ UNCHANGED <<timestamp, sent, arriving, next, frames, codecs>>

\* The peer's StreamCore::packetize, on the payload type that was agreed, if
\* that means a codec of this end to the peer.
Packetize ==
    /\ config # Nothing /\ sent < MaxPackets
    /\ PeerMeans(sdp, config.pt) # Nothing
    /\ LET codec == PeerMeans(sdp, config.pt)
       IN  /\ arriving' = Append(arriving,
                 [seq |-> sent, ts |-> timestamp,
                  payload |-> Encode(codec, pcm_samples_per_packet(codec))])
           /\ timestamp' = timestamp + rtp_ticks_per_packet(codec)
    /\ sent' = sent + 1
    /\ UNCHANGED <<sdp, config, next, frames, codecs>>

Lose ==
    /\ arriving # <<>>
    /\ arriving' = Tail(arriving)
    /\ UNCHANGED <<sdp, config, timestamp, sent, next, frames, codecs>>

\* StreamCore::playout: a lost packet is concealed, the next one decoded.
Playout ==
    /\ arriving # <<>>
    /\ LET packet == Head(arriving)
           codec  == config.codec
       IN  IF packet.seq > next
           THEN /\ frames' = Append(frames, conceal_loss(codec, pcm_samples_per_packet(codec)))
                /\ UNCHANGED <<arriving, codecs>>
           ELSE /\ frames' = Append(frames, Decode(codec, packet.payload))
                /\ codecs' = codecs \cup {<<packet.payload.codec, codec>>}
                /\ arriving' = Tail(arriving)
    /\ next' = next + 1
    /\ UNCHANGED <<sdp, config, timestamp, sent>>

CodecNext ==
    \/ \E description \in Descriptions : Negotiate(description)
    \/ Packetize
    \/ Lose
    \/ Playout

-----------------------------------------------------------------------------
(* Properties *)

\* The text is searched for the rtpmap of an offered payload type from the top,
\* and finds that of another media section.
Shadowed(description) ==
    LET offered == Offered(description)
    IN  \E i \in DOMAIN offered :
           LET map == RtpmapOf(description, offered[i])
           IN  /\ Parses(offered[i]) /\ map # 0
               /\ ~InSection(description, FirstAudio(description), map)

\* What the peer described is free of that.
Clear == sdp = Nothing \/ ~Shadowed(sdp)

\* The codec and payload type chosen are the peer's first preference that this
\* end has, as the peer's own audio section means them, and none is chosen
\* only when there is none ("the first mutually supported codec"); every
\* packet is decoded by the codec it was coded with: unless another section's
\* rtpmap shadows the audio section's.
PeersAgree ==
    Clear =>
        /\ sdp # Nothing =>
              LET offered == Offered(sdp)
                  Common  == {i \in DOMAIN offered :
                                 Parses(offered[i]) /\ PeerMeans(sdp, offered[i]) # Nothing}
              IN  IF config = Nothing THEN Common = {} /\ negotiate_codec(sdp) = "Pcmu"
                  ELSE \E i \in Common : /\ \A j \in Common : i <= j
                                         /\ config.pt = offered[i]
                                         /\ config.codec = PeerMeans(sdp, offered[i])
        /\ \A pair \in codecs : pair[1] = pair[2]

\* What is played keeps the time of the RTP timestamps: no frame of a peer is
\* cut or padded, and when a packet's turn comes exactly the samples have been
\* played that its timestamp says, packets lost before it included (again
\* unless an rtpmap is shadowed).
AudioKeepsTime ==
    Clear /\ config # Nothing =>
        LET c == config.codec
        IN  /\ \A i \in DOMAIN frames : frames[i] = pcm_samples_per_packet(c)
            /\ \A i \in DOMAIN arriving :
                   arriving[i].seq = next =>
                       arriving[i].ts * pcm_rate[c]
                           = Len(frames) * pcm_samples_per_packet(c) * clock_rate[c]
=============================================================================
