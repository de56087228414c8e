--------------------------- MODULE PlayoutProofs ----------------------------
(***************************************************************************)
(* What the jitter buffer's users get of it, for every capacity and every  *)
(* width of its integers: a headless stream buffers only its peer's audio, *)
(* a stream that does not restart is played once and in order, and one     *)
(* that does is heard again within three buffers' worth of packets.        *)
(***************************************************************************)
EXTENDS StreamReceive, JitterStream, JitterBufferProofs

-----------------------------------------------------------------------------
(* The headless stream *)

\* A packet of the peer: its SSRC, its address, authenticated if need be.
FromPeer(ts) ==
    /\ ts \in DOMAIN origin
    /\ ts \div SeqSpace = remote_ssrc
    /\ origin[ts].from = latched
    /\ keyed => origin[ts].genuine

\* MediaBelongs is inductive once it is known that nothing is buffered before
\* there is a peer.
PeerInv ==
    /\ \A k \in Keys : FromPeer(packets[k])
    /\ latched = None \/ remote_ssrc = None => Keys = {}
    /\ latched # None /\ ~keyed => latched \in SdpHost

\* A timestamp names its SSRC.
LEMMA StampNames ==
    ASSUME NEW s \in Nat, NEW q \in SeqNumber
    PROVE  (s * SeqSpace + q) \div SeqSpace = s
<1>1. SeqSpace \in Nat \ {0} /\ q \in 0 .. SeqSpace - 1
  BY SpaceAssumption DEF SeqNumber
<1> QED BY ONLY s \in Nat, <1>1, SMTT(30)

\* Making room adds nothing.
LEMMA RoomWithin == ASSUME NEW K PROVE MadeRoom(K) \subseteq K
BY DEF MadeRoom

\* What a step leaves in the buffer was there, or has just been pushed.
LEMMA PushKeeps ==
    ASSUME NEW seq, NEW ts, Push(seq, ts)
    PROVE  \A k \in Keys' : packets'[k] = ts \/ (k \in Keys /\ packets'[k] = packets[k])
<1>1. CASE PushLate(seq, ts)
  BY <1>1 DEF PushLate, Keys
<1>2. CASE PushBuffered(seq, ts)
  <2> DEFINE before == IF IsRestart(extend_seq(seq)) THEN {} ELSE Keys
  <2>1. packets' = [k \in MadeRoom(before) \cup {extend_seq(seq)} |->
                       IF k = extend_seq(seq) THEN ts ELSE packets[k]]
    BY <1>2 DEF PushBuffered
  <2>2. MadeRoom(before) \subseteq Keys
    BY RoomWithin
  <2> HIDE DEF before
  <2> QED BY <2>1, <2>2 DEF Keys
<1> QED BY <1>1, <1>2 DEF Push

\* Nothing is buffered at first.
LEMMA PeerInit == ReceiveInit => PeerInv
BY DEF ReceiveInit, Init, PeerInv, Keys

\* Dropped datagrams and playout add nothing and change nobody.
LEMMA PeerFrame ==
    ASSUME PeerInv, UNCHANGED <<keyed, latched, remote_ssrc, origin>>,
           \A k \in Keys' : k \in Keys /\ packets'[k] = packets[k]
    PROVE  PeerInv'
BY DEF PeerInv, FromPeer

\* Only the peer's packets are pushed.
LEMMA PeerIngest == ASSUME PeerInv, NEW d \in Arriving, ingest(d) PROVE PeerInv'
<1>0. d.ssrc \in Nat /\ d.seq \in SeqNumber /\ d.from \in Addresses /\ d.from # None
  BY ReceiveAssumption DEF Arriving, Datagram
<1>1. CASE DropMalformed(d) \/ DropMuxed(d) \/ DropSource(d) \/ DropSrtp(d) \/ DropPayload(d)
  BY <1>1, PeerFrame
     DEF DropMalformed, DropMuxed, DropSource, DropSrtp, DropPayload, Dropped, vars, peer, Keys
<1>2. ASSUME Trusted(d)
      PROVE  /\ latched' = d.from /\ (latched # None => latched = d.from)
             /\ ~keyed => d.from \in SdpHost
             /\ keyed => d.genuine
             /\ remote_ssrc' = d.ssrc /\ keyed' = keyed
  <2>1. latched # None /\ ~keyed => latched \in SdpHost
    BY DEF PeerInv
  <2> QED BY <1>2, <2>1 DEF Trusted, Decrypts, Reaches, Untrusted
<1>3. d.ssrc # None /\ (~SsrcChanged(d) => remote_ssrc = None \/ remote_ssrc = d.ssrc)
  BY <1>0, NoneAssumption DEF SsrcChanged
<1>4. CASE IngestAudio(d)
  <2>1. /\ latched' = d.from /\ (latched # None => latched = d.from)
        /\ (~keyed => d.from \in SdpHost) /\ (keyed => d.genuine)
        /\ remote_ssrc' = d.ssrc /\ keyed' = keyed
    BY <1>2, <1>4 DEF IngestAudio
  <2>2. \A k \in Keys' : packets'[k] = Stamp(d)
              \/ (~SsrcChanged(d) /\ k \in Keys /\ packets'[k] = packets[k])
    <3>1. CASE SsrcChanged(d)
      BY <1>4, <3>1 DEF IngestAudio, PushAfterReset, Keys
    <3>2. CASE ~SsrcChanged(d)
      BY <1>4, <3>2, PushKeeps DEF IngestAudio
    <3> QED BY <3>1, <3>2
  <2>3. Stamp(d) \div SeqSpace = d.ssrc
    BY <1>0, StampNames DEF Stamp
  <2>4. FromPeer(Stamp(d))'
    BY <1>4, <2>1, <2>3 DEF IngestAudio, FromPeer, Stamp
  <2>5. ASSUME NEW k \in Keys'
        PROVE  FromPeer(packets[k])'
    <3>1. CASE packets'[k] = Stamp(d)
      BY <2>4, <3>1 DEF FromPeer, Stamp
    <3>2. CASE ~SsrcChanged(d) /\ k \in Keys /\ packets'[k] = packets[k]
      <4>1. FromPeer(packets[k]) /\ latched # None /\ remote_ssrc # None
        BY <3>2 DEF PeerInv
      <4> DEFINE ts == packets[k]
      <4>2. FromPeer(ts) /\ packets'[k] = ts
        BY <3>2, <4>1
      <4>3. /\ ts \in DOMAIN origin' /\ ts \div SeqSpace = remote_ssrc'
            /\ origin'[ts].from = latched' /\ (keyed' => origin'[ts].genuine)
        BY <1>3, <1>4, <2>1, <3>2, <4>1 DEF IngestAudio, FromPeer
      <4> QED BY <4>2, <4>3 DEF FromPeer
    <3> QED BY <2>2, <3>1, <3>2
  <2> QED BY <1>0, <1>3, <2>1, <2>5 DEF PeerInv
<1>5. CASE IngestDtmf(d)
  <2>1. /\ latched' = d.from /\ (latched # None => latched = d.from)
        /\ (~keyed => d.from \in SdpHost) /\ origin' = origin
        /\ remote_ssrc' = d.ssrc /\ keyed' = keyed
    BY <1>2, <1>5 DEF IngestDtmf
  <2>2. CASE SsrcChanged(d)
    <3>1. Keys' = {}
      BY <1>5, <2>2 DEF IngestDtmf, reset, Keys
    <3> QED BY <2>1, <3>1 DEF PeerInv
  <2>3. CASE ~SsrcChanged(d)
    <3>1. packets' = packets /\ Keys' = Keys
      BY <1>5, <2>3 DEF IngestDtmf, vars, Keys
    <3> QED BY <1>0, <1>3, <2>1, <2>3, <3>1 DEF PeerInv, FromPeer
  <2> QED BY <2>2, <2>3
<1> QED BY <1>1, <1>4, <1>5 DEF ingest

\* Every step of the stream keeps it.
LEMMA PeerNext == PeerInv /\ [ReceiveNext]_receiveVars => PeerInv'
<1> SUFFICES ASSUME PeerInv, [ReceiveNext]_receiveVars PROVE PeerInv'
  OBVIOUS
<1>1. CASE UNCHANGED receiveVars
  BY <1>1, PeerFrame DEF receiveVars, vars, peer, Keys
<1>2. CASE playout
  <2>1. \A k \in Keys' : k \in Keys /\ packets'[k] = packets[k]
    BY <1>2 DEF playout, Pop, PopPacket, PopLost, PopNothing, Keys
  <2> QED BY <1>2, <2>1, PeerFrame DEF playout
<1>3. CASE TimePasses
  BY <1>3, PeerFrame DEF TimePasses, peer, Keys
<1> QED BY <1>1, <1>2, <1>3, PeerIngest DEF ReceiveNext

\* Whatever arrives from whomever: what waits to be played is the peer's.
THEOREM PeerAlone == ReceiveSpec => []MediaBelongs
<1>1. PeerInv => MediaBelongs
  BY DEF PeerInv, FromPeer, MediaBelongs
<1> QED BY <1>1, PeerInit, PeerNext, PTL DEF ReceiveSpec

-----------------------------------------------------------------------------
(* A stream that does not restart *)

\* The conditions under which the buffer can tell where a packet belongs: none
\* arrives a buffer's worth late; the key does not wrap; and packets arrive in
\* order with small gaps, or the sequence number does not roll over.
InSequence(w) == w.reorder = 0 /\ w.gap + 1 < SeqSpace \div 2
NoRollover(w) == w.first + w.numbers < SeqSpace /\ w.numbers <= SeqSpace \div 2
Orderly(w) ==
    /\ w.reorder < discontinuity
    /\ w.first + w.numbers + 1 < SeqSpace * CycleSpace
    /\ InSequence(w) \/ NoRollover(w)

\* Cycles the sender's sequence has been through at a packet.
CyclesAt(number) == (net.first + number) \div SeqSpace

\* The key a packet gets: its place in the sender's sequence, counted from the
\* cycle of the first packet received, which is base.
Offset(base) == CyclesAt(base) * SeqSpace
KeyFrom(base, number) == (net.first + number) - Offset(base)
KeyOf(number) == KeyFrom(base_timestamp, number)

\* What extend_seq knows of the sender's sequence: its place at the newest
\* packet or, where the sequence does not roll over, that it has not.
Located ==
    IF InSequence(net)
    THEN /\ base_timestamp <= newest
         /\ last_seq = (net.first + newest) % SeqSpace
         /\ seq_cycles = CyclesAt(newest) - CyclesAt(base_timestamp)
    ELSE /\ seq_cycles = 0
         /\ last_seq \in net.first .. net.first + net.numbers

\* Keys are in sending order, and playout is past what was played and not past
\* what was received.
Placed ==
    /\ base_timestamp \in 0 .. net.numbers
    /\ \A k \in Keys : k = KeyOf(packets[k]) /\ packets[k] <= newest
    /\ playout_seq # None => /\ playout_seq <= KeyOf(newest) + 1
                             /\ KeyOf(lastPlayed) < playout_seq
    /\ playout_seq = None => lastPlayed = -1

Fresh ==
    /\ base_timestamp = None /\ Keys = {} /\ playout_seq = None /\ seq_cycles = 0
    /\ lastPlayed = -1

\* The inductive invariant, beside the buffer's own.
SteadyInv ==
    /\ net \in Networks
    /\ Steady =>
         /\ IInv
         /\ first_seq = net.first /\ restarts = 0 /\ oldest = 0
         /\ newest \in -1 .. net.numbers /\ lastPlayed \in -1 .. net.numbers
         /\ IF newest = -1 THEN Fresh ELSE Located /\ Placed

\* The conditions of a network are numbers within their bounds.
LEMMA NetTypes ==
    ASSUME net \in Networks
    PROVE  /\ net.first \in Nat /\ net.first < SeqSpace
           /\ net.reorder \in Nat /\ net.gap \in Nat /\ net.numbers \in Nat
           /\ net.numbers < TsSpace /\ SeqSpace \in Nat \ {0} /\ CycleSpace \in Nat \ {0}
           /\ discontinuity \in Nat \ {0}
<1>1. /\ SeqSpace \in Nat \ {0} /\ CycleSpace \in Nat \ {0} /\ TsSpace \in Nat
      /\ MaxNumber \in Nat /\ MaxNumber < TsSpace /\ MaxPackets \in Nat
  BY SpaceAssumption, StreamAssumption, ConfigAssumption
<1>2. net \in Network
  BY StreamAssumption
<1>3. /\ net.first \in SeqNumber /\ net.numbers \in 0 .. MaxNumber
      /\ net.reorder \in Nat /\ net.gap \in Nat
  BY <1>2 DEF Network
<1> QED BY <1>1, <1>3 DEF SeqNumber, discontinuity

\* Quotient and remainder by the number of sequence numbers.
LEMMA SeqDivision ==
    ASSUME NEW x \in Nat, NEW q, NEW r, q = x \div SeqSpace, r = x % SeqSpace
    PROVE  /\ q \in Nat /\ r \in Nat /\ r < SeqSpace
           /\ q * SeqSpace \in Nat /\ x = q * SeqSpace + r
<1>1. SeqSpace \in Nat \ {0}
  BY SpaceAssumption
<1>2. q \in Nat /\ r \in 0 .. SeqSpace - 1
  BY <1>1
<1>3. x = q * SeqSpace + r
  BY <1>1, SMTT(30)
<1>4. q * SeqSpace \in Nat
  BY <1>1, <1>2
<1> QED BY <1>1, <1>2, <1>3, <1>4

\* Less than half the sequence numbers further, the sequence has not rolled
\* over and moved on by as much, or it has, once, and fell back by the rest.
LEMMA RolledOnce ==
    ASSUME NEW a \in Nat, NEW qa, NEW ra, qa = a \div SeqSpace, ra = a % SeqSpace,
           NEW b \in Nat, NEW qb, NEW rb, qb = b \div SeqSpace, rb = b % SeqSpace,
           NEW h, h = SeqSpace \div 2, a <= b, b - a < h
    PROVE  \/ qb = qa /\ rb - ra = b - a
           \/ qb = qa + 1 /\ ra - rb > h
<1> DEFINE s == SeqSpace
           m == qb - qa
<1>1. s \in Nat \ {0} /\ h \in Nat /\ h + h <= s
  BY SpaceAssumption
<1>2. /\ qa \in Nat /\ ra \in Nat /\ ra < s /\ a = qa * s + ra
      /\ qb \in Nat /\ rb \in Nat /\ rb < s /\ b = qb * s + rb
  BY SeqDivision
<1> HIDE DEF s
<1>3. m \in Int /\ m * s = (b - a) - (rb - ra)
  BY ONLY <1>1, <1>2, SMTT(30)
<1>4. m * s > -s /\ m * s < s + s
  BY <1>1, <1>2, <1>3
<1>5. m = 0 \/ m = 1
  <2>0. s \in Int /\ s > 0 /\ m \in Int
    BY <1>1, <1>3
  <2> HIDE DEF m
  <2>1. m <= -1 => m * s <= -s
    BY ONLY <2>0, SMTT(30)
  <2>2. m >= 2 => m * s >= s + s
    BY ONLY <2>0, SMTT(30)
  <2>3. m * s \in Int
    BY ONLY <2>0
  <2>4. ~(m <= -1)
    BY ONLY <2>0, <2>1, <2>3, <1>4
  <2>5. ~(m >= 2)
    BY ONLY <2>0, <2>2, <2>3, <1>4
  <2> QED BY ONLY <2>0, <2>4, <2>5
<1>6. CASE m = 0
  <2>1. m * s = 0
    BY <1>1, <1>6
  <2> QED BY <1>2, <1>3, <1>6, <2>1
<1>7. CASE m = 1
  <2>1. qb = qa + 1 /\ s = (b - a) - (rb - ra)
    BY <1>1, <1>2, <1>3, <1>7
  <2> QED BY <1>1, <1>2, <2>1
<1> QED BY <1>5, <1>6, <1>7

\* The numbering within the key's width never uses its last cycle count up.
LEMMA CyclesInWidth ==
    ASSUME net \in Networks, Orderly(net), NEW n \in 0 .. net.numbers
    PROVE  CyclesAt(n) \in Nat /\ CyclesAt(n) < CycleSpace
<1>1. /\ net.first \in Nat /\ net.numbers \in Nat
      /\ SeqSpace \in Nat \ {0} /\ CycleSpace \in Nat \ {0}
  BY NetTypes
<1> DEFINE x == net.first + n
           q == CyclesAt(n)
<1>2. x \in Nat /\ x < SeqSpace * CycleSpace
  <2>1. SeqSpace * CycleSpace \in Nat
    BY <1>1
  <2> QED BY <1>1, <2>1 DEF Orderly
<1>3. q \in Nat /\ q * SeqSpace <= x
  <2>1. q = x \div SeqSpace
    BY DEF CyclesAt
  <2> HIDE DEF x, q
  <2>2. PICK r : r = x % SeqSpace
    OBVIOUS
  <2>3. q \in Nat /\ q * SeqSpace \in Nat /\ x = q * SeqSpace + r /\ r \in Nat
    BY <1>2, <2>1, <2>2, SeqDivision
  <2> QED BY <2>3
<1> HIDE DEF x, q
<1>4. ASSUME q >= CycleSpace PROVE FALSE
  <2>1. q * SeqSpace >= CycleSpace * SeqSpace
    BY ONLY <1>1, <1>3, <1>4, SMTT(30)
  <2>2. q * SeqSpace \in Nat /\ CycleSpace * SeqSpace \in Nat
        /\ CycleSpace * SeqSpace = SeqSpace * CycleSpace
    BY ONLY <1>1, <1>3, SMTT(30)
  <2> QED BY <1>2, <1>3, <2>1, <2>2
<1> QED BY <1>1, <1>3, <1>4 DEF q

\* A sequence that does not roll over stays in its first cycle.
LEMMA RolledNever ==
    ASSUME net \in Networks, NoRollover(net), NEW m \in 0 .. net.numbers
    PROVE  CyclesAt(m) = 0 /\ (net.first + m) % SeqSpace = net.first + m
<1>1. net.first \in Nat /\ net.numbers \in Nat /\ SeqSpace \in Nat \ {0}
  BY NetTypes
<1>2. net.first + m \in 0 .. SeqSpace - 1
  BY <1>1 DEF NoRollover
<1> QED BY <1>1, <1>2 DEF CyclesAt

\* The first packet's timestamp once a packet has arrived.
BaseWith(number) == IF base_timestamp = None THEN number ELSE base_timestamp

\* What the proofs below assume of a state: a stream that does not restart,
\* under conditions the buffer can cope with, and the packets that may arrive.
OrderlyState == SteadyInv /\ Steady /\ Orderly(net)

LEMMA ArrivalTypes ==
    ASSUME OrderlyState, NEW n \in Arrivals
    PROVE  /\ n \in Nat /\ n <= net.numbers /\ newest \in Int /\ newest >= -1
           /\ newest - n <= net.reorder /\ n - newest <= net.gap + 1
           /\ BaseWith(n) \in Nat /\ BaseWith(n) <= net.numbers
           /\ SeqOf(n) = (net.first + n) % SeqSpace
           /\ newest = -1 <=> base_timestamp = None
<1>1. /\ net.reorder \in Nat /\ net.gap \in Nat /\ net.numbers \in Nat
  BY NetTypes DEF OrderlyState, SteadyInv
<1>2. first_seq = net.first /\ oldest = 0 /\ newest \in -1 .. net.numbers
  BY DEF OrderlyState, SteadyInv
<1>3. n \in 0 .. net.numbers /\ n >= newest - net.reorder /\ n <= newest + 1 + net.gap
  BY <1>2 DEF Arrivals
<1>4. newest # -1 => base_timestamp \in 0 .. net.numbers
  BY DEF OrderlyState, SteadyInv, Placed
<1>5. newest = -1 => base_timestamp = None
  BY DEF OrderlyState, SteadyInv, Fresh
<1>6. newest = -1 <=> base_timestamp = None
  BY <1>1, <1>4, <1>5, NoneAssumption
<1> QED BY <1>1, <1>2, <1>3, <1>4, <1>6 DEF BaseWith, SeqOf

\* extend_seq finds the cycle of every packet that may arrive, through losses,
\* copies and rollovers.
LEMMA CyclesFound ==
    ASSUME OrderlyState, NEW n \in Arrivals
    PROVE  ExtendedCycles(PreviousSeq(SeqOf(n)), SeqOf(n)) = CyclesAt(n) - CyclesAt(BaseWith(n))
<1> DEFINE f == net.first
           h == SeqSpace \div 2
           qn == (f + n) \div SeqSpace
           rn == (f + n) % SeqSpace
<1>1. /\ n \in Nat /\ n <= net.numbers /\ newest \in Int /\ newest >= -1
      /\ newest - n <= net.reorder /\ n - newest <= net.gap + 1
      /\ BaseWith(n) \in Nat /\ BaseWith(n) <= net.numbers
      /\ SeqOf(n) = rn /\ (newest = -1 <=> base_timestamp = None)
  BY ArrivalTypes
<1>2. /\ f \in Nat /\ f < SeqSpace /\ net.reorder \in Nat /\ net.gap \in Nat
      /\ net.numbers \in Nat /\ SeqSpace \in Nat \ {0} /\ CycleSpace \in Nat \ {0}
  BY NetTypes DEF OrderlyState, SteadyInv
<1>3. h \in Nat /\ qn = CyclesAt(n)
  BY <1>2 DEF CyclesAt
<1>4. qn \in Nat /\ rn \in Nat /\ rn < SeqSpace
  <2>1. f + n \in Nat
    BY <1>1, <1>2
  <2> HIDE DEF f
  <2> QED BY <2>1, SeqDivision
<1>5. qn < CycleSpace /\ CyclesAt(BaseWith(n)) \in Nat
  <2>1. n \in 0 .. net.numbers /\ BaseWith(n) \in 0 .. net.numbers
    BY <1>1, <1>2
  <2> QED BY <1>3, <2>1, CyclesInWidth DEF OrderlyState, SteadyInv
<1>6. CASE newest = -1
  <2>1. base_timestamp = None /\ seq_cycles = 0 /\ BaseWith(n) = n
    BY <1>6 DEF OrderlyState, SteadyInv, Fresh, BaseWith
  <2>2. PreviousSeq(SeqOf(n)) = rn
    BY <1>1, <2>1 DEF PreviousSeq
  <2>3. ExtendedCycles(rn, rn) = 0
    <3> HIDE DEF rn
    <3> QED BY <1>2, <1>3, <1>4, <2>1 DEF ExtendedCycles
  <2> HIDE DEF rn, qn
  <2> QED BY <1>1, <1>3, <1>4, <2>1, <2>2, <2>3
<1>7. CASE newest # -1 /\ InSequence(net)
  <2>1. /\ base_timestamp <= newest /\ last_seq = (f + newest) % SeqSpace
        /\ seq_cycles = CyclesAt(newest) - CyclesAt(base_timestamp)
        /\ BaseWith(n) = base_timestamp /\ PreviousSeq(SeqOf(n)) = last_seq
    BY <1>1, <1>7 DEF OrderlyState, SteadyInv, Located, BaseWith, PreviousSeq
  <2>2. newest \in Nat /\ newest <= n /\ n - newest < h
    BY <1>1, <1>2, <1>3, <1>7 DEF InSequence
  <2> DEFINE a == f + newest
             qa == a \div SeqSpace
             ra == a % SeqSpace
  <2>3. a \in Nat /\ f + n \in Nat /\ a <= f + n /\ (f + n) - a < h
    BY <1>1, <1>2, <1>3, <2>2
  <2>4. \/ qn = qa /\ rn - ra = (f + n) - a
        \/ qn = qa + 1 /\ ra - rn > h
    <3> HIDE DEF a, f
    <3>1. PICK b \in Nat : b = f + n
      BY <2>3
    <3>2. qn = b \div SeqSpace /\ rn = b % SeqSpace /\ b - a < h /\ a <= b
      BY <2>3, <3>1
    <3> HIDE DEF qn, rn, h
    <3> HIDE DEF qa, ra
    <3>3. \/ qn = qa /\ rn - ra = b - a
          \/ qn = qa + 1 /\ ra - rn > h
      BY <2>3, <3>2, RolledOnce DEF qa, ra, h
    <3> QED BY <3>1, <3>3
  <2>5. qa \in Nat /\ ra \in Nat /\ qa = CyclesAt(newest) /\ last_seq = ra
    <3>1. qa = CyclesAt(newest) /\ last_seq = ra
      BY <2>1 DEF CyclesAt
    <3>2. qa \in Nat /\ ra \in Nat
      <4> HIDE DEF a
      <4> QED BY <2>3, SeqDivision
    <3> QED BY <3>1, <3>2
  <2> DEFINE c == CyclesAt(base_timestamp)
  <2>6. c \in Nat /\ seq_cycles = qa - c /\ seq_cycles \in Nat
    <3>1. c \in Nat /\ seq_cycles = qa - c
      BY <1>5, <2>1, <2>5
    <3>2. seq_cycles \in Nat
      BY DEF OrderlyState, SteadyInv, IInv, TypeOK, Cycle
    <3> QED BY <3>1, <3>2
  <2>7. (f + n) - a \in Nat
    BY <2>3
  <2> HIDE DEF f, a, qn, rn, qa, ra, h, c
  <2>8. ExtendedCycles(ra, rn) = qn - c
    <3>1. CASE qn = qa /\ rn - ra = (f + n) - a
      <4>1. ~(ra - rn > h) /\ ~(rn - ra > h)
        BY <1>3, <1>4, <2>3, <2>5, <2>7, <3>1
      <4>2. ExtendedCycles(ra, rn) = seq_cycles
        BY <4>1 DEF ExtendedCycles, h
      <4> QED BY <2>6, <3>1, <4>2
    <3>2. CASE qn = qa + 1 /\ ra - rn > h
      <4>1. ExtendedCycles(ra, rn) = (seq_cycles + 1) % CycleSpace
        BY <3>2 DEF ExtendedCycles, h
      <4>2. seq_cycles + 1 = qn - c /\ seq_cycles + 1 \in 0 .. CycleSpace - 1
        BY <1>2, <1>4, <1>5, <2>5, <2>6, <3>2
      <4> QED BY <1>2, <4>1, <4>2
    <3> QED BY <2>4, <3>1, <3>2
  <2> QED BY <1>1, <1>3, <2>1, <2>5, <2>8 DEF c
<1>8. CASE newest # -1 /\ ~InSequence(net)
  <2>1. NoRollover(net)
    BY <1>8 DEF OrderlyState, Orderly
  <2>2. /\ seq_cycles = 0 /\ last_seq \in f .. f + net.numbers
        /\ PreviousSeq(SeqOf(n)) = last_seq
    BY <1>1, <1>8 DEF OrderlyState, SteadyInv, Located, PreviousSeq
  <2>3. n \in 0 .. net.numbers /\ BaseWith(n) \in 0 .. net.numbers
    BY <1>1, <1>2
  <2>4. rn = f + n /\ CyclesAt(n) = 0 /\ CyclesAt(BaseWith(n)) = 0
    BY <2>1, <2>3, RolledNever DEF OrderlyState, SteadyInv
  <2> HIDE DEF rn
  <2>5. ~(last_seq - rn > h) /\ ~(rn - last_seq > h)
    <3>1. net.numbers <= h
      BY <2>1 DEF NoRollover
    <3> HIDE DEF f, h
    <3> QED BY <1>1, <1>2, <1>3, <2>2, <2>4, <3>1
  <2>6. ExtendedCycles(last_seq, rn) = 0
    BY <2>2, <2>5 DEF ExtendedCycles
  <2> QED BY <1>1, <2>2, <2>4, <2>6
<1> QED BY <1>6, <1>7, <1>8

\* So every packet gets the key of its place in the sender's sequence.
LEMMA KeyExact ==
    ASSUME OrderlyState, NEW n \in Arrivals
    PROVE  extend_seq(SeqOf(n)) = KeyFrom(BaseWith(n), n)
<1> DEFINE x == net.first + n
           q == CyclesAt(n)
           r == SeqOf(n)
           c == CyclesAt(BaseWith(n))
<1>1. n \in Nat /\ r = x % SeqSpace /\ BaseWith(n) \in 0 .. net.numbers /\ n \in 0 .. net.numbers
  <2>1. net.numbers \in Nat
    BY NetTypes DEF OrderlyState, SteadyInv
  <2> QED BY <2>1, ArrivalTypes
<1>2. x \in Nat /\ SeqSpace \in Nat /\ net.first \in Nat
  BY <1>1, NetTypes DEF OrderlyState, SteadyInv
<1>3. q = x \div SeqSpace
  BY DEF CyclesAt
<1>4. c \in Nat
  BY <1>1, CyclesInWidth DEF OrderlyState, SteadyInv
<1>5. extend_seq(r) = (q - c) * SeqSpace + r
  BY CyclesFound DEF extend_seq
<1>6. KeyFrom(BaseWith(n), n) = x - c * SeqSpace
  BY DEF KeyFrom, Offset
<1> HIDE DEF x, q, r, c
<1>7. q \in Nat /\ r \in Nat /\ q * SeqSpace \in Nat /\ x = q * SeqSpace + r
  <2>1. x \in Nat /\ q = x \div SeqSpace /\ r = x % SeqSpace
    BY <1>1, <1>2, <1>3
  <2>2. r \in Nat /\ q * SeqSpace \in Nat
    BY <2>1, SeqDivision
  <2>3. q \in Nat /\ x = q * SeqSpace + r
    BY <2>1, SeqDivision
  <2> QED BY <2>2, <2>3
<1>8. (q - c) * SeqSpace = q * SeqSpace - c * SeqSpace /\ c * SeqSpace \in Nat
  BY <1>2, <1>4, <1>7, SMTT(30)
<1>9. (q - c) * SeqSpace + r = x - c * SeqSpace
  BY <1>2, <1>7, <1>8
<1>10. extend_seq(r) = KeyFrom(BaseWith(n), n)
  BY <1>5, <1>6, <1>9
<1> QED BY <1>10 DEF r

\* Keys count from a multiple of the sequence space.
LEMMA OffsetType ==
    ASSUME OrderlyState, newest # -1
    PROVE  Offset(base_timestamp) \in Nat /\ base_timestamp # None
<1>1. base_timestamp \in 0 .. net.numbers /\ SeqSpace \in Nat /\ net.numbers \in Nat
  BY NetTypes DEF OrderlyState, SteadyInv, Placed
<1>2. CyclesAt(base_timestamp) \in Nat
  BY <1>1, CyclesInWidth DEF OrderlyState, SteadyInv
<1> QED BY <1>1, <1>2, NoneAssumption DEF Offset

\* The types of a stream's state that the arithmetic needs.
LEMMA SteadyTypes ==
    ASSUME OrderlyState
    PROVE  /\ newest \in Int /\ newest >= -1 /\ newest <= net.numbers
           /\ lastPlayed \in Int /\ lastPlayed >= -1
           /\ playout_seq # None => playout_seq \in Nat /\ newest # -1
           /\ Keys \subseteq Nat /\ \A k \in Keys : packets[k] \in Nat
           /\ Keys # {} => newest # -1
<1>1. net.numbers \in Nat /\ TsSpace \in Nat
  BY NetTypes, SpaceAssumption DEF OrderlyState, SteadyInv
<1>2. newest \in -1 .. net.numbers /\ lastPlayed \in -1 .. net.numbers
      /\ (newest = -1 => Fresh)
  BY DEF OrderlyState, SteadyInv
<1>3. TypeOK
  BY DEF OrderlyState, SteadyInv, IInv
<1>4. Keys \subseteq Nat /\ \A k \in Keys : packets[k] \in Timestamp
  BY <1>3, TypeKeys
<1>5. playout_seq # None => playout_seq \in Nat
  BY <1>3 DEF TypeOK, ExtendedSeq
<1>6. \A k \in Keys : packets[k] \in Nat
  BY <1>1, <1>4 DEF Timestamp
<1>7. (playout_seq # None \/ Keys # {}) => newest # -1
  BY <1>2 DEF Fresh
<1>8. /\ newest \in Int /\ newest >= -1 /\ newest <= net.numbers
      /\ lastPlayed \in Int /\ lastPlayed >= -1
  BY <1>1, <1>2
<1> QED BY <1>4, <1>5, <1>6, <1>7, <1>8

\* A packet that arrives is never taken for a restart; one that is behind
\* playout is no newer than what has arrived, any other has not been overtaken.
LEMMA ArrivalPlaced ==
    ASSUME OrderlyState, NEW n \in Arrivals, NEW key, key = extend_seq(SeqOf(n))
    PROVE  /\ ~IsRestart(key)
           /\ IsLate(key) => newest # -1 /\ n <= newest
           /\ ~IsLate(key) => n > lastPlayed
<1> DEFINE f == net.first
           z == Offset(base_timestamp)
<1>1. /\ n \in Nat /\ newest - n <= net.reorder
      /\ (newest = -1 <=> base_timestamp = None)
  BY ArrivalTypes
<1>2. /\ newest \in Int /\ lastPlayed \in Int /\ lastPlayed >= -1
      /\ playout_seq # None => playout_seq \in Nat /\ newest # -1
  BY SteadyTypes
<1>3. f \in Nat /\ net.reorder \in Nat /\ discontinuity \in Nat /\ net.reorder + 1 <= discontinuity
  BY NetTypes DEF OrderlyState, SteadyInv, Orderly
<1>4. CASE playout_seq = None
  <2>1. lastPlayed = -1
    BY <1>4 DEF OrderlyState, SteadyInv, Placed, Fresh
  <2> QED BY <1>1, <1>4, <2>1 DEF IsRestart, IsLate, BehindPlayout
<1>5. CASE playout_seq # None
  <2>1. newest # -1 /\ z \in Nat /\ BaseWith(n) = base_timestamp
    BY <1>1, <1>2, <1>5, OffsetType DEF BaseWith
  <2>2. playout_seq <= KeyOf(newest) + 1 /\ KeyOf(lastPlayed) < playout_seq
    BY <1>5, <2>1 DEF OrderlyState, SteadyInv, Placed
  <2>3. KeyOf(newest) = (f + newest) - z /\ KeyOf(lastPlayed) = (f + lastPlayed) - z
    BY DEF KeyOf, KeyFrom
  <2>4. key = (f + n) - z
    BY <2>1, KeyExact DEF KeyFrom
  <2> HIDE DEF f, z
  <2>5. playout_seq <= ((f + newest) - z) + 1 /\ (f + lastPlayed) - z < playout_seq
    BY <2>2, <2>3
  <2>6. playout_seq - key <= discontinuity
    BY <1>1, <1>2, <1>3, <1>5, <2>1, <2>4, <2>5
  <2>7. key < playout_seq => n <= newest
    BY <1>1, <1>2, <1>3, <1>5, <2>1, <2>4, <2>5
  <2>8. ~(key < playout_seq) => n > lastPlayed
    BY <1>1, <1>2, <1>3, <1>5, <2>1, <2>4, <2>5
  <2>9. key \in Int
    BY <1>1, <1>3, <2>1, <2>4
  <2> QED
    BY <1>2, <1>3, <1>5, <2>1, <2>6, <2>7, <2>8, <2>9 DEF IsRestart, IsLate, BehindPlayout
<1> QED BY <1>4, <1>5

\* A stream starts with nothing placed.
LEMMA SteadyInit == StreamInit => SteadyInv
<1> SUFFICES ASSUME StreamInit PROVE SteadyInv
  OBVIOUS
<1>1. IInv /\ net \in Networks
  BY InvInit DEF StreamInit
<1>2. net.numbers \in Nat
  BY <1>1, NetTypes
<1> QED BY <1>1, <1>2 DEF StreamInit, Init, SteadyInv, Fresh, Keys

\* What an arrival does to the buffer is a push.
LEMMA ArrivalKeepsBuffer ==
    ASSUME OrderlyState, NEW n \in Arrivals, Push(SeqOf(n), n)
    PROVE  IInv'
<1>1. n \in Timestamp /\ SeqOf(n) \in SeqNumber
  <2>1. n \in Nat /\ n <= net.numbers /\ SeqOf(n) = (net.first + n) % SeqSpace
    BY ArrivalTypes
  <2>2. /\ net.first \in Nat /\ SeqSpace \in Nat \ {0} /\ net.numbers \in Nat
        /\ net.numbers < TsSpace /\ TsSpace \in Nat
    BY NetTypes, SpaceAssumption DEF OrderlyState, SteadyInv
  <2>3. (net.first + n) % SeqSpace \in 0 .. SeqSpace - 1
    BY <2>1, <2>2
  <2> QED BY <2>1, <2>2, <2>3 DEF Timestamp, SeqNumber
<1> QED BY <1>1, InvNext DEF OrderlyState, SteadyInv, Next

\* A late arrival moves nothing but the cycle count, and that not.
LEMMA SteadyLate ==
    ASSUME OrderlyState, NEW n \in Arrivals, Deliver(n), PushLate(SeqOf(n), n)
    PROVE  SteadyInv'
<1> DEFINE key == extend_seq(SeqOf(n))
<1>1. newest # -1 /\ n <= newest
  BY ArrivalPlaced DEF PushLate
<1>2. /\ n \in Nat /\ newest - n <= net.reorder /\ newest \in Int
      /\ SeqOf(n) = (net.first + n) % SeqSpace
  BY ArrivalTypes
<1>3. base_timestamp # None /\ BaseWith(n) = base_timestamp
  BY <1>1, OffsetType DEF BaseWith
<1>4. /\ newest' = newest /\ base_timestamp' = base_timestamp
      /\ seq_cycles' = CyclesAt(n) - CyclesAt(base_timestamp)
      /\ UNCHANGED <<packets, playout_seq, last_seq, net, first_seq, oldest, restarts, lastPlayed>>
  <2>1. newest' = newest
    BY <1>1, <1>2 DEF Deliver
  <2>2. seq_cycles' = CyclesAt(n) - CyclesAt(base_timestamp)
    BY <1>3, CyclesFound DEF PushLate, Arrive
  <2> QED BY <1>3, <2>1, <2>2 DEF Deliver, PushLate, Arrive
<1>5. IInv'
  BY ArrivalKeepsBuffer DEF Push
<1>6. Located'
  <2>1. CASE InSequence(net)
    <3>1. n = newest
      <4>1. net.reorder = 0
        BY <2>1 DEF InSequence
      <4> QED BY <1>1, <1>2, <4>1
    <3> QED BY <1>1, <1>4, <2>1, <3>1 DEF Located, OrderlyState, SteadyInv, CyclesAt, InSequence
  <2>2. CASE ~InSequence(net)
    <3>1. NoRollover(net) /\ seq_cycles = 0 /\ last_seq \in net.first .. net.first + net.numbers
      BY <1>1, <2>2 DEF Located, OrderlyState, SteadyInv, Orderly
    <3>2. seq_cycles' = 0
      <4>1. base_timestamp \in 0 .. net.numbers
        BY <1>1 DEF OrderlyState, SteadyInv, Placed
      <4>2. n \in 0 .. net.numbers
        BY <1>2, ArrivalTypes
      <4>3. net \in Networks
        BY DEF OrderlyState, SteadyInv
      <4>4. CyclesAt(n) = 0 /\ CyclesAt(base_timestamp) = 0
        BY <3>1, <4>1, <4>2, <4>3, RolledNever
      <4> QED BY <1>4, <4>4
    <3> QED BY <1>4, <2>2, <3>1, <3>2 DEF Located, InSequence
  <2> QED BY <2>1, <2>2
<1>7. Placed'
  BY <1>1, <1>4 DEF Placed, OrderlyState, SteadyInv, Keys, KeyOf, KeyFrom, Offset, CyclesAt
<1> QED BY <1>1, <1>4, <1>5, <1>6, <1>7 DEF SteadyInv, OrderlyState, Steady

\* An arrival that is buffered is put in its place.
LEMMA SteadyBuffered ==
    ASSUME OrderlyState, NEW n \in Arrivals, Deliver(n), PushBuffered(SeqOf(n), n)
    PROVE  SteadyInv'
<1> DEFINE key == extend_seq(SeqOf(n))
           base == BaseWith(n)
           room == MadeRoom(Keys)
<1>1. /\ n \in Nat /\ n <= net.numbers /\ newest \in Int /\ newest >= -1
      /\ newest - n <= net.reorder /\ base \in Nat /\ base <= net.numbers
      /\ SeqOf(n) = (net.first + n) % SeqSpace
      /\ (newest = -1 <=> base_timestamp = None)
  BY ArrivalTypes
<1>2. ~IsRestart(key) /\ ~IsLate(key)
  BY ArrivalPlaced DEF PushBuffered
<1>3. /\ packets' = [k \in room \cup {key} |-> IF k = key THEN n ELSE packets[k]]
      /\ UNCHANGED <<playout_seq, net, first_seq, oldest, restarts, lastPlayed>>
      /\ last_seq' = SeqOf(n) /\ base_timestamp' = base
      /\ newest' = IF n > newest THEN n ELSE newest
  BY <1>2 DEF Deliver, PushBuffered, Arrive, BaseWith
<1>4. seq_cycles' = CyclesAt(n) - CyclesAt(base)
  BY CyclesFound DEF PushBuffered, Arrive
<1>5. key = KeyFrom(base, n)
  BY KeyExact
<1>6. IInv'
  BY ArrivalKeepsBuffer DEF Push
<1>7. newest' # -1 /\ newest' \in -1 .. net.numbers /\ n <= newest' /\ newest <= newest'
      /\ newest' \in Int
  <2>1. net.numbers \in Nat /\ newest <= net.numbers
    BY NetTypes, SteadyTypes DEF OrderlyState, SteadyInv
  <2> QED BY <1>1, <1>3, <2>1
<1> HIDE DEF key, base, room
<1>8. Located'
  <2>1. CASE InSequence(net)
    <3>1. newest' = n
      <4>1. net.reorder = 0
        BY <2>1 DEF InSequence
      <4> QED BY <1>1, <1>3, <4>1
    <3>2. base <= n
      <4>1. CASE newest = -1
        BY <1>1, <4>1 DEF base, BaseWith
      <4>2. CASE newest # -1
        <5>1. base_timestamp <= newest /\ base = base_timestamp
          BY <1>1, <2>1, <4>2 DEF base, BaseWith, OrderlyState, SteadyInv, Located
        <5> QED BY <1>1, <1>3, <1>7, <3>1, <5>1
      <4> QED BY <4>1, <4>2
    <3> QED BY <1>1, <1>3, <1>4, <2>1, <3>1, <3>2 DEF Located, InSequence, CyclesAt
  <2>2. CASE ~InSequence(net)
    <3>1. NoRollover(net) /\ net \in Networks
      BY <2>2 DEF OrderlyState, SteadyInv, Orderly
    <3>2. base \in 0 .. net.numbers /\ n \in 0 .. net.numbers
          /\ net.first \in Nat /\ net.numbers \in Nat
      BY <1>1, <3>1, NetTypes
    <3>3. CyclesAt(n) = 0 /\ CyclesAt(base) = 0 /\ SeqOf(n) = net.first + n
      BY <1>1, <3>1, <3>2, RolledNever
    <3>4. seq_cycles' = 0 /\ last_seq' \in net.first .. net.first + net.numbers
      BY <1>3, <1>4, <3>2, <3>3
    <3> QED BY <1>3, <2>2, <3>4 DEF Located, InSequence
  <2> QED BY <2>1, <2>2
<1>9. Placed'
  <2>1. base_timestamp' \in 0 .. net'.numbers
    BY <1>1, <1>3
  <2>2. \A m : KeyOf(m)' = KeyFrom(base, m)
    BY <1>3 DEF KeyOf, KeyFrom, Offset, CyclesAt
  <2>3. newest # -1 => base = base_timestamp
    BY <1>1 DEF base, BaseWith
  <2>4. room \subseteq Keys /\ Keys' = room \cup {key}
    BY <1>3, RoomWithin DEF room, Keys
  <2>5. ASSUME NEW k \in Keys'
        PROVE  k = KeyFrom(base, packets'[k]) /\ packets'[k] <= newest'
    <3>1. CASE k = key
      BY <1>3, <1>5, <1>7, <2>4, <3>1
    <3>2. CASE k # key
      <4>1. k \in Keys /\ packets'[k] = packets[k] /\ newest # -1
        BY <1>3, <2>4, <3>2, SteadyTypes
      <4>2. k = KeyOf(packets[k]) /\ packets[k] <= newest /\ packets[k] \in Nat
        BY <4>1, SteadyTypes DEF OrderlyState, SteadyInv, Placed
      <4>3. packets[k] <= newest'
        BY <1>1, <1>7, <4>2
      <4> QED BY <2>3, <4>1, <4>2, <4>3 DEF KeyOf
    <3> QED BY <3>1, <3>2
  <2>6. ASSUME playout_seq # None
        PROVE  playout_seq <= KeyFrom(base, newest') + 1 /\ KeyFrom(base, lastPlayed) < playout_seq
    <3>1. newest # -1 /\ playout_seq \in Nat /\ lastPlayed \in Int
      BY <2>6, SteadyTypes
    <3>2. Offset(base) \in Nat /\ base = base_timestamp
      BY <2>3, <3>1, OffsetType
    <3>3. playout_seq <= KeyOf(newest) + 1 /\ KeyOf(lastPlayed) < playout_seq
      BY <2>6, <3>1 DEF OrderlyState, SteadyInv, Placed
    <3>4. net.first \in Nat
      BY NetTypes DEF OrderlyState, SteadyInv
    <3>5. KeyFrom(base, newest) <= KeyFrom(base, newest') /\ KeyFrom(base, newest) \in Int
          /\ KeyFrom(base, newest') \in Int
      BY <1>1, <1>7, <3>2, <3>4 DEF KeyFrom
    <3> QED BY <3>1, <3>2, <3>3, <3>5 DEF KeyOf
  <2>7. playout_seq = None => lastPlayed = -1
    BY DEF OrderlyState, SteadyInv, Placed, Fresh
  <2>8. (\A k \in Keys : k = KeyOf(packets[k]) /\ packets[k] <= newest)'
    BY <2>2, <2>5 DEF KeyOf, KeyFrom, Offset, CyclesAt
  <2>9. (playout_seq # None => playout_seq <= KeyOf(newest) + 1 /\ KeyOf(lastPlayed) < playout_seq)'
    <3>1. KeyOf(newest)' = KeyFrom(base, newest') /\ KeyOf(lastPlayed)' = KeyFrom(base, lastPlayed)
      BY <1>3 DEF KeyOf, KeyFrom, Offset, CyclesAt
    <3> QED BY <1>3, <2>6, <3>1
  <2> QED BY <1>3, <2>1, <2>7, <2>8, <2>9 DEF Placed
<1> QED BY <1>3, <1>6, <1>7, <1>8, <1>9 DEF SteadyInv, OrderlyState, Steady

\* The packet played is the one at its key, and playout goes on right behind
\* it: the key does not wrap.
LEMMA NextWithin ==
    ASSUME OrderlyState, NEW k \in Nat, k <= KeyOf(newest), newest # -1
    PROVE  (k + 1) % (SeqSpace * CycleSpace) = k + 1 /\ k + 1 # None
<1> DEFINE w == SeqSpace * CycleSpace
           z == Offset(base_timestamp)
<1>1. /\ net.first \in Nat /\ net.numbers \in Nat /\ net.first + net.numbers + 1 < w
      /\ SeqSpace \in Nat \ {0} /\ CycleSpace \in Nat \ {0}
  BY NetTypes DEF OrderlyState, SteadyInv, Orderly
<1>2. w \in Nat
  BY <1>1
<1>3. z \in Nat /\ newest \in Int /\ newest <= net.numbers
  BY OffsetType, SteadyTypes
<1>4. k <= (net.first + newest) - z
  BY DEF KeyOf, KeyFrom
<1> HIDE DEF w, z
<1>5. k + 1 \in 0 .. w - 1
  BY <1>1, <1>2, <1>3, <1>4
<1>6. (k + 1) % w = k + 1
  BY <1>2, <1>5
<1> QED BY <1>6, NoneAssumption DEF w

\* Steps that hand out leave the place of the stream alone.
LEMMA LocatedFrame ==
    ASSUME Located, UNCHANGED <<net, newest, base_timestamp, last_seq, seq_cycles>>
    PROVE  Located'
BY DEF Located, InSequence, CyclesAt

\* Handing a packet out, or concealing one, keeps playout within what arrived.
LEMMA SteadyPop == ASSUME OrderlyState, PlayTick PROVE SteadyInv'
<1> DEFINE start == PlayoutStart
           next  == Min(AtOrPast(start))
<1>1. IInv' /\ UNCHANGED <<net, first_seq, oldest, newest, restarts>>
  BY InvNext DEF OrderlyState, SteadyInv, PlayTick, Next, envVars
<1>2. CASE PopNothing
  <2>1. UNCHANGED <<packets, playout_seq, seq_cycles, last_seq, base_timestamp, lastPlayed>>
    BY <1>2 DEF PlayTick, PopNothing
  <2> QED
    BY <1>1, <2>1 DEF OrderlyState, SteadyInv, Steady, Fresh, Located, Placed, Keys, KeyOf,
                      KeyFrom, Offset, CyclesAt, InSequence
<1>3. ASSUME PopPacket \/ PopLost
      PROVE  /\ start \in Nat /\ next \in Keys /\ next \in Nat /\ next >= start
             /\ \A k \in Keys : k >= next
             /\ newest # -1 /\ next = KeyOf(packets[next]) /\ next <= KeyOf(newest)
             /\ UNCHANGED <<seq_cycles, last_seq, base_timestamp>>
             /\ packets[next] \in Nat /\ packets[next] <= newest
  <2>1. /\ start \in ExtendedSeq /\ next \in Keys /\ next >= start
        /\ \A k \in Keys : k >= next
    BY <1>3, PopTarget DEF PopPacket, PopLost, OrderlyState, SteadyInv
  <2> HIDE DEF start, next
  <2>2. next \in Nat /\ newest # -1 /\ packets[next] \in Nat
    BY <2>1, SteadyTypes
  <2>3. next = KeyOf(packets[next]) /\ packets[next] <= newest
    BY <2>1, <2>2 DEF OrderlyState, SteadyInv, Placed
  <2>4. net.first \in Nat /\ Offset(base_timestamp) \in Nat /\ newest \in Int
    BY <2>2, NetTypes, OffsetType, SteadyTypes DEF OrderlyState, SteadyInv
  <2>5. next <= KeyOf(newest)
    BY <2>2, <2>3, <2>4 DEF KeyOf, KeyFrom
  <2>6. UNCHANGED <<seq_cycles, last_seq, base_timestamp>>
    BY <1>3 DEF PopPacket, PopLost, HandOut
  <2> QED BY <2>1, <2>2, <2>3, <2>5, <2>6 DEF ExtendedSeq
<1>4. ASSUME PopPacket \/ PopLost,
             NEW p \in Nat, playout_seq' = p, p # None, p <= KeyOf(newest) + 1,
             KeyOf(lastPlayed') < p, lastPlayed' \in -1 .. net.numbers,
             \A k \in Keys' : k \in Keys /\ packets'[k] = packets[k]
      PROVE  SteadyInv'
  <2>1. newest # -1 /\ UNCHANGED <<seq_cycles, last_seq, base_timestamp>>
    BY <1>3, <1>4
  <2>2. Located'
    BY <1>1, <2>1, LocatedFrame DEF OrderlyState, SteadyInv
  <2>3. \A m : KeyOf(m)' = KeyOf(m)
    BY <1>1, <2>1 DEF KeyOf, KeyFrom, Offset, CyclesAt
  <2>4. (\A k \in Keys : k = KeyOf(packets[k]) /\ packets[k] <= newest)'
    <3>1. \A k \in Keys : k = KeyOf(packets[k]) /\ packets[k] <= newest
      BY <2>1 DEF OrderlyState, SteadyInv, Placed
    <3> QED BY <1>1, <1>4, <2>1, <3>1 DEF KeyOf, KeyFrom, Offset, CyclesAt
  <2>5. KeyOf(newest)' = KeyOf(newest) /\ KeyOf(lastPlayed)' = KeyOf(lastPlayed')
    BY <1>1, <2>1 DEF KeyOf, KeyFrom, Offset, CyclesAt
  <2>6. Placed'
    BY <1>1, <1>4, <2>1, <2>4, <2>5 DEF Placed, OrderlyState, SteadyInv
  <2> QED BY <1>1, <1>4, <2>1, <2>2, <2>6 DEF SteadyInv, OrderlyState, Steady
<1>5. CASE PopPacket
  <2>1. /\ next \in Keys /\ next \in Nat /\ newest # -1 /\ next = KeyOf(packets[next])
        /\ next <= KeyOf(newest) /\ packets[next] \in Nat /\ packets[next] <= newest
    BY <1>3, <1>5
  <2>2. /\ packets' = [k \in Keys \ {next} |-> packets[k]]
        /\ playout_seq' = (next + 1) % (SeqSpace * CycleSpace)
        /\ out' = [key |-> next, timestamp |-> packets[next], synthesized |-> FALSE]
    BY <1>5 DEF PopPacket, HandOut
  <2> HIDE DEF next
  <2>3. lastPlayed' = packets[next]
    <3>1. out'.timestamp = packets[next] /\ ~out'.synthesized
      BY <2>2
    <3>2. out' # None
      <4>1. next \in ExtendedSeq /\ packets[next] \in Timestamp
        BY <2>1, TypeKeys DEF OrderlyState, SteadyInv, IInv
      <4>2. out' \in Packet
        BY <2>2, <4>1 DEF Packet
      <4> QED BY <4>2, NoneAssumption
    <3> QED BY <3>1, <3>2 DEF PlayTick
  <2>4. playout_seq' = next + 1 /\ next + 1 # None
    BY <2>1, <2>2, NextWithin
  <2>5. KeyOf(newest) \in Int
    <3>1. net.first \in Nat /\ Offset(base_timestamp) \in Nat /\ newest \in Int
      BY <2>1, NetTypes, OffsetType, SteadyTypes DEF OrderlyState, SteadyInv
    <3> QED BY <3>1 DEF KeyOf, KeyFrom
  <2>6. next + 1 \in Nat /\ next + 1 <= KeyOf(newest) + 1 /\ KeyOf(lastPlayed') < next + 1
    <3>1. KeyOf(lastPlayed') = next
      BY <2>1, <2>3
    <3> QED BY <2>1, <2>5, <3>1
  <2>7. lastPlayed' \in -1 .. net.numbers
    <3>1. newest <= net.numbers /\ net.numbers \in Nat /\ newest \in Int
      BY NetTypes, SteadyTypes DEF OrderlyState, SteadyInv
    <3> QED BY <2>1, <2>3, <3>1
  <2>8. \A k \in Keys' : k \in Keys /\ packets'[k] = packets[k]
    BY <2>2 DEF Keys
  <2> QED BY <1>4, <1>5, <2>4, <2>6, <2>7, <2>8
<1>6. CASE PopLost
  <2>1. /\ start \in Nat /\ next \in Keys /\ next \in Nat /\ newest # -1 /\ next >= start
        /\ next <= KeyOf(newest) /\ \A k \in Keys : k >= next
    BY <1>3, <1>6
  <2>2. /\ packets' = packets /\ next # start
        /\ playout_seq' = (start + 1) % (SeqSpace * CycleSpace)
        /\ out' = [key |-> start, timestamp |-> estimate_timestamp(start, start),
                   synthesized |-> TRUE]
    BY <1>6 DEF PopLost, HandOut
  <2>3. lastPlayed' = lastPlayed
    <3>1. out'.synthesized
      BY <2>2, Zenon
    <3> QED BY <3>1 DEF PlayTick
  <2>4. playout_seq # None
    <3> SUFFICES ASSUME playout_seq = None PROVE FALSE
      OBVIOUS
    <3>1. start = Min(Keys)
      BY DEF PlayoutStart
    <3>2. Min(Keys) \in Keys
      BY <2>1, SteadyTypes, MinOfNaturals
    <3> HIDE DEF start, next
    <3> QED BY <2>1, <2>2, <3>1, <3>2
  <2>5. start = playout_seq
    BY <2>4 DEF PlayoutStart
  <2> HIDE DEF start, next
  <2>6. KeyOf(newest) \in Int /\ KeyOf(lastPlayed) \in Int
    <3>1. /\ net.first \in Nat /\ Offset(base_timestamp) \in Nat /\ newest \in Int
          /\ lastPlayed \in Int
      BY <2>1, NetTypes, OffsetType, SteadyTypes DEF OrderlyState, SteadyInv
    <3> QED BY <3>1 DEF KeyOf, KeyFrom
  <2>7. start < next /\ start <= KeyOf(newest)
    BY <2>1, <2>2, <2>6
  <2>8. playout_seq' = start + 1 /\ start + 1 # None
    BY <2>1, <2>2, <2>7, NextWithin
  <2>9. KeyOf(lastPlayed) < playout_seq /\ lastPlayed \in -1 .. net.numbers
    BY <2>1, <2>4 DEF OrderlyState, SteadyInv, Placed
  <2>10. start + 1 \in Nat /\ start + 1 <= KeyOf(newest) + 1 /\ KeyOf(lastPlayed') < start + 1
    <3>1. KeyOf(lastPlayed') = KeyOf(lastPlayed)
      BY <2>3
    <3> QED BY <2>1, <2>5, <2>6, <2>7, <2>9, <3>1
  <2>11. \A k \in Keys' : k \in Keys /\ packets'[k] = packets[k]
    BY <2>2 DEF Keys
  <2> QED BY <1>4, <1>6, <2>3, <2>8, <2>9, <2>10, <2>11
<1> QED BY <1>2, <1>5, <1>6 DEF PlayTick, Pop

\* What OrderedPlayout calls pending.
Waiting(K) == {packets[k] : k \in K}

\* The oldest key holds the earliest packet, and no other packet goes with it.
LEMMA OldestIsEarliest ==
    ASSUME OrderlyState, NEW m \in Keys, \A k \in Keys : k >= m
    PROVE  /\ Waiting(Keys) # {} /\ Min(Waiting(Keys)) = packets[m]
           /\ Waiting(Keys \ {m}) = Waiting(Keys) \ {packets[m]}
<1>1. newest # -1 /\ Keys \subseteq Nat /\ \A k \in Keys : packets[k] \in Nat
  BY SteadyTypes
<1>2. \A k \in Keys : k = (net.first + packets[k]) - Offset(base_timestamp)
  BY <1>1 DEF OrderlyState, SteadyInv, Placed, KeyOf, KeyFrom
<1>3. net.first \in Nat /\ Offset(base_timestamp) \in Nat
  BY <1>1, NetTypes, OffsetType DEF OrderlyState, SteadyInv
<1>4. ASSUME NEW k \in Keys
      PROVE  packets[k] >= packets[m] /\ (packets[k] = packets[m] => k = m)
  <2>1. k >= m /\ k = (net.first + packets[k]) - Offset(base_timestamp)
        /\ m = (net.first + packets[m]) - Offset(base_timestamp)
        /\ packets[k] \in Nat /\ packets[m] \in Nat
    BY <1>1, <1>2
  <2> QED BY <1>3, <2>1
<1>5. Waiting(Keys) \in SUBSET Nat /\ packets[m] \in Waiting(Keys)
  BY <1>1 DEF Waiting
<1>6. Min(Waiting(Keys)) \in Waiting(Keys) /\ \A y \in Waiting(Keys) : Min(Waiting(Keys)) <= y
  BY <1>5, MinOfNaturals
<1>7. Min(Waiting(Keys)) = packets[m]
  <2>1. PICK k \in Keys : Min(Waiting(Keys)) = packets[k]
    BY <1>6 DEF Waiting
  <2>2. packets[k] <= packets[m] /\ packets[k] >= packets[m]
    BY <1>4, <1>5, <1>6, <2>1
  <2> QED BY <1>1, <2>1, <2>2
<1>8. Waiting(Keys \ {m}) = Waiting(Keys) \ {packets[m]}
  BY <1>4 DEF Waiting
<1> QED BY <1>5, <1>7, <1>8

\* An arrival that is buffered is accepted, over the earliest packet if there
\* is no room.
LEMMA BufferedAccepts ==
    ASSUME OrderlyState, NEW n \in Arrivals, Deliver(n), PushBuffered(SeqOf(n), n)
    PROVE  Promise!Accept(n)
<1> DEFINE key == extend_seq(SeqOf(n))
           room == MadeRoom(Keys)
<1>1. ~IsRestart(key) /\ ~IsLate(key) /\ n > lastPlayed
  BY ArrivalPlaced DEF PushBuffered
<1>2. /\ packets' = [k \in room \cup {key} |-> IF k = key THEN n ELSE packets[k]]
      /\ net' = net /\ lastPlayed' = lastPlayed
  BY <1>1 DEF Deliver, PushBuffered
<1>3. key \in Keys => packets[key] = n
  <2> SUFFICES ASSUME key \in Keys PROVE packets[key] = n
    OBVIOUS
  <2>1. newest # -1 /\ packets[key] \in Nat
    BY SteadyTypes
  <2>2. BaseWith(n) = base_timestamp /\ n \in Nat
    BY <2>1, ArrivalTypes DEF BaseWith
  <2>3. net.first \in Nat /\ Offset(base_timestamp) \in Nat
    BY <2>1, NetTypes, OffsetType DEF OrderlyState, SteadyInv
  <2>4. key = KeyFrom(base_timestamp, packets[key])
    BY <2>1 DEF OrderlyState, SteadyInv, Placed, KeyOf
  <2>5. key = KeyFrom(base_timestamp, n)
    BY <2>2, KeyExact
  <2> HIDE DEF key
  <2> QED BY <2>1, <2>2, <2>3, <2>4, <2>5 DEF KeyFrom
<1> HIDE DEF key
<1>4. {packets'[k] : k \in Keys'} = Waiting(room) \cup {n}
  <2>1. Keys' = room \cup {key} /\ room \subseteq Keys
    BY <1>2, RoomWithin DEF Keys
  <2> HIDE DEF room
  <2>2. packets'[key] = n /\ \A k \in room : packets'[k] = packets[k]
    BY <1>2, <1>3, <2>1
  <2> QED BY <2>1, <2>2 DEF Waiting
<1>5. \/ Waiting(room) = Waiting(Keys)
      \/ /\ Waiting(Keys) # {}
         /\ Waiting(room) = Waiting(Keys) \ {Min(Waiting(Keys))}
  <2>1. CASE room = Keys
    BY <2>1
  <2>2. CASE room # Keys
    <3>1. Keys # {} /\ room = Keys \ {Min(Keys)}
      BY <2>2 DEF MadeRoom
    <3>2. Min(Keys) \in Keys /\ \A k \in Keys : k >= Min(Keys)
      <4>1. Keys \in SUBSET Nat
        BY SteadyTypes
      <4>2. Min(Keys) \in Keys /\ \A k \in Keys : Min(Keys) <= k
        BY <3>1, <4>1, MinOfNaturals
      <4> QED BY <4>1, <4>2
    <3> QED BY <3>1, <3>2, OldestIsEarliest
  <2> QED BY <2>1, <2>2
<1> HIDE DEF room
<1>6. Steady /\ Steady'
  BY <1>2 DEF OrderlyState, Steady
<1>7. {packets[k] : k \in Keys}' = {packets'[k] : k \in Keys'}
  OBVIOUS
<1>8. Waiting(Keys) = {packets[k] : k \in Keys}
  BY DEF Waiting
<1>9. Min(Waiting(Keys)) = Promise!Min(Waiting(Keys))
  BY DEF Min, Promise!Min
<1> QED BY <1>1, <1>2, <1>4, <1>5, <1>6, <1>8, <1>9 DEF Promise!Accept

\* A packet handed out is the earliest that waits, and later than any played.
LEMMA PopPlays == ASSUME OrderlyState, PlayTick, PopPacket PROVE Promise!Play
<1> DEFINE next == Min(AtOrPast(PlayoutStart))
<1>1. next \in Keys /\ (\A k \in Keys : k >= next) /\ next >= PlayoutStart
  BY PopTarget DEF PopPacket, OrderlyState, SteadyInv
<1>2. /\ packets' = [k \in Keys \ {next} |-> packets[k]]
      /\ out' = [key |-> next, timestamp |-> packets[next], synthesized |-> FALSE]
  BY DEF PopPacket, HandOut
<1>3. playout_seq # None => next >= playout_seq
  BY <1>1 DEF PlayoutStart
<1> HIDE DEF next
<1>4. lastPlayed' = packets[next] /\ net' = net
  <2>1. next \in ExtendedSeq /\ packets[next] \in Timestamp
    BY <1>1, TypeKeys DEF OrderlyState, SteadyInv, IInv
  <2>2. out' \in Packet
    BY <1>2, <2>1 DEF Packet
  <2>3. out' # None
    BY <2>2, NoneAssumption
  <2>4. out'.timestamp = packets[next] /\ ~out'.synthesized
    BY <1>2
  <2> QED BY <2>3, <2>4 DEF PlayTick, envVars
<1>5. packets[next] > lastPlayed
  <2>1. /\ newest # -1 /\ packets[next] \in Nat /\ lastPlayed \in Int /\ next \in Nat
        /\ playout_seq # None => playout_seq \in Nat
    BY <1>1, SteadyTypes
  <2>2. CASE playout_seq = None
    <3>1. lastPlayed = -1
      BY <2>1, <2>2 DEF OrderlyState, SteadyInv, Placed
    <3> QED BY <2>1, <3>1
  <2>3. CASE playout_seq # None
    <3>1. KeyOf(lastPlayed) < playout_seq /\ next = KeyOf(packets[next])
      BY <1>1, <2>1, <2>3 DEF OrderlyState, SteadyInv, Placed
    <3>2. net.first \in Nat /\ Offset(base_timestamp) \in Nat
      BY <2>1, NetTypes, OffsetType DEF OrderlyState, SteadyInv
    <3>3. KeyOf(lastPlayed) = (net.first + lastPlayed) - Offset(base_timestamp)
          /\ KeyOf(packets[next]) = (net.first + packets[next]) - Offset(base_timestamp)
      BY DEF KeyOf, KeyFrom
    <3>4. KeyOf(lastPlayed) < next
      <4>1. KeyOf(lastPlayed) \in Int /\ next >= playout_seq
        BY <1>3, <2>1, <2>3, <3>2, <3>3
      <4> QED BY <2>1, <2>3, <3>1, <4>1
    <3> QED BY <2>1, <3>1, <3>2, <3>3, <3>4
  <2> QED BY <2>2, <2>3
<1>6. /\ Waiting(Keys) # {} /\ Min(Waiting(Keys)) = packets[next]
      /\ Waiting(Keys \ {next}) = Waiting(Keys) \ {packets[next]}
  BY <1>1, OldestIsEarliest
<1>7. {packets'[k] : k \in Keys'} = Waiting(Keys \ {next})
  BY <1>2 DEF Waiting, Keys
<1>8. Steady /\ Steady'
  BY <1>4 DEF OrderlyState, Steady
<1>9. Waiting(Keys) = {packets[k] : k \in Keys}
  BY DEF Waiting
<1>10. Min(Waiting(Keys)) = Promise!Min(Waiting(Keys))
  BY DEF Min, Promise!Min
<1> QED BY <1>4, <1>5, <1>6, <1>7, <1>8, <1>9, <1>10 DEF Promise!Play

\* Every step of an orderly stream keeps the invariant and is a step of
\* OrderedPlayout, or none at all.
LEMMA SteadyStep ==
    ASSUME OrderlyState, [StreamNext]_streamVars
    PROVE  SteadyInv' /\ [Promise!Next]_Promise!vars
<1> USE DEF Promise!vars
<1>1. ASSUME UNCHANGED <<packets, net, lastPlayed>>
      PROVE  UNCHANGED Promise!vars
  BY <1>1 DEF Steady, Keys
<1>2. ASSUME UNCHANGED <<packets, playout_seq, seq_cycles, last_seq, base_timestamp,
                         envVars, lastPlayed>>,
             IInv'
      PROVE  SteadyInv'
  BY <1>2 DEF envVars, OrderlyState, SteadyInv, Steady, Fresh, Located, Placed, Keys, KeyOf,
              KeyFrom, Offset, CyclesAt, InSequence
<1>3. CASE UNCHANGED streamVars
  <2>1. IInv'
    BY <1>3, InvNext DEF streamVars, OrderlyState, SteadyInv
  <2> QED BY <1>1, <1>2, <1>3, <2>1 DEF streamVars, vars, envVars
<1>4. CASE Clock
  <2>1. IInv'
    BY <1>4, InvNext DEF Clock, Next, OrderlyState, SteadyInv
  <2> QED BY <1>1, <1>2, <1>4, <2>1 DEF Clock, Tick, envVars
<1>5. ~\E jump \in Jumps : Restart(jump)
  <2>1. restarts = 0 /\ net.restarts = 0
    BY DEF OrderlyState, SteadyInv, Steady
  <2> QED BY <2>1 DEF Restart
<1>6. CASE PlayTick
  <2>1. SteadyInv'
    BY <1>6, SteadyPop
  <2>2. CASE PopPacket
    BY <1>6, <2>1, <2>2, PopPlays DEF Promise!Next
  <2>3. CASE PopLost \/ PopNothing
    <3>1. packets' = packets /\ net' = net
      BY <1>6, <2>3 DEF PopLost, PopNothing, PlayTick, envVars
    <3>2. out' = None \/ out'.synthesized
      <4>1. CASE PopLost
        BY <4>1, Zenon DEF PopLost, HandOut
      <4>2. CASE PopNothing
        BY <4>2 DEF PopNothing
      <4> QED BY <2>3, <4>1, <4>2
    <3>3. lastPlayed' = lastPlayed
      BY <1>6, <3>2 DEF PlayTick
    <3> QED BY <1>1, <2>1, <3>1, <3>3
  <2> QED BY <1>6, <2>2, <2>3 DEF PlayTick, Pop
<1>7. ASSUME NEW n \in Arrivals, Deliver(n)
      PROVE  SteadyInv' /\ [Promise!Next]_Promise!vars
  <2>1. CASE PushLate(SeqOf(n), n)
    <3>1. UNCHANGED <<packets, net, lastPlayed>>
      BY <1>7, <2>1 DEF Deliver, PushLate
    <3> QED BY <1>1, <1>7, <2>1, <3>1, SteadyLate
  <2>2. CASE PushBuffered(SeqOf(n), n)
    <3>1. n \in 0 .. MaxNumber
      <4>1. net \in Network
        BY StreamAssumption DEF OrderlyState, SteadyInv
      <4>2. net.numbers \in 0 .. MaxNumber /\ MaxNumber \in Nat
        BY <4>1, StreamAssumption DEF Network
      <4>3. n \in Nat /\ n <= net.numbers
        BY ArrivalTypes
      <4> QED BY <4>2, <4>3
    <3>2. Promise!Accept(n)
      BY <1>7, <2>2, BufferedAccepts
    <3> QED BY <1>7, <2>2, <3>1, <3>2, SteadyBuffered DEF Promise!Next
  <2> QED BY <1>7, <2>1, <2>2 DEF Deliver
<1> QED BY <1>3, <1>4, <1>5, <1>6, <1>7 DEF StreamNext

\* The jitter buffer implements OrderedPlayout, for every capacity and every
\* width of its integers, where the sender does not restart and the network is
\* orderly: whatever is lost, copied, rolled over or, where nothing rolls over,
\* reordered, packets are played at most once and in sending order.
THEOREM PlayedOnceInOrder ==
    ASSUME \A w \in Networks : w.restarts = 0 => Orderly(w)
    PROVE  StreamSpec => ImplementsOrderedPlayout
<1>1. StreamInit => SteadyInv /\ Promise!Init
  <2> SUFFICES ASSUME StreamInit PROVE SteadyInv /\ Promise!Init
    OBVIOUS
  <2>1. Keys = {} /\ lastPlayed = -1
    BY DEF StreamInit, Init, Keys
  <2> QED BY <2>1, SteadyInit DEF Promise!Init
<1>2. SteadyInv /\ [StreamNext]_streamVars => SteadyInv' /\ [Promise!Next]_Promise!vars
  <2> SUFFICES ASSUME SteadyInv, [StreamNext]_streamVars
               PROVE  SteadyInv' /\ [Promise!Next]_Promise!vars
    OBVIOUS
  <2>1. CASE Steady
    BY <2>1, SteadyStep DEF OrderlyState, SteadyInv, Steady
  <2>2. CASE ~Steady
    <3>1. net' = net
      BY DEF StreamNext, streamVars, Deliver, Restart, PlayTick, Clock, envVars
    <3> QED BY <2>2, <3>1 DEF SteadyInv, Steady, Promise!vars
  <2> QED BY <2>1, <2>2
<1> QED BY <1>1, <1>2, PTL DEF StreamSpec, ImplementsOrderedPlayout, Promise!Spec


-----------------------------------------------------------------------------
(* A sender that restarts *)

\* Where packet number comes in the sender's present numbering.
Place(number) == first_seq + number

\* The numbers used before a restart and from again on after it do not roll
\* over and are within half the sequence space of each other.
WithinHalf(w, again) ==
    /\ again + w.numbers + 1 < SeqSpace
    /\ (again + w.numbers) - w.first <= SeqSpace \div 2
    /\ (w.first + w.numbers) - again <= SeqSpace \div 2

\* A network that only copies, with a sender whose restarts can be told from
\* rollovers.
Recoverable(w) ==
    /\ w.reorder = 0 /\ w.gap = 0
    /\ w.first + w.numbers + 1 < SeqSpace /\ w.numbers <= SeqSpace \div 2
    /\ \A jump \in Jumps : WithinHalf(w, (w.first + jump) % SeqSpace)

\* A number the sender has used, or may use in its present numbering.
Usable(k) ==
    \/ k \in net.first .. net.first + net.numbers
    \/ k \in first_seq .. first_seq + net.numbers

\* No key is missing between two keys past m.
Unbroken(K, m) == \A x, y \in K : x > m => x .. y \subseteq K

\* Before a restart: the keys lead up to the newest packet, at m, without a
\* gap, and playout is at most just past it.
InOrder(K, p, m) ==
    /\ Unbroken(K, -1)
    /\ \A k \in K : k <= m
    /\ K # {} => m \in K
    /\ p # None => p <= m + 1

\* With playout at p, the r packets up to m have been dropped as late.  Then
\* playout and all of the old sequence are within three buffers' worth of the
\* first of them; or playout will skip to the old sequence; or playout is so
\* far ahead that the next packet starts it over.
Recovering(K, p, m, r) ==
    /\ p # None /\ m < p
    /\ \/ p - (m - r + 1) <= 3 * discontinuity
          /\ \A k \in K : k - (m - r + 1) < 3 * discontinuity
       \/ p - (m - r + 1) <= discontinuity /\ \A k \in K : k - p > discontinuity
       \/ p - (m + 1) > discontinuity /\ r <= 3 * discontinuity

\* Before the restart, between the restart and the first packet after it, and
\* from that packet on.
Resyncing ==
    IF restarts = 0
    THEN oldest = 0 /\ lateRun = 0 /\ InOrder(Keys, playout_seq, Place(newest))
    ELSE IF newest < oldest
    THEN oldest = newest + 1 /\ lateRun = 0 /\ Unbroken(Keys, -1)
    ELSE /\ Unbroken(Keys, Place(newest))
         /\ lateRun = 0 \/ Recovering(Keys, playout_seq, Place(newest), lateRun)

\* The inductive invariant, beside the buffer's own.
ResyncInv ==
    /\ net \in Networks /\ restarts \in Nat
    /\ restarts <= 1 =>
         /\ IInv
         /\ restarts = 0 => first_seq = net.first
         /\ restarts = 1 => \E jump \in Jumps : first_seq = (net.first + jump) % SeqSpace
         /\ newest \in -1 .. net.numbers /\ lateRun \in Nat /\ oldest \in Nat
         /\ seq_cycles = 0
         /\ IF newest = -1
            THEN /\ restarts = 0 /\ oldest = 0 /\ lateRun = 0
                 /\ base_timestamp = None /\ Keys = {} /\ playout_seq = None
            ELSE /\ base_timestamp # None /\ Usable(last_seq)
                 /\ \A k \in Keys : Usable(k)
                 /\ Resyncing

\* Making room leaves everything past a key that stays.
LEMMA RoomAbove ==
    ASSUME NEW K \in SUBSET Nat, NEW x \in MadeRoom(K), NEW z \in K, z >= x
    PROVE  z \in MadeRoom(K)
<1>1. CASE MadeRoom(K) = K
  BY <1>1
<1>2. CASE MadeRoom(K) # K
  <2>1. K # {} /\ MadeRoom(K) = K \ {Min(K)}
    BY <1>2 DEF MadeRoom
  <2>2. Min(K) \in K /\ \A y \in K : Min(K) <= y
    BY <2>1, MinOfNaturals
  <2>3. x \in K /\ x # Min(K) /\ Min(K) <= x
    BY <2>1, <2>2
  <2>4. z # Min(K)
    BY <2>2, <2>3
  <2> QED BY <2>1, <2>4
<1> QED BY <1>1, <1>2

\* A packet of the new sequence leaves what is past it unbroken.
LEMMA UnbrokenRoom ==
    ASSUME NEW K \in SUBSET Nat, NEW m \in Int, NEW e \in Nat, Unbroken(K, m), m <= e
    PROVE  Unbroken(MadeRoom(K) \cup {e}, e)
<1> SUFFICES ASSUME NEW x \in MadeRoom(K) \cup {e}, NEW y \in MadeRoom(K) \cup {e}, x > e,
                    NEW z \in x .. y
             PROVE  z \in MadeRoom(K)
  BY DEF Unbroken
<1>1. \A k \in MadeRoom(K) : k \in K /\ k \in Nat
  BY RoomWithin
<1>2. x \in MadeRoom(K) /\ x \in Nat /\ x > m
  <2>1. CASE x = e
    BY <2>1
  <2>2. CASE x \in MadeRoom(K)
    BY <1>1, <2>2
  <2> QED BY <2>1, <2>2
<1>3. y \in MadeRoom(K) /\ y \in Nat
  <2>1. CASE y = e
    <3>1. x <= y
      BY <1>2, <2>1
    <3> QED BY <1>2, <2>1, <3>1
  <2> QED BY <1>1, <2>1
<1>4. z \in K /\ z >= x
  BY <1>1, <1>2, <1>3 DEF Unbroken
<1> QED BY <1>2, <1>4, RoomAbove

\* A packet in order extends the keys by one, or is a copy of the newest.
LEMMA InOrderRoom ==
    ASSUME NEW K \in SUBSET Nat, NEW p, p # None => p \in Nat, NEW m \in Int, NEW e \in Nat,
           InOrder(K, p, m), e = m \/ e = m + 1
    PROVE  InOrder(MadeRoom(K) \cup {e}, p, e)
<1>1. \A k \in MadeRoom(K) : k \in K /\ k \in Nat
  BY RoomWithin
<1>2. /\ Unbroken(K, -1) /\ (\A k \in K : k <= m) /\ (K # {} => m \in K)
      /\ p # None => p <= m + 1
  BY DEF InOrder
<1>4. \A k \in MadeRoom(K) \cup {e} : k \in Nat /\ k <= e
  <2>1. \A k \in MadeRoom(K) : k <= e
    BY <1>1, <1>2
  <2> QED BY <1>1, <2>1
<1>3. Unbroken(MadeRoom(K) \cup {e}, -1)
  <2> SUFFICES ASSUME NEW x \in MadeRoom(K) \cup {e}, NEW y \in MadeRoom(K) \cup {e}, x > -1,
                      NEW z \in x .. y
               PROVE  z \in MadeRoom(K) \cup {e}
    BY DEF Unbroken
  <2>1. x \in Nat /\ y \in Nat /\ x <= e /\ y <= e /\ z \in Nat /\ x <= z /\ z <= y
    BY <1>4
  <2>2. CASE x = e
    BY <2>1, <2>2
  <2>3. CASE x # e /\ z = e
    BY <2>3
  <2>4. CASE x # e /\ z # e
    <3>1. x \in MadeRoom(K) /\ x \in K /\ m \in K /\ z <= m
      BY <1>1, <1>2, <2>1, <2>4
    <3>2. z \in K
      BY <1>2, <2>1, <3>1 DEF Unbroken
    <3> QED BY <2>1, <3>1, <3>2, RoomAbove
  <2> QED BY <2>2, <2>3, <2>4
<1> QED BY <1>2, <1>3, <1>4 DEF InOrder

\* Playing the oldest leaves no gap.
LEMMA UnbrokenPlayed ==
    ASSUME NEW K \in SUBSET Nat, NEW m \in Int, NEW next \in K, \A k \in K : k >= next,
           Unbroken(K, m)
    PROVE  Unbroken(K \ {next}, m)
<1> SUFFICES ASSUME NEW x \in K \ {next}, NEW y \in K \ {next}, x > m, NEW z \in x .. y
             PROVE  z \in K \ {next}
  BY DEF Unbroken
<1>1. z \in K
  BY DEF Unbroken
<1>2. x > next /\ z >= x
  OBVIOUS
<1> QED BY <1>1, <1>2

LEMMA InOrderPlayed ==
    ASSUME NEW K \in SUBSET Nat, NEW p, NEW m \in Int, NEW next \in K, \A k \in K : k >= next,
           InOrder(K, p, m)
    PROVE  InOrder(K \ {next}, next + 1, m)
<1>1. Unbroken(K \ {next}, -1)
  BY UnbrokenPlayed DEF InOrder
<1>2. next <= m /\ m \in K /\ \A k \in K : k <= m
  BY DEF InOrder
<1>3. K \ {next} # {} => m \in K \ {next}
  <2> SUFFICES ASSUME NEW k \in K, k # next PROVE m # next
    BY <1>2
  <2> QED BY <1>2
<1> QED BY <1>1, <1>2, <1>3 DEF InOrder

\* Keys without a gap are less than a buffer's worth apart.
LEMMA Spread ==
    ASSUME NEW K \in SUBSET Nat, IsFiniteSet(K), NEW m \in Int, Unbroken(K, m),
           NEW c \in Nat, Cardinality(K) <= c,
           NEW x \in K, NEW y \in K, x > m
    PROVE  y - x < c
<1>1. CASE y < x
  <2>1. c # 0
    <3>1. Cardinality(K) \in Nat /\ Cardinality(K) # 0
      BY FS_EmptySet, FS_CardinalityType
    <3> QED BY <3>1
  <2> QED BY <1>1, <2>1
<1>2. CASE y >= x
  <2>1. x .. y \subseteq K
    BY DEF Unbroken
  <2>2. IsFiniteSet(x .. y) /\ Cardinality(x .. y) = y - x + 1
    BY <1>2, FS_Interval
  <2>3. Cardinality(x .. y) <= Cardinality(K) /\ Cardinality(K) \in Nat
    BY <2>1, FS_Subset, FS_CardinalityType
  <2> QED BY <1>2, <2>2, <2>3
<1> QED BY <1>1, <1>2

\* What a packet dropped as late shows: the first, and each one after it.
LEMMA FirstLate ==
    ASSUME NEW K \in SUBSET Nat, NEW p \in Nat, NEW m \in Nat, discontinuity \in Nat,
           m < p, p - m <= discontinuity, \A k \in K : k >= p,
           \A x, y \in K : y - x < discontinuity
    PROVE  Recovering(K, p, m, 1)
<1> DEFINE c == discontinuity
<1>0. p # None /\ m - 1 + 1 = m /\ c \in Nat
  BY NoneAssumption
<1> HIDE DEF c
<1>1. CASE \A k \in K : k - p > c
  BY <1>0, <1>1 DEF Recovering, c
<1>2. CASE \E x \in K : ~(x - p > c)
  <2>1. PICK x \in K : x - p <= c
    BY <1>0, <1>2
  <2>2. \A k \in K : k - m < 3 * c
    <3> SUFFICES ASSUME NEW k \in K PROVE k - m < 3 * c
      OBVIOUS
    <3>1. k - x < c /\ x - p <= c /\ p - m <= c
      BY <2>1 DEF c
    <3> QED BY <1>0, <3>1
  <2>3. p - m <= 3 * c
    BY <1>0 DEF c
  <2> QED BY <1>0, <2>2, <2>3 DEF Recovering, c
<1> QED BY <1>1, <1>2

LEMMA NextLate ==
    ASSUME NEW K \in SUBSET Nat, NEW p \in Nat, NEW m \in Nat, NEW r \in Nat,
           discontinuity \in Nat, Recovering(K, p, m, r),
           m + 1 < p, p - (m + 1) <= discontinuity
    PROVE  Recovering(K, p, m + 1, r + 1)
<1>1. (m + 1) - (r + 1) + 1 = m - r + 1
  OBVIOUS
<1>2. ~(p - (m + 1) > discontinuity)
  OBVIOUS
<1> QED BY <1>1, <1>2 DEF Recovering

\* Playing or concealing a packet brings the end of it nearer.
LEMMA RecoveringPlayed ==
    ASSUME NEW K \in SUBSET Nat, NEW p \in Nat, NEW m \in Nat, NEW r \in Nat,
           discontinuity \in Nat, Recovering(K, p, m, r), NEW next \in K, next >= p,
           next = p \/ next - p > discontinuity
    PROVE  Recovering(K \ {next}, next + 1, m, r)
<1> DEFINE c == discontinuity
           s == m - r + 1
<1>0. c \in Nat /\ s \in Int /\ m < p /\ next + 1 # None /\ m < next + 1 /\ r = m - s + 1
  BY NoneAssumption DEF Recovering
<1>1. CASE p - s <= 3 * c /\ \A k \in K : k - s < 3 * c
  <2>1. next - s < 3 * c
    BY <1>1
  <2>2. (next + 1) - s <= 3 * c
    BY <1>0, <2>1
  <2> QED BY <1>0, <1>1, <2>2 DEF Recovering
<1>2. CASE p - s <= c /\ \A k \in K : k - p > c
  <2>1. next - p > c
    BY <1>2
  <2>2. (next + 1) - (m + 1) > c /\ r <= 3 * c
    BY <1>0, <1>2, <2>1
  <2> QED BY <1>0, <2>2 DEF Recovering
<1>3. CASE p - (m + 1) > c /\ r <= 3 * c
  <2>1. (next + 1) - (m + 1) > c
    BY <1>0, <1>3
  <2> QED BY <1>0, <1>3, <2>1 DEF Recovering
<1> QED BY <1>1, <1>2, <1>3 DEF Recovering

LEMMA RecoveringConcealed ==
    ASSUME NEW K \in SUBSET Nat, NEW p \in Nat, NEW m \in Nat, NEW r \in Nat,
           discontinuity \in Nat, Recovering(K, p, m, r), NEW next \in K, next > p,
           next - p <= discontinuity
    PROVE  Recovering(K, p + 1, m, r)
<1> DEFINE c == discontinuity
           s == m - r + 1
<1>0. c \in Nat /\ s \in Int /\ m < p /\ p + 1 # None /\ m < p + 1
  BY NoneAssumption DEF Recovering
<1>1. CASE p - s <= 3 * c /\ \A k \in K : k - s < 3 * c
  <2>1. next - s < 3 * c
    BY <1>1
  <2>2. (p + 1) - s <= 3 * c
    BY <1>0, <2>1
  <2> QED BY <1>0, <1>1, <2>2 DEF Recovering
<1>2. CASE p - (m + 1) > c /\ r <= 3 * c
  <2>1. (p + 1) - (m + 1) > c
    BY <1>0, <1>2
  <2> QED BY <1>0, <1>2, <2>1 DEF Recovering
<1>3. ~(\A k \in K : k - p > c)
  OBVIOUS
<1> QED BY <1>1, <1>2, <1>3 DEF Recovering

\* However it ends, three buffers' worth is the most there can be of it.
LEMMA RecoveringBound ==
    ASSUME NEW K, NEW p \in Nat, NEW m \in Nat, NEW r \in Nat, discontinuity \in Nat,
           Recovering(K, p, m, r)
    PROVE  r <= 3 * discontinuity
BY DEF Recovering


\* What the lemmas below assume of a state.
ResyncState == ResyncInv /\ restarts <= 1 /\ Recoverable(net)

\* The numbers in use are within half the sequence space, and do not wrap.
LEMMA UsableTypes ==
    ASSUME ResyncState
    PROVE  /\ first_seq \in Nat /\ first_seq + net.numbers + 1 < SeqSpace
           /\ \A x : Usable(x) => x \in Nat /\ x + 1 < SeqSpace
           /\ \A x, y : Usable(x) /\ Usable(y) => x - y <= SeqSpace \div 2
<1> DEFINE h == SeqSpace \div 2
           f == net.first
           g == first_seq
           N == net.numbers
<1>1. f \in Nat /\ N \in Nat /\ SeqSpace \in Nat \ {0} /\ h \in Int
  BY NetTypes DEF ResyncState, ResyncInv
<1>2. f + N + 1 < SeqSpace /\ N <= h
  BY DEF ResyncState, Recoverable
<1>3. g \in Nat /\ g + N + 1 < SeqSpace /\ (g + N) - f <= h /\ (f + N) - g <= h
  <2>1. CASE restarts = 0
    <3>1. g = f
      BY <2>1 DEF ResyncState, ResyncInv
    <3> QED BY <1>1, <1>2, <3>1
  <2>2. CASE restarts # 0
    <3>1. restarts = 1
      BY <2>2 DEF ResyncState, ResyncInv
    <3>2. PICK jump \in Jumps : g = (f + jump) % SeqSpace
      BY <3>1 DEF ResyncState, ResyncInv
    <3>3. jump \in Nat
      BY StreamAssumption DEF SeqNumber
    <3>4. g \in Nat
      <4>1. f + jump \in Nat
        BY <1>1, <3>3
      <4> QED BY <1>1, <3>2, <4>1, SeqDivision
    <3>5. WithinHalf(net, g)
      BY <3>2 DEF ResyncState, Recoverable
    <3> QED BY <3>4, <3>5 DEF WithinHalf
  <2> QED BY <2>1, <2>2
<1>4. ASSUME NEW x, Usable(x)
      PROVE  x \in Nat /\ ((f <= x /\ x <= f + N) \/ (g <= x /\ x <= g + N))
  BY <1>1, <1>3, <1>4 DEF Usable
<1> HIDE DEF f, g, N, h
<1>5. \A x : Usable(x) => x \in Nat /\ x + 1 < SeqSpace
  BY <1>1, <1>2, <1>3, <1>4
<1>6. \A x, y : Usable(x) /\ Usable(y) => x - y <= h
  <2> SUFFICES ASSUME NEW x, NEW y, Usable(x), Usable(y) PROVE x - y <= h
    OBVIOUS
  <2> QED BY <1>1, <1>2, <1>3, <1>4
<1> QED BY <1>3, <1>5, <1>6 DEF f, g, N, h

\* A packet that arrives is the newest again or the next one, and its key is
\* its sequence number.
LEMMA InPlace ==
    ASSUME ResyncState, NEW n \in Arrivals
    PROVE  /\ n \in Nat /\ n <= net.numbers /\ newest \in Int /\ newest >= -1
           /\ n = newest \/ n = newest + 1
           /\ newest < oldest => n = newest + 1
           /\ n >= oldest
           /\ Usable(Place(n)) /\ Place(n) \in Nat
           /\ SeqOf(n) = Place(n) /\ SeqOf(n) \in SeqNumber /\ n \in Timestamp
           /\ ExtendedCycles(PreviousSeq(SeqOf(n)), SeqOf(n)) = 0
           /\ extend_seq(SeqOf(n)) = Place(n)
<1>1. /\ net.numbers \in Nat /\ net.numbers < TsSpace /\ SeqSpace \in Nat \ {0}
      /\ CycleSpace \in Nat \ {0} /\ net.reorder = 0 /\ net.gap = 0
  BY NetTypes DEF ResyncState, ResyncInv, Recoverable
<1>2. newest \in Int /\ newest >= -1 /\ oldest \in Nat /\ seq_cycles = 0
  BY <1>1 DEF ResyncState, ResyncInv
<1>3. n \in oldest .. net.numbers /\ n >= newest - 0 /\ n <= newest + 1 + 0
  BY <1>1 DEF Arrivals
<1>4. /\ n \in Nat /\ n <= net.numbers /\ (n = newest \/ n = newest + 1)
      /\ (newest < oldest => n = newest + 1) /\ n >= oldest /\ n \in Timestamp
  BY <1>1, <1>2, <1>3, SpaceAssumption DEF Timestamp
<1>5. /\ first_seq \in Nat /\ first_seq + net.numbers + 1 < SeqSpace
      /\ \A x : Usable(x) => x \in Nat /\ x + 1 < SeqSpace
      /\ \A x, y : Usable(x) /\ Usable(y) => x - y <= SeqSpace \div 2
  BY UsableTypes
<1>6. Usable(Place(n)) /\ Place(n) \in Nat /\ Place(n) \in 0 .. SeqSpace - 1
  BY <1>1, <1>4, <1>5 DEF Usable, Place
<1>7. SeqOf(n) = Place(n) /\ SeqOf(n) \in SeqNumber
  BY <1>1, <1>6 DEF SeqOf, Place, SeqNumber
<1>8. Usable(PreviousSeq(SeqOf(n)))
  <2>1. CASE newest = -1
    <3>1. base_timestamp = None
      BY <2>1 DEF ResyncState, ResyncInv
    <3> QED BY <1>6, <1>7, <3>1 DEF PreviousSeq
  <2>2. CASE newest # -1
    BY <2>2 DEF ResyncState, ResyncInv, PreviousSeq
  <2> QED BY <2>1, <2>2
<1>9. ExtendedCycles(PreviousSeq(SeqOf(n)), SeqOf(n)) = 0
  <2> DEFINE l == PreviousSeq(SeqOf(n))
             e == Place(n)
  <2>1. l \in Nat /\ e \in Nat /\ SeqSpace \div 2 \in Int
        /\ l - e <= SeqSpace \div 2 /\ e - l <= SeqSpace \div 2
    BY <1>1, <1>5, <1>6, <1>8
  <2> HIDE DEF l, e
  <2>2. ExtendedCycles(l, e) = 0
    BY <1>2, <2>1 DEF ExtendedCycles
  <2> QED BY <1>7, <2>2 DEF l, e
<1>10. extend_seq(SeqOf(n)) = Place(n)
  <2>1. extend_seq(SeqOf(n)) = 0 * SeqSpace + Place(n)
    BY <1>7, <1>9 DEF extend_seq
  <2> QED BY <1>1, <1>6, <2>1
<1> QED BY <1>2, <1>4, <1>6, <1>7, <1>9, <1>10

\* The parts of the invariant that are numbers, once a packet has arrived.
LEMMA ResyncTypes ==
    ASSUME ResyncState
    PROVE  /\ IInv /\ Keys \in SUBSET Nat /\ IsFiniteSet(Keys)
           /\ Cardinality(Keys) \in Nat /\ Cardinality(Keys) <= discontinuity
           /\ discontinuity \in Nat /\ discontinuity >= 1
           /\ playout_seq # None => /\ playout_seq \in Nat
                                    /\ \A k \in Keys : k >= playout_seq
           /\ lateRun \in Nat /\ newest \in Int /\ newest >= -1 /\ oldest \in Nat
           /\ newest # -1 => newest \in Nat /\ Place(newest) \in Nat
<1>1. /\ IInv /\ net \in Networks /\ lateRun \in Nat /\ newest \in -1 .. net.numbers
      /\ oldest \in Nat
  BY DEF ResyncState, ResyncInv
<1>2. TypeOK /\ WithinCapacity /\ NothingStranded
  BY <1>1 DEF IInv
<1>3. discontinuity \in Nat /\ discontinuity >= 1 /\ net.numbers \in Nat
  BY <1>1, NetTypes
<1>4. Keys \in SUBSET Nat /\ IsFiniteSet(Keys) /\ Cardinality(Keys) \in Nat
  BY <1>2, TypeKeys
<1>5. playout_seq # None => playout_seq \in Nat
  BY <1>2, SpaceAssumption DEF TypeOK, ExtendedSeq
<1>6. first_seq \in Nat
  BY UsableTypes
<1>7. newest \in Int /\ newest >= -1 /\ (newest # -1 => newest \in Nat)
  BY <1>1, <1>3
<1> QED BY <1>1, <1>2, <1>3, <1>4, <1>5, <1>6, <1>7 DEF WithinCapacity, NothingStranded, Place

\* Steps that neither push nor pop.
LEMMA ResyncFrame ==
    ASSUME ResyncInv, IInv',
           UNCHANGED <<packets, playout_seq, seq_cycles, last_seq, base_timestamp, envVars,
                       lateRun>>
    PROVE  ResyncInv'
BY DEF ResyncInv, envVars, Resyncing, Usable, Place, Keys

LEMMA ResyncInit == StreamInit => ResyncInv
<1> SUFFICES ASSUME StreamInit PROVE ResyncInv
  OBVIOUS
<1>1. Keys = {} /\ net \in Networks
  BY DEF StreamInit, Init, Keys
<1>2. IInv
  BY InvInit DEF StreamInit
<1>3. net.numbers \in Nat
  BY <1>1, NetTypes
<1> QED BY <1>1, <1>2, <1>3 DEF StreamInit, Init, ResyncInv


\* What is left to show of a step once a packet has arrived.
LEMMA ResyncAfter ==
    ASSUME ResyncState, IInv', UNCHANGED <<net, first_seq, oldest, restarts>>,
           newest' \in Nat, newest' <= net.numbers, lateRun' \in Nat,
           seq_cycles' = 0, base_timestamp' # None,
           Usable(last_seq'), \A k \in Keys' : Usable(k), Resyncing'
    PROVE  ResyncInv'
<1>1. net.numbers \in Nat
  BY NetTypes DEF ResyncState, ResyncInv
<1>2. newest' \in -1 .. net'.numbers /\ newest' # -1
  BY <1>1
<1>3. Usable(last_seq)' /\ \A k \in Keys' : Usable(k)'
  BY DEF Usable
<1>4. oldest' \in Nat /\ restarts' \in Nat /\ net' \in Networks
      /\ (restarts' = 0 => first_seq' = net'.first)
      /\ (restarts' = 1 => \E jump \in Jumps : first_seq' = (net'.first + jump) % SeqSpace)
  BY DEF ResyncState, ResyncInv
<1> HIDE DEF Usable, Resyncing
<1> QED BY <1>2, <1>3, <1>4 DEF ResyncInv

\* A packet dropped as late is the newest again, or one more of a new sequence
\* that has started just behind playout.
LEMMA ResyncLate ==
    ASSUME ResyncState, NEW n \in Arrivals, Deliver(n), PushLate(SeqOf(n), n),
           lateRun' = IF n > newest THEN lateRun + 1 ELSE lateRun
    PROVE  ResyncInv'
<1> DEFINE m == Place(newest)
           e == Place(n)
           p == playout_seq
           c == discontinuity
<1>1. /\ n \in Nat /\ n <= net.numbers /\ newest \in Int /\ newest >= -1
      /\ (n = newest \/ n = newest + 1) /\ (newest < oldest => n = newest + 1) /\ n >= oldest
      /\ Usable(e) /\ e \in Nat
      /\ SeqOf(n) = e /\ SeqOf(n) \in SeqNumber /\ n \in Timestamp
      /\ ExtendedCycles(PreviousSeq(SeqOf(n)), SeqOf(n)) = 0
      /\ extend_seq(SeqOf(n)) = e
  BY InPlace
<1>2. /\ IInv /\ Keys \in SUBSET Nat /\ IsFiniteSet(Keys)
      /\ Cardinality(Keys) \in Nat /\ Cardinality(Keys) <= c /\ c \in Nat /\ c >= 1
      /\ (p # None => p \in Nat /\ \A k \in Keys : k >= p)
      /\ lateRun \in Nat /\ oldest \in Nat
      /\ (newest # -1 => newest \in Nat /\ m \in Nat)
  BY ResyncTypes
<1>3. p # None /\ e < p /\ p - e <= c
  BY <1>1 DEF PushLate, IsLate, BehindPlayout
<1>4. newest # -1
  BY <1>3 DEF ResyncState, ResyncInv
<1>5. /\ base_timestamp # None /\ Usable(last_seq) /\ (\A k \in Keys : Usable(k)) /\ Resyncing
  BY <1>4 DEF ResyncState, ResyncInv
<1>6. /\ UNCHANGED <<packets, playout_seq, last_seq, net, first_seq, oldest, restarts>>
      /\ base_timestamp' = base_timestamp /\ seq_cycles' = 0 /\ Keys' = Keys
      /\ newest' = n
  BY <1>1, <1>5 DEF Deliver, PushLate, Arrive, Keys
<1>7. IInv'
  BY <1>1, <1>2, InvPushLate
<1>8. first_seq \in Nat /\ (n = newest => e = m) /\ (n = newest + 1 => e = m + 1)
  BY <1>1, <1>2, <1>4, UsableTypes DEF Place
<1>9. Place(newest)' = e /\ lateRun' \in Nat
  BY <1>1, <1>2, <1>6 DEF Place
<1>10. ASSUME NEW b \in Int, b <= e, Unbroken(Keys, b)
       PROVE  Recovering(Keys, p, e, 1)
  <2>1. \A x, y \in Keys : y - x < c
    <3> SUFFICES ASSUME NEW x \in Keys, NEW y \in Keys PROVE y - x < c
      OBVIOUS
    <3>1. x > b
      <4>1. x >= p /\ x \in Nat
        BY <1>2, <1>3
      <4> QED BY <1>1, <1>2, <1>3, <1>10, <4>1
    <3> HIDE DEF c
    <3> QED BY <1>2, <1>10, <3>1, Spread
  <2> HIDE DEF e
  <2> QED BY <1>1, <1>2, <1>3, <2>1, FirstLate
<1>11. Resyncing'
  <2>1. CASE restarts = 0
    <3>1. oldest = 0 /\ lateRun = 0 /\ InOrder(Keys, p, m)
      BY <1>5, <2>1 DEF Resyncing
    <3>2. p <= m + 1
      BY <1>3, <3>1 DEF InOrder
    <3>3. n = newest
      <4> HIDE DEF e, m
      <4> QED BY <1>1, <1>2, <1>3, <1>4, <1>8, <3>2
    <3>4. lateRun' = 0 /\ e = m
      BY <1>1, <1>8, <3>1, <3>3
    <3> QED BY <1>6, <1>9, <2>1, <3>1, <3>4 DEF Resyncing
  <2>2. CASE restarts # 0
    <3>1. ~(n < oldest)
      BY <1>1, <1>2
    <3>2. SUFFICES Unbroken(Keys, e) /\ (lateRun' = 0 \/ Recovering(Keys, p, e, lateRun'))
      BY <1>6, <1>9, <2>2, <3>1 DEF Resyncing
    <3>3. CASE newest < oldest
      <4>1. lateRun = 0 /\ Unbroken(Keys, -1) /\ n = newest + 1
        BY <1>1, <1>5, <2>2, <3>3 DEF Resyncing
      <4>2. lateRun' = 1
        BY <1>1, <4>1
      <4>3. Recovering(Keys, p, e, 1)
        BY <1>1, <1>10, <4>1
      <4>4. Unbroken(Keys, e)
        BY <1>1, <1>2, <4>1 DEF Unbroken
      <4> QED BY <4>2, <4>3, <4>4
    <3>4. CASE ~(newest < oldest)
      <4>1. Unbroken(Keys, m) /\ (lateRun = 0 \/ Recovering(Keys, p, m, lateRun))
        BY <1>5, <2>2, <3>4 DEF Resyncing
      <4>2. CASE n = newest
        <5>1. e = m /\ lateRun' = lateRun
          BY <1>1, <1>8, <4>2
        <5> QED BY <4>1, <5>1
      <4>3. CASE n = newest + 1
        <5>1. e = m + 1 /\ lateRun' = lateRun + 1 /\ m \in Nat
          BY <1>1, <1>2, <1>4, <1>8, <4>3
        <5> HIDE DEF e, m
        <5>2. Unbroken(Keys, e)
          BY <1>2, <4>1, <5>1 DEF Unbroken
        <5>3. CASE lateRun = 0
          <6>1. Recovering(Keys, p, e, 1)
            BY <1>10, <4>1, <5>1
          <6> QED BY <5>1, <5>2, <5>3, <6>1
        <5>4. CASE lateRun # 0
          <6>1. Recovering(Keys, p, m, lateRun) /\ m + 1 < p /\ p - (m + 1) <= c
            BY <1>3, <4>1, <5>1, <5>4
          <6>2. Recovering(Keys, p, m + 1, lateRun + 1)
            BY <1>2, <1>3, <5>1, <6>1, NextLate
          <6> QED BY <5>1, <5>2, <6>2
        <5> QED BY <5>3, <5>4
      <4> QED BY <1>1, <4>2, <4>3
    <3> QED BY <3>3, <3>4
  <2> QED BY <2>1, <2>2
<1> HIDE DEF m, e, p, c
<1> QED BY <1>1, <1>5, <1>6, <1>7, <1>9, <1>11, ResyncAfter

\* A packet that is buffered ends a run of late ones.
LEMMA ResyncBuffered ==
    ASSUME ResyncState, NEW n \in Arrivals, Deliver(n), PushBuffered(SeqOf(n), n), lateRun' = 0
    PROVE  ResyncInv'
<1> DEFINE m == Place(newest)
           e == Place(n)
           p == playout_seq
           c == discontinuity
           before == IF IsRestart(e) THEN {} ELSE Keys
<1>1. /\ n \in Nat /\ n <= net.numbers /\ newest \in Int /\ newest >= -1
      /\ (n = newest \/ n = newest + 1) /\ (newest < oldest => n = newest + 1) /\ n >= oldest
      /\ Usable(e) /\ e \in Nat
      /\ SeqOf(n) = e /\ SeqOf(n) \in SeqNumber /\ n \in Timestamp
      /\ ExtendedCycles(PreviousSeq(SeqOf(n)), SeqOf(n)) = 0
      /\ extend_seq(SeqOf(n)) = e
  BY InPlace
<1>2. /\ IInv /\ Keys \in SUBSET Nat /\ c \in Nat /\ c >= 1
      /\ (p # None => p \in Nat)
      /\ oldest \in Nat
      /\ (newest # -1 => newest \in Nat /\ m \in Nat)
  BY ResyncTypes
<1>3. /\ Keys' = MadeRoom(before) \cup {e}
      /\ playout_seq' = IF IsRestart(e) THEN None ELSE p
      /\ last_seq' = e /\ seq_cycles' = 0
      /\ base_timestamp' = IF base_timestamp = None THEN n ELSE base_timestamp
      /\ UNCHANGED <<net, first_seq, oldest, restarts>> /\ newest' = n
  BY <1>1 DEF PushBuffered, Arrive, Deliver, Keys
<1>4. IInv'
  BY <1>1, <1>2, InvPushBuffered
<1>5. base_timestamp' # None
  BY <1>1, <1>3, NoneAssumption
<1>6. first_seq \in Nat /\ (n = newest => e = m) /\ (n = newest + 1 => e = m + 1)
  BY <1>1, UsableTypes DEF Place
<1>7. Place(newest)' = e
  BY <1>3 DEF Place
<1>8. \A k \in Keys' : Usable(k)
  <2>1. \A k \in Keys : Usable(k)
    BY DEF ResyncState, ResyncInv
  <2>2. MadeRoom(before) \subseteq before /\ before \subseteq Keys
    BY RoomWithin
  <2> HIDE DEF before, e
  <2> QED BY <1>1, <1>3, <2>1, <2>2
<1>9. Resyncing'
  <2>1. CASE newest = -1
    <3>1. restarts = 0 /\ oldest = 0 /\ Keys = {} /\ p = None
      BY <2>1 DEF ResyncState, ResyncInv
    <3>2. Keys' = {e} /\ playout_seq' = None
      BY <1>3, <3>1 DEF IsRestart, BehindPlayout, MadeRoom
    <3>3. InOrder({e}, None, e)
      BY <1>1 DEF InOrder, Unbroken
    <3> HIDE DEF e
    <3> QED BY <1>3, <1>7, <3>1, <3>2, <3>3 DEF Resyncing
  <2>2. CASE newest # -1 /\ restarts = 0
    <3>1. oldest = 0 /\ InOrder(Keys, p, m)
      BY <2>2 DEF ResyncState, ResyncInv, Resyncing
    <3>2. ~IsRestart(e)
      <4> SUFFICES ASSUME IsRestart(e) PROVE FALSE
        OBVIOUS
      <4>1. p # None /\ p - e > c /\ p <= m + 1
        BY <3>1 DEF IsRestart, BehindPlayout, InOrder
      <4> HIDE DEF e, m, p, c
      <4> QED BY <1>1, <1>2, <1>6, <2>2, <4>1
    <3>3. Keys' = MadeRoom(Keys) \cup {e} /\ playout_seq' = p
      BY <1>3, <3>2
    <3>4. InOrder(MadeRoom(Keys) \cup {e}, p, e)
      <4>1. m \in Int /\ (e = m \/ e = m + 1)
        BY <1>1, <1>2, <1>6, <2>2
      <4> HIDE DEF e, m
      <4> QED BY <1>1, <1>2, <3>1, <4>1, InOrderRoom
    <3> HIDE DEF e
    <3> QED BY <1>3, <1>7, <2>2, <3>1, <3>3, <3>4 DEF Resyncing
  <2>3. CASE newest # -1 /\ restarts # 0
    <3>1. PICK b \in Int : b <= e /\ Unbroken(Keys, b)
      <4>1. CASE newest < oldest
        <5>1. Unbroken(Keys, -1)
          BY <2>3, <4>1 DEF ResyncState, ResyncInv, Resyncing
        <5> QED BY <1>1, <5>1
      <4>2. CASE ~(newest < oldest)
        <5>1. Unbroken(Keys, m)
          BY <2>3, <4>2 DEF ResyncState, ResyncInv, Resyncing
        <5>2. m \in Int /\ m <= e
          BY <1>1, <1>2, <1>6, <2>3
        <5> QED BY <5>1, <5>2
      <4> QED BY <4>1, <4>2
    <3>2. Unbroken(before, b) /\ before \in SUBSET Nat
      BY <1>2, <3>1 DEF Unbroken
    <3>3. Unbroken(MadeRoom(before) \cup {e}, e)
      <4> HIDE DEF e, before
      <4> QED BY <1>1, <3>1, <3>2, UnbrokenRoom
    <3>4. ~(n < oldest)
      BY <1>1, <1>2
    <3> HIDE DEF e, before
    <3> QED BY <1>3, <1>7, <2>3, <3>3, <3>4 DEF Resyncing
  <2> QED BY <2>1, <2>2, <2>3
<1> HIDE DEF m, e, p, c, before
<1> QED BY <1>1, <1>3, <1>4, <1>5, <1>8, <1>9, ResyncAfter

\* Playing a packet, or skipping to it.
LEMMA ResyncPlayed ==
    ASSUME ResyncState, PlayTick, PopPacket
    PROVE  ResyncInv'
<1> DEFINE m == Place(newest)
           p == playout_seq
           next == Min(AtOrPast(PlayoutStart))
<1>1. /\ IInv /\ Keys \in SUBSET Nat /\ discontinuity \in Nat
      /\ (p # None => p \in Nat) /\ lateRun \in Nat /\ oldest \in Nat
      /\ newest \in Int /\ newest >= -1
      /\ (newest # -1 => newest \in Nat /\ m \in Nat)
  BY ResyncTypes
<1>2. /\ next \in Keys /\ next >= PlayoutStart /\ \A k \in Keys : k >= next
  BY <1>1, PopTarget DEF PopPacket
<1>3. /\ next = PlayoutStart \/ next - PlayoutStart > discontinuity
      /\ playout_seq' = (next + 1) % (SeqSpace * CycleSpace)
      /\ Keys' = Keys \ {next}
      /\ UNCHANGED <<seq_cycles, last_seq, base_timestamp>>
  BY DEF PopPacket, HandOut, Keys
<1>4. UNCHANGED <<envVars, lateRun>>
  BY DEF PlayTick
<1>5. IInv'
  BY <1>1, InvPopPacket
<1>6. /\ newest # -1 /\ base_timestamp # None /\ Usable(last_seq) /\ seq_cycles = 0
      /\ \A k \in Keys : Usable(k)
      /\ Resyncing /\ newest <= net.numbers
  <2>1. newest # -1
    BY <1>2 DEF ResyncState, ResyncInv
  <2>2. net.numbers \in Nat
    BY NetTypes DEF ResyncState, ResyncInv
  <2> QED BY <2>1, <2>2 DEF ResyncState, ResyncInv
<1>7. playout_seq' = next + 1 /\ next \in Nat
  <2>1. next \in Nat /\ next + 1 < SeqSpace
    BY <1>2, <1>6, UsableTypes
  <2> HIDE DEF next
  <2>2. SeqSpace \in Nat \ {0} /\ CycleSpace \in Nat \ {0}
    BY SpaceAssumption
  <2>3. SeqSpace * CycleSpace \in Nat /\ SeqSpace <= SeqSpace * CycleSpace
    BY ONLY <2>2, SMTT(30)
  <2> DEFINE space == SeqSpace * CycleSpace
  <2>4. next + 1 \in 0 .. space - 1 /\ space \in Nat \ {0}
    BY <2>1, <2>2, <2>3
  <2>5. playout_seq' = (next + 1) % space
    BY <1>3
  <2> HIDE DEF space
  <2> QED BY <2>1, <2>4, <2>5
<1>8. Place(newest)' = m /\ (\A k \in Keys' : Usable(k))
  BY <1>3, <1>4, <1>6 DEF Place, envVars
<1> HIDE DEF m, next
<1>9. Resyncing'
  <2>1. CASE restarts = 0
    <3>1. oldest = 0 /\ lateRun = 0 /\ InOrder(Keys, p, m)
      BY <1>6, <2>1 DEF Resyncing, m
    <3>2. InOrder(Keys \ {next}, next + 1, m)
      BY <1>1, <1>2, <1>6, <3>1, InOrderPlayed
    <3> QED BY <1>3, <1>4, <1>7, <1>8, <2>1, <3>1, <3>2 DEF Resyncing, envVars
  <2>2. CASE restarts # 0 /\ newest < oldest
    <3>1. oldest = newest + 1 /\ lateRun = 0 /\ Unbroken(Keys, -1)
      BY <1>6, <2>2 DEF Resyncing
    <3>2. Unbroken(Keys \ {next}, -1)
      BY <1>1, <1>2, <3>1, UnbrokenPlayed
    <3> QED BY <1>3, <1>4, <2>2, <3>1, <3>2 DEF Resyncing, envVars
  <2>3. CASE restarts # 0 /\ ~(newest < oldest)
    <3>1. Unbroken(Keys, m) /\ (lateRun = 0 \/ Recovering(Keys, p, m, lateRun))
      BY <1>6, <2>3 DEF Resyncing, m
    <3>2. Unbroken(Keys \ {next}, m)
      BY <1>1, <1>2, <1>6, <3>1, UnbrokenPlayed
    <3>3. lateRun # 0 => Recovering(Keys \ {next}, next + 1, m, lateRun)
      <4> SUFFICES ASSUME lateRun # 0 PROVE Recovering(Keys \ {next}, next + 1, m, lateRun)
        OBVIOUS
      <4>1. Recovering(Keys, p, m, lateRun)
        BY <3>1
      <4>2. p # None /\ p \in Nat /\ PlayoutStart = p
        BY <1>1, <4>1 DEF Recovering, PlayoutStart
      <4> QED BY <1>1, <1>2, <1>3, <1>6, <4>1, <4>2, RecoveringPlayed
    <3> QED BY <1>3, <1>4, <1>7, <1>8, <2>3, <3>2, <3>3 DEF Resyncing, envVars
  <2> QED BY <2>1, <2>2, <2>3
<1> QED BY <1>1, <1>3, <1>4, <1>5, <1>6, <1>8, <1>9, ResyncAfter DEF envVars


\* Concealing a packet.
LEMMA ResyncConcealed ==
    ASSUME ResyncState, PlayTick, PopLost
    PROVE  ResyncInv'
<1> DEFINE m == Place(newest)
           p == playout_seq
           next == Min(AtOrPast(PlayoutStart))
<1>1. /\ IInv /\ Keys \in SUBSET Nat /\ discontinuity \in Nat
      /\ (p # None => p \in Nat) /\ lateRun \in Nat /\ oldest \in Nat
      /\ newest \in Int /\ newest >= -1
      /\ (newest # -1 => newest \in Nat /\ m \in Nat)
  BY ResyncTypes
<1>2. /\ next \in Keys /\ next >= PlayoutStart /\ \A k \in Keys : k >= next
  BY <1>1, PopTarget DEF PopLost
<1>3. /\ next # PlayoutStart /\ next - PlayoutStart <= discontinuity
      /\ playout_seq' = (PlayoutStart + 1) % (SeqSpace * CycleSpace)
      /\ packets' = packets /\ Keys' = Keys
      /\ UNCHANGED <<seq_cycles, last_seq, base_timestamp>>
  BY DEF PopLost, HandOut, Keys
<1>4. UNCHANGED <<envVars, lateRun>>
  BY DEF PlayTick
<1>5. IInv'
  BY <1>1, InvPopLost
<1>6. /\ newest # -1 /\ base_timestamp # None /\ Usable(last_seq) /\ seq_cycles = 0
      /\ \A k \in Keys : Usable(k)
      /\ Resyncing /\ newest <= net.numbers
  <2>1. newest # -1
    BY <1>2 DEF ResyncState, ResyncInv
  <2>2. net.numbers \in Nat
    BY NetTypes DEF ResyncState, ResyncInv
  <2> QED BY <2>1, <2>2 DEF ResyncState, ResyncInv
<1>7. p # None /\ PlayoutStart = p /\ p \in Nat
  <2>1. CASE p = None
    <3>1. PlayoutStart = Min(Keys)
      BY <2>1 DEF PlayoutStart
    <3>2. Min(Keys) \in Keys /\ \A y \in Keys : Min(Keys) <= y
      BY <1>1, <1>2, MinOfNaturals
    <3> HIDE DEF next
    <3>3. next <= Min(Keys) /\ Min(Keys) <= next /\ next \in Nat /\ Min(Keys) \in Nat
      BY <1>1, <1>2, <3>2
    <3>4. next = Min(Keys)
      BY <3>3
    <3> QED BY <1>3, <3>1, <3>4
  <2> QED BY <1>1, <2>1 DEF PlayoutStart
<1>8. playout_seq' = p + 1 /\ next \in Nat /\ next > p
  <2>1. next \in Nat /\ next + 1 < SeqSpace
    BY <1>2, <1>6, UsableTypes
  <2> HIDE DEF next
  <2>2. SeqSpace \in Nat \ {0} /\ CycleSpace \in Nat \ {0}
    BY SpaceAssumption
  <2>3. SeqSpace * CycleSpace \in Nat /\ SeqSpace <= SeqSpace * CycleSpace
    BY ONLY <2>2, SMTT(30)
  <2> DEFINE space == SeqSpace * CycleSpace
  <2>4. p + 1 \in 0 .. space - 1 /\ space \in Nat \ {0} /\ next > p
    BY <1>2, <1>3, <1>7, <2>1, <2>2, <2>3
  <2>5. playout_seq' = (p + 1) % space
    BY <1>3, <1>7
  <2> HIDE DEF space
  <2> QED BY <1>7, <2>1, <2>4, <2>5
<1>9. Place(newest)' = m
  BY <1>4 DEF Place, envVars
<1> HIDE DEF m, next
<1>10. Resyncing'
  <2>1. CASE restarts = 0
    <3>1. oldest = 0 /\ lateRun = 0 /\ InOrder(Keys, p, m)
      BY <1>6, <2>1 DEF Resyncing, m
    <3>2. next <= m
      BY <1>2, <3>1 DEF InOrder
    <3>3. p + 1 <= m + 1
      BY <1>1, <1>6, <1>7, <1>8, <3>2
    <3>4. InOrder(Keys, p + 1, m)
      BY <3>1, <3>3 DEF InOrder
    <3> QED BY <1>3, <1>4, <1>8, <1>9, <2>1, <3>1, <3>4 DEF Resyncing, envVars
  <2>2. CASE restarts # 0 /\ newest < oldest
    BY <1>3, <1>4, <1>6, <2>2 DEF Resyncing, envVars
  <2>3. CASE restarts # 0 /\ ~(newest < oldest)
    <3>1. Unbroken(Keys, m) /\ (lateRun = 0 \/ Recovering(Keys, p, m, lateRun))
      BY <1>6, <2>3 DEF Resyncing, m
    <3>2. lateRun # 0 => Recovering(Keys, p + 1, m, lateRun)
      BY <1>1, <1>2, <1>3, <1>6, <1>7, <1>8, <3>1, RecoveringConcealed
    <3> QED BY <1>3, <1>4, <1>8, <1>9, <2>3, <3>1, <3>2 DEF Resyncing, envVars
  <2> QED BY <2>1, <2>2, <2>3
<1>11. \A k \in Keys' : Usable(k)
  BY <1>3, <1>6
<1> QED BY <1>1, <1>3, <1>4, <1>5, <1>6, <1>10, <1>11, ResyncAfter DEF envVars

\* The sender starts over: what it used so far stays usable.
LEMMA ResyncRestart ==
    ASSUME ResyncState, NEW jump \in Jumps, Restart(jump)
    PROVE  ResyncInv'
<1>1. /\ restarts \in Nat /\ restarts <= 1 /\ net \in Networks /\ IInv
      /\ newest \in -1 .. net.numbers /\ seq_cycles = 0 /\ oldest \in Nat
  BY DEF ResyncState, ResyncInv
<1>2. /\ restarts' = restarts + 1 /\ net' = net /\ newest' = newest /\ newest >= oldest
      /\ lateRun' = 0 /\ oldest' = newest + 1
      /\ first_seq' = (first_seq + jump) % SeqSpace /\ UNCHANGED vars
  BY DEF Restart
<1>3. CASE restarts = 1
  BY <1>1, <1>2, <1>3 DEF ResyncInv
<1>4. CASE restarts = 0
  <2>1. net.numbers \in Nat /\ newest \in Nat /\ newest # -1
    BY <1>1, <1>2, NetTypes
  <2>2. first_seq = net.first /\ base_timestamp # None /\ Usable(last_seq)
        /\ (\A k \in Keys : Usable(k)) /\ Unbroken(Keys, -1)
    BY <1>4, <2>1 DEF ResyncState, ResyncInv, Resyncing, InOrder
  <2>3. IInv'
    BY <1>1, <1>2, InvNext
  <2>4. Keys' = Keys /\ last_seq' = last_seq /\ seq_cycles' = 0
        /\ base_timestamp' = base_timestamp
    BY <1>1, <1>2 DEF vars, Keys
  <2>5. Usable(last_seq)' /\ \A k \in Keys' : Usable(k)'
    BY <1>2, <2>2, <2>4 DEF Usable
  <2>6. Resyncing'
    BY <1>2, <1>4, <2>1, <2>2, <2>4 DEF Resyncing
  <2>7. first_seq' = (net'.first + jump) % SeqSpace /\ restarts' = 1
    BY <1>2, <1>4, <2>2
  <2>8. newest' \in -1 .. net'.numbers /\ oldest' \in Nat /\ newest' # -1
    BY <1>1, <1>2, <2>1
  <2> HIDE DEF Usable, Resyncing
  <2> QED BY <1>1, <1>2, <2>2, <2>3, <2>4, <2>5, <2>6, <2>7, <2>8 DEF ResyncInv
<1> QED BY <1>1, <1>3, <1>4

\* Every step keeps the invariant.
LEMMA ResyncNext ==
    ASSUME ResyncInv, [StreamNext]_streamVars, \A w \in Networks : Recoverable(w)
    PROVE  ResyncInv'
<1>1. CASE restarts > 1
  <2>1. restarts' \in Nat /\ restarts' > 1 /\ net' = net
    <3>1. restarts \in Nat
      BY DEF ResyncInv
    <3>2. (restarts' = restarts \/ restarts' = restarts + 1) /\ net' = net
      BY DEF StreamNext, streamVars, Deliver, Restart, PlayTick, Clock, envVars
    <3> QED BY <1>1, <3>1, <3>2
  <2> QED BY <2>1 DEF ResyncInv
<1>2. CASE restarts <= 1
  <2>1. ResyncState /\ IInv
    BY <1>2 DEF ResyncState, ResyncInv
  <2>2. CASE UNCHANGED streamVars
    <3>1. IInv'
      BY <2>1, <2>2, InvNext DEF streamVars
    <3> QED BY <2>2, <3>1, ResyncFrame DEF streamVars, vars, envVars
  <2>3. CASE Clock
    <3>1. IInv'
      BY <2>1, <2>3, InvNext DEF Clock, Next
    <3> QED BY <2>3, <3>1, ResyncFrame DEF Clock, Tick
  <2>4. CASE PlayTick
    <3>1. CASE PopNothing
      <4>1. IInv'
        BY <2>1, <3>1, InvNext DEF Pop, Next
      <4> QED BY <2>4, <3>1, <4>1, ResyncFrame DEF PopNothing, PlayTick
    <3> QED BY <2>1, <2>4, <3>1, ResyncPlayed, ResyncConcealed DEF PlayTick, Pop
  <2>5. ASSUME NEW n \in Arrivals, Deliver(n)
        PROVE  ResyncInv'
    <3>1. CASE /\ PushLate(SeqOf(n), n)
               /\ lateRun' = IF n > newest THEN lateRun + 1 ELSE lateRun
      BY <2>1, <2>5, <3>1, ResyncLate
    <3>2. CASE PushBuffered(SeqOf(n), n) /\ lateRun' = 0
      BY <2>1, <2>5, <3>2, ResyncBuffered
    <3> QED BY <2>5, <3>1, <3>2 DEF Deliver
  <2> QED BY <2>1, <2>2, <2>3, <2>4, <2>5, ResyncRestart DEF StreamNext
<1>3. restarts \in Nat
  BY DEF ResyncInv
<1> QED BY <1>1, <1>2, <1>3

\* A sender's restart costs at most three buffers' worth of packets, for every
\* capacity and wherever playout and the old sequence stand at the time, if
\* nothing is lost or overtaken and the sender's old and new numbers lie within
\* half the sequence space.
THEOREM ResyncIsBounded ==
    ASSUME \A w \in Networks : Recoverable(w)
    PROVE  StreamSpec => []ResyncBounded
<1>1. ResyncInv => ResyncBounded
  <2> SUFFICES ASSUME ResyncInv, restarts <= 1 PROVE lateRun <= 3 * discontinuity
    BY DEF ResyncBounded
  <2>1. ResyncState
    BY DEF ResyncState, ResyncInv
  <2>2. /\ lateRun \in Nat /\ discontinuity \in Nat
        /\ (playout_seq # None => playout_seq \in Nat)
        /\ (newest # -1 => Place(newest) \in Nat)
    BY <2>1, ResyncTypes
  <2>3. CASE lateRun = 0
    BY <2>2, <2>3
  <2>4. CASE lateRun # 0
    <3>1. newest # -1 /\ Recovering(Keys, playout_seq, Place(newest), lateRun)
      BY <2>4 DEF ResyncInv, Resyncing
    <3>2. playout_seq \in Nat
      BY <2>2, <3>1 DEF Recovering
    <3> QED BY <2>2, <3>1, <3>2, RecoveringBound
  <2> QED BY <2>3, <2>4
<1>2. ResyncInv /\ [StreamNext]_streamVars => ResyncInv'
  BY ResyncNext
<1> QED BY <1>1, <1>2, ResyncInit, PTL DEF StreamSpec
=============================================================================
