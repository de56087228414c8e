-------------------------- MODULE SessionTxProofs ---------------------------
(***************************************************************************)
(* The sending side of a session, for every number of digits, every size   *)
(* of callback and every interleaving: the senders form one RTP stream,    *)
(* digits arrive whole, and no audio thread runs on.                       *)
(***************************************************************************)
EXTENDS SessionTx, FiniteSetTheorems, TLAPS

-----------------------------------------------------------------------------
(* Types *)

Packet == [from : Thread, number : Nat, seq : SeqNumber, ts : 0 .. TsSpace - 1,
           roc : Roc, marker : BOOLEAN, report : Int]

\* Every counter keeps its width, and a thread builds packets of its own.
TxTypes ==
    /\ running \in BOOLEAN /\ muted \in BOOLEAN /\ stream \in BOOLEAN
    /\ tx_seq \in SeqNumber /\ tx_ts \in 0 .. TsSpace - 1 /\ tx_srtp \in SendState
    /\ pc \in [Thread -> {"idle", "seq", "ts", "protect", "send", "sleep", "done"}]
    /\ left \in [Thread -> Nat]
    /\ hand \in [Thread -> Packet]
    /\ \A t \in Thread : hand[t].from = t
    /\ wire \in SUBSET Packet
    /\ claims \in Nat
    /\ overrun \in [Audio -> Nat]

\* Audio threads and digits are different threads.
LEMMA ThreadsDistinct ==
    /\ Mic \in Thread /\ Keepalive \in Thread /\ Mic # Keepalive
    /\ Mic \in Audio /\ Keepalive \in Audio
    /\ \A d \in Digits : d \in Thread /\ d \notin Audio /\ d # Mic /\ d # Keepalive
BY SessionAssumption DEF Thread, Audio

\* A digit takes at least one packet; its reports are numbers.
LEMMA EventBounds ==
    /\ EventPackets \in Nat \ {0} /\ EndCopies \in Nat \ {0} /\ Durations \in Nat \ {0}
    /\ EventPackets = Durations - 1 + EndCopies
BY SessionAssumption DEF EventPackets

\* protect_rtp keeps the send state and the counter it returns in range.
LEMMA ProtectTypes ==
    ASSUME NEW state \in SendState, NEW seq \in SeqNumber
    PROVE  NextRoc(state, seq) \in Roc /\ Protected(state, seq) \in SendState
<1>1. state.roc \in Roc /\ RocSpace \in Nat \ {0}
  BY RocAssumption DEF SendState
<1>2. (state.roc + 1) % RocSpace \in Roc
  BY <1>1 DEF Roc
<1>3. NextRoc(state, seq) \in Roc
  BY <1>1, <1>2 DEF NextRoc
<1> QED BY <1>3 DEF Protected, SendState

\* A new session is well typed.
LEMMA TypesInit == Init => TxTypes
<1> SUFFICES ASSUME Init PROVE TxTypes
  OBVIOUS
<1>1. 0 \in SeqNumber /\ 0 \in Roc /\ 0 \in 0 .. TsSpace - 1
  BY RocAssumption, SessionAssumption DEF SeqNumber, Roc
<1>2. tx_seq \in SeqNumber /\ tx_ts \in 0 .. TsSpace - 1
  BY <1>1, SessionAssumption DEF Init
<1>3. tx_srtp \in SendState
  BY <1>1 DEF Init, NewSendState, SendState
<1>4. left \in [Thread -> Nat]
  BY EventBounds, SessionAssumption DEF Init
<1>5. hand \in [Thread -> Packet] /\ \A t \in Thread : hand[t].from = t
  BY <1>1 DEF Init, Packet
<1> QED BY <1>2, <1>3, <1>4, <1>5 DEF Init, TxTypes

\* A thread's next packet in hand is a packet, whatever step made it.
LEMMA HandTypes ==
    ASSUME TxTypes, NEW t \in Thread, NEW p \in Packet, p.from = t,
           hand' = [hand EXCEPT ![t] = p]
    PROVE  hand' \in [Thread -> Packet] /\ \A u \in Thread : hand'[u].from = u
BY DEF TxTypes

\* Claiming a sequence number, in terms of the packet it puts in hand.
LEMMA ClaimSeqHand ==
    ASSUME TxTypes, NEW t \in Thread, ClaimSeq(t)
    PROVE  \E p \in Packet :
              /\ hand' = [hand EXCEPT ![t] = p]
              /\ p.from = t /\ p.seq = tx_seq /\ p.number = claims
              /\ p.ts = hand[t].ts
              /\ t \in Digits => /\ p.report = Report(t)
                                 /\ p.marker <=> left[t] = EventPackets
<1> DEFINE marker == t \in Digits /\ left[t] = EventPackets
           report == IF t \in Digits THEN Report(t) ELSE 0
           p == [hand[t] EXCEPT !.seq = tx_seq, !.number = claims,
                                !.marker = marker, !.report = report]
<1>1. hand[t] \in Packet /\ hand[t].from = t
  BY DEF TxTypes
<1>2. report \in Int
  <2>1. left[t] \in Nat
    BY DEF TxTypes
  <2>2. t \in Digits => Report(t) \in Int
    BY <2>1, EventBounds DEF Report
  <2> QED BY <2>2
<1>3. marker \in BOOLEAN
  OBVIOUS
<1> HIDE DEF marker, report
<1>4. p \in Packet
  BY <1>1, <1>2, <1>3 DEF Packet, TxTypes
<1>5. /\ p.from = t /\ p.seq = tx_seq /\ p.number = claims /\ p.ts = hand[t].ts
      /\ p.report = report /\ p.marker = marker
  BY <1>1 DEF Packet
<1>6. hand' = [hand EXCEPT ![t] = p]
  BY DEF ClaimSeq, marker, report, TxTypes
<1>7. t \in Digits => p.report = Report(t) /\ (p.marker <=> left[t] = EventPackets)
  BY <1>5 DEF marker, report
<1> QED BY <1>4, <1>5, <1>6, <1>7

\* So are the packets the other steps of building one leave in hand.
LEMMA StepHand ==
    ASSUME TxTypes, NEW t \in Thread, ClaimTs(t) \/ Protect(t) \/ send_dtmf(t)
    PROVE  \E p \in Packet :
              /\ hand' = [hand EXCEPT ![t] = p]
              /\ p.from = t /\ p.seq = hand[t].seq /\ p.number = hand[t].number
              /\ p.marker = hand[t].marker /\ p.report = hand[t].report
              /\ Protect(t) => p.ts = hand[t].ts
<1>1. hand[t] \in Packet /\ hand[t].from = t
  BY DEF TxTypes
<1>2. CASE ClaimTs(t) \/ send_dtmf(t)
  <2> DEFINE p == [hand[t] EXCEPT !.ts = tx_ts]
  <2>1. hand' = [hand EXCEPT ![t] = p]
    BY <1>2 DEF ClaimTs, send_dtmf
  <2>2. p \in Packet
    BY <1>1 DEF Packet, TxTypes
  <2>3. /\ p.from = t /\ p.seq = hand[t].seq /\ p.number = hand[t].number
        /\ p.marker = hand[t].marker /\ p.report = hand[t].report
    BY <1>1 DEF Packet
  <2>4. ~Protect(t)
    BY <1>2 DEF ClaimTs, send_dtmf, Protect
  <2> QED BY <2>1, <2>2, <2>3, <2>4
<1>3. CASE Protect(t)
  <2> DEFINE roc == NextRoc(tx_srtp, hand[t].seq)
             p == [hand[t] EXCEPT !.roc = roc]
  <2>1. hand' = [hand EXCEPT ![t] = p]
    BY <1>3 DEF Protect
  <2>2. roc \in Roc
    BY <1>1, ProtectTypes DEF TxTypes, Packet
  <2> HIDE DEF roc
  <2>3. p \in Packet
    BY <1>1, <2>2 DEF Packet
  <2>4. /\ p.from = t /\ p.seq = hand[t].seq /\ p.number = hand[t].number
        /\ p.marker = hand[t].marker /\ p.report = hand[t].report
        /\ p.ts = hand[t].ts
    BY <1>1 DEF Packet
  <2> QED BY <2>1, <2>3, <2>4
<1> QED BY <1>2, <1>3

\* Where the counters go, in range.
LEMMA CountersInRange ==
    ASSUME TxTypes
    PROVE  /\ (tx_seq + 1) % SeqSpace \in SeqNumber
           /\ (tx_ts + 1) % TsSpace \in 0 .. TsSpace - 1
BY RocAssumption, SessionAssumption DEF TxTypes, SeqNumber

\* Every step keeps the session well typed.
LEMMA TypesNext == TxTypes /\ [Next]_vars => TxTypes'
<1> SUFFICES ASSUME TxTypes, [Next]_vars PROVE TxTypes'
  OBVIOUS
<1>1. CASE UNCHANGED vars
  BY <1>1 DEF TxTypes, vars, flags, counters
<1>2. ASSUME NEW frames \in 1 .. CallbackFrames, MicCallback(frames) PROVE TxTypes'
  <2>0. frames \in Nat
    BY SessionAssumption
  <2>1. left' \in [Thread -> Nat]
    BY <1>2, <2>0 DEF MicCallback, TxTypes
  <2> QED BY <1>2, <2>1 DEF MicCallback, Goto, TxTypes, flags, counters
<1>3. CASE KeepaliveLoop
  BY <1>3 DEF KeepaliveLoop, keepalive_running, Goto, TxTypes, flags, counters
<1>4. CASE KeepaliveWake
  BY <1>4 DEF KeepaliveWake, keepalive_running, Goto, TxTypes, flags, counters
<1>5. ASSUME NEW t \in Thread, send_dtmf(t) PROVE TxTypes'
  <2>1. hand' \in [Thread -> Packet] /\ \A u \in Thread : hand'[u].from = u
    BY <1>5, StepHand, HandTypes
  <2> QED BY <1>5, <2>1 DEF send_dtmf, Goto, TxTypes, flags, counters
<1>6. ASSUME NEW t \in Thread, ClaimSeq(t) PROVE TxTypes'
  <2>1. hand' \in [Thread -> Packet] /\ \A u \in Thread : hand'[u].from = u
    BY <1>6, ClaimSeqHand, HandTypes
  <2>2. overrun' \in [Audio -> Nat]
    BY <1>6 DEF ClaimSeq, Overrun, TxTypes
  <2>3. tx_seq' \in SeqNumber /\ claims' \in Nat
    BY <1>6, CountersInRange DEF ClaimSeq, TxTypes
  <2> QED BY <1>6, <2>1, <2>2, <2>3 DEF ClaimSeq, Goto, TxTypes, flags
<1>7. ASSUME NEW t \in Thread, ClaimTs(t) PROVE TxTypes'
  <2>1. hand' \in [Thread -> Packet] /\ \A u \in Thread : hand'[u].from = u
    BY <1>7, StepHand, HandTypes
  <2>2. tx_ts' \in 0 .. TsSpace - 1
    BY <1>7, CountersInRange DEF ClaimTs
  <2> QED BY <1>7, <2>1, <2>2 DEF ClaimTs, Goto, TxTypes, flags
<1>8. ASSUME NEW t \in Thread, Protect(t) PROVE TxTypes'
  <2>1. hand' \in [Thread -> Packet] /\ \A u \in Thread : hand'[u].from = u
    BY <1>8, StepHand, HandTypes
  <2>2. tx_srtp' \in SendState
    BY <1>8, ProtectTypes DEF Protect, TxTypes, Packet
  <2> QED BY <1>8, <2>1, <2>2 DEF Protect, Goto, TxTypes, flags
<1>9. ASSUME NEW t \in Thread, Send(t) PROVE TxTypes'
  <2>1. left' \in [Thread -> Nat]
    BY <1>9 DEF Send, TxTypes
  <2>2. wire' \in SUBSET Packet
    BY <1>9 DEF Send, TxTypes
  <2> QED BY <1>9, <2>1, <2>2 DEF Send, Goto, TxTypes, flags, counters
<1>10. ASSUME NEW mute \in BOOLEAN, set_mute(mute) PROVE TxTypes'
  <2>1. overrun' \in [Audio -> Nat]
    BY <1>10 DEF set_mute, TxTypes
  <2> QED BY <1>10, <2>1 DEF set_mute, TxTypes, counters
<1>11. CASE stop
  BY <1>11 DEF stop, TxTypes, counters
<1>12. CASE CloseStream
  BY <1>12 DEF CloseStream, TxTypes, counters
<1> QED
  BY <1>1, <1>2, <1>3, <1>4, <1>5, <1>6, <1>7, <1>8, <1>9, <1>10, <1>11, <1>12,
     ThreadsDistinct
     DEF Next, PacketStep

-----------------------------------------------------------------------------
(* One stream *)

\* No number is on two packets, sent or in hand.
NumbersDistinct ==
    /\ \A p, q \in wire : p.number = q.number => p = q
    /\ \A t \in Holding, p \in wire : hand[t].number # p.number
    /\ \A t, u \in Holding : hand[t].number = hand[u].number => t = u

\* The numbers are those handed out.
NumbersClaimed ==
    /\ \A p \in wire : p.number < claims
    /\ \A t \in Holding : hand[t].number < claims
    /\ \A n \in 0 .. claims - 1 : \/ \E p \in wire : p.number = n
                                  \/ \E t \in Holding : hand[t].number = n

\* The n-th sequence number after first, in the first cycle of the counter.
Wrapped(first, n) == IF first + n < SeqSpace THEN first + n ELSE first + n - SeqSpace

\* Until the counter has gone round once, numbers fix sequence numbers.
SeqOfNumber ==
    \E first \in SeqNumber :
        claims <= SeqSpace =>
            /\ tx_seq = Wrapped(first, claims)
            /\ \A p \in wire : p.seq = Wrapped(first, p.number)
            /\ \A t \in Holding : hand[t].seq = Wrapped(first, hand[t].number)

\* The part of the inductive invariant that makes the senders one stream.
StreamInv == NumbersDistinct /\ NumbersClaimed /\ SeqOfNumber

\* No number has been handed out by a new session.
LEMMA StreamInit == Init => StreamInv
<1> SUFFICES ASSUME Init PROVE StreamInv
  OBVIOUS
<1>1. Holding = {} /\ wire = {} /\ claims = 0
  BY DEF Init, Holding
<1>2. tx_seq \in SeqNumber /\ tx_seq = Wrapped(tx_seq, 0)
  BY SessionAssumption, RocAssumption DEF Init, Wrapped, SeqNumber
<1> QED
  BY <1>1, <1>2 DEF StreamInv, NumbersDistinct, NumbersClaimed, SeqOfNumber

\* A step that hands out no number and sends nothing keeps the stream.
LEMMA StreamFrame ==
    ASSUME StreamInv, UNCHANGED <<tx_seq, claims, wire>>, Holding' = Holding,
           \A t \in Holding : /\ hand'[t].number = hand[t].number
                              /\ hand'[t].seq = hand[t].seq
    PROVE  StreamInv'
<1>1. NumbersDistinct' /\ NumbersClaimed'
  BY DEF StreamInv, NumbersDistinct, NumbersClaimed
<1>2. SeqOfNumber'
  BY DEF StreamInv, SeqOfNumber
<1> QED BY <1>1, <1>2 DEF StreamInv

\* The next number, in the first cycle of the counter.
LEMMA NextWrapped ==
    ASSUME NEW first \in SeqNumber, NEW n \in Nat, n < SeqSpace,
           NEW x, x = Wrapped(first, n)
    PROVE  (x + 1) % SeqSpace = Wrapped(first, n + 1)
<1> USE RocAssumption DEF SeqNumber
<1>1. x \in 0 .. SeqSpace - 1
  BY DEF Wrapped
<1>2. CASE x = SeqSpace - 1
  <2>1. (x + 1) % SeqSpace = 0
    BY <1>2
  <2> QED BY <1>2, <2>1 DEF Wrapped
<1>3. CASE x # SeqSpace - 1
  <2>1. (x + 1) % SeqSpace = x + 1
    BY <1>1, <1>3
  <2> QED BY <1>1, <1>3, <2>1 DEF Wrapped
<1> QED BY <1>2, <1>3

\* fetch_add: the number that is claimed is in one hand and nowhere else.
LEMMA StreamClaims ==
    ASSUME TxTypes, StreamInv, NEW t \in Thread, ClaimSeq(t)
    PROVE  StreamInv'
<1>1. PICK p \in Packet : hand' = [hand EXCEPT ![t] = p] /\ p.seq = tx_seq /\ p.number = claims
  BY ClaimSeqHand
<1>2. /\ pc[t] = "seq" /\ claims' = claims + 1 /\ wire' = wire /\ claims \in Nat
      /\ tx_seq' = (tx_seq + 1) % SeqSpace
      /\ pc' = [pc EXCEPT ![t] = IF t \in Audio THEN "ts" ELSE "protect"]
  BY DEF ClaimSeq, Goto, TxTypes
<1>3. Holding' = Holding \cup {t} /\ t \notin Holding
  BY <1>2 DEF Holding, TxTypes
<1>4. hand'[t] = p /\ \A u \in Thread : u # t => hand'[u] = hand[u]
  BY <1>1 DEF TxTypes
<1>5. /\ \A q \in wire : q.number \in Nat
      /\ \A u \in Holding : u \in Thread /\ hand[u].number \in Nat
  BY DEF TxTypes, Packet, Holding
<1>6. NumbersDistinct'
  BY <1>1, <1>2, <1>3, <1>4, <1>5 DEF StreamInv, NumbersDistinct, NumbersClaimed
<1>7. NumbersClaimed'
  <2>1. \A q \in wire' : q.number < claims'
    BY <1>2, <1>5 DEF StreamInv, NumbersClaimed
  <2>2. \A u \in Holding' : hand'[u].number < claims'
    BY <1>1, <1>2, <1>3, <1>4, <1>5 DEF StreamInv, NumbersClaimed
  <2>3. ASSUME NEW n \in 0 .. claims' - 1
        PROVE  \/ \E q \in wire' : q.number = n
               \/ \E u \in Holding' : hand'[u].number = n
    <3>1. CASE n = claims
      BY <3>1, <1>1, <1>3, <1>4
    <3>2. CASE n # claims
      <4>1. n \in 0 .. claims - 1
        BY <1>2, <3>2
      <4> QED BY <4>1, <1>2, <1>3, <1>4, <1>5 DEF StreamInv, NumbersClaimed
    <3> QED BY <3>1, <3>2
  <2> QED BY <2>1, <2>2, <2>3 DEF NumbersClaimed
<1>8. SeqOfNumber'
  <2>1. PICK first \in SeqNumber :
           claims <= SeqSpace =>
               /\ tx_seq = Wrapped(first, claims)
               /\ \A q \in wire : q.seq = Wrapped(first, q.number)
               /\ \A u \in Holding : hand[u].seq = Wrapped(first, hand[u].number)
    BY DEF StreamInv, SeqOfNumber
  <2> SUFFICES ASSUME claims' <= SeqSpace
               PROVE  /\ tx_seq' = Wrapped(first, claims')
                      /\ \A q \in wire' : q.seq = Wrapped(first, q.number)
                      /\ \A u \in Holding' : hand'[u].seq = Wrapped(first, hand'[u].number)
    BY DEF SeqOfNumber
  <2>2. claims < SeqSpace /\ claims <= SeqSpace
    BY <1>2, RocAssumption
  <2>3. tx_seq' = Wrapped(first, claims')
    BY <1>2, <2>1, <2>2, NextWrapped
  <2> QED BY <1>1, <1>2, <1>3, <1>4, <1>5, <2>1, <2>2, <2>3
<1> QED BY <1>6, <1>7, <1>8 DEF StreamInv

\* Sending moves a packet from the hand to the wire.
LEMMA StreamSends ==
    ASSUME TxTypes, StreamInv, NEW t \in Thread, Send(t)
    PROVE  StreamInv'
<1>1. /\ t \in Holding /\ wire' = wire \cup {hand[t]}
      /\ UNCHANGED <<tx_seq, claims, hand>>
  BY DEF Send, Holding, counters
<1>2. Holding' = Holding \ {t}
  BY DEF Send, Goto, Holding, TxTypes
<1>3. NumbersDistinct'
  BY <1>1, <1>2 DEF StreamInv, NumbersDistinct
<1>4. NumbersClaimed'
  BY <1>1, <1>2 DEF StreamInv, NumbersClaimed
<1>5. SeqOfNumber'
  BY <1>1, <1>2 DEF StreamInv, SeqOfNumber
<1> QED BY <1>3, <1>4, <1>5 DEF StreamInv

\* Every step of every sender preserves it.
LEMMA StreamNext == TxTypes /\ StreamInv /\ [Next]_vars => StreamInv'
<1> SUFFICES ASSUME TxTypes, StreamInv, [Next]_vars PROVE StreamInv'
  OBVIOUS
<1>1. ASSUME UNCHANGED <<tx_seq, claims, wire, pc, hand>> PROVE StreamInv'
  BY <1>1, StreamFrame DEF Holding
<1>2. ASSUME UNCHANGED <<tx_seq, claims, wire, hand>>, NEW t \in Audio,
             pc[t] \in {"idle", "sleep"}, NEW step \in {"seq", "sleep", "idle", "done"},
             Goto(t, step)
      PROVE  StreamInv'
  <2>1. Holding' = Holding
    BY <1>2 DEF Goto, Holding, TxTypes
  <2> QED BY <1>2, <2>1, StreamFrame
<1>3. ASSUME NEW t \in Thread, ClaimTs(t) \/ Protect(t) \/ send_dtmf(t) PROVE StreamInv'
  <2>1. PICK p \in Packet : /\ hand' = [hand EXCEPT ![t] = p]
                            /\ p.seq = hand[t].seq /\ p.number = hand[t].number
    BY <1>3, StepHand
  <2>2. Holding' = Holding
    BY <1>3 DEF ClaimTs, Protect, send_dtmf, Goto, Holding, TxTypes
  <2>3. UNCHANGED <<tx_seq, claims, wire>>
    BY <1>3 DEF ClaimTs, Protect, send_dtmf, counters
  <2>4. \A u \in Holding : hand'[u].number = hand[u].number /\ hand'[u].seq = hand[u].seq
    BY <2>1 DEF TxTypes, Holding
  <2> QED BY <2>2, <2>3, <2>4, StreamFrame
<1>4. CASE UNCHANGED vars
  BY <1>1, <1>4 DEF vars, counters
<1>5. ASSUME NEW frames \in 1 .. CallbackFrames, MicCallback(frames) PROVE StreamInv'
  BY <1>2, <1>5, ThreadsDistinct DEF MicCallback, counters
<1>6. CASE KeepaliveLoop
  BY <1>2, <1>6, ThreadsDistinct DEF KeepaliveLoop, keepalive_running, counters
<1>7. CASE KeepaliveWake
  BY <1>2, <1>7, ThreadsDistinct DEF KeepaliveWake, keepalive_running, counters
<1>8. ASSUME NEW mute \in BOOLEAN, set_mute(mute) PROVE StreamInv'
  BY <1>1, <1>8 DEF set_mute, counters
<1>9. CASE stop
  BY <1>1, <1>9 DEF stop, counters
<1>10. CASE CloseStream
  BY <1>1, <1>10 DEF CloseStream, counters
<1> QED
  BY <1>3, <1>4, <1>5, <1>6, <1>7, <1>8, <1>9, <1>10, StreamClaims, StreamSends,
     ThreadsDistinct
     DEF Next, PacketStep

\* The invariant is what OneStream counts: numbers are a bijection between the
\* claims and the packets, and so are sequence numbers for one cycle.
LEMMA StreamIsOne == TxTypes /\ StreamInv => OneStream
<1> DEFINE numbered == wire \cup {hand[t] : t \in Holding}
           seqs == {p.seq : p \in numbered}
<1> SUFFICES ASSUME TxTypes, StreamInv, claims <= SeqSpace
             PROVE  Cardinality(seqs) = Cardinality(numbered) /\ Cardinality(numbered) = claims
  BY DEF OneStream
<1>1. \A p \in numbered : p \in Packet /\ p.number \in 0 .. claims - 1
  BY DEF TxTypes, StreamInv, NumbersClaimed, Packet, Holding
<1>2. \A p, q \in numbered : p.number = q.number => p = q
  BY DEF StreamInv, NumbersDistinct
<1>3. \A n \in 0 .. claims - 1 : \E p \in numbered : p.number = n
  BY DEF StreamInv, NumbersClaimed
<1>4. PICK first \in SeqNumber : \A p \in numbered : p.seq = Wrapped(first, p.number)
  BY DEF StreamInv, SeqOfNumber
<1>5. \A p, q \in numbered : p.seq = q.seq => p = q
  <2> SUFFICES ASSUME NEW p \in numbered, NEW q \in numbered, p.seq = q.seq
               PROVE  p.number = q.number
    BY <1>2
  <2> DEFINE m == p.number
             n == q.number
  <2>1. m \in 0 .. claims - 1 /\ n \in 0 .. claims - 1 /\ Wrapped(first, m) = Wrapped(first, n)
    BY <1>1, <1>4
  <2>2. claims \in Nat /\ claims <= SeqSpace /\ SeqSpace \in Nat /\ first \in 0 .. SeqSpace - 1
    BY RocAssumption DEF TxTypes, SeqNumber
  <2> HIDE DEF m, n
  <2>3. m = n
    BY <2>1, <2>2 DEF Wrapped
  <2> QED BY <2>3 DEF m, n
<1> HIDE DEF numbered
<1>6. IsFiniteSet(numbered) /\ Cardinality(numbered) = claims
  <2> DEFINE at == [n \in 0 .. claims - 1 |-> CHOOSE p \in numbered : p.number = n]
  <2>1. \A n \in 0 .. claims - 1 : at[n] \in numbered /\ at[n].number = n
    BY <1>3
  <2>2. at \in [0 .. claims - 1 -> numbered]
    BY <2>1
  <2>3. \A p \in numbered : \E n \in 0 .. claims - 1 : at[n] = p
    BY <1>1, <1>2, <2>1
  <2>4. \A m, n \in 0 .. claims - 1 : at[m] = at[n] => m = n
    BY <2>1
  <2> HIDE DEF at
  <2>5. at \in Bijection(0 .. claims - 1, numbered)
    BY <2>2, <2>3, <2>4 DEF Bijection, Injection, Surjection, IsInjective
  <2>6. ExistsBijection(0 .. claims - 1, numbered)
    BY <2>5 DEF ExistsBijection
  <2>7. IsFiniteSet(0 .. claims - 1) /\ Cardinality(0 .. claims - 1) = claims
    <3>1. claims \in Nat /\ 0 \in Int /\ claims - 1 \in Int
      BY DEF TxTypes
    <3>2. IsFiniteSet(0 .. claims - 1)
      BY <3>1, FS_Interval
    <3>3. Cardinality(0 .. claims - 1) = IF 0 > claims - 1 THEN 0 ELSE claims - 1 - 0 + 1
      BY <3>1, FS_Interval
    <3> QED BY <3>1, <3>2, <3>3
  <2> QED BY <2>6, <2>7, FS_Bijection
<1>7. Cardinality(seqs) = Cardinality(numbered)
  <2> DEFINE seq == [p \in numbered |-> p.seq]
  <2>1. seq \in [numbered -> seqs]
    OBVIOUS
  <2>2. \A x \in seqs : \E p \in numbered : seq[p] = x
    OBVIOUS
  <2>3. \A p, q \in numbered : seq[p] = seq[q] => p = q
    BY <1>5
  <2> HIDE DEF seq, seqs
  <2>4. seq \in Bijection(numbered, seqs)
    BY <2>1, <2>2, <2>3 DEF Bijection, Injection, Surjection, IsInjective
  <2>5. ExistsBijection(numbered, seqs)
    BY <2>4 DEF ExistsBijection
  <2> QED BY <2>5, <1>6, FS_Bijection
<1> QED BY <1>6, <1>7

-----------------------------------------------------------------------------
(* Digits *)

\* The packets of a digit that are on the wire, and its last reports.
Event(d) == {p \in wire : p.from = d}
LastReports(d) == {p \in Event(d) : p.report = Durations}

\* Where the task of a digit is, and the packet it has in hand.
TaskAt(d) ==
    /\ pc[d] \in {"idle", "seq", "protect", "send", "done"}
    /\ left[d] \in 0 .. EventPackets
    /\ pc[d] = "idle" => left[d] = EventPackets
    /\ pc[d] \in {"seq", "protect", "send"} => left[d] > 0
    /\ pc[d] = "done" => left[d] = 0
    /\ pc[d] \in {"protect", "send"} =>
          /\ hand[d].report = Report(d)
          /\ hand[d].marker <=> left[d] = EventPackets
          /\ \A p \in Event(d) : p.number < hand[d].number

\* What of the digit is on the wire, from the packets it has left.
EventSoFar(d) ==
    /\ IsFiniteSet(Event(d))
    /\ Cardinality(Event(d)) = EventPackets - left[d]
    /\ IsFiniteSet(LastReports(d))
    /\ Cardinality(LastReports(d)) = IF left[d] <= EndCopies THEN EndCopies - left[d] ELSE 0
    /\ left[d] < EventPackets => \E p \in Event(d) : p.marker
    /\ \A p \in Event(d) : p.ts = hand[d].ts /\ p.report <= Report(d)
    /\ \A p, q \in Event(d) : p.number < q.number => p.report <= q.report /\ ~q.marker

\* The part of the inductive invariant that is about digits.
DigitInv == \A d \in Digits : TaskAt(d) /\ EventSoFar(d)

\* No digit has been sent when a session is new.
LEMMA DigitInit == Init => DigitInv
<1> SUFFICES ASSUME Init, NEW d \in Digits PROVE TaskAt(d) /\ EventSoFar(d)
  BY DEF DigitInv
<1>1. pc[d] = "idle" /\ left[d] = EventPackets /\ wire = {}
  BY ThreadsDistinct DEF Init
<1>2. Event(d) = {} /\ LastReports(d) = {}
  BY <1>1 DEF Event, LastReports
<1>3. TaskAt(d)
  BY <1>1, EventBounds DEF TaskAt
<1>4. IsFiniteSet({}) /\ Cardinality({}) = 0
  BY FS_EmptySet
<1>5. left[d] <= EndCopies => EndCopies - left[d] = 0
  BY <1>1, EventBounds
<1> QED BY <1>1, <1>2, <1>3, <1>4, <1>5, EventBounds DEF EventSoFar

\* What is not the digit's own does not touch it.
LEMMA DigitFrame ==
    ASSUME NEW d \in Digits, TaskAt(d), EventSoFar(d),
           pc'[d] = pc[d], left'[d] = left[d], hand'[d] = hand[d], Event(d)' = Event(d)
    PROVE  TaskAt(d)' /\ EventSoFar(d)'
<1>1. Report(d)' = Report(d) /\ LastReports(d)' = LastReports(d)
  BY DEF Report, LastReports
<1>2. TaskAt(d)'
  BY <1>1 DEF TaskAt
<1>3. EventSoFar(d)'
  BY <1>1 DEF EventSoFar
<1> QED BY <1>2, <1>3

\* The reports of a digit never go back.
LEMMA ReportsGrow ==
    ASSUME NEW d \in Digits, left[d] \in 1 .. EventPackets, left'[d] = left[d] - 1
    PROVE  /\ Report(d) \in Int /\ Report(d)' \in Int
           /\ Report(d) <= Report(d)'
           /\ Report(d) = Durations <=> left[d] <= EndCopies
<1>1. left[d] \in Int /\ left[d] <= EventPackets
  BY EventBounds
<1> QED BY <1>1, EventBounds DEF Report

\* send_dtmf takes the timestamp before anything of the digit is sent.
LEMMA DigitStarts ==
    ASSUME TxTypes, NEW d \in Digits, TaskAt(d), EventSoFar(d), send_dtmf(d)
    PROVE  TaskAt(d)' /\ EventSoFar(d)'
<1>1. /\ pc[d] = "idle" /\ pc'[d] = "seq" /\ left' = left /\ wire' = wire
      /\ left[d] = EventPackets
  BY ThreadsDistinct DEF send_dtmf, Goto, TxTypes, TaskAt
<1>2. Event(d) = {} /\ Event(d)' = Event(d) /\ LastReports(d)' = LastReports(d)
  <2>1. IsFiniteSet(Event(d)) /\ Cardinality(Event(d)) = 0
    BY <1>1, EventBounds DEF EventSoFar
  <2>2. Event(d) = {}
    BY <2>1, FS_EmptySet
  <2> QED BY <1>1, <2>2 DEF Event, LastReports
<1>3. TaskAt(d)'
  BY <1>1, EventBounds DEF TaskAt
<1>4. EventSoFar(d)'
  BY <1>1, <1>2, EventBounds DEF EventSoFar
<1> QED BY <1>3, <1>4

\* A packet's number is claimed after all of the digit's earlier ones.
LEMMA DigitClaims ==
    ASSUME TxTypes, StreamInv, NEW d \in Digits, TaskAt(d), EventSoFar(d), ClaimSeq(d)
    PROVE  TaskAt(d)' /\ EventSoFar(d)'
<1>1. PICK p \in Packet :
         /\ hand' = [hand EXCEPT ![d] = p] /\ p.number = claims /\ p.ts = hand[d].ts
         /\ p.report = Report(d)
         /\ p.marker <=> left[d] = EventPackets
  BY ClaimSeqHand, ThreadsDistinct
<1>2. /\ pc[d] = "seq" /\ pc'[d] = "protect" /\ left' = left /\ wire' = wire
      /\ hand'[d] = p
  BY <1>1, ThreadsDistinct DEF ClaimSeq, Goto, TxTypes
<1>3. /\ Event(d)' = Event(d) /\ LastReports(d)' = LastReports(d)
      /\ Report(d)' = Report(d)
  BY <1>2 DEF Event, LastReports, Report
<1>4. \A q \in Event(d) : q.number < claims
  BY DEF Event, StreamInv, NumbersClaimed
<1>5. TaskAt(d)'
  BY <1>1, <1>2, <1>3, <1>4 DEF TaskAt
<1>6. EventSoFar(d)'
  BY <1>1, <1>2, <1>3 DEF EventSoFar
<1> QED BY <1>5, <1>6

\* Protecting a packet changes nothing a digit's receiver looks at.
LEMMA DigitProtects ==
    ASSUME TxTypes, NEW d \in Digits, TaskAt(d), EventSoFar(d), Protect(d)
    PROVE  TaskAt(d)' /\ EventSoFar(d)'
<1>1. PICK p \in Packet :
         /\ hand' = [hand EXCEPT ![d] = p] /\ p.number = hand[d].number
         /\ p.marker = hand[d].marker /\ p.report = hand[d].report /\ p.ts = hand[d].ts
  BY StepHand, ThreadsDistinct
<1>2. /\ pc[d] = "protect" /\ pc'[d] = "send" /\ left' = left /\ wire' = wire
      /\ hand'[d] = p
  BY <1>1, ThreadsDistinct DEF Protect, Goto, TxTypes
<1>3. /\ Event(d)' = Event(d) /\ LastReports(d)' = LastReports(d)
      /\ Report(d)' = Report(d)
  BY <1>2 DEF Event, LastReports, Report
<1>4. TaskAt(d)'
  BY <1>1, <1>2, <1>3 DEF TaskAt
<1>5. EventSoFar(d)'
  BY <1>1, <1>2, <1>3 DEF EventSoFar
<1> QED BY <1>4, <1>5

\* Sending adds one packet, one report, and one last report at the end.
LEMMA DigitSends ==
    ASSUME TxTypes, StreamInv, NEW d \in Digits, TaskAt(d), EventSoFar(d), Send(d)
    PROVE  TaskAt(d)' /\ EventSoFar(d)'
<1> DEFINE p == hand[d]
<1>1. /\ pc[d] = "send" /\ d \in Holding /\ left[d] \in 1 .. EventPackets
      /\ p \in Packet /\ p.from = d
  BY ThreadsDistinct, EventBounds DEF Send, Holding, TaskAt, TxTypes
<1>2. /\ left'[d] = left[d] - 1 /\ hand' = hand /\ wire' = wire \cup {p}
      /\ pc'[d] = IF left[d] - 1 > 0 THEN "seq" ELSE "done"
  BY <1>1, ThreadsDistinct DEF Send, Goto, TxTypes
<1>3. Event(d)' = Event(d) \cup {p} /\ p \notin Event(d)
  BY <1>1, <1>2 DEF Event, StreamInv, NumbersDistinct
<1>4. /\ p.report = Report(d) /\ (p.marker <=> left[d] = EventPackets)
      /\ \A q \in Event(d) : q.number < p.number
  BY <1>1 DEF TaskAt
<1>5. /\ Report(d) \in Int /\ Report(d)' \in Int /\ Report(d) <= Report(d)'
      /\ Report(d) = Durations <=> left[d] <= EndCopies
  BY <1>1, <1>2, ReportsGrow
<1>6. left[d] \in Nat /\ left[d] > 0 /\ left[d] <= EventPackets
  BY <1>1, EventBounds
<1>7. TaskAt(d)'
  BY <1>2, <1>6, EventBounds DEF TaskAt
<1>8. IsFiniteSet(Event(d)') /\ Cardinality(Event(d)') = EventPackets - left'[d]
  <2>1. IsFiniteSet(Event(d)) /\ Cardinality(Event(d)) = EventPackets - left[d]
    BY DEF EventSoFar
  <2>2. IsFiniteSet(Event(d)') /\ Cardinality(Event(d)') = Cardinality(Event(d)) + 1
    BY <1>3, <2>1, FS_AddElement
  <2> QED BY <1>2, <1>6, <2>1, <2>2, EventBounds
<1>9. /\ IsFiniteSet(LastReports(d)')
      /\ Cardinality(LastReports(d)') =
            IF left'[d] <= EndCopies THEN EndCopies - left'[d] ELSE 0
  <2>1. /\ IsFiniteSet(LastReports(d))
        /\ Cardinality(LastReports(d)) =
              IF left[d] <= EndCopies THEN EndCopies - left[d] ELSE 0
    BY DEF EventSoFar
  <2>2. CASE left[d] <= EndCopies
    <3>1. LastReports(d)' = LastReports(d) \cup {p} /\ p \notin LastReports(d)
      BY <1>3, <1>4, <1>5, <2>2 DEF LastReports
    <3>2. /\ IsFiniteSet(LastReports(d)')
          /\ Cardinality(LastReports(d)') = Cardinality(LastReports(d)) + 1
      BY <2>1, <3>1, FS_AddElement
    <3> QED BY <1>2, <1>6, <2>1, <2>2, <3>2, EventBounds
  <2>3. CASE ~(left[d] <= EndCopies)
    <3>1. LastReports(d)' = LastReports(d)
      BY <1>3, <1>4, <1>5, <2>3 DEF LastReports
    <3> QED BY <1>2, <1>6, <2>1, <2>3, <3>1, EventBounds
  <2> QED BY <2>2, <2>3
<1>10. \E q \in Event(d)' : q.marker
  <2>1. CASE left[d] = EventPackets
    BY <2>1, <1>3, <1>4
  <2>2. CASE left[d] # EventPackets
    BY <2>2, <1>3, <1>6, EventBounds DEF EventSoFar
  <2> QED BY <2>1, <2>2
<1>11. \A q \in Event(d)' : q \in Packet
  BY <1>1, <1>3 DEF Event, TxTypes
<1>12. \A q \in Event(d)' : q.ts = hand'[d].ts /\ q.report <= Report(d)'
  <2>1. \A q \in Event(d) : q.report \in Int /\ q.report <= Report(d) /\ q.ts = p.ts
    BY <1>3, <1>11 DEF EventSoFar, Packet
  <2> QED BY <1>2, <1>3, <1>4, <1>5, <2>1
<1>13. ASSUME NEW q \in Event(d)', NEW r \in Event(d)', q.number < r.number
       PROVE  q.report <= r.report /\ ~r.marker
  <2>1. CASE q \in Event(d) /\ r \in Event(d)
    BY <1>13, <2>1 DEF EventSoFar
  <2>2. CASE q \in Event(d) /\ r = p
    <3>1. q.report <= Report(d)
      BY <2>2 DEF EventSoFar
    <3>2. Cardinality(Event(d)) # 0
      BY <2>2, FS_EmptySet DEF EventSoFar
    <3>3. left[d] # EventPackets
      BY <3>2, <1>6, EventBounds DEF EventSoFar
    <3> QED BY <2>2, <3>1, <3>3, <1>4
  <2>3. CASE q = p
    <3>1. r # p
      BY <1>13, <2>3, <1>11 DEF Packet
    <3>2. r.number < p.number
      BY <3>1, <1>3, <1>4
    <3>3. p.number \in Nat /\ r.number \in Nat
      BY <1>1, <1>11 DEF Packet
    <3> QED BY <1>13, <2>3, <3>2, <3>3
  <2> QED BY <2>1, <2>2, <2>3, <1>3
<1>14. EventSoFar(d)'
  BY <1>8, <1>9, <1>10, <1>12, <1>13 DEF EventSoFar
<1> QED BY <1>7, <1>14

\* The digit's own steps, and everybody else's, preserve its invariant.
LEMMA DigitNext == TxTypes /\ StreamInv /\ DigitInv /\ [Next]_vars => DigitInv'
<1> SUFFICES ASSUME TxTypes, StreamInv, DigitInv, [Next]_vars, NEW d \in Digits
             PROVE  TaskAt(d)' /\ EventSoFar(d)'
  BY DEF DigitInv
<1>1. TaskAt(d) /\ EventSoFar(d)
  BY DEF DigitInv
<1>2. d \in Thread /\ d \notin Audio /\ d # Mic /\ d # Keepalive
  BY ThreadsDistinct
<1>3. ASSUME pc'[d] = pc[d], left'[d] = left[d], hand'[d] = hand[d], wire' = wire
      PROVE  TaskAt(d)' /\ EventSoFar(d)'
  BY <1>1, <1>3, DigitFrame DEF Event
<1>4. CASE UNCHANGED vars
  BY <1>3, <1>4 DEF vars
<1>5. ASSUME NEW frames \in 1 .. CallbackFrames, MicCallback(frames)
      PROVE  TaskAt(d)' /\ EventSoFar(d)'
  BY <1>2, <1>3, <1>5 DEF MicCallback, Goto, TxTypes
<1>6. CASE KeepaliveLoop \/ KeepaliveWake
  BY <1>2, <1>3, <1>6 DEF KeepaliveLoop, KeepaliveWake, keepalive_running, Goto, TxTypes
<1>7. ASSUME NEW t \in Thread, t # d, ClaimSeq(t) \/ ClaimTs(t) \/ Protect(t) \/ send_dtmf(t)
      PROVE  TaskAt(d)' /\ EventSoFar(d)'
  BY <1>2, <1>3, <1>7 DEF ClaimSeq, ClaimTs, Protect, send_dtmf, Goto, TxTypes
<1>8. ASSUME NEW t \in Thread, t # d, Send(t)
      PROVE  TaskAt(d)' /\ EventSoFar(d)'
  <2>1. pc'[d] = pc[d] /\ left'[d] = left[d] /\ hand'[d] = hand[d]
    BY <1>2, <1>8 DEF Send, Goto, TxTypes
  <2>2. Event(d)' = Event(d)
    BY <1>8 DEF Send, Event, TxTypes
  <2> QED BY <1>1, <2>1, <2>2, DigitFrame
<1>9. CASE ClaimTs(d)
  BY <1>1, <1>9 DEF ClaimTs, TaskAt
<1>10. ASSUME NEW mute \in BOOLEAN, set_mute(mute) PROVE TaskAt(d)' /\ EventSoFar(d)'
  BY <1>3, <1>10 DEF set_mute
<1>11. CASE stop \/ CloseStream
  BY <1>3, <1>11 DEF stop, CloseStream
<1>12. ASSUME NEW t \in Thread, PacketStep(t) PROVE TaskAt(d)' /\ EventSoFar(d)'
  BY <1>1, <1>7, <1>8, <1>9, <1>12, DigitClaims, DigitProtects, DigitSends DEF PacketStep
<1>13. ASSUME NEW t \in Digits, send_dtmf(t) PROVE TaskAt(d)' /\ EventSoFar(d)'
  <2>1. t \in Thread
    BY ThreadsDistinct
  <2> QED BY <1>1, <1>7, <1>13, <2>1, DigitStarts
<1> QED
  BY <1>4, <1>5, <1>6, <1>10, <1>11, <1>12, <1>13 DEF Next

\* What is on the wire of a digit is as DigitWhole says.
LEMMA DigitsWhole == DigitInv => DigitWhole
<1> SUFFICES ASSUME DigitInv, NEW d \in Digits
             PROVE  /\ \A p, q \in Event(d) :
                          /\ p.ts = q.ts
                          /\ p.number < q.number => p.report <= q.report /\ ~q.marker
                    /\ pc[d] = "done" => /\ Cardinality(Event(d)) = EventPackets
                                         /\ \E p \in Event(d) : p.marker
                                         /\ Cardinality(LastReports(d)) = EndCopies
  BY DEF DigitWhole, Event, LastReports
<1>1. TaskAt(d) /\ EventSoFar(d)
  BY DEF DigitInv
<1>2. pc[d] = "done" => left[d] = 0
  BY <1>1 DEF TaskAt
<1> QED BY <1>1, <1>2, EventBounds DEF EventSoFar

-----------------------------------------------------------------------------
(* Overrun *)

\* Packets the callback that is running will still begin.
StillToBegin ==
    IF pc[Mic] = "seq" THEN left[Mic]
    ELSE IF pc[Mic] \in {"ts", "protect", "send"} THEN left[Mic] - 1
    ELSE 0

\* The part of the inductive invariant that bounds what is begun without reason.
OverrunInv ==
    /\ pc[Mic] \in {"seq", "ts", "protect", "send"} => left[Mic] > 0
    /\ overrun[Mic] + StillToBegin <= CallbackFrames
    /\ HasReason(Mic) => overrun[Mic] = 0
    /\ overrun[Keepalive] + (IF pc[Keepalive] = "seq" THEN 1 ELSE 0) <= 1
    /\ HasReason(Keepalive) => overrun[Keepalive] = 0

\* Nothing has been begun when a session is new.
LEMMA OverrunInit == Init => OverrunInv
BY ThreadsDistinct, SessionAssumption DEF Init, OverrunInv, StillToBegin

\* A step that leaves flags, threads and history alone keeps the bounds; so
\* does one that only takes reasons away.
LEMMA OverrunFrame ==
    ASSUME TxTypes, OverrunInv, overrun' = overrun, StillToBegin' = StillToBegin,
           pc'[Mic] \in {"seq", "ts", "protect", "send"} => left'[Mic] > 0,
           HasReason(Mic)' => HasReason(Mic),
           HasReason(Keepalive)' => HasReason(Keepalive),
           pc'[Keepalive] = "seq" => pc[Keepalive] = "seq"
    PROVE  OverrunInv'
<1>1. overrun[Keepalive] \in Nat
  BY ThreadsDistinct DEF TxTypes
<1> QED BY <1>1 DEF OverrunInv

\* The steps that begin a packet, for the microphone.
LEMMA OverrunMic ==
    ASSUME TxTypes, OverrunInv, NEW frames \in 1 .. CallbackFrames, MicCallback(frames)
    PROVE  OverrunInv'
<1>1. /\ pc'[Mic] = "seq" /\ left'[Mic] = frames /\ frames \in Nat
      /\ pc'[Keepalive] = pc[Keepalive] /\ left'[Keepalive] = left[Keepalive]
      /\ UNCHANGED <<overrun, running, muted>>
  BY ThreadsDistinct, SessionAssumption DEF MicCallback, Goto, TxTypes, flags
<1>2. HasReason(Mic) /\ overrun[Mic] = 0
  BY DEF MicCallback, HasReason, OverrunInv
<1>3. StillToBegin' = frames
  BY <1>1 DEF StillToBegin
<1>4. HasReason(Keepalive)' = HasReason(Keepalive)
  BY <1>1, ThreadsDistinct DEF HasReason
<1> QED BY <1>1, <1>2, <1>3, <1>4 DEF OverrunInv

\* For the keepalive thread, whose loops look at the flags.
LEMMA OverrunKeepalive ==
    ASSUME TxTypes, OverrunInv, KeepaliveLoop \/ KeepaliveWake
    PROVE  OverrunInv'
<1>1. pc'[Mic] = pc[Mic] /\ UNCHANGED <<overrun, running, muted, left>>
  BY ThreadsDistinct DEF KeepaliveLoop, KeepaliveWake, keepalive_running, Goto, TxTypes, flags
<1>2. pc'[Keepalive] = "seq" => running /\ (muted \/ left[Keepalive] > 0)
  BY ThreadsDistinct DEF KeepaliveLoop, KeepaliveWake, keepalive_running, Goto, TxTypes
<1>3. /\ HasReason(Mic)' = HasReason(Mic) /\ HasReason(Keepalive)' = HasReason(Keepalive)
      /\ StillToBegin' = StillToBegin
  BY <1>1 DEF HasReason, StillToBegin
<1>4. pc'[Keepalive] = "seq" => overrun[Keepalive] = 0
  BY <1>2, ThreadsDistinct DEF HasReason, OverrunInv
<1> QED BY <1>1, <1>3, <1>4, ThreadsDistinct DEF OverrunInv, TxTypes

\* A claim without reason is counted, and leaves one packet less to begin.
LEMMA OverrunClaims ==
    ASSUME TxTypes, OverrunInv, NEW t \in Thread, ClaimSeq(t)
    PROVE  OverrunInv'
<1>1. /\ pc[t] = "seq" /\ overrun' = Overrun(t)
      /\ UNCHANGED <<running, muted, left>>
      /\ pc' = [pc EXCEPT ![t] = IF t \in Audio THEN "ts" ELSE "protect"]
  BY DEF ClaimSeq, Goto, flags
<1>2. HasReason(Mic)' = HasReason(Mic) /\ HasReason(Keepalive)' = HasReason(Keepalive)
  BY <1>1 DEF HasReason
<1>3. overrun[Mic] \in Nat /\ overrun[Keepalive] \in Nat /\ left[Mic] \in Nat
  BY ThreadsDistinct DEF TxTypes
<1>4. CASE t = Mic
  <2>1. pc'[Mic] = "ts" /\ pc'[Keepalive] = pc[Keepalive]
    BY <1>1, <1>4, ThreadsDistinct DEF TxTypes
  <2>2. /\ overrun'[Keepalive] = overrun[Keepalive]
        /\ overrun'[Mic] = IF HasReason(Mic) THEN overrun[Mic] ELSE overrun[Mic] + 1
    BY <1>1, <1>4, ThreadsDistinct DEF Overrun, TxTypes
  <2>3. StillToBegin = left[Mic] /\ StillToBegin' = left[Mic] - 1
    BY <1>1, <1>4, <2>1 DEF StillToBegin
  <2>4. left[Mic] > 0 /\ left'[Mic] = left[Mic]
    BY <1>1, <1>4 DEF OverrunInv
  <2> QED BY <1>2, <1>3, <2>1, <2>2, <2>3, <2>4, SessionAssumption DEF OverrunInv
<1>5. CASE t = Keepalive
  <2>1. pc'[Keepalive] = "ts" /\ pc'[Mic] = pc[Mic]
    BY <1>1, <1>5, ThreadsDistinct DEF TxTypes
  <2>2. /\ overrun'[Mic] = overrun[Mic]
        /\ overrun'[Keepalive] = IF HasReason(Keepalive) THEN overrun[Keepalive]
                                 ELSE overrun[Keepalive] + 1
    BY <1>1, <1>5, ThreadsDistinct DEF Overrun, TxTypes
  <2>3. StillToBegin' = StillToBegin
    BY <1>1, <2>1 DEF StillToBegin
  <2> QED BY <1>1, <1>2, <1>3, <1>5, <2>1, <2>2, <2>3 DEF OverrunInv
<1>6. CASE t \notin Audio
  <2>1. pc'[Mic] = pc[Mic] /\ pc'[Keepalive] = pc[Keepalive] /\ overrun' = overrun
    BY <1>1, <1>6, ThreadsDistinct DEF TxTypes, Overrun
  <2>2. StillToBegin' = StillToBegin
    BY <1>1, <2>1 DEF StillToBegin
  <2> QED BY <1>1, <1>2, <2>1, <2>2, OverrunFrame DEF OverrunInv
<1> QED BY <1>4, <1>5, <1>6 DEF Audio

\* The microphone's next packet is one less of its callback.
LEMMA OverrunSends ==
    ASSUME TxTypes, OverrunInv, NEW t \in Thread, Send(t)
    PROVE  OverrunInv'
<1>1. pc[t] = "send" /\ UNCHANGED <<running, muted, overrun>>
  BY DEF Send, flags
<1>2. left[Mic] \in Nat /\ left[Keepalive] \in Nat
  BY ThreadsDistinct DEF TxTypes
<1>3. CASE t = Mic
  <2>1. /\ left[Mic] > 0 /\ left'[Mic] = left[Mic] - 1
        /\ pc'[Mic] = IF left[Mic] - 1 > 0 THEN "seq" ELSE "idle"
        /\ pc'[Keepalive] = pc[Keepalive] /\ left'[Keepalive] = left[Keepalive]
    BY <1>1, <1>2, <1>3, ThreadsDistinct DEF Send, Goto, TxTypes, OverrunInv
  <2>2. StillToBegin' = StillToBegin
    BY <1>1, <1>2, <1>3, <2>1 DEF StillToBegin
  <2>3. HasReason(Mic)' = HasReason(Mic) /\ HasReason(Keepalive)' = HasReason(Keepalive)
    BY <1>1, <2>1 DEF HasReason
  <2> QED BY <1>1, <1>2, <2>1, <2>2, <2>3, OverrunFrame
<1>4. CASE t # Mic
  <2>1. /\ pc'[Mic] = pc[Mic] /\ left'[Mic] = left[Mic]
        /\ left'[Keepalive] \in Nat /\ left'[Keepalive] <= left[Keepalive]
        /\ pc'[Keepalive] = "seq" => pc[Keepalive] = "seq"
    BY <1>1, <1>2, <1>4, ThreadsDistinct DEF Send, Goto, TxTypes
  <2>2. StillToBegin' = StillToBegin
    BY <2>1 DEF StillToBegin
  <2>3. HasReason(Mic)' = HasReason(Mic) /\ (HasReason(Keepalive)' => HasReason(Keepalive))
    BY <1>1, <1>2, <2>1, ThreadsDistinct DEF HasReason
  <2> QED BY <1>1, <2>1, <2>2, <2>3, OverrunFrame DEF OverrunInv
<1> QED BY <1>3, <1>4

\* set_mute gives one thread reason to send and takes the other's away.
LEMMA OverrunMutes ==
    ASSUME TxTypes, OverrunInv, NEW mute \in BOOLEAN, set_mute(mute)
    PROVE  OverrunInv'
<1>1. muted' = mute /\ UNCHANGED <<running, pc, left>>
  BY DEF set_mute
<1>2. overrun[Mic] \in Nat /\ overrun[Keepalive] \in Nat
  BY ThreadsDistinct DEF TxTypes
<1>3. StillToBegin' = StillToBegin
  BY <1>1 DEF StillToBegin
<1>4. CASE ~running
  <2>1. overrun' = overrun /\ ~HasReason(Mic)' /\ ~HasReason(Keepalive)'
    BY <1>1, <1>4 DEF set_mute, HasReason
  <2> QED BY <1>1, <1>3, <2>1, OverrunFrame DEF OverrunInv
<1>5. CASE running /\ mute
  <2>1. overrun'[Mic] = overrun[Mic] /\ overrun'[Keepalive] = 0 /\ ~HasReason(Mic)'
    BY <1>1, <1>5, ThreadsDistinct DEF set_mute, HasReason, TxTypes
  <2> QED BY <1>1, <1>2, <1>3, <2>1 DEF OverrunInv
<1>6. CASE running /\ ~mute
  <2>1. /\ overrun'[Keepalive] = overrun[Keepalive] /\ overrun'[Mic] = 0
        /\ HasReason(Keepalive)' => HasReason(Keepalive)
    BY <1>1, <1>6, ThreadsDistinct DEF set_mute, HasReason, TxTypes
  <2>2. StillToBegin \in Int /\ CallbackFrames \in Nat
    BY ThreadsDistinct, SessionAssumption DEF StillToBegin, TxTypes
  <2> QED BY <1>1, <1>2, <1>3, <2>1, <2>2 DEF OverrunInv
<1> QED BY <1>4, <1>5, <1>6

\* Every step keeps the audio threads within their bounds.
LEMMA OverrunNext == TxTypes /\ OverrunInv /\ [Next]_vars => OverrunInv'
<1> SUFFICES ASSUME TxTypes, OverrunInv, [Next]_vars PROVE OverrunInv'
  OBVIOUS
<1>1. ASSUME UNCHANGED <<pc, left, overrun, muted>>, running' => running
      PROVE  OverrunInv'
  <2>1. /\ HasReason(Mic)' => HasReason(Mic)
        /\ HasReason(Keepalive)' => HasReason(Keepalive)
        /\ StillToBegin' = StillToBegin
    BY <1>1 DEF HasReason, StillToBegin
  <2> QED BY <1>1, <2>1, OverrunFrame DEF OverrunInv
<1>2. CASE UNCHANGED vars
  BY <1>1, <1>2 DEF vars, flags
<1>3. CASE stop \/ CloseStream
  BY <1>1, <1>3 DEF stop, CloseStream
<1>4. ASSUME NEW t \in Thread, ClaimTs(t) \/ Protect(t) \/ (t \in Digits /\ send_dtmf(t))
      PROVE  OverrunInv'
  <2>1. /\ UNCHANGED <<left, overrun, running, muted>>
        /\ \/ t \in Digits /\ pc' = [pc EXCEPT ![t] = "seq"]
           \/ pc[t] \in {"ts", "protect"} /\ \E step \in {"protect", "send"} :
                                                pc' = [pc EXCEPT ![t] = step]
    BY <1>4 DEF ClaimTs, Protect, send_dtmf, Goto, flags
  <2>2. /\ pc'[Keepalive] = "seq" => pc[Keepalive] = "seq"
        /\ pc'[Mic] = pc[Mic] \/ (/\ pc[Mic] \in {"ts", "protect"}
                                  /\ pc'[Mic] \in {"protect", "send"})
    BY <2>1, ThreadsDistinct DEF TxTypes
  <2>3. StillToBegin' = StillToBegin
    BY <2>1, <2>2 DEF StillToBegin
  <2>4. HasReason(Mic)' = HasReason(Mic) /\ HasReason(Keepalive)' = HasReason(Keepalive)
    BY <2>1 DEF HasReason
  <2> QED BY <2>1, <2>2, <2>3, <2>4, OverrunFrame DEF OverrunInv
<1> QED
  BY <1>2, <1>3, <1>4, OverrunMic, OverrunKeepalive, OverrunClaims, OverrunSends,
     OverrunMutes, ThreadsDistinct
     DEF Next, PacketStep

-----------------------------------------------------------------------------
(* Theorems *)

\* The inductive invariant of the sending side.
TxInv == TxTypes /\ StreamInv /\ DigitInv /\ OverrunInv

\* It holds in every reachable state, however the threads interleave.
THEOREM TxInvariance == Spec => []TxInv
<1>1. Init => TxInv
  BY TypesInit, StreamInit, DigitInit, OverrunInit DEF TxInv
<1>2. TxInv /\ [Next]_vars => TxInv'
  BY TypesNext, StreamNext, DigitNext, OverrunNext DEF TxInv
<1> QED BY <1>1, <1>2, PTL DEF Spec

\* Microphone, keepalive thread and digits put one stream on the wire: until
\* the counter has gone round, every sequence number handed out is on exactly
\* one packet.
THEOREM SendersFormOneStream == Spec => []OneStream
<1>1. TxInv => OneStream
  BY StreamIsOne DEF TxInv
<1> QED BY <1>1, TxInvariance, PTL

\* Whatever is sent in between, and however many digits at once, send_dtmf
\* puts each of them on the wire whole and in order.
THEOREM DigitsArriveWhole == Spec => []DigitWhole
<1>1. TxInv => DigitWhole
  BY DigitsWhole DEF TxInv
<1> QED BY <1>1, TxInvariance, PTL

\* After mute, unmute or stop no audio thread begins more than what it was in
\* the middle of.
THEOREM AudioStopsInTime == Spec => []NoOverrun
<1>1. TxInv => NoOverrun
  <2> SUFFICES ASSUME TxInv PROVE NoOverrun
    OBVIOUS
  <2>1. /\ overrun[Mic] \in Nat /\ overrun[Keepalive] \in Nat /\ left[Mic] \in Nat
        /\ CallbackFrames \in Nat
    BY ThreadsDistinct, SessionAssumption DEF TxInv, TxTypes
  <2>2. StillToBegin \in Nat
    BY <2>1 DEF TxInv, OverrunInv, StillToBegin
  <2> QED BY <2>1, <2>2 DEF TxInv, OverrunInv, NoOverrun
<1> QED BY <1>1, TxInvariance, PTL
=============================================================================
