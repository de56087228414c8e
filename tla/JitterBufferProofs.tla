------------------------- MODULE JitterBufferProofs -------------------------
(***************************************************************************)
(* The safety of the jitter buffer, for every capacity, every width of its *)
(* integers and every sequence of pushes and pops.                         *)
(***************************************************************************)
EXTENDS JitterBuffer, FiniteSetTheorems, WellFoundedInduction, TLAPS

-----------------------------------------------------------------------------
(* Facts about naturals *)

\* The oldest key exists and is the least.
LEMMA MinOfNaturals ==
    ASSUME NEW S \in SUBSET Nat, S # {}
    PROVE  Min(S) \in S /\ \A y \in S : Min(S) <= y
<1> DEFINE R == OpToRel(<, Nat)
           L == {p \in Nat \X Nat : p[1] < p[2]}
<1>1. R = L
  BY DEF OpToRel
<1>2. IsWellFoundedOn(R, Nat)
  BY NatLessThanWellFounded
<1>3. PICK x \in S : \A y \in S : ~(<<y, x>> \in L)
  <2> HIDE DEF R, L
  <2> QED BY <1>1, <1>2, WFMin
<1>4. ASSUME NEW y \in S, y < x
      PROVE  <<y, x>> \in L
  BY <1>4
<1>5. \A y \in S : x <= y
  <2> HIDE DEF L, R
  <2>1. \A y \in S : ~(y < x)
    BY <1>3, <1>4
  <2> QED BY <2>1
<1> QED BY <1>5 DEF Min

\* A cycle count and a sequence number make a key within its width.
LEMMA KeyInRange ==
    ASSUME NEW c \in Cycle, NEW q \in SeqNumber
    PROVE  c * SeqSpace + q \in ExtendedSeq
<1>1. /\ c \in Nat /\ q \in Nat /\ SeqSpace \in Nat /\ CycleSpace \in Nat
      /\ c <= CycleSpace - 1 /\ q <= SeqSpace - 1
  BY SpaceAssumption DEF Cycle, SeqNumber
<1>2. c * SeqSpace \in Nat /\ c * SeqSpace <= (CycleSpace - 1) * SeqSpace
  BY <1>1
<1>3. (CycleSpace - 1) * SeqSpace = SeqSpace * CycleSpace - SeqSpace
  BY <1>1
<1>4. SeqSpace * CycleSpace \in Nat
  BY <1>1
<1> QED BY <1>1, <1>2, <1>3, <1>4 DEF ExtendedSeq

\* Every set of extended sequence numbers is a finite set of naturals.
LEMMA KeysFinite ==
    ASSUME NEW K \in SUBSET ExtendedSeq
    PROVE  IsFiniteSet(K) /\ Cardinality(K) \in Nat /\ K \in SUBSET Nat
<1>1. SeqSpace * CycleSpace \in Nat
  BY SpaceAssumption
<1>2. IsFiniteSet(ExtendedSeq)
  BY <1>1, FS_Interval DEF ExtendedSeq
<1>3. IsFiniteSet(K)
  BY <1>2, FS_Subset
<1> QED BY <1>3, FS_CardinalityType DEF ExtendedSeq

-----------------------------------------------------------------------------
(* Types of what the actions compute *)

\* The buffered keys are a finite set of extended sequence numbers.
LEMMA TypeKeys ==
    ASSUME TypeOK
    PROVE  /\ Keys \in SUBSET ExtendedSeq
           /\ packets \in [Keys -> Timestamp]
           /\ IsFiniteSet(Keys) /\ Cardinality(Keys) \in Nat
           /\ Keys \in SUBSET Nat
<1>1. Keys \in SUBSET ExtendedSeq /\ packets \in [Keys -> Timestamp]
  BY DEF TypeOK, Keys
<1> QED BY <1>1, KeysFinite

\* extend_seq keeps the cycle counter within its width, in either direction.
LEMMA CyclesType ==
    ASSUME TypeOK, NEW last, NEW seq \in SeqNumber
    PROVE  ExtendedCycles(last, seq) \in Cycle
<1>1. seq_cycles \in Cycle /\ CycleSpace \in Nat \ {0}
  BY SpaceAssumption DEF TypeOK
<1>2. (seq_cycles + 1) % CycleSpace \in Cycle
  BY <1>1 DEF Cycle
<1>3. (seq_cycles + CycleSpace - 1) % CycleSpace \in Cycle
  BY <1>1 DEF Cycle
<1> QED BY <1>1, <1>2, <1>3 DEF ExtendedCycles

\* adapt_delay keeps the target delay within its bounds.
LEMMA DelayType ==
    ASSUME TypeOK, adapt_delay
    PROVE  current_delay' \in 0 .. DelayCap
<1>1. /\ MinDelay \in Nat /\ MaxDelay \in Nat /\ InitialDelay \in Nat
      /\ MinDelay <= MaxDelay
  BY ConfigAssumption
<1>2. MaxDelay <= DelayCap /\ DelayCap \in Nat
  BY <1>1 DEF DelayCap
<1>3. ASSUME NEW x \in Int
      PROVE  Clamp(x, MinDelay, MaxDelay) \in 0 .. DelayCap
  BY <1>1, <1>2 DEF Clamp
<1>4. ASSUME NEW target \in MinDelay .. MaxDelay
      PROVE  AdaptedDelay(target) \in 0 .. DelayCap
  <2>1. target \in Int /\ current_delay \in Int
    BY <1>1, <1>2 DEF TypeOK
  <2>2. /\ AtLeastOne((target - current_delay) \div 4) \in Int
        /\ AtLeastOne((current_delay - target) \div 8) \in Int
    BY <2>1 DEF AtLeastOne
  <2> QED BY <2>1, <2>2, <1>3 DEF AdaptedDelay
<1> QED BY <1>4 DEF adapt_delay, TypeOK

\* Nothing is buffered or played before the first packet gave the timestamps
\* their base.
Started == base_timestamp = None => Keys = {} /\ playout_seq = None

\* The inductive invariant.
IInv ==
    /\ TypeOK
    /\ Started
    /\ WithinCapacity
    /\ NothingStranded
    /\ CountersConsistent

\* An empty map is a well typed buffer.
LEMMA EmptyType ==
    /\ [k \in {} |-> 0] \in [{} -> Timestamp]
    /\ DOMAIN [k \in {} |-> 0] = {}
    /\ Cardinality({}) = 0
BY FS_EmptySet

\* A new buffer satisfies the invariant.
LEMMA InvInit == Init => IInv
<1> SUFFICES ASSUME Init PROVE IInv
  OBVIOUS
<1>1. Keys = {} /\ packets \in [{} -> Timestamp] /\ Cardinality(Keys) = 0
  BY EmptyType DEF Init, Keys
<1>2. TypeOK
  BY <1>1, SpaceAssumption, ConfigAssumption DEF Init, TypeOK, Cycle, DelayCap
<1> QED
  BY <1>1, <1>2, ConfigAssumption
     DEF Init, IInv, Started, WithinCapacity, NothingStranded,
         CountersConsistent, discontinuity

-----------------------------------------------------------------------------
(* push_at *)

\* What Arrive changes stays well typed.
LEMMA ArriveType ==
    ASSUME IInv, NEW seq \in SeqNumber, NEW ts \in Timestamp, Arrive(seq, ts)
    PROVE  /\ base_timestamp' \in Timestamp
           /\ seq_cycles' \in Cycle
           /\ current_delay' \in 0 .. DelayCap
           /\ out' = None
           /\ extend_seq(seq) \in ExtendedSeq
<1>1. TypeOK
  BY DEF IInv
<1>2. ExtendedCycles(PreviousSeq(seq), seq) \in Cycle
  BY <1>1, CyclesType
<1>3. extend_seq(seq) \in ExtendedSeq
  BY <1>2, KeyInRange DEF extend_seq
<1>4. base_timestamp' \in Timestamp
  BY <1>1 DEF Arrive, TypeOK
<1> QED BY <1>1, <1>2, <1>3, <1>4 DEF Arrive, TypeOK

\* A late packet is counted and dropped.
LEMMA InvPushLate ==
    ASSUME IInv, NEW seq \in SeqNumber, NEW ts \in Timestamp,
           PushLate(seq, ts)
    PROVE  IInv'
<1>1. TypeOK /\ Keys' = Keys
  BY DEF IInv, PushLate, Keys
<1>2. /\ base_timestamp' \in Timestamp /\ seq_cycles' \in Cycle
      /\ current_delay' \in 0 .. DelayCap /\ out' = None
  BY ArriveType DEF PushLate
<1>3. /\ stats' \in [received : Nat, dropped : Nat, lost : Nat, played : Nat]
      /\ stats'.received = stats.received + 1
      /\ stats'.dropped = stats.dropped + 1
      /\ stats'.lost = stats.lost /\ stats'.played = stats.played
  BY <1>1 DEF PushLate, Count, TypeOK
<1>4. TypeOK'
  BY <1>1, <1>2, <1>3 DEF PushLate, TypeOK
<1>5. base_timestamp' # None
  BY <1>2, NoneAssumption DEF Timestamp
<1>6. CountersConsistent'
  BY <1>1, <1>3, TypeKeys DEF IInv, CountersConsistent, TypeOK
<1> QED
  BY <1>1, <1>4, <1>5, <1>6
     DEF IInv, PushLate, Started, WithinCapacity, NothingStranded

\* Making room leaves fewer keys than the buffer holds, by removing at most
\* one.
LEMMA MadeRoomSize ==
    ASSUME NEW K \in SUBSET ExtendedSeq, Cardinality(K) <= discontinuity
    PROVE  /\ MadeRoom(K) \in SUBSET K
           /\ Cardinality(MadeRoom(K)) \in Nat
           /\ Cardinality(MadeRoom(K)) + 1 <= discontinuity
           /\ MadeRoom(K) = K \/ Cardinality(MadeRoom(K)) = Cardinality(K) - 1
<1>1. IsFiniteSet(K) /\ Cardinality(K) \in Nat /\ K \in SUBSET Nat
  BY KeysFinite
<1>2. MaxPackets \in Nat
  BY ConfigAssumption
<1>3. CASE Cardinality(K) >= MaxPackets /\ K # {}
  <2>1. Min(K) \in K
    BY <1>1, <1>3, MinOfNaturals
  <2>2. Cardinality(K \ {Min(K)}) = Cardinality(K) - 1
    BY <1>1, <2>1, FS_RemoveElement
  <2>3. Cardinality(K \ {Min(K)}) \in Nat
    BY KeysFinite
  <2> QED BY <1>1, <1>2, <1>3, <2>2, <2>3 DEF MadeRoom, discontinuity
<1>4. CASE K = {}
  BY <1>1, <1>2, <1>4, FS_EmptySet DEF MadeRoom, discontinuity
<1>5. CASE ~(Cardinality(K) >= MaxPackets) /\ K # {}
  BY <1>1, <1>2, <1>5 DEF MadeRoom, discontinuity
<1> QED BY <1>3, <1>4, <1>5

\* A buffered packet, after a restart, a drop for room, or neither.
LEMMA InvPushBuffered ==
    ASSUME IInv, NEW seq \in SeqNumber, NEW ts \in Timestamp,
           PushBuffered(seq, ts)
    PROVE  IInv'
<1> DEFINE key     == extend_seq(seq)
           restart == IsRestart(key)
           before  == IF restart THEN {} ELSE Keys
           room    == MadeRoom(before)
<1>1. TypeOK
  BY DEF IInv
<1>2. /\ base_timestamp' \in Timestamp /\ seq_cycles' \in Cycle
      /\ current_delay' \in 0 .. DelayCap /\ out' = None
      /\ key \in ExtendedSeq
  BY ArriveType DEF PushBuffered
<1>3. /\ Keys \in SUBSET ExtendedSeq /\ packets \in [Keys -> Timestamp]
      /\ Cardinality(Keys) \in Nat
  BY <1>1, TypeKeys
<1>4. /\ before \in SUBSET Keys
      /\ before \in SUBSET ExtendedSeq
      /\ Cardinality(before) \in Nat
      /\ Cardinality(before) <= Cardinality(Keys)
  BY <1>3, FS_EmptySet
<1>5. Cardinality(before) <= discontinuity
  BY <1>3, <1>4, ConfigAssumption DEF IInv, WithinCapacity, discontinuity
<1>6. /\ room \in SUBSET before
      /\ Cardinality(room) \in Nat
      /\ Cardinality(room) + 1 <= discontinuity
      /\ room = before \/ Cardinality(room) = Cardinality(before) - 1
  BY <1>4, <1>5, MadeRoomSize
<1>7. /\ packets' = [k \in room \cup {key} |->
                        IF k = key THEN ts ELSE packets[k]]
      /\ Keys' = room \cup {key}
  BY DEF PushBuffered, Keys
<1>8. room \cup {key} \in SUBSET ExtendedSeq
  BY <1>2, <1>4, <1>6
<1>9. /\ Cardinality(room \cup {key}) \in Nat
      /\ Cardinality(room \cup {key}) <= Cardinality(room) + 1
  <2> HIDE DEF room, key, before
  <2>1. IsFiniteSet(room)
    BY <1>4, <1>6, KeysFinite
  <2>2. Cardinality(room \cup {key}) =
           IF key \in room THEN Cardinality(room) ELSE Cardinality(room) + 1
    BY <2>1, FS_AddElement
  <2> QED BY <1>6, <2>2
<1>10. packets' \in [room \cup {key} -> Timestamp]
  BY <1>3, <1>4, <1>6, <1>7
<1>11. /\ stats' \in [received : Nat, dropped : Nat, lost : Nat, played : Nat]
       /\ stats'.received = stats.received + 1
       /\ stats'.dropped = IF room = before THEN stats.dropped
                           ELSE stats.dropped + 1
       /\ stats'.lost = stats.lost /\ stats'.played = stats.played
  BY <1>1 DEF PushBuffered, Count, TypeOK
<1>12. TypeOK'
  <2>1. DelayCap \in Nat
    BY ConfigAssumption DEF DelayCap
  <2>2. waited' \in (0 .. DelayCap) \cup {None}
    BY <1>1, <2>1 DEF PushBuffered, TypeOK
  <2>3. /\ playout_seq' \in ExtendedSeq \cup {None}
        /\ last_seq' \in SeqNumber \cup {None}
    BY <1>1 DEF PushBuffered, TypeOK
  <2> QED BY <1>2, <1>8, <1>10, <1>11, <2>2, <2>3 DEF TypeOK
<1>13. Started'
  BY <1>2, NoneAssumption DEF Started, Timestamp
<1>14. WithinCapacity'
  <2>1. discontinuity \in Nat
    BY ConfigAssumption DEF discontinuity
  <2> QED BY <1>6, <1>7, <1>9, <2>1 DEF WithinCapacity
<1>15. NothingStranded'
  <2>1. CASE restart
    BY <2>1 DEF PushBuffered, NothingStranded
  <2>2. CASE ~restart
    <3>1. playout_seq' = playout_seq /\ before = Keys
      BY <2>2 DEF PushBuffered
    <3>2. playout_seq # None => playout_seq \in Int /\ discontinuity \in Int
      BY <1>1, ConfigAssumption DEF TypeOK, ExtendedSeq, discontinuity
    <3>3. key \in Int
      BY <1>2 DEF ExtendedSeq
    <3>4. ~IsLate(key)
      BY DEF PushBuffered
    <3>5. playout_seq # None => key >= playout_seq
      BY <2>2, <3>2, <3>3, <3>4 DEF IsRestart, IsLate, BehindPlayout
    <3> QED BY <1>6, <1>7, <3>1, <3>5 DEF IInv, NothingStranded
  <2> QED BY <2>1, <2>2
<1>16. CountersConsistent'
  BY <1>1, <1>3, <1>4, <1>6, <1>7, <1>9, <1>11
     DEF IInv, CountersConsistent, TypeOK
<1> QED BY <1>12, <1>13, <1>14, <1>15, <1>16 DEF IInv

-----------------------------------------------------------------------------
(* pop_at *)

\* Where pop looks: the position is a key, no buffered key is before it, and
\* the next packet is the least key at or past it.
LEMMA PopTarget ==
    ASSUME IInv, PlayoutReady, AtOrPast(PlayoutStart) # {}
    PROVE  /\ PlayoutStart \in ExtendedSeq
           /\ Min(AtOrPast(PlayoutStart)) \in Keys
           /\ Min(AtOrPast(PlayoutStart)) >= PlayoutStart
           /\ \A k \in Keys : k >= Min(AtOrPast(PlayoutStart))
           /\ base_timestamp \in Timestamp
<1>1. TypeOK /\ NothingStranded /\ Started
  BY DEF IInv
<1>2. /\ Keys \in SUBSET ExtendedSeq /\ Keys \in SUBSET Nat
      /\ packets \in [Keys -> Timestamp]
  BY <1>1, TypeKeys
<1>3. Keys # {}
  BY DEF AtOrPast
<1>4. Min(Keys) \in Keys /\ \A k \in Keys : Min(Keys) <= k
  BY <1>2, <1>3, MinOfNaturals
<1>5. PlayoutStart \in ExtendedSeq /\ PlayoutStart \in Nat
  <2>1. PlayoutStart \in ExtendedSeq
    BY <1>1, <1>2, <1>4 DEF PlayoutStart, TypeOK
  <2> QED BY <2>1 DEF ExtendedSeq
<1>6. \A k \in Keys : k >= PlayoutStart
  BY <1>1, <1>2, <1>4, <1>5 DEF PlayoutStart, NothingStranded
<1>7. AtOrPast(PlayoutStart) = Keys
  BY <1>6 DEF AtOrPast
<1>8. base_timestamp \in Timestamp
  BY <1>1, <1>3 DEF Started, TypeOK
<1> QED BY <1>4, <1>5, <1>6, <1>7, <1>8

\* What HandOut changes stays well typed, and playout ends up behind every
\* later key or wraps to the first.
LEMMA HandOutType ==
    ASSUME IInv, NEW target \in ExtendedSeq, NEW ts \in Timestamp,
           NEW synthesized \in BOOLEAN, HandOut(target, ts, synthesized)
    PROVE  /\ out' \in Packet
           /\ playout_seq' \in ExtendedSeq
           /\ current_delay' \in 0 .. DelayCap
           /\ \A k \in ExtendedSeq : k > target => k >= playout_seq'
<1> DEFINE space == SeqSpace * CycleSpace
<1>1. space \in Nat /\ space > 0 /\ target \in 0 .. space - 1
  BY SpaceAssumption DEF ExtendedSeq
<1>2. playout_seq' = (target + 1) % space
  BY DEF HandOut
<1>3. CASE target + 1 < space
  <2>1. (target + 1) % space = target + 1
    BY <1>1, <1>3
  <2> QED BY <1>1, <1>2, <2>1, <1>3, DelayType
          DEF HandOut, IInv, Packet, ExtendedSeq
<1>4. CASE target + 1 = space
  <2>1. (target + 1) % space = 0
    BY <1>1, <1>4
  <2> QED BY <1>1, <1>2, <2>1, <1>4, DelayType
          DEF HandOut, IInv, Packet, ExtendedSeq
<1> QED BY <1>1, <1>3, <1>4

\* A packet leaves the buffer and is played.
LEMMA InvPopPacket == ASSUME IInv, PopPacket PROVE IInv'
<1> DEFINE next == Min(AtOrPast(PlayoutStart))
<1>1. TypeOK /\ PlayoutReady /\ AtOrPast(PlayoutStart) # {}
  BY DEF IInv, PopPacket
<1>2. next \in Keys /\ (\A k \in Keys : k >= next) /\ base_timestamp \in Timestamp
  BY <1>1, PopTarget
<1>3. /\ Keys \in SUBSET ExtendedSeq /\ packets \in [Keys -> Timestamp]
      /\ IsFiniteSet(Keys) /\ Cardinality(Keys) \in Nat
  BY <1>1, TypeKeys
<1>4. next \in ExtendedSeq /\ packets[next] \in Timestamp
  BY <1>2, <1>3
<1>5. HandOut(next, packets[next], FALSE)
  BY DEF PopPacket
<1>6. /\ out' \in Packet /\ playout_seq' \in ExtendedSeq
      /\ current_delay' \in 0 .. DelayCap
      /\ \A k \in ExtendedSeq : k > next => k >= playout_seq'
  <2> HIDE DEF next
  <2> QED BY <1>4, <1>5, HandOutType
<1>7. /\ Keys' = Keys \ {next}
      /\ packets' \in [Keys \ {next} -> Timestamp]
  BY <1>3 DEF PopPacket, Keys
<1>8. /\ Cardinality(Keys \ {next}) = Cardinality(Keys) - 1
      /\ Cardinality(Keys) - 1 \in Nat
  <2> HIDE DEF next
  <2>1. Cardinality(Keys \ {next}) = Cardinality(Keys) - 1
    BY <1>2, <1>3, FS_RemoveElement
  <2>2. Cardinality(Keys \ {next}) \in Nat
    BY <1>3, KeysFinite
  <2> QED BY <2>1, <2>2
<1>9. /\ stats' \in [received : Nat, dropped : Nat, lost : Nat, played : Nat]
      /\ stats'.received = stats.received /\ stats'.dropped = stats.dropped
      /\ stats'.lost = stats.lost /\ stats'.played = stats.played + 1
  BY <1>1 DEF PopPacket, Count, TypeOK
<1>10. TypeOK'
  <2> HIDE DEF next
  <2>1. Keys \ {next} \in SUBSET ExtendedSeq
    BY <1>3
  <2> QED BY <1>1, <1>5, <1>6, <1>7, <1>9, <2>1 DEF TypeOK, HandOut
<1>11. Started' /\ WithinCapacity'
  <2>1. base_timestamp' = base_timestamp /\ base_timestamp # None
    BY <1>2, <1>5, NoneAssumption DEF HandOut, Timestamp
  <2>2. discontinuity \in Nat
    BY ConfigAssumption DEF discontinuity
  <2> QED BY <1>3, <1>7, <1>8, <2>1, <2>2
          DEF IInv, Started, WithinCapacity
<1>12. NothingStranded'
  <2>1. \A k \in Keys \ {next} : k > next /\ k \in ExtendedSeq
    BY <1>2, <1>3, <1>4 DEF ExtendedSeq
  <2> QED BY <1>6, <1>7, <2>1 DEF NothingStranded
<1>13. CountersConsistent'
  BY <1>1, <1>3, <1>7, <1>8, <1>9 DEF IInv, CountersConsistent, TypeOK
<1> QED BY <1>10, <1>11, <1>12, <1>13 DEF IInv

\* A missing packet is concealed.
LEMMA InvPopLost == ASSUME IInv, PopLost PROVE IInv'
<1> DEFINE start == PlayoutStart
           next  == Min(AtOrPast(start))
           ts    == estimate_timestamp(start, start)
<1>1. TypeOK /\ PlayoutReady /\ AtOrPast(start) # {} /\ Keys' = Keys
  BY DEF IInv, PopLost, Keys
<1>2. /\ start \in ExtendedSeq /\ next \in Keys /\ next >= start
      /\ (\A k \in Keys : k >= next) /\ base_timestamp \in Timestamp
  BY <1>1, PopTarget
<1>3. Keys \in SUBSET ExtendedSeq /\ Cardinality(Keys) \in Nat
  BY <1>1, TypeKeys
<1>4. ts \in Timestamp
  <2>1. base_timestamp + (start - start) \in Int /\ TsSpace \in Nat \ {0}
    BY <1>2, SpaceAssumption DEF Timestamp, ExtendedSeq
  <2> QED BY <2>1 DEF estimate_timestamp, Timestamp
<1>5. HandOut(start, ts, TRUE) /\ next # start
  BY DEF PopLost
<1>6. /\ out' \in Packet /\ playout_seq' \in ExtendedSeq
      /\ current_delay' \in 0 .. DelayCap
      /\ \A k \in ExtendedSeq : k > start => k >= playout_seq'
  <2> HIDE DEF start, ts
  <2> QED BY <1>2, <1>4, <1>5, HandOutType
<1>7. /\ stats' \in [received : Nat, dropped : Nat, lost : Nat, played : Nat]
      /\ stats'.received = stats.received /\ stats'.dropped = stats.dropped
      /\ stats'.lost = stats.lost + 1 /\ stats'.played = stats.played + 1
  BY <1>1 DEF PopLost, Count, TypeOK
<1>8. TypeOK'
  <2> HIDE DEF start, next, ts
  <2> QED BY <1>1, <1>5, <1>6, <1>7 DEF TypeOK, HandOut, PopLost
<1>9. Started' /\ WithinCapacity'
  <2>1. base_timestamp' = base_timestamp /\ base_timestamp # None
    BY <1>2, <1>5, NoneAssumption DEF HandOut, Timestamp
  <2> QED BY <1>1, <2>1 DEF IInv, Started, WithinCapacity
<1>10. NothingStranded'
  <2>1. \A k \in Keys : k > start /\ k \in ExtendedSeq
    <3> HIDE DEF start, next
    <3> QED BY <1>2, <1>3, <1>5 DEF ExtendedSeq
  <2> QED BY <1>1, <1>6, <2>1 DEF NothingStranded
<1>11. CountersConsistent'
  BY <1>1, <1>3, <1>7 DEF IInv, CountersConsistent, TypeOK
<1> QED BY <1>8, <1>9, <1>10, <1>11 DEF IInv

-----------------------------------------------------------------------------
(* The invariant *)

\* Every operation of the buffer preserves the invariant.
LEMMA InvNext == IInv /\ [Next]_vars => IInv'
<1> SUFFICES ASSUME IInv, [Next]_vars PROVE IInv'
  OBVIOUS
<1>1. ASSUME NEW seq \in SeqNumber, NEW ts \in Timestamp, Push(seq, ts)
      PROVE  IInv'
  BY <1>1, InvPushLate, InvPushBuffered DEF Push
<1>2. CASE PopPacket
  BY <1>2, InvPopPacket
<1>3. CASE PopLost
  BY <1>3, InvPopLost
<1>4. CASE PopNothing
  BY <1>4 DEF PopNothing, IInv, TypeOK, Started, WithinCapacity,
              NothingStranded, CountersConsistent, Keys
<1>5. CASE reset
  <2>1. Init'
    BY <1>5 DEF reset, Init
  <2>2. Keys' = {} /\ packets' \in [{} -> Timestamp] /\ Cardinality(Keys') = 0
    BY <1>5, EmptyType DEF reset, Keys
  <2>3. TypeOK'
    BY <2>1, <2>2, SpaceAssumption, ConfigAssumption
       DEF Init, TypeOK, Cycle, DelayCap
  <2> QED
    BY <2>1, <2>2, <2>3, ConfigAssumption
       DEF Init, IInv, Started, WithinCapacity, NothingStranded,
           CountersConsistent, discontinuity
<1>6. CASE flush
  <2>1. TypeOK /\ Cardinality(Keys) \in Nat
    BY TypeKeys DEF IInv
  <2>2. Keys' = {} /\ packets' \in [{} -> Timestamp] /\ Cardinality(Keys') = 0
    BY <1>6, EmptyType DEF flush, Keys
  <2>3. TypeOK'
    BY <1>6, <2>1, <2>2 DEF flush, TypeOK
  <2>4. CountersConsistent'
    BY <1>6, <2>1, <2>2 DEF flush, IInv, CountersConsistent, TypeOK
  <2> QED
    BY <1>6, <2>2, <2>3, <2>4, ConfigAssumption
       DEF flush, IInv, Started, WithinCapacity, NothingStranded, discontinuity
<1>7. CASE Tick
  <2>1. TypeOK'
    BY <1>7, ConfigAssumption DEF Tick, IInv, TypeOK, DelayCap
  <2> QED
    BY <1>7, <2>1 DEF Tick, IInv, Started, WithinCapacity, NothingStranded,
                      CountersConsistent, Keys
<1>8. CASE UNCHANGED vars
  BY <1>8 DEF vars, IInv, TypeOK, Started, WithinCapacity, NothingStranded,
              CountersConsistent, Keys
<1> QED BY <1>1, <1>2, <1>3, <1>4, <1>5, <1>6, <1>7, <1>8 DEF Next, Pop

\* The inductive invariant holds in every reachable state, whatever the
\* caller pushes, pops, flushes or resets.
THEOREM Invariance == Spec => []IInv
BY InvInit, InvNext, PTL DEF Spec

\* Every reachable state of the buffer is well typed.
THEOREM TypeCorrect == Spec => []TypeOK
<1>1. IInv => TypeOK
  BY DEF IInv
<1> QED BY <1>1, Invariance, PTL

\* The buffer never holds more than max_packets, whatever is pushed.
THEOREM CapacityKept == Spec => []WithinCapacity
<1>1. IInv => WithinCapacity
  BY DEF IInv
<1> QED BY <1>1, Invariance, PTL

\* No buffered packet is ever behind playout.
THEOREM NoneStranded == Spec => []NothingStranded
<1>1. IInv => NothingStranded
  BY DEF IInv
<1> QED BY <1>1, Invariance, PTL

\* The counters never count a packet twice.
THEOREM CountersAgree == Spec => []CountersConsistent
<1>1. IInv => CountersConsistent
  BY DEF IInv
<1> QED BY <1>1, Invariance, PTL

\* A pause is never concealed: a packet is synthesized only with a later one
\* buffered, within a buffer's worth, and the later one stays.
THEOREM PausesStaySilent == Spec => PauseNotConcealed
<1>1. IInv /\ [Next]_vars
      => [out' # None /\ out'.synthesized
            => \E k \in Keys' : k > out'.key /\ k - out'.key <= discontinuity]_out
  <2> SUFFICES ASSUME IInv, [Next]_vars, out' # out, out' # None, out'.synthesized
               PROVE  \E k \in Keys' : k > out'.key /\ k - out'.key <= discontinuity
    OBVIOUS
  <2>1. PopPacket \/ PopLost
    BY DEF Next, vars, Push, PushLate, PushBuffered, Arrive, Pop, PopNothing, reset, flush, Tick
  <2>2. ~PopPacket
    BY DEF PopPacket, HandOut
  <2>3. PopLost
    BY <2>1, <2>2
  <2> DEFINE start == PlayoutStart
             next  == Min(AtOrPast(start))
  <2>4. /\ start \in ExtendedSeq /\ next \in Keys /\ next >= start
        /\ next # start /\ next - start <= discontinuity
    BY <2>3, PopTarget DEF PopLost
  <2>5. out'.key = start /\ Keys' = Keys
    BY <2>3 DEF PopLost, HandOut, Keys
  <2>6. Keys \in SUBSET Nat /\ start \in Nat
    BY <2>4, TypeKeys DEF IInv, ExtendedSeq
  <2> HIDE DEF start, next
  <2>7. next > start
    BY <2>4, <2>6
  <2> QED BY <2>4, <2>5, <2>7
<1> QED BY <1>1, Invariance, PTL DEF Spec, PauseNotConcealed
=============================================================================
