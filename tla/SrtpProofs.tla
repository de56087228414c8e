----------------------------- MODULE SrtpProofs -----------------------------
(***************************************************************************)
(* The safety of SRTP reception, for any number of sources, any window     *)
(* size and any sequence of genuine, replayed and forged packets; and the  *)
(* agreement of both ends on the rollover counter, for one orderly sender  *)
(* whose packets are lost, reordered and copied within stated bounds.      *)
(***************************************************************************)
EXTENDS SrtpStream, ReplayWindowProofs, FiniteSetTheorems

-----------------------------------------------------------------------------
(* Types *)

\* A packet index is a natural number.
LEMMA IndexType ==
    ASSUME NEW roc \in Roc, NEW seq \in SeqNumber
    PROVE  Index(roc, seq) \in Nat
<1>1. roc \in Nat /\ seq \in Nat /\ SeqSpace \in Nat
  BY SrtpAssumption, RocAssumption DEF Roc, SeqNumber
<1>2. roc * SeqSpace \in Nat
  BY <1>1
<1> QED BY <1>1, <1>2 DEF Index

\* The state of a source not heard from is well typed.
LEMMA NewStateType == NewRecvState \in RecvState
BY SrtpAssumption, RocAssumption, EmptyRepresents
   DEF NewRecvState, RecvState, Roc, SeqNumber

\* So is the state unprotect_rtp looks up.
LEMMA StateOfType ==
    ASSUME TypeOK, NEW s \in Sources
    PROVE  StateOf(s) \in RecvState
BY NewStateType DEF TypeOK, StateOf

\* estimate_roc keeps the rollover counter within its width.
LEMMA EstimateType ==
    ASSUME NEW state \in RecvState, NEW seq \in SeqNumber
    PROVE  estimate_roc(state, seq) \in Roc
<1>1. state.roc \in Roc /\ RocSpace \in Nat \ {0}
  BY SrtpAssumption, RocAssumption DEF RecvState
<1>2. (state.roc + 1) % RocSpace \in Roc
  BY <1>1 DEF Roc
<1>3. (state.roc + RocSpace - 1) % RocSpace \in Roc
  BY <1>1 DEF Roc
<1> QED BY <1>1, <1>2, <1>3 DEF estimate_roc

\* So does the sender counting a rollover.
LEMMA NextRocType ==
    ASSUME NEW state \in SendState, NEW seq \in SeqNumber
    PROVE  NextRoc(state, seq) \in Roc
<1>1. state.roc \in Roc /\ RocSpace \in Nat \ {0}
  BY SrtpAssumption, RocAssumption DEF SendState
<1>2. (state.roc + 1) % RocSpace \in Roc
  BY <1>1 DEF Roc
<1> QED BY <1>1, <1>2 DEF NextRoc

\* Accepting an admitted index keeps the receive state well typed.
LEMMA AdvancedType ==
    ASSUME NEW state \in RecvState, NEW roc \in Roc, NEW seq \in SeqNumber,
           admits(state.window, Index(roc, seq))
    PROVE  Advanced(state, roc, seq) \in RecvState
<1>1. accept(state.window, Index(roc, seq)) \in Window
  BY AcceptType, IndexType DEF RecvState
<1> QED BY <1>1 DEF Advanced, RecvState

\* Whatever arrives, sent or forged, is a packet.
LEMMA ArrivalsArePackets ==
    ASSUME TypeOK, NEW packet \in wire \cup Forged
    PROVE  packet \in Packet
BY DEF TypeOK, Forged, Packet

\* What an unprotect step computes from a packet is well typed.
LEMMA ArrivalType ==
    ASSUME TypeOK, NEW packet \in Packet
    PROVE  /\ packet.ssrc \in Sources
           /\ packet.seq \in SeqNumber
           /\ StateOf(packet.ssrc) \in RecvState
           /\ estimate_roc(StateOf(packet.ssrc), packet.seq) \in Roc
           /\ EstimatedIndex(packet) \in Nat
<1>1. packet.ssrc \in Sources /\ packet.seq \in SeqNumber
  BY DEF Packet
<1>2. StateOf(packet.ssrc) \in RecvState
  BY <1>1, StateOfType
<1>3. estimate_roc(StateOf(packet.ssrc), packet.seq) \in Roc
  BY <1>1, <1>2, EstimateType
<1> QED BY <1>1, <1>2, <1>3, IndexType DEF EstimatedIndex

\* A new context is well typed.
LEMMA TypeInit == Init => TypeOK
<1> SUFFICES ASSUME Init PROVE TypeOK
  OBVIOUS
<1>1. tx \in [Sources -> SendState]
  BY SrtpAssumption, RocAssumption DEF Init, NewSendState, SendState, Roc, SeqNumber
<1>2. rx \in [{} -> RecvState]
  BY DEF Init
<1>3. result \in [kind : Kind, ssrc : Sources \cup {None}, index : Nat]
  BY DEF Init, Kind
<1> QED BY <1>1, <1>2, <1>3 DEF Init, TypeOK

\* protect_rtp and unprotect_rtp keep the context well typed.
LEMMA TypeNext == TypeOK /\ [Next]_vars => TypeOK'
<1> SUFFICES ASSUME TypeOK, [Next]_vars PROVE TypeOK'
  OBVIOUS
<1>1. CASE UNCHANGED vars
  BY <1>1 DEF TypeOK, vars
<1>2. ASSUME NEW ssrc \in Sources, NEW seq \in SeqNumber,
             protect_rtp(ssrc, seq)
      PROVE  TypeOK'
  <2> DEFINE roc == NextRoc(tx[ssrc], seq)
  <2>1. roc \in Roc
    BY NextRocType DEF TypeOK
  <2>2. [roc |-> roc, s_l |-> seq, initialized |-> TRUE] \in SendState
    BY <2>1 DEF SendState
  <2>3. tx' \in [Sources -> SendState]
    BY <1>2, <2>2 DEF protect_rtp, Protected, TypeOK
  <2>4. wire' \in SUBSET Packet
    BY <1>2, <2>1 DEF protect_rtp, Protected, TypeOK, Packet
  <2> QED BY <1>2, <2>3, <2>4 DEF protect_rtp, Protected, TypeOK
<1>3. ASSUME NEW packet \in wire \cup Forged, unprotect_rtp(packet)
      PROVE  TypeOK'
  <2>1. packet \in Packet
    BY ArrivalsArePackets
  <2>2. \A kind \in Kind : Returns(kind, packet) =>
           result' \in [kind : Kind, ssrc : Sources \cup {None}, index : Nat]
    BY <2>1, ArrivalType DEF Returns
  <2>3. CASE UnprotectFails(packet)
    BY <2>2, <2>3 DEF UnprotectFails, TypeOK, Kind
  <2>4. CASE UnprotectReplayed(packet)
    BY <2>2, <2>4 DEF UnprotectReplayed, TypeOK, Kind
  <2>5. CASE UnprotectAccepted(packet)
    <3> DEFINE state == StateOf(packet.ssrc)
               roc == estimate_roc(state, packet.seq)
               new == Advanced(state, roc, packet.seq)
    <3>1. new \in RecvState
      BY <2>1, <2>5, ArrivalType, AdvancedType
         DEF UnprotectAccepted, EstimatedIndex
    <3>2. rx' = [s \in DOMAIN rx \cup {packet.ssrc} |->
                    IF s = packet.ssrc THEN new ELSE rx[s]]
      BY <2>5 DEF UnprotectAccepted, remember_source
    <3>3. PICK S \in SUBSET Sources : rx \in [S -> RecvState]
      BY DEF TypeOK
    <3>4. rx' \in [S \cup {packet.ssrc} -> RecvState]
      BY <3>1, <3>2, <3>3
    <3>5. S \cup {packet.ssrc} \in SUBSET Sources
      BY <2>1, ArrivalType
    <3>6. accepted' \in [Sources -> SUBSET Nat] /\ accepts' \in [Sources -> Nat]
      BY <2>1, <2>5, ArrivalType DEF UnprotectAccepted, TypeOK
    <3>7. result' \in [kind : Kind, ssrc : Sources \cup {None}, index : Nat]
      BY <2>2, <2>5 DEF UnprotectAccepted, Kind
    <3> QED BY <2>5, <3>4, <3>5, <3>6, <3>7 DEF UnprotectAccepted, TypeOK
  <2> QED BY <1>3, <2>3, <2>4, <2>5 DEF unprotect_rtp
<1> QED BY <1>1, <1>2, <1>3 DEF Next

\* Every reachable state is well typed: no counter leaves its width.
THEOREM TypeCorrect == Spec => []TypeOK
BY TypeInit, TypeNext, PTL DEF Spec

-----------------------------------------------------------------------------
(* The receive state as a record of what was accepted *)

\* The inductive invariant: windows represent the accepted sets exactly, the
\* counters belong to the highest index, and the history counters are finite
\* and in step.
IInv ==
    /\ TypeOK
    /\ WindowExact
    /\ RocOfHighest
    /\ \A s \in Sources : IsFiniteSet(accepted[s])
    /\ AcceptedOnce
    /\ AcceptedWasSent
    /\ IsFiniteSet(DOMAIN rx)
    /\ SourcesKept
    /\ NoFalseReplay

\* A new context satisfies the invariant.
LEMMA InvInit == Init => IInv
<1> SUFFICES ASSUME Init PROVE IInv
  OBVIOUS
<1>1. TypeOK
  BY TypeInit
<1>2. \A s \in Sources : accepted[s] = {} /\ accepts[s] = 0
  BY DEF Init
<1>3. DOMAIN rx = {}
  BY DEF Init
<1>4. WindowExact
  BY <1>2, <1>3, EmptyRepresents DEF WindowExact, StateOf, NewRecvState
<1>5. IsFiniteSet({}) /\ Cardinality({}) = 0
  BY FS_EmptySet
<1>6. NoFalseReplay
  BY DEF Init, NoFalseReplay
<1>7. \A s \in Sources : IsFiniteSet(accepted[s])
  BY <1>2, <1>5
<1>8. AcceptedOnce /\ AcceptedWasSent
  BY <1>2, <1>5 DEF AcceptedOnce, AcceptedWasSent
<1>9. RocOfHighest
  BY <1>3 DEF RocOfHighest
<1>10. IsFiniteSet(DOMAIN rx)
  BY <1>3, <1>5
<1>11. SourcesKept
  BY <1>2, <1>3, <1>5, SrtpAssumption, RocAssumption DEF SourcesKept
<1> QED
  BY <1>1, <1>4, <1>6, <1>7, <1>8, <1>9, <1>10, <1>11 DEF IInv

\* A step that leaves the receive state and its history alone keeps IInv, as
\* long as the wire only grows and a replay is only reported for good reason.
LEMMA InvFrame ==
    ASSUME IInv, TypeOK', UNCHANGED <<rx, accepted, accepts>>,
           wire \subseteq wire', NoFalseReplay'
    PROVE  IInv'
BY DEF IInv, WindowExact, StateOf, NewRecvState, RocOfHighest, AcceptedOnce,
       AcceptedWasSent, SourcesKept

\* The accepting step: one fresh index enters history and window together.
LEMMA InvAccepted ==
    ASSUME IInv, TypeOK', NEW packet \in wire \cup Forged,
           UnprotectAccepted(packet)
    PROVE  IInv'
<1> DEFINE ssrc == packet.ssrc
           state == StateOf(ssrc)
           roc == estimate_roc(state, packet.seq)
           i == EstimatedIndex(packet)
           new == Advanced(state, roc, packet.seq)
<1>1. TypeOK
  BY DEF IInv
<1>2. packet \in Packet
  BY <1>1, ArrivalsArePackets
<1>3. /\ ssrc \in Sources /\ packet.seq \in SeqNumber
      /\ state \in RecvState /\ roc \in Roc /\ i \in Nat
      /\ i = Index(roc, packet.seq)
  BY <1>1, <1>2, ArrivalType DEF EstimatedIndex
<1>4. state.window \in Window /\ accepted[ssrc] \in SUBSET Nat
  BY <1>1, <1>3 DEF RecvState, TypeOK
<1>5. Represents(state.window, accepted[ssrc]) /\ admits(state.window, i)
  BY <1>3 DEF IInv, WindowExact, UnprotectAccepted
<1>6. i \notin accepted[ssrc]
  BY <1>3, <1>4, <1>5, AdmitsOnlyNew
<1>7. Represents(accept(state.window, i), accepted[ssrc] \cup {i})
  BY <1>3, <1>4, <1>5, AcceptRepresents
<1>8. /\ DOMAIN rx' = DOMAIN rx \cup {ssrc}
      /\ rx'[ssrc] = new
      /\ \A s \in DOMAIN rx : s # ssrc => rx'[s] = rx[s]
  BY DEF UnprotectAccepted, remember_source
<1>9. /\ accepted'[ssrc] = accepted[ssrc] \cup {i}
      /\ accepts'[ssrc] = accepts[ssrc] + 1
      /\ \A s \in Sources : s # ssrc => /\ accepted'[s] = accepted[s]
                                        /\ accepts'[s] = accepts[s]
      /\ wire' = wire
  BY <1>1, <1>3 DEF UnprotectAccepted, TypeOK
<1>10. new.window = accept(state.window, i)
  BY <1>3 DEF Advanced
<1>11. WindowExact'
  <2> SUFFICES ASSUME NEW s \in Sources
               PROVE  Represents(StateOf(s)'.window, accepted'[s])
    BY DEF WindowExact
  <2>1. CASE s = ssrc
    BY <2>1, <1>7, <1>8, <1>9, <1>10 DEF StateOf
  <2>2. CASE s # ssrc
    BY <2>2, <1>8, <1>9 DEF StateOf, IInv, WindowExact
  <2> QED BY <2>1, <2>2
<1>12. RocOfHighest'
  <2>1. new.window.highest = Index(new.roc, new.s_l)
    <3>1. CASE state.window.highest = None
      BY <3>1, <1>3 DEF Advanced, accept
    <3>2. CASE state.window.highest # None /\ i > state.window.highest
      BY <3>2, <1>3, <1>4 DEF Advanced, accept, Window
    <3>3. CASE state.window.highest # None /\ ~(i > state.window.highest)
      <4>1. ssrc \in DOMAIN rx /\ state = rx[ssrc]
        BY <3>3 DEF StateOf, NewRecvState, EmptyWindow
      <4>2. state.window.highest = Index(state.roc, state.s_l)
        BY <4>1 DEF IInv, RocOfHighest
      <4>3. state.window.highest \in Nat /\ i <= state.window.highest
        BY <3>3, <1>3, <1>4 DEF Window
      <4>4. new.window.highest = state.window.highest
        BY <3>3, <4>3, <1>4, <1>10 DEF accept, Window
      <4>5. new.roc = state.roc /\ new.s_l = state.s_l
        BY <3>3, <1>3 DEF Advanced
      <4> QED BY <4>2, <4>4, <4>5
    <3> QED BY <3>1, <3>2, <3>3
  <2> QED BY <2>1, <1>8 DEF IInv, RocOfHighest
<1>13. (\A s \in Sources : IsFiniteSet(accepted[s]))' /\ AcceptedOnce'
  <2>1. /\ IsFiniteSet(accepted[ssrc])
        /\ accepts[ssrc] = Cardinality(accepted[ssrc])
    BY <1>3 DEF IInv, AcceptedOnce
  <2>2. /\ IsFiniteSet(accepted[ssrc] \cup {i})
        /\ Cardinality(accepted[ssrc] \cup {i}) = Cardinality(accepted[ssrc]) + 1
    BY <2>1, <1>6, FS_AddElement
  <2> QED BY <2>1, <2>2, <1>9 DEF IInv, AcceptedOnce
<1>14. AcceptedWasSent'
  <2>1. packet \in wire /\ packet.roc = roc /\ roc # None
    BY <1>3, NoneAssumption
       DEF UnprotectAccepted, Authenticates, Forged, Roc
  <2> QED BY <2>1, <1>3, <1>9 DEF IInv, AcceptedWasSent
<1>15. IsFiniteSet(DOMAIN rx)' /\ SourcesKept'
  <2>1. IsFiniteSet(DOMAIN rx) /\ Cardinality(DOMAIN rx) <= MaxSources
    BY DEF IInv, SourcesKept
  <2>2. /\ IsFiniteSet(DOMAIN rx \cup {ssrc})
        /\ Cardinality(DOMAIN rx \cup {ssrc}) =
              IF ssrc \in DOMAIN rx THEN Cardinality(DOMAIN rx)
              ELSE Cardinality(DOMAIN rx) + 1
    BY <2>1, FS_AddElement
  <2>3. ssrc \in DOMAIN rx \/ ~(Cardinality(DOMAIN rx) >= MaxSources)
    BY DEF UnprotectAccepted, TooManySources
  <2>4. Cardinality(DOMAIN rx) \in Nat
    BY <2>1, FS_CardinalityType
  <2>5. Cardinality(DOMAIN rx \cup {ssrc}) <= MaxSources
    BY <2>1, <2>2, <2>3, <2>4, SrtpAssumption, RocAssumption
  <2>6. \A s \in Sources : accepted'[s] # {} => s \in DOMAIN rx'
    BY <1>3, <1>8, <1>9 DEF IInv, SourcesKept
  <2> QED BY <2>2, <2>5, <2>6, <1>8 DEF SourcesKept
<1>16. NoFalseReplay'
  BY DEF UnprotectAccepted, Returns, NoFalseReplay
<1> QED
  BY <1>11, <1>12, <1>13, <1>14, <1>15, <1>16 DEF IInv

\* protect_rtp and unprotect_rtp preserve the invariant.
LEMMA InvNext == IInv /\ [Next]_vars => IInv'
<1> SUFFICES ASSUME IInv, [Next]_vars PROVE IInv'
  OBVIOUS
<1>1. TypeOK /\ TypeOK'
  BY TypeNext DEF IInv
<1>2. CASE UNCHANGED vars
  BY <1>1, <1>2, InvFrame DEF vars, IInv, NoFalseReplay
<1>3. ASSUME NEW ssrc \in Sources, NEW seq \in SeqNumber,
             protect_rtp(ssrc, seq)
      PROVE  IInv'
  BY <1>1, <1>3, InvFrame DEF protect_rtp, IInv, NoFalseReplay
<1>4. ASSUME NEW packet \in wire \cup Forged, unprotect_rtp(packet)
      PROVE  IInv'
  <2>1. CASE UnprotectFails(packet)
    <3>1. NoFalseReplay'
      BY <2>1 DEF UnprotectFails, Returns, NoFalseReplay
    <3> QED BY <1>1, <2>1, <3>1, InvFrame DEF UnprotectFails
  <2>2. CASE UnprotectReplayed(packet)
    <3> DEFINE ssrc == packet.ssrc
               w == StateOf(ssrc).window
               i == EstimatedIndex(packet)
    <3>1. packet \in Packet
      BY <1>1, ArrivalsArePackets
    <3>2. ssrc \in Sources /\ StateOf(ssrc) \in RecvState /\ i \in Nat
      BY <1>1, <3>1, ArrivalType
    <3>3. w \in Window /\ accepted[ssrc] \in SUBSET Nat
      BY <1>1, <3>2 DEF RecvState, TypeOK
    <3>4. Represents(w, accepted[ssrc]) /\ ~admits(w, i)
      BY <2>2, <3>2 DEF IInv, WindowExact, UnprotectReplayed
    <3>5. /\ w.highest \in Nat
          /\ i \in accepted[ssrc] \/ w.highest - i >= WindowSize
      BY <3>2, <3>3, <3>4, RefusesOnlyOld
    <3>6. ssrc \in DOMAIN rx
      BY <3>5, NoneAssumption DEF StateOf, NewRecvState, EmptyWindow
    <3>7. NoFalseReplay'
      BY <2>2, <3>5, <3>6
         DEF UnprotectReplayed, Returns, NoFalseReplay, StateOf
    <3> QED BY <1>1, <2>2, <3>7, InvFrame DEF UnprotectReplayed
  <2>3. CASE UnprotectAccepted(packet)
    BY <1>1, <2>3, InvAccepted
  <2> QED BY <1>4, <2>1, <2>2, <2>3 DEF unprotect_rtp
<1> QED BY <1>2, <1>3, <1>4 DEF Next

\* The inductive invariant holds in every reachable state, whatever arrives
\* and in whatever order.
THEOREM Invariance == Spec => []IInv
BY InvInit, InvNext, PTL DEF Spec

\* No index of any source is ever accepted twice by unprotect_rtp.
THEOREM NoReplayAccepted == Spec => []AcceptedOnce
<1>1. IInv => AcceptedOnce
  BY DEF IInv
<1> QED BY <1>1, Invariance, PTL

\* The replay window is exact: it neither forgets nor invents an index.
THEOREM WindowsExact == Spec => []WindowExact
<1>1. IInv => WindowExact
  BY DEF IInv
<1> QED BY <1>1, Invariance, PTL

\* unprotect_rtp reports a replay only for an index it accepted before or one
\* that has fallen out of the window.
THEOREM ReplaysAreReplays == Spec => []NoFalseReplay
<1>1. IInv => NoFalseReplay
  BY DEF IInv
<1> QED BY <1>1, Invariance, PTL

\* The rollover counter kept for a source belongs to its highest index.
THEOREM CountersFollowHighest == Spec => []RocOfHighest
<1>1. IInv => RocOfHighest
  BY DEF IInv
<1> QED BY <1>1, Invariance, PTL

\* Only what a source protected is accepted; sources are bounded and kept.
THEOREM OnlyGenuineAccepted == Spec => [](AcceptedWasSent /\ SourcesKept)
<1>1. IInv => AcceptedWasSent /\ SourcesKept
  BY DEF IInv
<1> QED BY <1>1, Invariance, PTL

-----------------------------------------------------------------------------
(* Both kinds of traffic are Srtp's *)

\* What an orderly stream delivers was protected.
SentInv ==
    /\ TypeOK
    /\ first_seq \in SeqNumber
    /\ sent \in Seq(Packet)
    /\ \A i \in DOMAIN sent : sent[i] \in wire

LEMMA SentInit == StreamInit => SentInv
<1> SUFFICES ASSUME StreamInit PROVE SentInv
  OBVIOUS
<1>1. TypeOK
  BY TypeInit DEF StreamInit
<1>2. 0 \in SeqNumber
  BY RocAssumption DEF SeqNumber
<1>3. first_seq \in SeqNumber
  BY <1>2, StreamAssumption DEF StreamInit
<1> QED BY <1>1, <1>3 DEF StreamInit, SentInv

\* Sending is protect_rtp of the next sequence number.
LEMMA SendProtects ==
    ASSUME SentInv, NEW ssrc \in Sources, Send(ssrc)
    PROVE  /\ (first_seq + Len(sent)) % SeqSpace \in SeqNumber
           /\ Next
           /\ \E p \in Packet :
                 /\ p = [ssrc |-> ssrc, seq |-> (first_seq + Len(sent)) % SeqSpace,
                         roc |-> NextRoc(tx[ssrc], (first_seq + Len(sent)) % SeqSpace)]
                 /\ sent' = Append(sent, p) /\ wire' = wire \cup {p}
<1> DEFINE seq == (first_seq + Len(sent)) % SeqSpace
           p == [ssrc |-> ssrc, seq |-> seq, roc |-> NextRoc(tx[ssrc], seq)]
<1>1. first_seq + Len(sent) \in Nat /\ SeqSpace \in Nat \ {0}
  BY RocAssumption DEF SentInv, SeqNumber
<1>2. seq \in SeqNumber
  BY <1>1 DEF SeqNumber
<1>3. protect_rtp(ssrc, seq) /\ sent' = Append(sent, [ssrc |-> ssrc, seq |-> seq, roc |-> tx'[ssrc].roc])
  BY DEF Send
<1> HIDE DEF seq
<1>4. tx \in [Sources -> SendState] /\ tx[ssrc] \in SendState
  BY DEF SentInv, TypeOK
<1>5. NextRoc(tx[ssrc], seq) \in Roc
  BY <1>2, <1>4, NextRocType
<1>6. p \in Packet
  BY <1>2, <1>5 DEF Packet
<1>7. tx'[ssrc].roc = NextRoc(tx[ssrc], seq)
  BY <1>3, <1>4 DEF protect_rtp, Protected
<1>8. sent' = Append(sent, p) /\ wire' = wire \cup {p}
  BY <1>3, <1>7 DEF protect_rtp
<1>9. Next
  BY <1>2, <1>3 DEF Next
<1> QED BY <1>2, <1>6, <1>8, <1>9 DEF seq

\* A step of either kind of traffic is a step of Srtp, or none.
LEMMA StreamStep == SentInv /\ [StreamNext]_streamVars => SentInv' /\ [Next]_vars
<1> SUFFICES ASSUME SentInv, [StreamNext]_streamVars PROVE SentInv' /\ [Next]_vars
  OBVIOUS
<1>1. ASSUME [Next]_vars PROVE TypeOK' /\ wire \subseteq wire'
  <2>1. TypeOK'
    BY <1>1, TypeNext DEF SentInv
  <2>2. wire \subseteq wire'
    BY <1>1 DEF vars, Next, protect_rtp, unprotect_rtp, UnprotectFails,
                UnprotectReplayed, UnprotectAccepted
  <2> QED BY <2>1, <2>2
<1>2. CASE UNCHANGED streamVars
  BY <1>1, <1>2 DEF streamVars, SentInv
<1>3. CASE AnyTraffic
  BY <1>1, <1>3 DEF AnyTraffic, SentInv
<1>4. ASSUME NEW ssrc \in Sources, Send(ssrc) PROVE SentInv' /\ [Next]_vars
  <2>1. Next /\ first_seq' = first_seq
    BY <1>4, SendProtects DEF Send
  <2>2. PICK p \in Packet : sent' = Append(sent, p) /\ wire' = wire \cup {p}
    BY <1>4, SendProtects
  <2>3. sent \in Seq(Packet) /\ sent' \in Seq(Packet) /\ Len(sent') = Len(sent) + 1
    BY <2>2 DEF SentInv
  <2>4. ASSUME NEW i \in DOMAIN sent' PROVE sent'[i] \in wire'
    <3>1. CASE i \in DOMAIN sent
      BY <2>2, <2>3, <3>1 DEF SentInv
    <3>2. CASE i \notin DOMAIN sent
      BY <2>2, <2>3, <3>2
    <3> QED BY <3>1, <3>2
  <2> QED BY <1>1, <2>1, <2>3, <2>4 DEF SentInv
<1>5. ASSUME NEW i \in DOMAIN sent, Deliver(i) PROVE SentInv' /\ [Next]_vars
  <2>1. sent[i] \in wire /\ unprotect_rtp(sent[i]) /\ sent' = sent /\ first_seq' = first_seq
    BY <1>5 DEF SentInv, Deliver
  <2>2. Next
    BY <2>1 DEF Next
  <2> QED BY <1>1, <2>1, <2>2 DEF SentInv
<1> QED BY <1>2, <1>3, <1>4, <1>5 DEF StreamNext

\* Whatever the traffic, SrtpStream only does what Srtp allows, so the theorems
\* above are theorems of its specification too.
THEOREM StreamIsSrtp == StreamSpec => Spec
<1>1. StreamInit => Init
  BY DEF StreamInit
<1> QED BY <1>1, SentInit, StreamStep, PTL DEF StreamSpec, Spec

-----------------------------------------------------------------------------
(* The orderly sender *)

\* What the bounds must satisfy for the estimate of RFC 3711 to be right: less
\* than half the sequence numbers between a packet and the newest one, the
\* first to arrive from before the first rollover, and no more packets than
\* a key's indices.
OrderlyTraffic ==
    /\ MaxSources > 0
    /\ Reorder < SeqSpace \div 2
    /\ Gap + 1 < SeqSpace \div 2
    /\ \A f \in FirstSeqs : /\ f + Gap < SeqSpace
                           /\ f + MaxWire <= SeqSpace * RocSpace

\* The index of the packet at position i of sent.
At(i) == (first_seq + i) - 1

\* Positions of sent are numbered as the sender counts them.
Numbered ==
    \A i \in DOMAIN sent : /\ sent[i].seq = At(i) % SeqSpace
                           /\ sent[i].roc = At(i) \div SeqSpace
                           /\ sent[i].ssrc = sent[1].ssrc

\* The sender stands at the last packet it protected.
SenderInStep ==
    IF sent = <<>> THEN \A s \in Sources : tx[s] = NewSendState
    ELSE LET state == tx[sent[1].ssrc]
         IN  /\ state.initialized
             /\ state.s_l = At(Len(sent)) % SeqSpace
             /\ state.roc = At(Len(sent)) \div SeqSpace

\* The receiver stands at the newest packet it was brought.
ReceiverInStep ==
    IF newest = 0 THEN DOMAIN rx = {}
    ELSE LET state == rx[sent[1].ssrc]
         IN  /\ DOMAIN rx = {sent[1].ssrc}
             /\ state.s_l = At(newest) % SeqSpace
             /\ state.roc = At(newest) \div SeqSpace
             /\ state.window.highest = At(newest)

\* The inductive invariant of an orderly stream.
OrderlyInv ==
    orderly =>
        /\ first_seq \in FirstSeqs
        /\ sent \in Seq(Packet)
        /\ newest \in 0 .. Len(sent)
        /\ Numbered
        /\ IsFiniteSet(wire) /\ Cardinality(wire) = Len(sent)
        /\ Len(sent) <= MaxWire
        /\ \A p \in wire : \E i \in DOMAIN sent : p = sent[i]
        /\ SenderInStep
        /\ ReceiverInStep
        /\ GenuineAuthenticates

\* Division and OneRollover for sequence numbers.
LEMMA SeqDivision ==
    ASSUME NEW x \in Nat, NEW q, NEW r, q = x \div SeqSpace, r = x % SeqSpace
    PROVE  q \in Nat /\ r \in Nat /\ r < SeqSpace /\ x = q * SeqSpace + r
<1>1. SeqSpace \in Nat \ {0}
  BY RocAssumption
<1> QED BY ONLY <1>1, x \in Nat, q = x \div SeqSpace, r = x % SeqSpace, Division

LEMMA SeqRollover ==
    ASSUME NEW a \in Nat, NEW qa, NEW ra, qa = a \div SeqSpace, ra = a % SeqSpace,
           NEW b \in Nat, NEW qb, NEW rb, qb = b \div SeqSpace, rb = b % SeqSpace,
           NEW h, h = SeqSpace \div 2, a <= b, b - a < h
    PROVE  \/ qb = qa /\ rb - ra = b - a
           \/ qb = qa + 1 /\ ra - rb > h /\ (b = a + 1 => ra = SeqSpace - 1 /\ rb = 0)
<1>1. SeqSpace \in Nat \ {0}
  BY RocAssumption
<1> QED BY <1>1, OneRollover

\* What OrderlyInv says of the constants and positions of an orderly stream.
LEMMA OrderlyTypes ==
    ASSUME OrderlyTraffic, OrderlyInv, orderly
    PROVE  /\ first_seq \in Nat /\ first_seq + Gap < SeqSpace
           /\ Reorder \in Nat /\ Gap \in Nat /\ MaxWire \in Nat /\ MaxSources \in Nat
           /\ SeqSpace \in Nat \ {0} /\ RocSpace \in Nat \ {0}
           /\ SeqSpace \div 2 \in Nat
           /\ first_seq + MaxWire <= SeqSpace * RocSpace
           /\ SeqSpace * RocSpace \in Nat
           /\ Len(sent) \in Nat /\ DOMAIN sent = 1 .. Len(sent)
<1>1. /\ Reorder \in Nat /\ Gap \in Nat /\ MaxWire \in Nat /\ MaxSources \in Nat
      /\ SeqSpace \in Nat \ {0} /\ RocSpace \in Nat \ {0}
      /\ FirstSeqs \subseteq SeqNumber
  BY SrtpAssumption, StreamAssumption, RocAssumption
<1>2. first_seq \in FirstSeqs /\ sent \in Seq(Packet)
  BY DEF OrderlyInv
<1>3. first_seq \in Nat
  BY <1>1, <1>2 DEF SeqNumber
<1>4. first_seq + Gap < SeqSpace /\ first_seq + MaxWire <= SeqSpace * RocSpace
  BY <1>2 DEF OrderlyTraffic
<1>5. SeqSpace * RocSpace \in Nat /\ SeqSpace \div 2 \in Nat
  BY <1>1
<1> QED BY <1>1, <1>2, <1>3, <1>4, <1>5

\* The indices of an orderly stream fit: its rollover counter does not wrap.
LEMMA CounterFits ==
    ASSUME OrderlyTraffic, OrderlyInv, orderly, NEW i \in 1 .. MaxWire
    PROVE  At(i) \in Nat /\ At(i) \div SeqSpace \in Roc /\ At(i) % SeqSpace \in SeqNumber
<1>1. /\ first_seq \in Nat /\ MaxWire \in Nat /\ first_seq + MaxWire <= SeqSpace * RocSpace
      /\ SeqSpace \in Nat \ {0} /\ RocSpace \in Nat \ {0} /\ SeqSpace * RocSpace \in Nat
  BY OrderlyTypes
<1>2. At(i) \in Nat /\ At(i) < SeqSpace * RocSpace
  BY <1>1 DEF At
<1>3. At(i) \div SeqSpace \in 0 .. RocSpace - 1
  BY <1>1, <1>2, QuotientFits
<1> QED BY <1>1, <1>2, <1>3 DEF Roc, SeqNumber

\* The receiver's estimate for a packet of an orderly stream, against the
\* newest one it was brought, is the counter the sender used.
LEMMA EstimateExact ==
    ASSUME TypeOK, OrderlyTraffic, OrderlyInv, orderly, NEW i \in DOMAIN sent,
           i >= newest - Reorder, i <= newest + 1 + Gap
    PROVE  /\ estimate_roc(StateOf(sent[i].ssrc), sent[i].seq) = sent[i].roc
           /\ EstimatedIndex(sent[i]) = At(i)
           /\ ~TooManySources(sent[i].ssrc)
<1> DEFINE s == sent[1].ssrc
           h == SeqSpace \div 2
           b == At(i)
           qb == b \div SeqSpace
           rb == b % SeqSpace
<1>1. /\ sent[i].ssrc = s /\ sent[i].seq = rb /\ sent[i].roc = qb
      /\ newest \in 0 .. Len(sent)
      /\ i \in 1 .. Len(sent) /\ Len(sent) \in Nat /\ Len(sent) <= MaxWire
  BY OrderlyTypes DEF OrderlyInv, Numbered
<1>2. /\ first_seq \in Nat /\ Reorder \in Nat /\ Gap \in Nat /\ MaxWire \in Nat
      /\ SeqSpace \in Nat \ {0} /\ RocSpace \in Nat \ {0} /\ h \in Nat
      /\ first_seq + Gap < SeqSpace /\ Reorder < h /\ Gap + 1 < h
      /\ MaxSources \in Nat /\ MaxSources > 0
  BY OrderlyTypes DEF OrderlyTraffic
<1>3. b \in Nat /\ qb \in Roc /\ rb \in SeqNumber
  <2>1. i \in 1 .. MaxWire
    <3>1. i \in Nat /\ 1 <= i /\ i <= MaxWire
      BY ONLY <1>1, <1>2
    <3> QED BY ONLY <3>1, <1>2
  <2> QED BY <2>1, CounterFits, Zenon
<1>4. estimate_roc(StateOf(s), rb) = qb
  <2>1. CASE newest = 0
    <3>1. StateOf(s).window.highest = None /\ StateOf(s).roc = 0
      BY <2>1 DEF OrderlyInv, ReceiverInStep, StateOf, NewRecvState, EmptyWindow
    <3>2. b \in 0 .. SeqSpace - 1
      <4>1. i \in Nat /\ i >= 1 /\ i <= 1 + Gap
        BY <1>1, <1>2, <2>1
      <4>2. first_seq \in Nat /\ Gap \in Nat /\ SeqSpace \in Nat /\ first_seq + Gap < SeqSpace
        BY <1>2
      <4>3. (first_seq + i) - 1 \in 0 .. SeqSpace - 1
        BY ONLY <4>1, <4>2
      <4> QED BY <4>3 DEF At
    <3>3. qb = 0
      BY <1>2, <3>2
    <3> QED BY <3>1, <3>3 DEF estimate_roc
  <2>2. CASE newest # 0
    <3> DEFINE a == At(newest)
               qa == a \div SeqSpace
               ra == a % SeqSpace
               state == StateOf(s)
    <3>1. state.s_l = ra /\ state.roc = qa /\ state.window.highest = a
      BY <2>2 DEF OrderlyInv, ReceiverInStep, StateOf
    <3>2. newest \in 1 .. MaxWire
      BY <1>1, <1>2, <2>2
    <3>3. a \in Nat /\ qa \in Roc /\ ra \in SeqNumber
      BY <3>2, CounterFits
    <3>4. state.window.highest # None
      BY <3>1, <3>3, NoneAssumption
    <3>5. b - a = i - newest /\ b - a <= Gap + 1 /\ a - b <= Reorder
      <4>1. i \in Nat /\ newest \in Nat /\ newest - i <= Reorder /\ i - newest <= Gap + 1
        BY <1>1, <1>2, <3>2
      <4>2. b - a = i - newest /\ a - b = newest - i
        BY <1>2, <4>1 DEF At
      <4> HIDE DEF a, b
      <4> QED BY <4>1, <4>2
    <3>6. /\ ra \in Int /\ rb \in Int /\ qa \in Nat /\ qb \in Nat
          /\ qa < RocSpace /\ qb < RocSpace
      BY <1>2, <1>3, <3>3 DEF SeqNumber, Roc
    <3> HIDE DEF state, a, b, qa, qb, ra, rb, h
    <3>7. CASE a <= b
      <4>1. b - a < h
        BY <1>2, <1>3, <3>3, <3>5
      <4>2. \/ qb = qa /\ rb - ra = b - a
            \/ qb = qa + 1 /\ ra - rb > h
        BY <1>3, <3>3, <3>7, <4>1, SeqRollover DEF qa, qb, ra, rb, h
      <4>3. CASE qb = qa /\ rb - ra = b - a
        <5>1. ~(rb - ra > h) /\ ~(rb - ra < -h)
          BY <1>2, <1>3, <3>3, <3>7, <4>1, <4>3
        <5> QED BY <3>1, <3>4, <4>3, <5>1 DEF estimate_roc, state, h
      <4>4. CASE qb = qa + 1 /\ ra - rb > h
        <5>1. ~(rb - ra > h) /\ rb - ra < -h
          BY <1>2, <3>6, <4>4
        <5>2. (qa + 1) % RocSpace = qb
          BY <1>2, <3>6, <4>4
        <5> QED BY <3>1, <3>4, <5>1, <5>2 DEF estimate_roc, state, h
      <4> QED BY <4>2, <4>3, <4>4
    <3>8. CASE b < a
      <4>1. b <= a /\ a - b < h /\ a - b > 0
        BY <1>2, <1>3, <3>3, <3>5, <3>8
      <4>2. \/ qa = qb /\ ra - rb = a - b
            \/ qa = qb + 1 /\ rb - ra > h
        BY <1>3, <3>3, <4>1, SeqRollover DEF qa, qb, ra, rb, h
      <4>3. CASE qa = qb /\ ra - rb = a - b
        <5>1. ~(rb - ra > h) /\ ~(rb - ra < -h)
          BY <1>2, <3>6, <1>3, <3>3, <4>1, <4>3
        <5> QED BY <3>1, <3>4, <4>3, <5>1 DEF estimate_roc, state, h
      <4>4. CASE qa = qb + 1 /\ rb - ra > h
        <5>1. (qa + RocSpace) - 1 = qb + RocSpace
          BY <1>2, <3>6, <4>4
        <5>2. (qb + RocSpace) % RocSpace = qb
          BY <1>2, <3>6
        <5>3. (qa + RocSpace - 1) % RocSpace = qb
          BY <1>2, <3>6, <5>1, <5>2
        <5> QED BY <3>1, <3>4, <4>4, <5>3 DEF estimate_roc, state, h
      <4> QED BY <4>2, <4>3, <4>4
    <3> QED BY <1>3, <3>3, <3>7, <3>8 DEF state
  <2> QED BY <2>1, <2>2
<1>5. EstimatedIndex(sent[i]) = b
  <2>1. b = qb * SeqSpace + rb
    <3> HIDE DEF b
    <3> QED BY <1>3, SeqDivision
  <2> QED BY <1>1, <1>4, <2>1 DEF EstimatedIndex, Index
<1>6. ~TooManySources(s)
  BY <1>2, FS_EmptySet DEF OrderlyInv, ReceiverInStep, TooManySources
<1> QED BY <1>1, <1>4, <1>5, <1>6

LEMMA OrderlyInit == StreamInit => OrderlyInv
<1> SUFFICES ASSUME StreamInit, orderly PROVE OrderlyInv
  BY DEF OrderlyInv
<1>1. /\ first_seq \in FirstSeqs /\ sent = <<>> /\ newest = 0 /\ wire = {}
      /\ tx = [s \in Sources |-> NewSendState] /\ rx = [s \in {} |-> 0]
      /\ result.kind = "none"
  BY DEF StreamInit, Init
<1>2. Len(sent) = 0 /\ DOMAIN sent = {} /\ DOMAIN rx = {}
  BY <1>1
<1>3. IsFiniteSet(wire) /\ Cardinality(wire) = Len(sent)
  BY <1>1, <1>2, FS_EmptySet
<1>4. Numbered /\ SenderInStep /\ ReceiverInStep /\ GenuineAuthenticates
  BY <1>1, <1>2 DEF Numbered, SenderInStep, ReceiverInStep, GenuineAuthenticates
<1>5. MaxWire \in Nat
  BY SrtpAssumption
<1> QED BY <1>1, <1>2, <1>3, <1>4, <1>5 DEF OrderlyInv

\* The sender's rollover counter follows its own sequence numbers.
LEMMA SenderCounts ==
    ASSUME OrderlyTraffic, SentInv, OrderlyInv, orderly, NEW ssrc \in Sources,
           \A i \in DOMAIN sent : sent[i].ssrc = ssrc, Len(sent) < MaxWire
    PROVE  LET n == Len(sent) + 1
           IN  NextRoc(tx[ssrc], At(n) % SeqSpace) = At(n) \div SeqSpace
<1> DEFINE b == At(Len(sent) + 1)
           qb == b \div SeqSpace
           rb == b % SeqSpace
           h == SeqSpace \div 2
<1>1. /\ first_seq \in Nat /\ Gap \in Nat /\ MaxWire \in Nat
      /\ SeqSpace \in Nat \ {0} /\ RocSpace \in Nat \ {0} /\ h \in Nat /\ Gap + 1 < h
      /\ first_seq + Gap < SeqSpace /\ Len(sent) \in Nat /\ DOMAIN sent = 1 .. Len(sent)
  BY OrderlyTypes DEF OrderlyTraffic
<1>2. b \in Nat /\ qb \in Roc /\ rb \in SeqNumber
  <2>1. Len(sent) + 1 \in 1 .. MaxWire
    BY <1>1
  <2> QED BY <2>1, CounterFits
<1>3. qb \in Nat /\ qb < RocSpace /\ rb \in Nat
  BY <1>1, <1>2 DEF Roc, SeqNumber
<1>4. CASE sent = <<>>
  <2>1. tx[ssrc].initialized = FALSE /\ tx[ssrc].roc = 0
    BY <1>4 DEF OrderlyInv, SenderInStep, NewSendState
  <2>2. b \in 0 .. SeqSpace - 1
    BY <1>1, <1>4 DEF At
  <2>3. qb = 0
    BY <1>1, <2>2
  <2> QED BY <2>1, <2>3 DEF NextRoc
<1>5. CASE sent # <<>>
  <2> DEFINE a == At(Len(sent))
             qa == a \div SeqSpace
             ra == a % SeqSpace
  <2>1. Len(sent) \in 1 .. MaxWire
    BY <1>1, <1>5 DEF SentInv
  <2>2. a \in Nat /\ qa \in Roc /\ ra \in SeqNumber /\ b = a + 1
    <3>1. b = a + 1
      BY <1>1 DEF At
    <3> QED BY <2>1, <3>1, CounterFits
  <2>3. sent[1].ssrc = ssrc
    BY <1>1, <2>1
  <2>4. tx[ssrc].initialized /\ tx[ssrc].s_l = ra /\ tx[ssrc].roc = qa
    BY <1>5, <2>3 DEF OrderlyInv, SenderInStep
  <2>5. qa \in Nat /\ ra \in Nat
    BY <1>1, <2>2 DEF Roc, SeqNumber
  <2> HIDE DEF a, b, qa, qb, ra, rb, h
  <2>6. \/ qb = qa /\ rb - ra = b - a
        \/ qb = qa + 1 /\ ra - rb > h /\ (b = a + 1 => ra = SeqSpace - 1 /\ rb = 0)
    <3>1. a <= b /\ b - a < h
      BY <1>1, <2>2
    <3> QED BY <1>2, <2>2, <3>1, SeqRollover DEF qa, qb, ra, rb, h
  <2>7. CASE qb = qa /\ rb - ra = b - a
    <3>1. rb # 0
      BY <1>3, <2>2, <2>5, <2>7
    <3> QED BY <2>4, <2>7, <3>1 DEF NextRoc, b, rb, qb
  <2>8. CASE qb = qa + 1 /\ ra = SeqSpace - 1 /\ rb = 0
    <3>1. (qa + 1) % RocSpace = qb
      BY <1>1, <1>3, <2>5, <2>8
    <3>2. NextRoc(tx[ssrc], rb) = qb
      BY <2>4, <2>8, <3>1 DEF NextRoc
    <3> QED BY <3>2 DEF b, rb, qb
  <2> QED BY <2>2, <2>6, <2>7, <2>8
<1> QED BY <1>4, <1>5

\* Protecting the next packet keeps an orderly stream in step.
LEMMA OrderlySend ==
    ASSUME OrderlyTraffic, SentInv, SentInv', OrderlyInv, NEW ssrc \in Sources, Send(ssrc)
    PROVE  OrderlyInv'
<1> DEFINE n == Len(sent) + 1
           seq == (first_seq + Len(sent)) % SeqSpace
           roc == NextRoc(tx[ssrc], seq)
<1>1. /\ orderly /\ orderly' = orderly /\ first_seq' = first_seq /\ newest' = newest
      /\ \A i \in DOMAIN sent : sent[i].ssrc = ssrc
      /\ Cardinality(wire) < MaxWire /\ rx' = rx /\ result' = result
      /\ tx' = [tx EXCEPT ![ssrc] = Protected(@, seq)]
  BY DEF Send, protect_rtp
<1>2. PICK p \in Packet : /\ p = [ssrc |-> ssrc, seq |-> seq, roc |-> roc]
                         /\ sent' = Append(sent, p) /\ wire' = wire \cup {p}
  BY SendProtects
<1>3. /\ first_seq \in Nat /\ MaxWire \in Nat /\ Len(sent) \in Nat
      /\ DOMAIN sent = 1 .. Len(sent) /\ SeqSpace \in Nat \ {0}
  BY <1>1, OrderlyTypes
<1>4. /\ sent \in Seq(Packet) /\ sent' \in Seq(Packet) /\ Len(sent') = n
      /\ DOMAIN sent' = 1 .. n /\ sent'[n] = p
      /\ \A i \in 1 .. Len(sent) : sent'[i] = sent[i]
  BY <1>2, <1>3 DEF SentInv
<1>5. n \in 1 .. MaxWire /\ Len(sent) < MaxWire
  BY <1>1, <1>3 DEF OrderlyInv
<1>6. seq = At(n) % SeqSpace /\ roc = At(n) \div SeqSpace
  <2>1. first_seq + Len(sent) = At(n)
    BY <1>3 DEF At
  <2>2. NextRoc(tx[ssrc], At(n) % SeqSpace) = At(n) \div SeqSpace
    BY <1>1, <1>5, SenderCounts
  <2> QED BY <2>1, <2>2
<1>7. \A i \in 1 .. n : At(i)' = At(i)
  BY <1>1 DEF At
<1>8. sent'[1].ssrc = ssrc
  BY <1>1, <1>2, <1>3, <1>4
<1> HIDE DEF seq, roc
<1>9. Numbered'
  <2> SUFFICES ASSUME NEW i \in DOMAIN sent'
               PROVE  /\ sent'[i].seq = At(i) % SeqSpace
                      /\ sent'[i].roc = At(i) \div SeqSpace
                      /\ sent'[i].ssrc = ssrc
    BY <1>1, <1>8 DEF Numbered, At
  <2>1. CASE i = n
    BY <1>2, <1>4, <1>6, <2>1
  <2>2. CASE i # n
    <3>1. i \in DOMAIN sent
      BY <1>3, <1>4, <2>2
    <3> QED BY <1>1, <1>3, <1>4, <3>1 DEF OrderlyInv, Numbered
  <2> QED BY <2>1, <2>2
<1>10. p \notin wire
  <2> SUFFICES ASSUME p \in wire PROVE FALSE
    OBVIOUS
  <2>1. PICK i \in DOMAIN sent : p = sent[i]
    BY <1>1 DEF OrderlyInv
  <2>2. p.seq = At(i) % SeqSpace /\ p.roc = At(i) \div SeqSpace
    BY <1>1, <2>1 DEF OrderlyInv, Numbered
  <2>3. p.seq = At(n) % SeqSpace /\ p.roc = At(n) \div SeqSpace
    BY <1>2, <1>6
  <2>4. At(i) \in Nat /\ At(n) \in Nat /\ At(i) # At(n)
    BY <1>3, <2>1 DEF At
  <2>5. At(i) = p.roc * SeqSpace + p.seq
    BY <2>2, <2>4, SeqDivision
  <2>6. At(n) = p.roc * SeqSpace + p.seq
    BY <2>3, <2>4, SeqDivision
  <2> QED BY <2>4, <2>5, <2>6
<1>11. IsFiniteSet(wire') /\ Cardinality(wire') = Len(sent')
  <2>1. IsFiniteSet(wire) /\ Cardinality(wire) = Len(sent)
    BY <1>1 DEF OrderlyInv
  <2>2. IsFiniteSet(wire \cup {p}) /\ Cardinality(wire \cup {p}) = Cardinality(wire) + 1
    BY <1>10, <2>1, FS_AddElement
  <2> QED BY <1>2, <1>4, <2>1, <2>2
<1>12. ASSUME NEW q \in wire' PROVE \E i \in DOMAIN sent' : q = sent'[i]
  <2>1. CASE q \in wire
    <3>1. PICK i \in DOMAIN sent : q = sent[i]
      BY <1>1, <2>1 DEF OrderlyInv
    <3>2. i \in DOMAIN sent' /\ q = sent'[i]
      BY <1>3, <1>4, <3>1
    <3> QED BY <3>2
  <2>2. CASE q = p
    BY <1>4, <1>5, <2>2
  <2> QED BY <1>2, <2>1, <2>2
<1>13. SenderInStep'
  <2>1. tx \in [Sources -> SendState]
    BY DEF SentInv, TypeOK
  <2>2. tx'[ssrc] = Protected(tx[ssrc], seq)
    BY <1>1, <2>1
  <2>3. /\ tx'[ssrc].initialized /\ tx'[ssrc].s_l = At(n) % SeqSpace
        /\ tx'[ssrc].roc = At(n) \div SeqSpace
    BY <1>6, <2>2 DEF Protected, roc
  <2>4. sent' # <<>> /\ At(Len(sent))' = At(n)
    BY <1>1, <1>3, <1>4 DEF At
  <2> QED BY <1>8, <2>3, <2>4 DEF SenderInStep
<1>14. ReceiverInStep'
  <2>1. CASE newest = 0
    BY <1>1, <2>1 DEF OrderlyInv, ReceiverInStep
  <2>2. CASE newest # 0
    <3>1. sent[1].ssrc = sent'[1].ssrc
      BY <1>1, <1>3, <1>4, <2>2 DEF OrderlyInv
    <3> QED BY <1>1, <2>2, <3>1 DEF OrderlyInv, ReceiverInStep, At
  <2> QED BY <2>1, <2>2
<1>15. newest' \in 0 .. Len(sent') /\ GenuineAuthenticates' /\ first_seq' \in FirstSeqs
  BY <1>1, <1>3, <1>4 DEF OrderlyInv, GenuineAuthenticates
<1> QED BY <1>4, <1>5, <1>9, <1>11, <1>12, <1>13, <1>14, <1>15 DEF OrderlyInv

\* A packet the network brings is accepted or reported as a replay, and the
\* receiver is then at the newest one.
LEMMA OrderlyDeliver ==
    ASSUME OrderlyTraffic, SentInv, OrderlyInv, NEW i \in DOMAIN sent, Deliver(i)
    PROVE  OrderlyInv'
<1> DEFINE s == sent[1].ssrc
           packet == sent[i]
           state == StateOf(s)
<1>1. /\ orderly /\ orderly' = orderly /\ first_seq' = first_seq /\ sent' = sent
      /\ newest' = IF i > newest THEN i ELSE newest
      /\ i >= newest - Reorder /\ i <= newest + 1 + Gap /\ unprotect_rtp(packet)
  BY DEF Deliver
<1>2. /\ estimate_roc(state, packet.seq) = packet.roc /\ EstimatedIndex(packet) = At(i)
      /\ ~TooManySources(s) /\ packet.ssrc = s
  BY <1>1, EstimateExact DEF SentInv, OrderlyInv, Numbered
<1>3. /\ packet.seq = At(i) % SeqSpace /\ packet.roc = At(i) \div SeqSpace
      /\ newest \in 0 .. Len(sent) /\ Len(sent) \in Nat /\ i \in 1 .. Len(sent)
      /\ first_seq \in Nat /\ ReceiverInStep /\ Len(sent) <= MaxWire /\ MaxWire \in Nat
  BY <1>1, OrderlyTypes DEF OrderlyInv, Numbered
<1>4. packet \in Packet /\ s \in Sources /\ TypeOK
  <2>1. packet \in Packet /\ TypeOK
    BY DEF SentInv
  <2> QED BY <1>2, <2>1 DEF Packet
<1>5. Authenticates(packet)
  BY <1>2 DEF Authenticates
<1>6. ~UnprotectFails(packet)
  BY <1>2, <1>5 DEF UnprotectFails
<1>7. At(i) \in Nat /\ newest' \in 0 .. Len(sent) /\ newest' # 0
  BY <1>1, <1>3 DEF At
<1>8. ASSUME newest # 0
      PROVE  /\ state = rx[s] /\ DOMAIN rx = {s} /\ state.window.highest = At(newest)
             /\ state.window.highest # None /\ At(newest) \in Nat
             /\ (At(i) > At(newest) <=> i > newest)
  <2>1. state = rx[s] /\ DOMAIN rx = {s} /\ state.window.highest = At(newest)
    BY <1>3, <1>8 DEF ReceiverInStep, StateOf
  <2>2. At(newest) \in Nat /\ (At(i) > At(newest) <=> i > newest)
    BY <1>3, <1>8 DEF At
  <2> QED BY <2>1, <2>2, NoneAssumption
<1>9. ASSUME newest = 0
      PROVE  DOMAIN rx = {} /\ state.window = EmptyWindow /\ i > newest
  BY <1>3, <1>9 DEF ReceiverInStep, StateOf, NewRecvState
<1> HIDE DEF state
<1>10. ReceiverInStep' /\ tx' = tx /\ wire' = wire /\ result'.kind # "srtp"
  <2>1. CASE UnprotectReplayed(packet)
    <3>1. ~admits(state.window, At(i)) /\ rx' = rx /\ tx' = tx /\ wire' = wire
      BY <1>2, <2>1 DEF UnprotectReplayed, state
    <3>2. newest # 0
      BY <1>9, <3>1 DEF admits, EmptyWindow
    <3>3. ~(i > newest)
      BY <1>8, <3>1, <3>2 DEF admits
    <3>4. newest' = newest
      BY <1>1, <3>3
    <3>5. result'.kind = "replay"
      BY <2>1 DEF UnprotectReplayed, Returns
    <3> QED BY <1>1, <1>3, <3>1, <3>2, <3>4, <3>5 DEF ReceiverInStep, At
  <2>2. CASE UnprotectAccepted(packet)
    <3> DEFINE next == Advanced(state, packet.roc, packet.seq)
    <3>1. /\ rx' = [t \in DOMAIN rx \cup {s} |-> IF t = s THEN next ELSE rx[t]]
          /\ tx' = tx /\ wire' = wire /\ result'.kind = "ok"
      BY <1>2, <2>2 DEF UnprotectAccepted, remember_source, Returns, state
    <3>2. DOMAIN rx' = {s} /\ rx'[s] = next
      BY <1>8, <1>9, <3>1
    <3>3. Index(packet.roc, packet.seq) = At(i)
      BY <1>2, <1>2 DEF EstimatedIndex, state
    <3>4. CASE i > newest
      <4>1. state.window.highest = None \/ At(i) > state.window.highest
        BY <1>8, <1>9, <3>4 DEF EmptyWindow
      <4>2. next.roc = packet.roc /\ next.s_l = packet.seq
        BY <3>3, <4>1 DEF Advanced
      <4>3. accept(state.window, At(i)).highest = At(i)
        <5>1. CASE newest = 0
          BY <1>9, <5>1 DEF accept, EmptyWindow
        <5>2. CASE newest # 0
          <6>1. ~(At(i) <= state.window.highest)
            BY <1>7, <1>8, <3>4, <5>2
          <6> QED BY <1>8, <5>2, <6>1 DEF accept
        <5> QED BY <5>1, <5>2
      <4>4. next.window.highest = At(i)
        BY <3>3, <4>3 DEF Advanced
      <4>5. newest' = i
        BY <1>1, <3>4
      <4> QED BY <1>1, <1>3, <1>7, <3>1, <3>2, <4>2, <4>4, <4>5 DEF ReceiverInStep, At
    <3>5. CASE ~(i > newest)
      <4>1. newest # 0 /\ newest' = newest
        BY <1>1, <1>9, <3>5
      <4>2. ~(state.window.highest = None \/ At(i) > state.window.highest)
        BY <1>8, <3>5, <4>1
      <4>3. next.roc = state.roc /\ next.s_l = state.s_l
        BY <3>3, <4>2 DEF Advanced
      <4>4. state.window \in Window
        BY <1>4, StateOfType DEF RecvState, state
      <4>5. accept(state.window, At(i)).highest = state.window.highest
        <5>1. At(i) <= state.window.highest
          BY <1>7, <1>8, <4>1, <4>2
        <5> QED BY <4>2, <4>4, <5>1 DEF accept, Window
      <4>6. next.window.highest = state.window.highest
        BY <3>3, <4>5 DEF Advanced
      <4> QED BY <1>1, <1>3, <1>8, <3>1, <3>2, <4>1, <4>3, <4>6 DEF ReceiverInStep, At
    <3> QED BY <3>4, <3>5
  <2> QED BY <1>1, <1>6, <2>1, <2>2 DEF unprotect_rtp
<1>11. Numbered' /\ SenderInStep'
  BY <1>1, <1>10 DEF OrderlyInv, Numbered, SenderInStep, At
<1>12. GenuineAuthenticates'
  BY <1>10 DEF GenuineAuthenticates
<1> QED BY <1>1, <1>7, <1>10, <1>11, <1>12 DEF OrderlyInv

\* Every step of StreamNext keeps an orderly stream in step.
LEMMA OrderlyStep ==
    ASSUME OrderlyTraffic
    PROVE  SentInv /\ OrderlyInv /\ [StreamNext]_streamVars => OrderlyInv'
<1> SUFFICES ASSUME SentInv, OrderlyInv, [StreamNext]_streamVars PROVE OrderlyInv'
  OBVIOUS
<1>1. SentInv'
  BY StreamStep
<1>2. CASE UNCHANGED streamVars
  BY <1>2 DEF streamVars, vars, OrderlyInv, Numbered, SenderInStep, ReceiverInStep,
              GenuineAuthenticates, At
<1>3. CASE AnyTraffic
  BY <1>3 DEF AnyTraffic, OrderlyInv
<1>4. ASSUME NEW ssrc \in Sources, Send(ssrc) PROVE OrderlyInv'
  BY <1>1, <1>4, OrderlySend
<1>5. ASSUME NEW i \in DOMAIN sent, Deliver(i) PROVE OrderlyInv'
  BY <1>5, OrderlyDeliver
<1> QED BY <1>2, <1>3, <1>4, <1>5 DEF StreamNext

\* However many times the sequence number rolls over, every packet of an orderly
\* sender that the network brings authenticates: estimate_roc's guess at the
\* receiver is the counter protect_rtp counted at the sender.
THEOREM BothEndsAgree ==
    ASSUME OrderlyTraffic
    PROVE  StreamSpec => []GenuineAuthenticates
<1>1. OrderlyInv => GenuineAuthenticates
  BY DEF OrderlyInv, GenuineAuthenticates
<1> QED BY <1>1, SentInit, OrderlyInit, StreamStep, OrderlyStep, PTL DEF StreamSpec
=============================================================================
