--------------------------- MODULE NetworkProofs ----------------------------
(***************************************************************************)
(* What a session has on the network besides its media, for every size:    *)
(* SRTCP reception, the STUN client, the ports of sessions that are set up *)
(* and taken down concurrently, the statistics of what is received, the    *)
(* loss that reports tell, and the bytes of RTP and RTCP packets.          *)
(***************************************************************************)
EXTENDS SessionRtcp, Srtcp, Stun, SessionSetup, RtpWire, ReplayWindowProofs, FiniteSetTheorems

-----------------------------------------------------------------------------
(* SRTCP *)

\* SRTCP contexts and the network between them, on their own.
SrtcpSpec == SrtcpInit /\ [][SrtcpNext]_srtcpVars

RtcpPacket == [ssrc : Sources, index : SrtcpIndex, genuine : BOOLEAN]

\* Types, and the finiteness that counting needs.
SrtcpTypes ==
    /\ srtcp_index \in [Sources -> SrtcpIndex]
    /\ \E S \in SUBSET Sources : rtcp_rx \in [S -> Window]
    /\ wire \in SUBSET RtcpPacket
    /\ accepted \in [Sources -> SUBSET Nat]
    /\ accepts \in [Sources -> Nat]

\* The inductive invariant of SRTCP reception.
SrtcpInv ==
    /\ SrtcpTypes
    /\ IsFiniteSet(DOMAIN rtcp_rx)
    /\ \A s \in Sources : IsFiniteSet(accepted[s])
    /\ RtcpReplayExact

\* The window unprotect_rtcp consults is a window.
LEMMA WindowOfType ==
    ASSUME SrtcpTypes, NEW s \in Sources
    PROVE  WindowOf(s) \in Window
BY EmptyRepresents DEF SrtcpTypes, WindowOf

\* New contexts satisfy the invariant.
LEMMA SrtcpInvInit == SrtcpInit => SrtcpInv
<1> SUFFICES ASSUME SrtcpInit PROVE SrtcpInv
  OBVIOUS
<1>1. srtcp_index \in [Sources -> SrtcpIndex]
  BY SrtcpAssumption DEF SrtcpInit, SrtcpIndex
<1>2. rtcp_rx \in [{} -> Window] /\ DOMAIN rtcp_rx = {}
  BY DEF SrtcpInit
<1>3. SrtcpTypes
  BY <1>1, <1>2 DEF SrtcpInit, SrtcpTypes
<1>4. IsFiniteSet({}) /\ Cardinality({}) = 0
  BY FS_EmptySet
<1>5. \A s \in Sources : accepted[s] = {} /\ accepts[s] = 0
  BY DEF SrtcpInit
<1>6. \A s \in Sources : Represents(WindowOf(s), {})
  BY <1>2, EmptyRepresents DEF WindowOf
<1>7. Cardinality(DOMAIN rtcp_rx) <= MaxSources
  BY <1>2, <1>4, SrtcpAssumption
<1>8. RtcpReplayExact
  BY <1>4, <1>5, <1>6, <1>7 DEF RtcpReplayExact
<1> QED BY <1>2, <1>3, <1>4, <1>5, <1>8 DEF SrtcpInv

\* A step of a sender, which only adds to the wire, preserves it.
LEMMA SrtcpProtects ==
    ASSUME SrtcpInv, NEW ssrc \in Sources, protect_rtcp(ssrc)
    PROVE  SrtcpInv'
<1>1. srtcp_index[ssrc] \in SrtcpIndex /\ (srtcp_index[ssrc] + 1) % IndexSpace \in SrtcpIndex
  BY SrtcpAssumption DEF SrtcpInv, SrtcpTypes, SrtcpIndex
<1>2. srtcp_index' \in [Sources -> SrtcpIndex]
  BY <1>1 DEF SrtcpInv, SrtcpTypes, protect_rtcp
<1>3. wire' \in SUBSET RtcpPacket /\ wire \subseteq wire'
  <2> DEFINE packet == [ssrc |-> ssrc, index |-> srtcp_index[ssrc], genuine |-> TRUE]
  <2>1. packet \in RtcpPacket
    BY <1>1, Zenon DEF RtcpPacket
  <2>2. wire' = wire \cup {packet}
    BY DEF protect_rtcp
  <2> QED BY <2>1, <2>2 DEF SrtcpInv, SrtcpTypes
<1>4. UNCHANGED <<rtcp_rx, accepted, accepts>>
  BY DEF protect_rtcp
<1>5. SrtcpTypes'
  BY <1>2, <1>3, <1>4 DEF SrtcpInv, SrtcpTypes
<1>6. \A s \in Sources : WindowOf(s)' = WindowOf(s)
  BY <1>4 DEF WindowOf
<1>7. RtcpReplayExact'
  BY <1>3, <1>4, <1>6 DEF SrtcpInv, RtcpReplayExact
<1> QED BY <1>4, <1>5, <1>7 DEF SrtcpInv

\* The accepting step: a fresh index enters window and history together.
LEMMA SrtcpAccepts ==
    ASSUME SrtcpInv, NEW packet \in wire \cup Forged, RtcpAccepted(packet)
    PROVE  SrtcpInv'
<1> DEFINE ssrc == packet.ssrc
           i == packet.index
           w == WindowOf(ssrc)
<1>1. /\ packet \in RtcpPacket /\ packet \in wire /\ packet.genuine
      /\ packet = [ssrc |-> ssrc, index |-> i, genuine |-> TRUE]
  BY DEF SrtcpInv, SrtcpTypes, RtcpAccepted, Acceptable, Forged, RtcpPacket
<1>2. ssrc \in Sources /\ i \in Nat
  BY <1>1, SrtcpAssumption DEF RtcpPacket, SrtcpIndex
<1>3. w \in Window /\ accepted[ssrc] \in SUBSET Nat
  BY <1>2, WindowOfType DEF SrtcpInv, SrtcpTypes
<1>4. Represents(w, accepted[ssrc]) /\ admits(w, i)
  BY <1>2 DEF SrtcpInv, RtcpReplayExact, RtcpAccepted, Acceptable
<1>5. i \notin accepted[ssrc]
  BY <1>2, <1>3, <1>4, AdmitsOnlyNew
<1>6. accept(w, i) \in Window /\ Represents(accept(w, i), accepted[ssrc] \cup {i})
  BY <1>2, <1>3, <1>4, AcceptType, AcceptRepresents
<1>7. rtcp_rx' = [s \in DOMAIN rtcp_rx \cup {ssrc} |->
                     IF s = ssrc THEN accept(w, i) ELSE rtcp_rx[s]]
  BY DEF RtcpAccepted
<1>8. /\ accepted' = [accepted EXCEPT ![ssrc] = @ \cup {i}]
      /\ accepts' = [accepts EXCEPT ![ssrc] = @ + 1]
      /\ UNCHANGED <<srtcp_index, wire>>
  BY DEF RtcpAccepted
<1>9. SrtcpTypes'
  <2>1. PICK S \in SUBSET Sources : rtcp_rx \in [S -> Window]
    BY DEF SrtcpInv, SrtcpTypes
  <2>2. rtcp_rx' \in [S \cup {ssrc} -> Window] /\ S \cup {ssrc} \in SUBSET Sources
    BY <1>2, <1>6, <1>7, <2>1
  <2>3. accepted' \in [Sources -> SUBSET Nat] /\ accepts' \in [Sources -> Nat]
    BY <1>2, <1>8 DEF SrtcpInv, SrtcpTypes
  <2> QED BY <2>2, <2>3, <1>8 DEF SrtcpInv, SrtcpTypes
<1>10. /\ accepted'[ssrc] = accepted[ssrc] \cup {i}
       /\ accepts'[ssrc] = accepts[ssrc] + 1
       /\ \A s \in Sources : s # ssrc => /\ accepted'[s] = accepted[s]
                                         /\ accepts'[s] = accepts[s]
  BY <1>2, <1>8 DEF SrtcpInv, SrtcpTypes
<1>11. IsFiniteSet(DOMAIN rtcp_rx') /\ Cardinality(DOMAIN rtcp_rx') <= MaxSources
  <2>1. IsFiniteSet(DOMAIN rtcp_rx) /\ Cardinality(DOMAIN rtcp_rx) <= MaxSources
    BY DEF SrtcpInv, RtcpReplayExact
  <2>2. /\ IsFiniteSet(DOMAIN rtcp_rx \cup {ssrc})
        /\ Cardinality(DOMAIN rtcp_rx \cup {ssrc}) =
              IF ssrc \in DOMAIN rtcp_rx THEN Cardinality(DOMAIN rtcp_rx)
              ELSE Cardinality(DOMAIN rtcp_rx) + 1
    BY <2>1, FS_AddElement
  <2>3. ssrc \in DOMAIN rtcp_rx \/ ~(Cardinality(DOMAIN rtcp_rx) >= MaxSources)
    BY DEF RtcpAccepted, Acceptable, TooManySources
  <2>4. Cardinality(DOMAIN rtcp_rx) \in Nat
    BY <2>1, FS_CardinalityType
  <2>5. DOMAIN rtcp_rx' = DOMAIN rtcp_rx \cup {ssrc}
    BY <1>7
  <2>6. Cardinality(DOMAIN rtcp_rx \cup {ssrc}) <= MaxSources
    BY <2>1, <2>2, <2>3, <2>4, SrtcpAssumption
  <2> QED BY <2>2, <2>5, <2>6
<1>12. ASSUME NEW s \in Sources
       PROVE  /\ IsFiniteSet(accepted'[s])
              /\ accepts'[s] = Cardinality(accepted'[s])
              /\ Represents(WindowOf(s)', accepted'[s])
              /\ accepted'[s] # {} => s \in DOMAIN rtcp_rx'
              /\ \A j \in accepted'[s] :
                    [ssrc |-> s, index |-> j, genuine |-> TRUE] \in wire'
  <2>1. /\ IsFiniteSet(accepted[s]) /\ accepts[s] = Cardinality(accepted[s])
        /\ Represents(WindowOf(s), accepted[s])
        /\ accepted[s] # {} => s \in DOMAIN rtcp_rx
        /\ \A j \in accepted[s] :
              [ssrc |-> s, index |-> j, genuine |-> TRUE] \in wire
    BY DEF SrtcpInv, RtcpReplayExact
  <2>2. CASE s = ssrc
    <3>1. /\ IsFiniteSet(accepted[s] \cup {i})
          /\ Cardinality(accepted[s] \cup {i}) = Cardinality(accepted[s]) + 1
      BY <2>1, <2>2, <1>5, FS_AddElement
    <3>2. WindowOf(s)' = accept(w, i) /\ s \in DOMAIN rtcp_rx'
      BY <2>2, <1>7 DEF WindowOf
    <3> QED BY <2>1, <2>2, <3>1, <3>2, <1>1, <1>6, <1>8, <1>10
  <2>3. CASE s # ssrc
    <3>1. WindowOf(s)' = WindowOf(s)
      BY <2>3, <1>7 DEF WindowOf
    <3>2. s \in DOMAIN rtcp_rx => s \in DOMAIN rtcp_rx'
      BY <1>7
    <3> QED BY <2>1, <2>3, <3>1, <3>2, <1>8, <1>10
  <2> QED BY <2>2, <2>3
<1>13. RtcpReplayExact'
  BY <1>11, <1>12 DEF RtcpReplayExact
<1> QED BY <1>9, <1>11, <1>12, <1>13 DEF SrtcpInv

\* protect_rtcp and unprotect_rtcp preserve the invariant.
LEMMA SrtcpInvNext == SrtcpInv /\ [SrtcpNext]_srtcpVars => SrtcpInv'
<1> SUFFICES ASSUME SrtcpInv, [SrtcpNext]_srtcpVars PROVE SrtcpInv'
  OBVIOUS
<1>1. ASSUME UNCHANGED srtcpVars PROVE SrtcpInv'
  BY <1>1 DEF srtcpVars, SrtcpInv, SrtcpTypes, RtcpReplayExact, WindowOf
<1>2. ASSUME NEW ssrc \in Sources, protect_rtcp(ssrc) PROVE SrtcpInv'
  BY <1>2, SrtcpProtects
<1>3. ASSUME NEW packet \in wire \cup Forged, unprotect_rtcp(packet) PROVE SrtcpInv'
  BY <1>1, <1>3, SrtcpAccepts DEF unprotect_rtcp, RtcpRefused
<1> QED BY <1>1, <1>2, <1>3 DEF SrtcpNext

\* SRTCP reception, whatever is lost, reordered, replayed or forged and
\* however often the index wraps: unprotect_rtcp accepts no index of a source
\* twice, its windows are exact records, and their number is bounded.
THEOREM SrtcpReplayExact == SrtcpSpec => []RtcpReplayExact
<1>1. SrtcpInv => RtcpReplayExact
  BY DEF SrtcpInv
<1> QED BY <1>1, SrtcpInvInit, SrtcpInvNext, PTL DEF SrtcpSpec

-----------------------------------------------------------------------------
(* STUN *)

\* discover_public_address and the network it uses, without fairness.
StunSpec == StunInit /\ [][StunNext]_stunVars

Message == [shape : {"rtp", "response"}, transaction : 0 .. Servers,
            attributes : Attributes]

\* The inductive invariant: what is on the socket has a shape the client knows,
\* and no address is kept while the client still asks.
StunInv ==
    /\ attempt \in 1 .. Servers
    /\ requests \in SUBSET (1 .. Servers)
    /\ socket \in Seq(Message)
    /\ asking # "done" => found = NoAddress
    /\ StunOwnAnswer

\* Exclusive or with the cookie undoes itself.
LEMMA XoredTwice == Xored(Xored(Public)) = Public
BY StunAssumption DEF Xored

\* Whatever attributes a server answers with, parsing finds the public address
\* or none: the code's loop ends at the first address attribute.
LEMMA MappedPublic ==
    ASSUME NEW attributes \in Attributes
    PROVE  MappedAddress(attributes) \in {Public, NoAddress}
<1> DEFINE xor == [type |-> "xor", family |-> 4, address |-> Xored(Public)]
           plain == [type |-> "mapped", family |-> 4, address |-> Public]
           other == [type |-> "other", family |-> 0, address |-> Public]
           six == [type |-> "xor", family |-> 6, address |-> Public]
           mapped(a) == {k \in DOMAIN a : a[k].type \in {"xor", "mapped"}}
           first(a) == CHOOSE k \in mapped(a) : \A j \in mapped(a) : k <= j
<1>1. CASE attributes = <<xor>>
  <2>1. mapped(attributes) = {1} /\ attributes[1] = xor
    BY <1>1
  <2>2. first(attributes) = 1
    BY <2>1
  <2> QED BY <2>1, <2>2, XoredTwice DEF MappedAddress
<1>2. CASE attributes = <<plain>>
  <2>1. mapped(attributes) = {1} /\ attributes[1] = plain
    BY <1>2
  <2>2. first(attributes) = 1
    BY <2>1
  <2> QED BY <2>1, <2>2 DEF MappedAddress
<1>3. CASE attributes = <<other, xor, plain>>
  <2>1. mapped(attributes) = {2, 3} /\ attributes[2] = xor
    BY <1>3
  <2>2. first(attributes) = 2
    BY <2>1
  <2> QED BY <2>1, <2>2, XoredTwice DEF MappedAddress
<1>4. CASE attributes = <<six>>
  <2>1. mapped(attributes) = {1} /\ attributes[1] = six
    BY <1>4
  <2>2. first(attributes) = 1
    BY <2>1
  <2> QED BY <2>1, <2>2 DEF MappedAddress
<1>5. CASE attributes = <<>>
  <2>1. mapped(attributes) = {}
    BY <1>5
  <2> QED BY <2>1 DEF MappedAddress
<1> QED BY <1>1, <1>2, <1>3, <1>4, <1>5 DEF Attributes

\* Before the first request the invariant holds.
LEMMA StunInvInit == StunInit => StunInv
BY StunAssumption DEF StunInit, StunInv, StunOwnAnswer

\* An attempt that fails goes on to the next server or ends in its error.
LEMMA StunFails ==
    ASSUME StunInv, asking # "done", NEW why \in {"network", "response", "timeout"},
           Fails(why), requests' \in SUBSET (1 .. Servers), socket' \in Seq(Message)
    PROVE  StunInv'
<1>1. found' = NoAddress /\ last_error' = why /\ why # "none"
  BY DEF StunInv, Fails
<1>2. attempt' \in 1 .. Servers
  BY StunAssumption DEF StunInv, Fails
<1>3. asking' = "done" => attempt' = Servers
  BY StunAssumption DEF StunInv, Fails
<1> QED BY <1>1, <1>2, <1>3 DEF StunInv, StunOwnAnswer

\* Every step of the client and of the network preserves the invariant.
LEMMA StunInvNext == StunInv /\ [StunNext]_stunVars => StunInv'
<1> SUFFICES ASSUME StunInv, [StunNext]_stunVars PROVE StunInv'
  OBVIOUS
<1> USE DEF StunInv
<1>1. CASE UNCHANGED stunVars
  BY <1>1 DEF stunVars, StunOwnAnswer
<1>2. CASE SendRequest
  BY <1>2 DEF SendRequest, StunOwnAnswer
<1>3. CASE Unreachable
  BY <1>3, StunFails DEF Unreachable
<1>4. CASE ReceiveAnswer
  <2> DEFINE message == Head(socket)
             address == parse_binding_response(message)
  <2>1. message \in Message /\ socket' = Tail(socket) /\ socket' \in Seq(Message)
    BY <1>4 DEF ReceiveAnswer
  <2>2. message.attributes \in Attributes
    BY <2>1 DEF Message
  <2>3. asking = "wait" /\ requests' = requests
    BY <1>4 DEF ReceiveAnswer
  <2>4. CASE address = NoAddress
    <3>1. Fails("response")
      BY <1>4, <2>4 DEF ReceiveAnswer
    <3> QED BY <2>1, <2>3, <3>1, StunFails
  <2>5. CASE address # NoAddress
    <3>1. message.transaction = attempt /\ address = MappedAddress(message.attributes)
      BY <2>5 DEF parse_binding_response
    <3>2. address = Public
      BY <2>2, <2>5, <3>1, MappedPublic
    <3>3. /\ found' = address /\ fresh' = (message.transaction = attempt)
          /\ asking' = "done" /\ attempt' = attempt
      BY <1>4, <2>5 DEF ReceiveAnswer
    <3> QED BY <2>1, <2>3, <2>5, <3>1, <3>2, <3>3 DEF StunOwnAnswer
  <2> QED BY <2>4, <2>5
<1>5. CASE TimesOut
  BY <1>5, StunFails DEF TimesOut
<1>6. CASE ReceiveFails
  BY <1>6, StunFails DEF ReceiveFails
<1>7. ASSUME NEW transaction \in requests, LoseRequest(transaction) PROVE StunInv'
  BY <1>7 DEF LoseRequest, StunOwnAnswer
<1>8. ASSUME NEW transaction \in requests, NEW attributes \in Attributes,
             Answered(transaction, attributes)
      PROVE  StunInv'
  <2>1. [shape |-> "response", transaction |-> transaction,
         attributes |-> attributes] \in Message
    BY StunAssumption DEF Message
  <2>2. socket' \in Seq(Message)
    BY <1>8, <2>1 DEF Answered
  <2> QED BY <1>8, <2>2 DEF Answered, StunOwnAnswer
<1>9. CASE Foreign
  <2>1. <<>> \in Attributes
    BY DEF Attributes
  <2>2. [shape |-> "rtp", transaction |-> 0, attributes |-> <<>>] \in Message
    BY <2>1, StunAssumption DEF Message
  <2>3. socket' \in Seq(Message)
    BY <1>9, <2>2 DEF Foreign
  <2> QED BY <1>9, <2>3 DEF Foreign, StunOwnAnswer
<1> QED
  BY <1>1, <1>2, <1>3, <1>4, <1>5, <1>6, <1>7, <1>8, <1>9 DEF StunNext, Discover

\* However many servers are asked, and whatever is lost, answered late or not
\* meant for it, discover_public_address returns the public address as the
\* answer to its own last request, or an error after the last server.
THEOREM StunAnswersOwn == StunSpec => []StunOwnAnswer
<1>1. StunInv => StunOwnAnswer
  BY DEF StunInv
<1> QED BY <1>1, StunInvInit, StunInvNext, PTL DEF StunSpec

-----------------------------------------------------------------------------
(* The ports of sessions *)

\* Sessions set up and taken down beside other processes, without fairness.
SetupSpec == SetupInit /\ [][SetupNext]_setupVars

SetupTypes ==
    /\ owner \in [Port -> Sessions \cup {Free, Other}]
    /\ stage \in [Sessions -> {"new", "retry", "allocating", "allocated", "ready",
                               "start", "rtp bound", "codec created", "started",
                               "stopped", "dropped", "failed"}]
    /\ asked \in [Sessions -> 0 .. MaxPort]
    /\ rtp \in [Sessions -> 0 .. MaxPort]
    /\ rtcp \in [Sessions -> 0 .. MaxPort]
    /\ holders \in [Sessions -> SUBSET {"start", "session", "tx", "rx", "rtcp"}]
    /\ live \in [Sessions -> BOOLEAN]

\* A session that is not being set up holds nothing.
Holds0(s) == holders[s] = {} /\ \A p \in Port : owner[p] # s

\* The RTP socket is bound, to the port asked for if one was.
RtpBound(s) ==
    /\ rtp[s] \in Port /\ owner[rtp[s]] = s
    /\ asked[s] # 0 => rtp[s] = asked[s]

\* What holds of one session at each stage of its life.
AtStage(s) ==
    /\ stage[s] \in {"new", "retry", "ready", "failed"} => Holds0(s)
    /\ stage[s] \in {"allocating", "allocated", "start"} => holders[s] = {"start"}
    /\ stage[s] \in {"rtp bound", "codec created"} =>
          holders[s] = {"start"} /\ RtpBound(s)
    /\ stage[s] = "started" =>
          /\ {"session", "rtcp"} \subseteq holders[s]
          /\ RtpBound(s)
          /\ rtcp[s] \in Port /\ owner[rtcp[s]] = s
          /\ asked[s] \in 1 .. MaxPort - 1 => rtcp[s] = rtp[s] + 1
    /\ live[s] <=> stage[s] = "started"

\* The inductive invariant of the port table.
SetupInv == SetupTypes /\ \A s \in Sessions : AtStage(s)

\* A step of session s, seen by the others: their ports and all else of them
\* is left alone.
LeavesOthers(s) ==
    \A t \in Sessions \ {s} :
        /\ stage'[t] = stage[t] /\ asked'[t] = asked[t]
        /\ rtp'[t] = rtp[t] /\ rtcp'[t] = rtcp[t]
        /\ holders'[t] = holders[t] /\ live'[t] = live[t]
        /\ \A p \in Port : owner'[p] = t <=> owner[p] = t

\* What a step of s has to show, given that it leaves the others alone.
LEMMA OneSession ==
    ASSUME SetupInv, NEW s \in Sessions, SetupTypes', LeavesOthers(s), AtStage(s)'
    PROVE  SetupInv'
<1> SUFFICES ASSUME NEW t \in Sessions, t # s PROVE AtStage(t)'
  BY DEF SetupInv
<1>1. /\ stage'[t] = stage[t] /\ asked'[t] = asked[t]
      /\ rtp'[t] = rtp[t] /\ rtcp'[t] = rtcp[t]
      /\ holders'[t] = holders[t] /\ live'[t] = live[t]
      /\ \A p \in Port : owner'[p] = t <=> owner[p] = t
  BY DEF LeavesOthers
<1>2. AtStage(t)
  BY DEF SetupInv
<1> QED BY <1>1, <1>2 DEF AtStage, Holds0, RtpBound

\* The port table after a step that changes ports of s only.
OwnsOnly(s) ==
    /\ owner' \in [Port -> Sessions \cup {Free, Other}]
    /\ \A t \in Sessions \ {s}, q \in Port : owner'[q] = t <=> owner[q] = t

\* The port table and the sockets' holders once s has let go of all but left.
Dropped(s, left) ==
    /\ holders' \in [Sessions -> SUBSET {"start", "session", "tx", "rx", "rtcp"}]
    /\ holders'[s] = left
    /\ \A t \in Sessions \ {s} : holders'[t] = holders[t]
    /\ left = {} => \A q \in Port : owner'[q] # s
    /\ {"session", "rtcp"} \subseteq left =>
          \A q \in Port : owner[q] = s /\ q \in {rtp[s], rtcp[s]} => owner'[q] = s

\* Ports are numbers up to the highest, and 0 is none of them.
LEMMA PortsBounded ==
    MaxPort \in Nat /\ 0 \in 0 .. MaxPort /\ Port = (0 .. MaxPort) \ {0}
BY SetupAssumption DEF Port

\* Binding a free port takes it from nobody.
LEMMA BindTakes ==
    ASSUME SetupInv, NEW s \in Sessions, NEW port \in 0 .. MaxPort,
           NEW p \in Bindable(port), owner' = [owner EXCEPT ![p] = s]
    PROVE  /\ p \in Port /\ p \in 0 .. MaxPort /\ owner'[p] = s
           /\ port # 0 => p = port
           /\ \A q \in Port : owner[q] = s => owner'[q] = s
           /\ OwnsOnly(s)
<1>1. p \in Port /\ owner[p] = Free /\ (port # 0 => p = port)
  BY DEF Bindable
<1>2. p \in 0 .. MaxPort
  BY <1>1, PortsBounded DEF Port
<1>3. owner \in [Port -> Sessions \cup {Free, Other}] /\ Free \notin Sessions
  BY SetupAssumption DEF SetupInv, SetupTypes
<1>4. owner'[p] = s /\ \A q \in Port : q # p => owner'[q] = owner[q]
  BY <1>1, <1>3
<1>5. OwnsOnly(s)
  BY <1>1, <1>3, <1>4 DEF OwnsOnly
<1> QED BY <1>1, <1>2, <1>4, <1>5

\* Dropping sockets frees ports of s only: all of them if nobody is left, and
\* none of those in use that somebody still holds.
LEMMA DropFrees ==
    ASSUME SetupInv, NEW s \in Sessions,
           NEW left \in SUBSET {"start", "session", "tx", "rx", "rtcp"},
           Drops(s, left)
    PROVE  OwnsOnly(s) /\ Dropped(s, left)
<1>1. /\ holders' \in [Sessions -> SUBSET {"start", "session", "tx", "rx", "rtcp"}]
      /\ holders'[s] = left
      /\ \A t \in Sessions \ {s} : holders'[t] = holders[t]
  BY DEF SetupInv, SetupTypes, Drops
<1>2. OwnsOnly(s)
  BY SetupAssumption DEF SetupInv, SetupTypes, Drops, OwnsOnly
<1>3. left = {} => \A q \in Port : owner'[q] # s
  BY SetupAssumption DEF SetupInv, SetupTypes, Drops
<1>4. {"session", "rtcp"} \subseteq left =>
         \A q \in Port : owner[q] = s /\ q \in {rtp[s], rtcp[s]} => owner'[q] = s
  BY DEF Drops, RtpHolders, RtcpHolders
<1> QED BY <1>1, <1>2, <1>3, <1>4 DEF Dropped

\* When no session exists the invariant holds.
LEMMA SetupInvInit == SetupInit => SetupInv
BY SetupAssumption DEF SetupInit, SetupInv, SetupTypes, AtStage, Holds0

\* A start that fails before the threads are spawned leaves nothing behind.
LEMMA StartFailsClean ==
    ASSUME SetupInv, NEW s \in Sessions, holders[s] = {"start"}, ~live[s],
           StartFails(s)
    PROVE  SetupInv'
<1>1. Drops(s, {}) /\ Goes(s, "failed") /\ UNCHANGED <<asked, rtp, rtcp, live>>
  BY DEF StartFails
<1>2. OwnsOnly(s) /\ Dropped(s, {})
  BY <1>1, DropFrees
<1>3. LeavesOthers(s)
  <2> SUFFICES ASSUME NEW t \in Sessions \ {s}
               PROVE  /\ stage'[t] = stage[t] /\ asked'[t] = asked[t]
                      /\ rtp'[t] = rtp[t] /\ rtcp'[t] = rtcp[t]
                      /\ holders'[t] = holders[t] /\ live'[t] = live[t]
                      /\ \A p \in Port : owner'[p] = t <=> owner[p] = t
    BY DEF LeavesOthers
  <2>1. stage'[t] = stage[t]
    BY <1>1 DEF Goes, SetupInv, SetupTypes
  <2>2. holders'[t] = holders[t] /\ \A p \in Port : owner'[p] = t <=> owner[p] = t
    BY <1>2, Zenon DEF OwnsOnly, Dropped
  <2> QED BY ONLY <1>1, <2>1, <2>2
<1>4. SetupTypes'
  BY <1>1, <1>2 DEF Goes, OwnsOnly, Dropped, SetupInv, SetupTypes
<1>5. stage'[s] = "failed" /\ Holds0(s)' /\ ~live'[s]
  BY <1>1, <1>2 DEF Holds0, Dropped, Goes, SetupInv, SetupTypes
<1>6. AtStage(s)'
  BY <1>5 DEF AtStage
<1> QED BY <1>3, <1>4, <1>6, OneSession

\* allocate_port preserves the invariant, at every step of its loop.
LEMMA AllocateKeeps ==
    ASSUME SetupInv, NEW s \in Sessions, allocate_port(s)
    PROVE  SetupInv'
<1>0. AtStage(s) /\ SetupTypes
  BY DEF SetupInv
<1>1. CASE AllocateRtp(s) /\ Goes(s, "failed") /\ UNCHANGED <<owner, rtp, holders>>
  <2>1. LeavesOthers(s)
    BY <1>1 DEF AllocateRtp, LeavesOthers, Goes, SetupInv, SetupTypes
  <2>2. SetupTypes'
    BY <1>0, <1>1 DEF AllocateRtp, Goes, SetupTypes
  <2>3. AtStage(s)'
    BY <1>0, <1>1 DEF AllocateRtp, AtStage, Holds0, Goes, SetupTypes
  <2> QED BY <2>1, <2>2, <2>3, OneSession
<1>2. ASSUME NEW p \in Bindable(0), AllocateRtp(s),
             owner' = [owner EXCEPT ![p] = s], rtp' = [rtp EXCEPT ![s] = p],
             holders' = [holders EXCEPT ![s] = {"start"}], Goes(s, "allocating")
      PROVE  SetupInv'
  <2>0. 0 \in 0 .. MaxPort /\ UNCHANGED <<asked, rtcp, live>>
    BY <1>2, SetupAssumption DEF AllocateRtp
  <2>1. p \in 0 .. MaxPort /\ OwnsOnly(s)
    BY <1>2, <2>0, BindTakes
  <2>2. LeavesOthers(s)
    BY <1>2, <2>0, <2>1 DEF LeavesOthers, OwnsOnly, Goes, SetupInv, SetupTypes
  <2>3. SetupTypes'
    BY <1>0, <1>2, <2>0, <2>1 DEF OwnsOnly, Goes, SetupTypes
  <2>4. AtStage(s)'
    BY <1>0, <1>2, <2>0 DEF AtStage, Goes, SetupTypes, AllocateRtp
  <2> QED BY <2>2, <2>3, <2>4, OneSession
<1>3. ASSUME NEW next \in {"retry", "ready"}, stage[s] \in {"allocating", "allocated"},
             Drops(s, {}), Goes(s, next), UNCHANGED <<asked, rtp, rtcp, live>>
      PROVE  SetupInv'
  <2>1. OwnsOnly(s) /\ Dropped(s, {})
    BY <1>3, DropFrees
  <2>2. LeavesOthers(s)
    BY <1>3, <2>1 DEF LeavesOthers, OwnsOnly, Dropped, Goes, SetupInv, SetupTypes
  <2>3. SetupTypes'
    BY <1>0, <1>3, <2>1 DEF OwnsOnly, Dropped, Goes, SetupTypes
  <2>4. stage'[s] = next /\ Holds0(s)' /\ ~live'[s]
    BY <1>0, <1>3, <2>1 DEF Holds0, Dropped, Goes, SetupTypes, AtStage
  <2>5. AtStage(s)'
    BY <2>4 DEF AtStage
  <2> QED BY <2>2, <2>3, <2>5, OneSession
<1>4. ASSUME AllocateRtcp(s) PROVE SetupInv'
  <2>0. PICK p \in Bindable(rtp[s] + 1) :
           owner' = [owner EXCEPT ![p] = s] /\ rtcp' = [rtcp EXCEPT ![s] = p]
    BY <1>4 DEF AllocateRtcp
  <2>1. rtp[s] + 1 \in 0 .. MaxPort
    BY <1>0, <2>0, PortsBounded DEF Bindable, SetupTypes
  <2>2. p \in 0 .. MaxPort /\ OwnsOnly(s)
    BY <2>0, <2>1, BindTakes
  <2>3. LeavesOthers(s)
    BY <1>4, <2>0, <2>2 DEF AllocateRtcp, LeavesOthers, OwnsOnly, Goes, SetupInv, SetupTypes
  <2>4. SetupTypes'
    BY <1>0, <1>4, <2>0, <2>2 DEF AllocateRtcp, OwnsOnly, Goes, SetupTypes
  <2>5. AtStage(s)'
    BY <1>0, <1>4 DEF AllocateRtcp, AtStage, Goes, SetupTypes
  <2> QED BY <2>3, <2>4, <2>5, OneSession
<1> QED
  BY <1>1, <1>2, <1>3, <1>4
     DEF allocate_port, AllocateRtp, AllocateFails, AllocateReturns

\* start_internal preserves the invariant, whichever of its steps fails.
LEMMA StartKeeps ==
    ASSUME SetupInv, NEW s \in Sessions, Start(s) \/ start_internal(s)
    PROVE  SetupInv'
<1>0. AtStage(s) /\ SetupTypes
  BY DEF SetupInv
<1>1. ASSUME Start(s) PROVE SetupInv'
  <2>0. PICK port \in 0 .. MaxPort : asked' = [asked EXCEPT ![s] = port]
    BY <1>0, <1>1, PortsBounded DEF Start, SetupTypes
  <2>1. LeavesOthers(s)
    BY <1>1, <2>0 DEF Start, LeavesOthers, Goes, SetupInv, SetupTypes
  <2>2. rtp' \in [Sessions -> 0 .. MaxPort] /\ rtcp' \in [Sessions -> 0 .. MaxPort]
    BY <1>0, <1>1, PortsBounded DEF Start, SetupTypes
  <2>3. SetupTypes'
    BY <1>0, <1>1, <2>0, <2>2 DEF Start, Goes, SetupTypes
  <2>4. AtStage(s)'
    BY <1>0, <1>1 DEF Start, AtStage, Goes, SetupTypes
  <2> QED BY <2>1, <2>3, <2>4, OneSession
<1>2. ASSUME StartFails(s), stage[s] \in {"start", "rtp bound", "codec created"}
      PROVE  SetupInv'
  BY <1>0, <1>2, StartFailsClean DEF AtStage
<1>3. ASSUME NEW p \in Bindable(asked[s]), BindRtp(s), stage[s] = "start",
             owner' = [owner EXCEPT ![p] = s], rtp' = [rtp EXCEPT ![s] = p],
             Goes(s, "rtp bound"), UNCHANGED <<asked, rtcp, holders, live>>
      PROVE  SetupInv'
  <2>0. asked[s] \in 0 .. MaxPort
    BY <1>0 DEF SetupTypes
  <2>1. /\ p \in Port /\ p \in 0 .. MaxPort /\ owner'[p] = s
        /\ asked[s] # 0 => p = asked[s]
        /\ OwnsOnly(s)
    <3> DEFINE port == asked[s]
    <3>1. port \in 0 .. MaxPort /\ p \in Bindable(port) /\ owner' = [owner EXCEPT ![p] = s]
      BY <1>3, <2>0
    <3> HIDE DEF port
    <3>2. /\ p \in Port /\ p \in 0 .. MaxPort /\ owner'[p] = s
          /\ port # 0 => p = port
          /\ OwnsOnly(s)
      BY <3>1, BindTakes
    <3> QED BY <3>2 DEF port
  <2>2. LeavesOthers(s)
    BY <1>3, <2>1 DEF LeavesOthers, OwnsOnly, Goes, SetupInv, SetupTypes
  <2>3. SetupTypes'
    BY <1>0, <1>3, <2>1 DEF OwnsOnly, Goes, SetupTypes
  <2>4. RtpBound(s)'
    BY <1>0, <1>3, <2>1 DEF RtpBound, SetupTypes
  <2>5. AtStage(s)'
    BY <1>0, <1>3, <2>4 DEF AtStage, Goes, SetupTypes
  <2> QED BY <2>2, <2>3, <2>5, OneSession
<1>4. ASSUME stage[s] = "rtp bound", Goes(s, "codec created"),
             UNCHANGED <<owner, asked, rtp, rtcp, holders, live>>
      PROVE  SetupInv'
  <2>1. LeavesOthers(s)
    BY <1>4 DEF LeavesOthers, Goes, SetupInv, SetupTypes
  <2>2. SetupTypes'
    BY <1>0, <1>4 DEF Goes, SetupTypes
  <2>3. AtStage(s)'
    BY <1>0, <1>4 DEF AtStage, RtpBound, Goes, SetupTypes
  <2> QED BY <2>1, <2>2, <2>3, OneSession
<1>5. ASSUME NEW p \in Bindable(RtcpPort(s)), stage[s] = "codec created",
             owner' = [owner EXCEPT ![p] = s], rtcp' = [rtcp EXCEPT ![s] = p],
             holders' = [holders EXCEPT ![s] = {"session", "tx", "rx", "rtcp"}],
             live' = [live EXCEPT ![s] = TRUE], Goes(s, "started"),
             UNCHANGED <<asked, rtp>>
      PROVE  SetupInv'
  <2>0. asked[s] \in 0 .. MaxPort /\ MaxPort \in Nat
    BY <1>0, SetupAssumption DEF SetupTypes
  <2>1. /\ RtcpPort(s) \in 0 .. MaxPort
        /\ asked[s] \in 1 .. MaxPort - 1 => RtcpPort(s) = asked[s] + 1
    BY <2>0 DEF RtcpPort
  <2>2. /\ p \in Port /\ p \in 0 .. MaxPort /\ owner'[p] = s
        /\ RtcpPort(s) # 0 => p = RtcpPort(s)
        /\ \A q \in Port : owner[q] = s => owner'[q] = s
        /\ OwnsOnly(s)
    BY <1>5, <2>1, BindTakes
  <2>3. LeavesOthers(s)
    <3> SUFFICES ASSUME NEW t \in Sessions \ {s}
                 PROVE  /\ stage'[t] = stage[t] /\ asked'[t] = asked[t]
                        /\ rtp'[t] = rtp[t] /\ rtcp'[t] = rtcp[t]
                        /\ holders'[t] = holders[t] /\ live'[t] = live[t]
                        /\ \A q \in Port : owner'[q] = t <=> owner[q] = t
      BY DEF LeavesOthers
    <3>1. stage'[t] = stage[t] /\ asked'[t] = asked[t] /\ rtp'[t] = rtp[t]
      BY <1>0, <1>5 DEF Goes, SetupTypes
    <3>2. rtcp'[t] = rtcp[t] /\ holders'[t] = holders[t] /\ live'[t] = live[t]
      BY <1>0, <1>5 DEF SetupTypes
    <3>3. \A q \in Port : owner'[q] = t <=> owner[q] = t
      BY <2>2 DEF OwnsOnly
    <3> QED BY <3>1, <3>2, <3>3
  <2>4. /\ live' \in [Sessions -> BOOLEAN] /\ live'[s]
        /\ stage'[s] = "started"
    BY <1>0, <1>5 DEF Goes, SetupTypes
  <2>5. SetupTypes'
    BY <1>0, <1>5, <2>2, <2>4 DEF OwnsOnly, Goes, SetupTypes
  <2>6. RtpBound(s)'
    BY <1>0, <1>5, <2>2 DEF AtStage, RtpBound
  <2>7. {"session", "rtcp"} \subseteq holders'[s] /\ rtcp'[s] = p
    BY <1>0, <1>5 DEF SetupTypes
  <2>8. asked'[s] \in 1 .. MaxPort - 1 => rtcp'[s] = rtp'[s] + 1
    <3> SUFFICES ASSUME asked[s] \in 1 .. MaxPort - 1 PROVE p = rtp[s] + 1
      BY <1>5, <2>7
    <3>1. RtcpPort(s) = asked[s] + 1 /\ RtcpPort(s) # 0 /\ asked[s] # 0
      BY <2>0, <2>1
    <3>2. p = RtcpPort(s)
      BY <2>2, <3>1
    <3>3. rtp[s] = asked[s]
      BY <1>0, <1>5, <3>1 DEF AtStage, RtpBound
    <3> QED BY <3>1, <3>2, <3>3
  <2>9. AtStage(s)'
    BY <2>2, <2>4, <2>6, <2>7, <2>8 DEF AtStage
  <2> QED BY <2>3, <2>5, <2>9, OneSession
<1> QED
  BY <1>1, <1>2, <1>3, <1>4, <1>5 DEF start_internal, BindRtp, CreateCodec, BindRtcp

\* So do stopping and dropping a session, and its threads and task ending.
LEMMA TakeDownKeeps ==
    ASSUME SetupInv, NEW s \in Sessions,
           StopSession(s) \/ Drop(s) \/ TaskEnds(s) \/ DeviceFails(s)
    PROVE  SetupInv'
<1>0. AtStage(s) /\ SetupTypes
  BY DEF SetupInv
<1>1. CASE StopSession(s)
  <2>1. LeavesOthers(s)
    BY <1>1 DEF StopSession, LeavesOthers, Goes, SetupInv, SetupTypes
  <2>2. live' \in [Sessions -> BOOLEAN] /\ ~live'[s] /\ stage'[s] = "stopped"
    BY <1>0, <1>1 DEF StopSession, Goes, SetupTypes
  <2>3. SetupTypes'
    BY <1>0, <1>1, <2>2 DEF StopSession, Goes, SetupTypes
  <2>4. AtStage(s)'
    BY <2>2 DEF AtStage
  <2> QED BY <2>1, <2>3, <2>4, OneSession
<1>2. CASE Drop(s)
  <2> DEFINE left == holders[s] \ {"session"}
  <2>0. left \in SUBSET {"start", "session", "tx", "rx", "rtcp"} /\ Drops(s, left)
    BY <1>0, <1>2 DEF Drop, SetupTypes
  <2> HIDE DEF left
  <2>1. OwnsOnly(s) /\ Dropped(s, left)
    BY <2>0, DropFrees
  <2>2. LeavesOthers(s)
    BY <1>2, <2>1 DEF Drop, LeavesOthers, OwnsOnly, Dropped, Goes, SetupInv, SetupTypes
  <2>3. live' \in [Sessions -> BOOLEAN] /\ ~live'[s] /\ stage'[s] = "dropped"
    BY <1>0, <1>2 DEF Drop, Goes, SetupTypes
  <2>4. SetupTypes'
    BY <1>0, <1>2, <2>1, <2>3 DEF Drop, OwnsOnly, Dropped, Goes, SetupTypes
  <2>5. AtStage(s)'
    BY <2>3 DEF AtStage
  <2> QED BY <2>2, <2>4, <2>5, OneSession
<1>3. ASSUME TaskEnds(s) \/ DeviceFails(s) PROVE SetupInv'
  <2>0. PICK t \in holders[s] \cap {"tx", "rx", "rtcp"} :
           /\ Drops(s, holders[s] \ {t})
           /\ live[s] => t # "rtcp"
    BY <1>3 DEF TaskEnds, DeviceFails
  <2> DEFINE left == holders[s] \ {t}
  <2>1. left \in SUBSET {"start", "session", "tx", "rx", "rtcp"} /\ Drops(s, left)
    BY <1>0, <2>0 DEF SetupTypes
  <2>2. UNCHANGED <<stage, asked, rtp, rtcp, live>>
    BY <1>3 DEF TaskEnds, DeviceFails
  <2>3. /\ stage[s] \in {"started", "stopped", "dropped"}
        /\ stage[s] = "started" => {"session", "rtcp"} \subseteq left
    BY <1>0, <2>0 DEF AtStage, Holds0, SetupTypes
  <2> HIDE DEF left
  <2>4. OwnsOnly(s) /\ Dropped(s, left)
    BY <2>1, DropFrees
  <2>5. LeavesOthers(s)
    BY <2>2, <2>4 DEF LeavesOthers, OwnsOnly, Dropped, SetupInv, SetupTypes
  <2>6. SetupTypes'
    BY <1>0, <2>2, <2>4 DEF OwnsOnly, Dropped, SetupTypes
  <2>7. stage[s] = "started" => /\ {"session", "rtcp"} \subseteq holders'[s]
                                /\ RtpBound(s)'
                                /\ owner'[rtcp[s]] = s
    BY <1>0, <2>2, <2>3, <2>4 DEF AtStage, RtpBound, Dropped
  <2>8. AtStage(s)'
    BY <1>0, <2>2, <2>3, <2>7 DEF AtStage
  <2> QED BY <2>5, <2>6, <2>8, OneSession
<1> QED BY <1>1, <1>2, <1>3

\* Every step preserves the invariant, another process's too.
LEMMA SetupInvNext == SetupInv /\ [SetupNext]_setupVars => SetupInv'
<1> SUFFICES ASSUME SetupInv, [SetupNext]_setupVars PROVE SetupInv'
  OBVIOUS
<1>1. CASE UNCHANGED setupVars
  BY <1>1 DEF setupVars, SetupInv, SetupTypes, AtStage, Holds0, RtpBound
<1>2. CASE OtherProcess
  <2>1. UNCHANGED <<stage, asked, rtp, rtcp, holders, live>>
    BY <1>2 DEF OtherProcess
  <2>2. /\ owner' \in [Port -> Sessions \cup {Free, Other}]
        /\ \A t \in Sessions, p \in Port : owner'[p] = t <=> owner[p] = t
    BY <1>2, SetupAssumption DEF OtherProcess, SetupInv, SetupTypes
  <2>3. ASSUME NEW t \in Sessions PROVE AtStage(t)'
    <3>1. AtStage(t)
      BY DEF SetupInv
    <3> QED BY <2>1, <2>2, <3>1 DEF AtStage, Holds0, RtpBound
  <2> QED BY <2>1, <2>2, <2>3 DEF SetupInv, SetupTypes
<1> QED
  BY <1>1, <1>2, AllocateKeeps, StartKeeps, TakeDownKeeps DEF SetupNext

\* However many sessions are set up at once and whatever other processes bind,
\* a session start_internal has started has its two ports, the one asked for
\* and the next, and a failed start has left no thread and no port behind.
THEOREM SetupPortsPaired == SetupSpec => []PortsPaired
<1>1. SetupInv => PortsPaired
  <2> SUFFICES ASSUME SetupInv, NEW s \in Sessions
               PROVE  /\ stage[s] = "started" =>
                            /\ owner[rtp[s]] = s /\ owner[rtcp[s]] = s
                            /\ asked[s] \in 1 .. MaxPort - 1 =>
                                  rtp[s] = asked[s] /\ rtcp[s] = rtp[s] + 1
                      /\ stage[s] = "failed" => Holds0(s)
    BY DEF PortsPaired, Holds0
  <2>1. AtStage(s)
    BY DEF SetupInv
  <2>2. asked[s] \in 1 .. MaxPort - 1 => asked[s] # 0
    BY SetupAssumption
  <2> QED BY <2>1, <2>2 DEF AtStage, RtpBound
<1> QED BY <1>1, SetupInvInit, SetupInvNext, PTL DEF SetupSpec

-----------------------------------------------------------------------------
(* Statistics *)

\* The receive loop and the RTCP task, on their own and without fairness.
RtcpSpec == RtcpInit /\ [][RtcpNext]_rtcpVars

\* What the bounds must satisfy: less than half the sequence numbers between a
\* packet and the newest one, the first to arrive from before the first
\* rollover, and a stream whose extended numbers fit in their 32 bits.
OrderlyCount ==
    /\ Reorder < SeqSpace \div 2
    /\ Gap + 1 < SeqSpace \div 2
    /\ \A f \in FirstSeqs : f + Gap < SeqSpace /\ f + MaxNumber + 1 < WordSpace

IsNewest(m, numbers) == m \in numbers /\ \A k \in numbers : k <= m

\* The counters stand at packet m.
CountedTo(m) ==
    /\ highest_seq = first_seq + m
    /\ expected_packets = (m - base) + 1

\* The packet being recorded came within the bounds of those tracked so far.
WithinBounds(m) ==
    "track" \in todo => recording >= m - Reorder /\ recording <= m + 1 + Gap

\* The inductive invariant of the statistics.
CountInv ==
    /\ first_seq \in FirstSeqs
    /\ arrived \subseteq 0 .. MaxNumber
    /\ todo \subseteq {"count", "track"}
    /\ "track" \in todo => recording \in arrived
    /\ initialized \in BOOLEAN
    /\ IF arrived = {} THEN base = NoNumber ELSE base \in arrived /\ base <= Gap
    /\ initialized <=> Tracked # {}
    /\ ~initialized /\ arrived # {} => base = recording
    /\ initialized => /\ base \in Tracked /\ base_seq = first_seq + base
                      /\ \E m \in Tracked : /\ IsNewest(m, Tracked) /\ CountedTo(m)
                                             /\ WithinBounds(m)

\* Types of what the invariant speaks of.
LEMMA CountTypes ==
    ASSUME OrderlyCount, CountInv
    PROVE  /\ first_seq \in Nat /\ first_seq + Gap < SeqSpace
           /\ first_seq + MaxNumber + 1 < SeqSpace * CycleSpace
           /\ SeqSpace \in Nat \ {0} /\ CycleSpace \in Nat \ {0}
           /\ SeqSpace * CycleSpace \in Nat
           /\ Gap \in Nat /\ Reorder \in Nat /\ MaxNumber \in Nat
           /\ SeqSpace \div 2 \in Nat
           /\ arrived \subseteq Nat /\ Tracked \subseteq arrived
<1>1. /\ SeqSpace \in Nat \ {0} /\ CycleSpace \in Nat \ {0}
      /\ Gap \in Nat /\ Reorder \in Nat /\ MaxNumber \in Nat
      /\ FirstSeqs \subseteq 0 .. SeqSpace - 1
  BY CountersAssumption
<1>2. first_seq \in FirstSeqs /\ arrived \subseteq 0 .. MaxNumber
  BY DEF CountInv
<1>3. first_seq \in Nat
  BY <1>1, <1>2
<1>4. first_seq + Gap < SeqSpace /\ first_seq + MaxNumber + 1 < SeqSpace * CycleSpace
  BY <1>2 DEF OrderlyCount, WordSpace
<1>5. SeqSpace * CycleSpace \in Nat /\ SeqSpace \div 2 \in Nat
  BY <1>1
<1>6. arrived \subseteq Nat /\ Tracked \subseteq arrived
  BY <1>1, <1>2 DEF Tracked
<1> QED BY <1>1, <1>3, <1>4, <1>5, <1>6

\* There is one newest packet.
LEMMA NewestUnique ==
    ASSUME NEW numbers \in SUBSET Nat, NEW m, IsNewest(m, numbers)
    PROVE  m = CHOOSE n \in numbers : \A k \in numbers : k <= n
<1> DEFINE c == CHOOSE n \in numbers : \A k \in numbers : k <= n
<1>1. c \in numbers /\ \A k \in numbers : k <= c
  BY DEF IsNewest
<1>2. c <= m /\ m <= c /\ c \in Nat /\ m \in Nat
  BY <1>1 DEF IsNewest
<1> HIDE DEF c
<1> QED BY <1>2 DEF c

\* NewCycles finds the cycle of a packet within bounds of the newest, and so
\* the extended number is the packet's own.
LEMMA ExtendedExact ==
    ASSUME OrderlyCount, CountInv, NEW m \in 0 .. MaxNumber, NEW n \in 0 .. MaxNumber,
           highest_seq = first_seq + m, n >= m - Reorder, n <= m + 1 + Gap
    PROVE  /\ Extended(SeqOf(n)) = first_seq + n
           /\ IsHigher(SeqOf(n)) <=> n > m
<1> DEFINE a == first_seq + m
           b == first_seq + n
           qa == a \div SeqSpace
           ra == a % SeqSpace
           qb == b \div SeqSpace
           rb == b % SeqSpace
           h == SeqSpace \div 2
<1>1. /\ first_seq \in Nat /\ first_seq + MaxNumber + 1 < SeqSpace * CycleSpace
      /\ SeqSpace \in Nat \ {0} /\ CycleSpace \in Nat \ {0} /\ SeqSpace * CycleSpace \in Nat
      /\ Gap \in Nat /\ Reorder \in Nat /\ MaxNumber \in Nat /\ h \in Nat
      /\ Reorder < h /\ Gap + 1 < h
  BY CountTypes DEF OrderlyCount
<1>2. /\ a \in Nat /\ b \in Nat /\ a < SeqSpace * CycleSpace /\ b < SeqSpace * CycleSpace
      /\ b > a <=> n > m
  BY <1>1
<1>3. b - a <= Gap + 1 /\ a - b <= Reorder
  BY <1>1
<1>4. highest_seq = a /\ SeqOf(n) = rb
  BY DEF SeqOf
<1> HIDE DEF a, b
<1>5. /\ qa \in Nat /\ qb \in Nat /\ qa < CycleSpace /\ qb < CycleSpace
      /\ ra \in Nat /\ rb \in Nat /\ b = qb * SeqSpace + rb
  <2>1. qa \in 0 .. CycleSpace - 1
    BY <1>1, <1>2, QuotientFits
  <2>2. qb \in 0 .. CycleSpace - 1
    BY <1>1, <1>2, QuotientFits
  <2>3. ra \in Nat
    BY <1>1, <1>2
  <2>4. rb \in Nat /\ b = qb * SeqSpace + rb
    BY <1>1, <1>2, Division
  <2> QED BY <1>1, <2>1, <2>2, <2>3, <2>4
<1>6. ASSUME a <= b PROVE NewCycles(rb) = qb
  <2>1. b - a < h
    BY <1>1, <1>2, <1>3
  <2>2. \/ qb = qa /\ rb - ra = b - a
        \/ qb = qa + 1 /\ ra - rb > h
    BY <1>1, <1>2, <1>6, <2>1, OneRollover
  <2>3. NewCycles(rb) = qb
    <3> HIDE DEF qa, qb, ra, rb, h
    <3>1. CASE qb = qa /\ rb - ra = b - a
      <4>1. ~(ra - rb > h) /\ ~(rb - ra > h)
        BY <1>1, <1>2, <1>5, <1>6, <2>1, <3>1
      <4> QED BY <1>4, <3>1, <4>1 DEF NewCycles, qa, ra, h
    <3>2. CASE qb = qa + 1 /\ ra - rb > h
      BY <1>4, <3>2 DEF NewCycles, qa, ra, h
    <3> QED BY <2>2, <3>1, <3>2
  <2> QED BY <2>3
<1>7. ASSUME b < a PROVE NewCycles(rb) = qb
  <2>1. b <= a /\ a - b < h /\ a - b > 0
    BY <1>1, <1>2, <1>3, <1>7
  <2>2. \/ qa = qb /\ ra - rb = a - b
        \/ qa = qb + 1 /\ rb - ra > h
    BY <1>1, <1>2, <2>1, OneRollover
  <2>3. NewCycles(rb) = qb
    <3> HIDE DEF qa, qb, ra, rb, h
    <3>1. CASE qa = qb /\ ra - rb = a - b
      <4>1. ~(ra - rb > h) /\ ~(rb - ra > h)
        BY <1>1, <1>2, <1>5, <2>1, <3>1
      <4> QED BY <1>4, <3>1, <4>1 DEF NewCycles, qa, ra, h
    <3>2. CASE qa = qb + 1 /\ rb - ra > h
      <4>1. ~(ra - rb > h)
        BY <1>1, <1>5, <3>2
      <4>2. (qa - 1) % WordSpace = qb
        <5>1. qa - 1 = qb /\ qb < WordSpace /\ WordSpace \in Nat \ {0}
          <6>1. SeqSpace * CycleSpace >= CycleSpace
            BY ONLY <1>1, SMTT(30)
          <6> QED BY <1>1, <1>5, <3>2, <6>1 DEF WordSpace
        <5> QED BY <1>5, <5>1
      <4> QED BY <1>4, <3>2, <4>1, <4>2 DEF NewCycles, qa, ra, h
    <3> QED BY <2>2, <3>1, <3>2
  <2> QED BY <2>3
<1>8. NewCycles(rb) = qb
  <2> HIDE DEF qa, qb, ra, rb, h
  <2> QED BY <1>2, <1>6, <1>7
<1>9. Extended(rb) = b
  <2> HIDE DEF qb, rb
  <2>1. qb % CycleSpace = qb
    BY <1>1, <1>5
  <2> QED BY <1>5, <1>8, <2>1 DEF Extended
<1>10. qb > qa => b > a
  <2>1. CASE a <= b
    <3>1. a = b => qa = qb
      OBVIOUS
    <3> HIDE DEF qa, qb
    <3> QED BY <1>2, <1>5, <2>1, <3>1
  <2>2. CASE b < a
    <3>1. b <= a /\ a - b < h
      BY <1>1, <1>2, <1>3, <2>2
    <3>2. qa = qb \/ qa = qb + 1
      BY <1>1, <1>2, <3>1, OneRollover
    <3> HIDE DEF qa, qb
    <3> QED BY <1>5, <3>2
  <2> HIDE DEF qa, qb
  <2> QED BY <1>2, <2>1, <2>2
<1>11. IsHigher(rb) <=> b > a
  <2>1. highest_seq \div SeqSpace = qa
    BY <1>4
  <2> HIDE DEF qa, qb, rb
  <2> QED BY <1>4, <1>8, <1>9, <1>10, <2>1 DEF IsHigher
<1>12. Extended(SeqOf(n)) = b /\ (IsHigher(SeqOf(n)) <=> b > a)
  BY <1>4, <1>9, <1>11
<1> QED BY <1>2, <1>12 DEF b

LEMMA CountInit == RtcpInit => CountInv
<1> SUFFICES ASSUME RtcpInit PROVE CountInv
  OBVIOUS
<1>1. /\ first_seq \in FirstSeqs /\ arrived = {} /\ todo = {} /\ initialized = FALSE
      /\ base = NoNumber
  BY DEF RtcpInit, CountersInit
<1> QED BY <1>1 DEF CountInv, Tracked

\* Only what is recorded matters.
LEMMA CountFrame ==
    ASSUME CountInv, UNCHANGED <<tracking, arrivals>>, todo' \subseteq todo,
           "track" \in todo => "track" \in todo'
    PROVE  CountInv'
<1>1. Tracked' = Tracked
  BY DEF Tracked, arrivals
<1> QED BY <1>1 DEF CountInv, tracking, arrivals, CountedTo, WithinBounds

\* A packet arrives while the last one has been recorded.
LEMMA CountReceive ==
    ASSUME OrderlyCount, CountInv, NEW number \in Arrivals, Receive(number)
    PROVE  CountInv'
<1>1. /\ number \in 0 .. MaxNumber /\ number \notin arrived
      /\ number >= Newest - Reorder /\ number <= Newest + 1 + Gap
  BY DEF Arrivals
<1>2. /\ todo = {} /\ todo' = {"count", "track"} /\ arrived' = arrived \cup {number}
      /\ base' = (IF base = NoNumber THEN number ELSE base) /\ recording' = number
      /\ UNCHANGED <<highest_seq, expected_packets, initialized, base_seq, first_seq>>
  BY DEF Receive, tracking
<1>3. Tracked = arrived /\ Tracked' = arrived
  BY <1>1, <1>2 DEF Tracked
<1>4. Gap \in Nat /\ Reorder \in Nat /\ arrived \subseteq Nat /\ NoNumber \notin Nat
  BY CountTypes, CountersAssumption
<1>5. CASE arrived = {}
  <2>1. base' = number /\ initialized = FALSE
    BY <1>2, <1>3, <1>5 DEF CountInv
  <2>2. number <= Gap
    BY <1>1, <1>4, <1>5 DEF Newest
  <2> QED BY <1>1, <1>2, <1>3, <1>5, <2>1, <2>2 DEF CountInv
<1>6. CASE arrived # {}
  <2>1. initialized /\ base \in arrived /\ base <= Gap /\ base' = base
    BY <1>2, <1>3, <1>4, <1>6 DEF CountInv
  <2>2. PICK m \in Tracked : IsNewest(m, Tracked) /\ CountedTo(m)
    BY <2>1 DEF CountInv
  <2>3. Newest = m
    BY <1>3, <1>4, <1>6, <2>2, NewestUnique DEF Newest
  <2>4. IsNewest(m, Tracked)' /\ CountedTo(m)' /\ WithinBounds(m)'
    BY <1>1, <1>2, <1>3, <2>1, <2>2, <2>3 DEF IsNewest, CountedTo, WithinBounds
  <2> QED BY <1>1, <1>2, <1>3, <2>1, <2>2, <2>4 DEF CountInv
<1> QED BY <1>5, <1>6

\* The first packet is tracked.
LEMMA CountFirst ==
    ASSUME OrderlyCount, CountInv, TrackFirst
    PROVE  CountInv'
<1> DEFINE r == recording
<1>1. /\ "track" \in todo /\ ~initialized /\ initialized' = TRUE
      /\ base_seq' = SeqOf(r) /\ highest_seq' = SeqOf(r) /\ expected_packets' = 1
      /\ todo' = todo \ {"track"} /\ UNCHANGED <<first_seq, arrived, base, recording>>
  BY DEF TrackFirst, arrivals
<1>2. r \in arrived /\ base = r /\ base <= Gap /\ arrived = {r}
  BY <1>1 DEF CountInv, Tracked
<1>3. first_seq \in Nat /\ r \in Nat /\ first_seq + Gap < SeqSpace /\ Gap \in Nat /\ SeqSpace \in Nat
  BY <1>2, CountTypes
<1>4. SeqOf(r) = first_seq + r
  <2>1. first_seq + r \in 0 .. SeqSpace - 1
    BY <1>2, <1>3
  <2> QED BY <1>3, <2>1 DEF SeqOf
<1>5. Tracked' = {r}
  BY <1>1, <1>2 DEF Tracked
<1>6. IsNewest(r, {r}) /\ CountedTo(r)' /\ WithinBounds(r)'
  BY <1>1, <1>2, <1>3, <1>4 DEF IsNewest, CountedTo, WithinBounds
<1> QED BY <1>1, <1>2, <1>4, <1>5, <1>6 DEF CountInv

\* Each later one is tracked, the newest so far or not.
LEMMA CountNext ==
    ASSUME OrderlyCount, CountInv, TrackNext
    PROVE  CountInv'
<1> DEFINE r == recording
<1>1. /\ "track" \in todo /\ initialized /\ todo' = todo \ {"track"}
      /\ UNCHANGED <<initialized, base_seq, first_seq, arrived, base, recording>>
      /\ IF IsHigher(SeqOf(r))
         THEN highest_seq' = Extended(SeqOf(r)) /\ expected_packets' = Expected(Extended(SeqOf(r)))
         ELSE UNCHANGED <<highest_seq, expected_packets>>
  BY DEF TrackNext, arrivals
<1>2. PICK m \in Tracked : IsNewest(m, Tracked) /\ CountedTo(m) /\ WithinBounds(m)
  BY <1>1 DEF CountInv
<1>3. /\ r \in arrived /\ base \in Tracked /\ base_seq = first_seq + base
      /\ arrived \subseteq 0 .. MaxNumber /\ Tracked \subseteq arrived
  BY <1>1, CountTypes DEF CountInv
<1>4. /\ r \in 0 .. MaxNumber /\ m \in 0 .. MaxNumber /\ base \in 0 .. MaxNumber /\ base <= m
      /\ r >= m - Reorder /\ r <= m + 1 + Gap
  BY <1>1, <1>2, <1>3 DEF WithinBounds, IsNewest
<1>5. Extended(SeqOf(r)) = first_seq + r /\ (IsHigher(SeqOf(r)) <=> r > m)
  BY <1>2, <1>4, ExtendedExact DEF CountedTo
<1>6. Tracked' = arrived /\ arrived = Tracked \cup {r}
  BY <1>1, <1>3 DEF Tracked
<1>7. \E k \in Tracked' : IsNewest(k, Tracked') /\ CountedTo(k)' /\ WithinBounds(k)'
  <2>1. CASE r > m
    <3>1. /\ first_seq \in Nat /\ first_seq + MaxNumber + 1 < WordSpace /\ WordSpace \in Nat
          /\ MaxNumber \in Nat
      BY CountTypes DEF WordSpace
    <3>2. (first_seq + r) - (first_seq + base) + 1 = (r - base) + 1
      BY <1>4, <3>1
    <3>3. (r - base) + 1 \in 0 .. WordSpace - 1
      BY <1>4, <2>1, <3>1
    <3>4. Expected(first_seq + r) = (r - base) + 1
      BY <1>3, <3>1, <3>2, <3>3 DEF Expected
    <3>5. PICK k \in arrived : k = r
      BY <1>3
    <3>6. CountedTo(k)' /\ WithinBounds(k)'
      BY <1>1, <1>5, <2>1, <3>4, <3>5 DEF CountedTo, WithinBounds
    <3>7. IsNewest(k, Tracked')
      <4> SUFFICES ASSUME NEW j \in arrived PROVE j <= k
        BY <1>6 DEF IsNewest
      <4>1. j = r \/ (j <= m /\ j \in 0 .. MaxNumber)
        BY <1>2, <1>3, <1>6 DEF IsNewest
      <4> QED BY <1>4, <2>1, <3>5, <4>1
    <3> QED BY <1>6, <3>6, <3>7
  <2>2. CASE ~(r > m)
    <3>1. CountedTo(m)' /\ WithinBounds(m)'
      BY <1>1, <1>2, <1>5, <2>2 DEF CountedTo, WithinBounds
    <3>2. IsNewest(m, Tracked') /\ m \in Tracked'
      BY <1>2, <1>4, <1>6, <2>2 DEF IsNewest
    <3> QED BY <3>1, <3>2
  <2> QED BY <2>1, <2>2
<1> QED BY <1>1, <1>3, <1>6, <1>7 DEF CountInv

LEMMA CountStep ==
    ASSUME OrderlyCount
    PROVE  CountInv /\ [RtcpNext]_rtcpVars => CountInv'
<1> SUFFICES ASSUME CountInv, [RtcpNext]_rtcpVars PROVE CountInv'
  OBVIOUS
<1>1. CASE UNCHANGED <<tracking, arrivals, todo>>
  BY <1>1, CountFrame
<1>2. CASE ReceiveMedia
  BY <1>2, CountReceive DEF ReceiveMedia
<1>3. CASE Record
  <2>1. CASE CountReceived
    BY <2>1, CountFrame DEF CountReceived
  <2> QED BY <1>3, <2>1, CountFirst, CountNext DEF Record
<1>4. CASE RtcpTask
  BY <1>1, <1>4 DEF RtcpTask, Wake, SendSr, SnapshotBegins, SnapshotEnds, SendRr,
                    ReceiveRtcp, countersVars
<1>5. CASE ReceiveRefused \/ StopServing \/ \E packet \in {"sr", "rr", "other"} : PeerSends(packet)
  BY <1>1, <1>5 DEF ReceiveRefused, StopServing, PeerSends, countersVars
<1>6. CASE UNCHANGED rtcpVars
  BY <1>1, <1>6 DEF rtcpVars, countersVars
<1> QED BY <1>2, <1>3, <1>4, <1>5, <1>6 DEF RtcpNext

\* record_received's extended highest sequence number is the newest packet's,
\* and its expected count the span from the first one to it, through any
\* rollovers and late arrivals, whatever the RTCP task reads meanwhile.
THEOREM HighestFollowsNewest ==
    ASSUME OrderlyCount
    PROVE  RtcpSpec => []HighestIsNewest
<1>1. CountInv => HighestIsNewest
  <2> SUFFICES ASSUME CountInv, initialized PROVE HighestIsNewest
    BY DEF HighestIsNewest
  <2>1. PICK m \in Tracked : IsNewest(m, Tracked) /\ CountedTo(m)
    BY DEF CountInv
  <2>2. /\ first_seq \in Nat /\ first_seq + MaxNumber + 1 < WordSpace /\ WordSpace \in Nat
        /\ MaxNumber \in Nat /\ Gap \in Nat /\ first_seq + Gap < SeqSpace
        /\ SeqSpace \in Nat /\ Tracked \subseteq Nat
    BY CountTypes DEF WordSpace
  <2>3. base \in Nat /\ base <= Gap /\ m \in 0 .. MaxNumber
    BY <2>1, <2>2, CountTypes DEF CountInv
  <2>4. SeqOf(base) = first_seq + base
    <3>1. first_seq + base \in 0 .. SeqSpace - 1
      BY <2>2, <2>3
    <3> QED BY <2>2, <3>1 DEF SeqOf
  <2>5. NewestTracked = m
    BY <2>1, <2>2, NewestUnique DEF NewestTracked
  <2>6. /\ (first_seq + base) + (m - base) = first_seq + m
        /\ first_seq + m \in 0 .. WordSpace - 1
    BY <2>2, <2>3
  <2>7. (SeqOf(base) + NewestTracked - base) % WordSpace = first_seq + m
    BY <2>2, <2>4, <2>5, <2>6
  <2> QED BY <2>1, <2>5, <2>7 DEF CountedTo, HighestIsNewest
<1> QED BY <1>1, CountInit, CountStep, PTL DEF RtcpSpec

-----------------------------------------------------------------------------
(* What the reports tell of the loss *)

Uncounted == IF "count" \in todo THEN 1 ELSE 0

\* A count r taken at the snapshot, put together with today's expectation, is
\* off by no more than what was recorded since, either way.
Covers(r) ==
    /\ missing + r <= expected_packets + during + Early
    /\ Cardinality(arrived) <= r + during

\* What snapshot has loaded: a count that stays good, or an expectation that
\* only grows and accounts for all that has arrived since.
LoadedInv ==
    loaded # NoNumber =>
        /\ phase = "snapshot" /\ during # NoNumber
        /\ loaded[1] \in {"received", "expected"} /\ loaded[2] \in Nat
        /\ loaded[1] = "received" => Covers(loaded[2])
        /\ loaded[1] = "expected" =>
              /\ loaded[2] <= expected_packets
              /\ missing + Cardinality(arrived) <= loaded[2] + during + Early

\* The count the receiver report is going to use.
PendingInv ==
    phase = "rr" => /\ loaded = NoNumber /\ during # NoNumber
                    /\ received \in Nat /\ Covers(received)

\* Every packet that has arrived is counted, or about to be.
CountedInv ==
    /\ packets_received \in Nat
    /\ packets_received + Uncounted = Cardinality(arrived)
    /\ ~initialized => expected_packets = 0
    /\ missing \in Nat /\ (during = NoNumber \/ during \in Nat)
    /\ during # NoNumber /\ todo # {} => during >= 1

\* The inductive invariant of the reports, beside that of the statistics.
ToldInv == CountedInv /\ LoadedInv /\ PendingInv

\* Types of what it adds up.
LEMMA ToldTypes ==
    ASSUME OrderlyCount, CountInv, CountedInv
    PROVE  /\ IsFiniteSet(arrived) /\ Cardinality(arrived) \in Nat
           /\ Early \in Nat /\ expected_packets \in Nat
           /\ Uncounted \in {0, 1} /\ packets_received \in Nat /\ missing \in Nat
<1>1. IsFiniteSet(arrived) /\ Cardinality(arrived) \in Nat
  <2>1. arrived \subseteq 0 .. MaxNumber /\ MaxNumber \in Nat
    BY CountTypes DEF CountInv
  <2>2. IsFiniteSet(0 .. MaxNumber)
    BY <2>1, FS_Interval
  <2>3. IsFiniteSet(arrived)
    BY <2>1, <2>2, FS_Subset
  <2> QED BY <2>3, FS_CardinalityType
<1>2. Early \in Nat
  <2> DEFINE B == {n \in arrived : n < base}
  <2>1. B \in SUBSET arrived
    OBVIOUS
  <2>2. IsFiniteSet(B)
    BY <1>1, <2>1, FS_Subset
  <2>3. Cardinality(B) \in Nat
    BY <2>2, FS_CardinalityType
  <2> QED BY <2>3 DEF Early
<1>3. expected_packets \in Nat
  <2>1. CASE ~initialized
    BY <2>1 DEF CountedInv
  <2>2. CASE initialized
    <3>1. PICK m \in Tracked : IsNewest(m, Tracked) /\ CountedTo(m)
      BY <2>2 DEF CountInv
    <3>2. base \in Tracked /\ Tracked \subseteq Nat
      BY <2>2, CountTypes DEF CountInv
    <3>3. base \in Nat /\ m \in Nat /\ base <= m
      BY <3>1, <3>2 DEF IsNewest
    <3> QED BY <3>1, <3>3 DEF CountedTo
  <2> QED BY <2>1, <2>2
<1> QED BY <1>1, <1>2, <1>3 DEF CountedInv, Uncounted

\* The packets expected, and those from before the first or being tracked,
\* are the ones that arrived and the ones that are missing.
LEMMA Balance ==
    ASSUME OrderlyCount, CountInv, CountedInv
    PROVE  /\ Missing \in Nat
           /\ \E h \in {0, 1} : /\ expected_packets + Early + h = Missing + Cardinality(arrived)
                                /\ h = 1 => todo # {}
<1>1. /\ IsFiniteSet(arrived) /\ Cardinality(arrived) \in Nat
      /\ Early \in Nat /\ expected_packets \in Nat
  BY ToldTypes
<1> DEFINE B == {n \in arrived : n < base}
<1>2. CASE ~initialized
  <2>1. Tracked = {} /\ Missing = 0 /\ expected_packets = 0
    BY <1>2 DEF CountInv, CountedInv, Missing
  <2>2. CASE arrived = {}
    <3>1. B = {}
      BY <2>2
    <3>2. Early = 0 /\ Cardinality(arrived) = 0
      BY <2>2, <3>1, FS_EmptySet DEF Early
    <3> QED BY <2>1, <3>2
  <2>3. CASE arrived # {}
    <3>1. arrived = {recording} /\ base = recording /\ todo # {}
      BY <1>2, <2>1, <2>3 DEF CountInv, Tracked
    <3>2. recording \in Nat
      BY <3>1, CountTypes
    <3>3. B = {}
      BY <3>1, <3>2
    <3>4. Early = 0 /\ Cardinality(arrived) = 1
      BY <3>1, <3>3, FS_EmptySet, FS_Singleton DEF Early
    <3> QED BY <2>1, <3>1, <3>4
  <2> QED BY <2>2, <2>3
<1>3. CASE initialized
  <2>1. PICK m \in Tracked : IsNewest(m, Tracked) /\ CountedTo(m)
    BY <1>3 DEF CountInv
  <2>2. base \in Tracked /\ Tracked \subseteq arrived /\ arrived \subseteq Nat
    BY <1>3, CountTypes DEF CountInv
  <2>3. base \in Nat /\ m \in Nat /\ base <= m
    BY <2>1, <2>2 DEF IsNewest
  <2>4. NewestTracked = m /\ Tracked # {}
    BY <2>1, <2>2, NewestUnique DEF NewestTracked
  <2> DEFINE D == base .. m
             C == {n \in arrived : n > m}
  <2>5. IsFiniteSet(D) /\ Cardinality(D) = m - base + 1
    BY <2>3, FS_Interval
  <2>6. Missing = Cardinality(D \ arrived) /\ expected_packets = m - base + 1
    BY <2>1, <2>4 DEF Missing, CountedTo
  <2>7. /\ IsFiniteSet(D \ arrived)
        /\ Cardinality(D \ arrived) = Cardinality(D) - Cardinality(D \cap arrived)
    BY <2>5, FS_Difference
  <2>8. /\ IsFiniteSet(arrived \ D)
        /\ Cardinality(arrived \ D) = Cardinality(arrived) - Cardinality(arrived \cap D)
    BY <1>1, FS_Difference
  <2>9. D \cap arrived = arrived \cap D
    OBVIOUS
  <2>10. arrived \ D = B \cup C /\ B \cap C = {}
    <3> SUFFICES ASSUME NEW n \in arrived
                 PROVE  /\ n \notin D <=> n < base \/ n > m
                        /\ ~(n < base /\ n > m)
      OBVIOUS
    <3>1. n \in Nat
      BY <2>2
    <3> QED BY <2>3, <3>1
  <2>11. IsFiniteSet(B) /\ IsFiniteSet(C)
    <3>1. B \in SUBSET arrived /\ C \in SUBSET arrived
      OBVIOUS
    <3> QED BY <1>1, <3>1, FS_Subset
  <2>12. Cardinality(B \cup C) = Cardinality(B) + Cardinality(C) - Cardinality(B \cap C)
    BY <2>11, FS_Union
  <2>13. Cardinality(B \cap C) = 0
    BY <2>10, FS_EmptySet
  <2>14. Cardinality(C) \in {0, 1} /\ (Cardinality(C) = 1 => todo # {})
    <3>0. \A n \in C : n \notin Tracked /\ n \in arrived
      <4> SUFFICES ASSUME NEW n \in arrived, n > m PROVE n \notin Tracked
        OBVIOUS
      <4>1. n \in Nat /\ ~(n <= m)
        BY <2>2, <2>3
      <4> QED BY <2>1, <4>1 DEF IsNewest
    <3>1. CASE "track" \notin todo
      <4>1. C = {}
        BY <3>0, <3>1 DEF Tracked
      <4> QED BY <4>1, FS_EmptySet
    <3>2. CASE "track" \in todo
      <4>1. C \subseteq {recording}
        BY <3>0, <3>2 DEF Tracked
      <4>2. C = {} \/ C = {recording}
        BY <4>1
      <4> QED BY <3>2, <4>2, FS_EmptySet, FS_Singleton
    <3> QED BY <3>1, <3>2
  <2>15. Cardinality(D \ arrived) \in Nat /\ Cardinality(D \cap arrived) \in Nat
    <3>1. IsFiniteSet(D \cap arrived)
      BY <2>5, FS_Subset
    <3> QED BY <2>7, <3>1, FS_CardinalityType
  <2>16. Early = Cardinality(B)
    BY DEF Early
  <2>17. Cardinality(arrived \ D) = Early + Cardinality(C)
    <3>1. Cardinality(arrived \ D) = Cardinality(B) + Cardinality(C) - 0
      BY <2>10, <2>12, <2>13
    <3> QED BY <1>1, <2>14, <2>16, <3>1
  <2> HIDE DEF B, C, D
  <2>18. expected_packets + Early + Cardinality(C) = Missing + Cardinality(arrived)
    <3> DEFINE x == Cardinality(D \cap arrived)
               c == Cardinality(C)
               a == Cardinality(arrived)
    <3>1. x \in Nat /\ c \in Nat /\ a \in Nat
      BY <1>1, <2>14, <2>15
    <3>2. Missing = expected_packets - x
      BY <2>5, <2>6, <2>7
    <3>3. Early + c = a - x
      BY <2>8, <2>9, <2>17
    <3> HIDE DEF x, c, a
    <3>4. expected_packets + Early + c = Missing + a
      BY <1>1, <3>1, <3>2, <3>3
    <3> QED BY <3>4 DEF c, a
  <2> QED BY <2>6, <2>14, <2>15, <2>18
<1> QED BY <1>2, <1>3

\* Types of it after a step.
LEMMA EarlyPrimed ==
    ASSUME OrderlyCount, CountInv', CountedInv'
    PROVE  /\ expected_packets' \in Nat /\ IsFiniteSet(arrived') /\ Early' \in Nat
           /\ Tracked' \subseteq arrived' /\ arrived' \subseteq Nat
<1>1. arrived' \subseteq 0 .. MaxNumber /\ MaxNumber \in Nat
  BY CountersAssumption DEF CountInv
<1>2. IsFiniteSet(0 .. MaxNumber)
  BY <1>1, FS_Interval
<1>3. IsFiniteSet(arrived')
  BY <1>1, <1>2, FS_Subset
<1> DEFINE B == {n \in arrived' : n < base'}
<1>4. B \in SUBSET arrived'
  OBVIOUS
<1>5. IsFiniteSet(B)
  BY <1>3, <1>4, FS_Subset
<1>6. Cardinality(B) \in Nat
  BY <1>5, FS_CardinalityType
<1>7. Tracked' \subseteq arrived' /\ arrived' \subseteq Nat
  BY <1>1 DEF Tracked
<1>8. expected_packets' \in Nat
  <2>1. CASE ~initialized'
    BY <2>1 DEF CountedInv
  <2>2. CASE initialized'
    <3>1. PICK m \in Tracked' : IsNewest(m, Tracked') /\ CountedTo(m)'
      BY <2>2 DEF CountInv
    <3>2. base' \in Tracked'
      BY <2>2 DEF CountInv
    <3>3. base' \in Nat /\ m \in Nat /\ base' <= m
      BY <1>7, <3>1, <3>2 DEF IsNewest
    <3>4. expected_packets' = (m - base') + 1
      BY <3>1 DEF CountedTo
    <3>5. PICK b \in Nat : b = base'
      BY <3>3
    <3>6. m \in Nat /\ b <= m
      BY <3>3, <3>5
    <3>7. (m - b) + 1 \in Nat
      BY ONLY <3>6, b \in Nat
    <3> QED BY <3>4, <3>5, <3>7
  <2> QED BY <2>1, <2>2
<1> QED BY <1>3, <1>6, <1>7, <1>8 DEF Early

\* What has been recorded stays so: the expectation and the early packets
\* only grow.
LEMMA RecordedGrows ==
    ASSUME OrderlyCount, CountInv, CountedInv, CountInv', CountedInv',
           Tracked \subseteq Tracked', arrived \subseteq arrived',
           arrived # {} => base' = base, UNCHANGED first_seq
    PROVE  expected_packets <= expected_packets' /\ Early <= Early'
<1>1. /\ expected_packets \in Nat /\ IsFiniteSet(arrived) /\ Early \in Nat
      /\ first_seq \in Nat /\ Tracked \subseteq arrived /\ arrived \subseteq Nat
  BY ToldTypes, CountTypes
<1>2. /\ expected_packets' \in Nat /\ IsFiniteSet(arrived') /\ Early' \in Nat
      /\ Tracked' \subseteq arrived' /\ arrived' \subseteq Nat
  BY EarlyPrimed
<1>3. expected_packets <= expected_packets'
  <2>1. CASE ~initialized
    BY <1>2, <2>1 DEF CountedInv
  <2>2. CASE initialized
    <3>1. PICK m \in Tracked : IsNewest(m, Tracked) /\ CountedTo(m)
      BY <2>2 DEF CountInv
    <3>2. initialized' /\ base' = base /\ base \in Tracked
      BY <1>1, <2>2, <3>1 DEF CountInv
    <3>3. PICK k \in Tracked' : IsNewest(k, Tracked') /\ CountedTo(k)'
      BY <3>2 DEF CountInv
    <3>4. m <= k /\ m \in Nat /\ k \in Nat /\ base \in Nat
      BY <1>1, <1>2, <3>1, <3>2, <3>3 DEF IsNewest
    <3>5. expected_packets = (m - base) + 1 /\ expected_packets' = (k - base) + 1
      BY <3>1, <3>2, <3>3 DEF CountedTo
    <3> QED BY <3>4, <3>5
  <2> QED BY <2>1, <2>2
<1>4. Early <= Early'
  <2> DEFINE B == {n \in arrived : n < base}
             B2 == {n \in arrived' : n < base'}
  <2>1. B \in SUBSET B2
    OBVIOUS
  <2>2. IsFiniteSet(B2)
    BY <1>2, FS_Subset
  <2>3. Cardinality(B) <= Cardinality(B2)
    BY <2>1, <2>2, FS_Subset
  <2> QED BY <2>3 DEF Early
<1> QED BY <1>3, <1>4

LEMMA ToldInit == RtcpInit => ToldInv
<1> SUFFICES ASSUME RtcpInit PROVE ToldInv
  OBVIOUS
<1>1. /\ packets_received = 0 /\ expected_packets = 0 /\ arrived = {} /\ todo = {}
      /\ loaded = NoNumber /\ missing = 0 /\ during = NoNumber /\ phase = "sleep"
  BY DEF RtcpInit, CountersInit
<1>2. Cardinality(arrived) = 0
  BY <1>1, FS_EmptySet
<1> QED BY <1>1, <1>2 DEF ToldInv, CountedInv, LoadedInv, PendingInv, Uncounted

\* What was taken at the snapshot stays good while more is recorded: the
\* packets that arrive are counted as recorded meanwhile.
LEMMA ToldKept ==
    ASSUME OrderlyCount, CountInv, ToldInv, CountInv', CountedInv',
           expected_packets <= expected_packets', Early <= Early', Early' \in Nat,
           expected_packets' \in Nat, NEW d \in Nat,
           Cardinality(arrived') = Cardinality(arrived) + d,
           during # NoNumber => during' = during + d,
           UNCHANGED <<loaded, missing, phase, received>>
    PROVE  LoadedInv' /\ PendingInv'
<1>1. /\ Cardinality(arrived) \in Nat /\ Early \in Nat /\ expected_packets \in Nat
      /\ missing \in Nat /\ NoNumber \notin Nat
      /\ during # NoNumber => during \in Nat /\ during' \in Nat /\ during' # NoNumber
  BY ToldTypes, CountersAssumption DEF ToldInv, CountedInv
<1>2. ASSUME NEW r \in Nat, Covers(r), during # NoNumber PROVE Covers(r)'
  <2>1. /\ missing + r <= expected_packets + during + Early
        /\ Cardinality(arrived) <= r + during
    BY <1>2 DEF Covers
  <2>2. missing + r <= expected_packets' + (during + d) + Early'
    BY <1>1, <1>2, <2>1
  <2>3. Cardinality(arrived) + d <= r + (during + d)
    BY <1>1, <1>2, <2>1
  <2> QED BY <1>2, <2>2, <2>3 DEF Covers
<1>3. LoadedInv'
  <2> SUFFICES ASSUME loaded # NoNumber PROVE LoadedInv'
    BY DEF LoadedInv
  <2>1. /\ phase = "snapshot" /\ during # NoNumber
        /\ loaded[1] \in {"received", "expected"} /\ loaded[2] \in Nat
        /\ loaded[1] = "received" => Covers(loaded[2])
        /\ loaded[1] = "expected" =>
              /\ loaded[2] <= expected_packets
              /\ missing + Cardinality(arrived) <= loaded[2] + during + Early
    BY DEF ToldInv, LoadedInv
  <2>2. PICK v \in Nat : v = loaded[2]
    BY <2>1
  <2>3. loaded[1] = "received" => Covers(v)'
    BY <1>2, <2>1, <2>2
  <2>4. ASSUME loaded[1] = "expected"
        PROVE  /\ v <= expected_packets'
               /\ missing + Cardinality(arrived') <= v + during' + Early'
    <3>1. v <= expected_packets /\ missing + Cardinality(arrived) <= v + during + Early
      BY <2>1, <2>2, <2>4
    <3>2. v <= expected_packets'
      BY <1>1, <3>1
    <3>3. missing + (Cardinality(arrived) + d) <= v + (during + d) + Early'
      BY <1>1, <2>1, <3>1
    <3> QED BY <2>1, <3>2, <3>3
  <2> QED BY <1>1, <2>1, <2>2, <2>3, <2>4 DEF LoadedInv, Covers
<1>4. PendingInv'
  BY <1>1, <1>2 DEF ToldInv, PendingInv
<1> QED BY <1>3, <1>4

\* A packet arrives.
LEMMA ToldReceive ==
    ASSUME OrderlyCount, CountInv, ToldInv, ReceiveMedia
    PROVE  ToldInv'
<1>1. PICK number \in Arrivals : Receive(number)
  BY DEF ReceiveMedia
<1>2. /\ todo = {} /\ todo' = {"count", "track"} /\ arrived' = arrived \cup {number}
      /\ base' = (IF base = NoNumber THEN number ELSE base)
      /\ during' = (IF during = NoNumber THEN NoNumber ELSE during + 1)
      /\ UNCHANGED <<packets_received, expected_packets, initialized, first_seq, loaded, missing>>
      /\ UNCHANGED <<phase, received>>
  BY <1>1 DEF Receive, ReceiveMedia, tracking, rtcpTask
<1>3. number \notin arrived
  BY DEF Arrivals
<1>4. CountInv'
  BY <1>1, CountReceive
<1>5. /\ IsFiniteSet(arrived) /\ Cardinality(arrived) \in Nat /\ Early \in Nat
      /\ expected_packets \in Nat /\ packets_received \in Nat /\ arrived \subseteq Nat
      /\ NoNumber \notin Nat /\ missing \in Nat
  BY ToldTypes, CountTypes, CountersAssumption DEF ToldInv
<1>6. Cardinality(arrived') = Cardinality(arrived) + 1
  BY <1>2, <1>3, <1>5, FS_AddElement
<1>7. CountedInv'
  <2>1. packets_received = Cardinality(arrived)
    <3>1. Uncounted = 0
      BY <1>2 DEF Uncounted
    <3> QED BY <1>5, <3>1 DEF ToldInv, CountedInv
  <2>2. Uncounted' = 1
    BY <1>2 DEF Uncounted
  <2>3. during' = NoNumber \/ (during' \in Nat /\ during' >= 1)
    BY <1>2 DEF ToldInv, CountedInv
  <2> QED BY <1>2, <1>5, <1>6, <2>1, <2>2, <2>3 DEF ToldInv, CountedInv
<1>8. Tracked' = arrived /\ Tracked = arrived
  <2>1. recording' = number
    BY <1>1 DEF Receive
  <2> QED BY <1>2, <1>3, <2>1 DEF Tracked
<1>9. arrived # {} => base' = base
  <2>1. arrived # {} => base \in Nat
    BY <1>5 DEF CountInv
  <2> QED BY <1>2, <1>5, <2>1
<1>10. expected_packets <= expected_packets' /\ Early <= Early'
  BY <1>2, <1>4, <1>7, <1>8, <1>9, RecordedGrows DEF ToldInv
<1>11. Early' \in Nat /\ expected_packets' \in Nat
  BY <1>2, <1>4, <1>5, <1>7, EarlyPrimed
<1>12. LoadedInv' /\ PendingInv'
  BY <1>2, <1>4, <1>6, <1>7, <1>10, <1>11, ToldKept
<1> QED BY <1>7, <1>12 DEF ToldInv

\* The rest of record_received, which adds nothing to what has arrived.
LEMMA ToldRecord ==
    ASSUME OrderlyCount, CountInv, ToldInv, CountInv', Record
    PROVE  ToldInv'
<1>1. /\ CountReceived \/ TrackFirst \/ TrackNext
      /\ UNCHANGED <<phase, received>>
  BY DEF Record, rtcpTask
<1>2. /\ UNCHANGED <<first_seq, arrived, base, recording, loaded, missing, during>>
      /\ todo' \subseteq todo /\ todo # {}
      /\ "count" \notin todo' => "count" \notin todo \/ CountReceived
  BY <1>1 DEF CountReceived, TrackFirst, TrackNext, arrivals, snapshots
<1>3. /\ Cardinality(arrived) \in Nat /\ Early \in Nat /\ expected_packets \in Nat
      /\ packets_received \in Nat
  BY ToldTypes DEF ToldInv
<1>4. packets_received' \in Nat /\ packets_received' + Uncounted' = packets_received + Uncounted
  <2>1. CASE CountReceived
    BY <1>3, <2>1 DEF CountReceived, Uncounted
  <2>2. CASE TrackFirst \/ TrackNext
    <3>1. packets_received' = packets_received /\ todo' = todo \ {"track"}
      BY <2>2 DEF TrackFirst, TrackNext
    <3>2. Uncounted' = Uncounted
      BY <3>1 DEF Uncounted
    <3> QED BY <1>3, <3>1, <3>2
  <2> QED BY <1>1, <2>1, <2>2
<1>5. ~initialized' => expected_packets' = 0
  BY <1>1 DEF CountReceived, TrackFirst, TrackNext, tracking, ToldInv, CountedInv
<1>6. CountedInv'
  BY <1>2, <1>4, <1>5 DEF ToldInv, CountedInv
<1>7. Tracked \subseteq Tracked'
  BY <1>2 DEF Tracked
<1>8. expected_packets <= expected_packets' /\ Early <= Early'
  BY <1>2, <1>6, <1>7, RecordedGrows DEF ToldInv
<1>9. Early' \in Nat /\ expected_packets' \in Nat
  BY <1>6, EarlyPrimed
<1>10. during # NoNumber => during' = during + 0
  BY <1>2 DEF ToldInv, CountedInv
<1>11. Cardinality(arrived') = Cardinality(arrived) + 0
  BY <1>2, <1>3
<1>12. LoadedInv' /\ PendingInv'
  BY <1>1, <1>2, <1>6, <1>8, <1>9, <1>10, <1>11, ToldKept
<1> QED BY <1>6, <1>12 DEF ToldInv

\* The snapshot begins: what it loads is what it says it is.
LEMMA ToldBegins ==
    ASSUME OrderlyCount, CountInv, ToldInv, phase = "snapshot", SnapshotBegins, UNCHANGED phase
    PROVE  ToldInv'
<1>1. /\ loaded = NoNumber /\ missing' = Missing
      /\ during' = (IF todo = {} THEN 0 ELSE 1)
      /\ \/ loaded' = <<"received", packets_received>>
         \/ loaded' = <<"expected", expected_packets>>
      /\ UNCHANGED <<packets_received, expected_packets, initialized, arrived, base, todo>>
  BY DEF SnapshotBegins, tracking, arrivals
<1>2. /\ Cardinality(arrived) \in Nat /\ Early \in Nat /\ expected_packets \in Nat
      /\ packets_received \in Nat /\ Uncounted \in {0, 1} /\ NoNumber \notin Nat
      /\ packets_received + Uncounted = Cardinality(arrived)
  BY ToldTypes, CountersAssumption DEF ToldInv, CountedInv
<1>3. PICK h \in {0, 1} : /\ expected_packets + Early + h = Missing + Cardinality(arrived)
                          /\ h = 1 => todo # {}
  BY Balance DEF ToldInv
<1>4. Missing \in Nat
  BY Balance DEF ToldInv
<1>5. /\ during' \in Nat /\ h <= during' /\ Uncounted <= during' /\ during' # NoNumber
      /\ todo # {} => during' >= 1
  BY <1>1, <1>2, <1>3 DEF Uncounted
<1>6. Early' = Early /\ Cardinality(arrived') = Cardinality(arrived)
  BY <1>1 DEF Early
<1>7. missing' + Cardinality(arrived) <= expected_packets + during' + Early
  BY <1>1, <1>2, <1>3, <1>4, <1>5
<1>8. missing' + packets_received <= expected_packets + during' + Early
  BY <1>1, <1>2, <1>4, <1>5, <1>7
<1>9. Cardinality(arrived) <= packets_received + during'
  BY <1>2, <1>5
<1>10. CountedInv'
  BY <1>1, <1>4, <1>5, <1>6 DEF ToldInv, CountedInv, Uncounted
<1>11. LoadedInv'
  <2>1. CASE loaded' = <<"received", packets_received>>
    BY <1>1, <1>2, <1>5, <1>6, <1>8, <1>9, <2>1 DEF LoadedInv, Covers
  <2>2. CASE loaded' = <<"expected", expected_packets>>
    BY <1>1, <1>2, <1>5, <1>6, <1>7, <2>2 DEF LoadedInv
  <2> QED BY <1>1, <2>1, <2>2
<1>12. PendingInv'
  BY DEF PendingInv
<1> QED BY <1>10, <1>11, <1>12 DEF ToldInv

\* It ends: the count the receiver report will use covers the loss.
LEMMA ToldEnds ==
    ASSUME OrderlyCount, CountInv, ToldInv, SnapshotEnds, phase' \in {"rr", "receive"},
           received' = IF loaded[1] = "received" THEN loaded[2] ELSE packets_received
    PROVE  ToldInv'
<1>1. /\ loaded # NoNumber /\ loaded' = NoNumber
      /\ UNCHANGED <<packets_received, expected_packets, initialized, arrived, base, todo,
                     missing, during>>
  BY DEF SnapshotEnds, tracking, arrivals
<1>2. /\ Cardinality(arrived) \in Nat /\ Early \in Nat /\ expected_packets \in Nat
      /\ packets_received \in Nat /\ Uncounted \in {0, 1} /\ missing \in Nat
      /\ packets_received + Uncounted = Cardinality(arrived)
      /\ during = NoNumber \/ during \in Nat
      /\ during # NoNumber /\ todo # {} => during >= 1
  BY ToldTypes DEF ToldInv, CountedInv
<1>3. /\ during # NoNumber
      /\ loaded[1] \in {"received", "expected"} /\ loaded[2] \in Nat
      /\ loaded[1] = "received" => Covers(loaded[2])
      /\ loaded[1] = "expected" =>
            /\ loaded[2] <= expected_packets
            /\ missing + Cardinality(arrived) <= loaded[2] + during + Early
  BY <1>1 DEF ToldInv, LoadedInv
<1>4. Uncounted <= during
  BY <1>2, <1>3 DEF Uncounted
<1>5. received' \in Nat /\ Covers(received')
  <2>1. CASE loaded[1] = "received"
    BY <1>3, <2>1
  <2>2. CASE loaded[1] = "expected"
    <3>1. PICK e \in Nat : e = loaded[2]
      BY <1>3
    <3>2. e <= expected_packets /\ missing + Cardinality(arrived) <= e + during + Early
      BY <1>3, <2>2, <3>1
    <3>3. missing + packets_received <= expected_packets + during + Early
      BY <1>2, <1>3, <3>2
    <3>4. Cardinality(arrived) <= packets_received + during
      BY <1>2, <1>3, <1>4
    <3>5. received' = packets_received
      BY <2>2
    <3> QED BY <1>2, <3>3, <3>4, <3>5 DEF Covers
  <2> QED BY <1>3, <2>1, <2>2
<1>6. Early' = Early
  BY <1>1 DEF Early
<1>7. CountedInv'
  BY <1>1 DEF ToldInv, CountedInv, Uncounted
<1>8. LoadedInv' /\ PendingInv'
  BY <1>1, <1>3, <1>5, <1>6 DEF LoadedInv, PendingInv, Covers
<1> QED BY <1>7, <1>8 DEF ToldInv

\* Every step of the receive loop and the RTCP task preserves it.
LEMMA ToldStep ==
    ASSUME OrderlyCount, CountInv, ToldInv, CountInv', [RtcpNext]_rtcpVars
    PROVE  ToldInv'
<1>1. CASE UNCHANGED <<packets_received, expected_packets, initialized, arrived, base, todo,
                       loaded, missing, during, received>> /\ (phase' # "rr" \/ phase' = phase)
            /\ (loaded # NoNumber => phase' = phase)
  <2>1. Early' = Early /\ Uncounted' = Uncounted
    BY <1>1 DEF Early, Uncounted
  <2> QED BY <1>1, <2>1 DEF ToldInv, CountedInv, LoadedInv, PendingInv, Covers
<1>2. CASE ReceiveMedia
  BY <1>2, ToldReceive
<1>3. CASE Record
  BY <1>3, ToldRecord
<1>4. CASE Wake
  BY <1>1, <1>4 DEF Wake, countersVars, tracking, arrivals, snapshots, ToldInv, LoadedInv
<1>5. CASE SendSr
  <2>1. CASE SnapshotBegins /\ UNCHANGED <<phase, received>>
    BY <1>5, <2>1, ToldBegins DEF SendSr
  <2>2. CASE /\ SnapshotEnds
             /\ received' = IF loaded[1] = "received" THEN loaded[2] ELSE packets_received
             /\ phase' = IF remote_ssrc # 0 THEN "rr" ELSE "receive"
    BY <2>2, ToldEnds
  <2> QED BY <1>5, <2>1, <2>2 DEF SendSr
<1>6. CASE SendRr
  BY <1>1, <1>6 DEF SendRr, countersVars, tracking, arrivals, snapshots, ToldInv, LoadedInv
<1>7. CASE ReceiveRtcp
  <2>1. /\ phase = "receive" /\ phase' = "sleep" /\ missing' = 0 /\ during' = NoNumber
        /\ UNCHANGED <<packets_received, expected_packets, initialized, arrived, todo, loaded>>
    BY <1>7 DEF ReceiveRtcp, tracking, arrivals
  <2>2. loaded = NoNumber
    BY <2>1 DEF ToldInv, LoadedInv
  <2>3. Uncounted' = Uncounted
    BY <2>1 DEF Uncounted
  <2> QED BY <2>1, <2>2, <2>3 DEF ToldInv, CountedInv, LoadedInv, PendingInv
<1>8. CASE ReceiveRefused \/ StopServing \/ \E packet \in {"sr", "rr", "other"} : PeerSends(packet)
  BY <1>1, <1>8 DEF ReceiveRefused, StopServing, PeerSends, countersVars, tracking, arrivals,
                    snapshots, rtcpTask
<1>9. CASE UNCHANGED rtcpVars
  BY <1>1, <1>9 DEF rtcpVars, countersVars, tracking, arrivals, snapshots, rtcpTask
<1> QED BY <1>2, <1>3, <1>4, <1>5, <1>6, <1>7, <1>8, <1>9 DEF RtcpNext, RtcpTask

\* The cast to u8 wraps only a fraction of 256: one that comes out as 0 says
\* less than a 256th, unless all is lost.
LEMMA FractionTold ==
    ASSUME NEW l \in Nat, NEW e \in Nat, 0 < l, l < e, LossFraction(l, e) = 0
    PROVE  l * 256 < e
<1> DEFINE q == (l * 256) \div e
<1>1. q \in Nat /\ q * e <= l * 256 /\ l * 256 < (q + 1) * e
  OBVIOUS
<1>2. q % 256 = 0
  BY DEF LossFraction
<1> HIDE DEF q
<1>3. q < 256
  <2> SUFFICES ASSUME 256 <= q PROVE FALSE
    BY <1>1
  <2>1. 256 * e <= q * e
    BY <1>1
  <2> QED BY <1>1, <2>1
<1>4. q = 0
  BY <1>1, <1>2, <1>3
<1> QED BY <1>1, <1>4

\* A count that covers what was recorded since tells the loss that closely.
LEMMA CoveredLoss ==
    ASSUME OrderlyCount, CountInv, ToldInv, NEW r \in Nat, during # NoNumber,
           missing + r <= expected_packets + during + Early
    PROVE  missing <= Lost(expected_packets, r) + during + Early
<1>1. /\ missing \in Nat /\ expected_packets \in Nat /\ during \in Nat /\ Early \in Nat
  BY ToldTypes DEF ToldInv, CountedInv
<1> QED BY <1>1 DEF Lost

\* What a snapshot taken while packets arrive says of the loss, and what the
\* receiver report that is sent after the sender report tells the peer, are
\* off by no more than the packets recorded meanwhile and the early ones, and
\* a fraction of 0 hides no more than it rounds away.
THEOREM ReportsTellLoss ==
    ASSUME OrderlyCount
    PROVE  RtcpSpec => LossTold
<1> DEFINE Told == 
       /\ loaded # NoNumber /\ loaded' = NoNumber => missing <= lost' + during + Early
       /\ phase = "rr" /\ phase' = "receive" =>
             /\ report'.lost <= Missing + during
             /\ missing <= report'.lost + during + Early
             /\ report'.fraction = 0 /\ report'.lost > 0 /\ received > 0 =>
                   report'.lost * 256 < report'.expected
<1>1. ASSUME CountInv, ToldInv, [RtcpNext]_rtcpVars
      PROVE  [Told]_rtcpVars
  <2> SUFFICES ASSUME RtcpNext PROVE Told
    BY <1>1
  <2>1. /\ missing \in Nat /\ expected_packets \in Nat /\ Early \in Nat
        /\ packets_received \in Nat /\ Cardinality(arrived) \in Nat /\ Uncounted \in {0, 1}
        /\ packets_received + Uncounted = Cardinality(arrived)
        /\ during # NoNumber => during \in Nat
    BY <1>1, ToldTypes DEF ToldInv, CountedInv
  <2>2. ASSUME loaded # NoNumber, loaded' = NoNumber
        PROVE  missing <= lost' + during + Early
    <3>1. SnapshotEnds
      BY <2>2 DEF RtcpNext, ReceiveMedia, Receive, ReceiveRefused, Record, CountReceived,
                  TrackFirst, TrackNext, RtcpTask, Wake, SendSr, SnapshotBegins, SendRr,
                  ReceiveRtcp, StopServing, PeerSends, countersVars, snapshots
    <3>2. /\ during # NoNumber
          /\ loaded[1] \in {"received", "expected"} /\ loaded[2] \in Nat
          /\ loaded[1] = "received" => Covers(loaded[2])
          /\ loaded[1] = "expected" =>
                /\ loaded[2] <= expected_packets
                /\ missing + Cardinality(arrived) <= loaded[2] + during + Early
      BY <1>1, <2>2 DEF ToldInv, LoadedInv
    <3>3. PICK v \in Nat : v = loaded[2]
      BY <3>2
    <3>4. CASE loaded[1] = "received"
      <4>1. lost' = Lost(expected_packets, v)
        BY <3>1, <3>3, <3>4 DEF SnapshotEnds
      <4> QED BY <1>1, <3>2, <3>3, <3>4, <4>1, CoveredLoss DEF Covers
    <3>5. CASE loaded[1] = "expected"
      <4>1. lost' = Lost(v, packets_received)
        BY <3>1, <3>3, <3>5 DEF SnapshotEnds
      <4>2. missing + Cardinality(arrived) <= v + during + Early
        BY <3>2, <3>3, <3>5
      <4> QED BY <2>1, <3>2, <4>1, <4>2 DEF Lost
    <3> QED BY <3>2, <3>4, <3>5
  <2>3. ASSUME phase = "rr", phase' = "receive"
        PROVE  /\ report'.lost <= Missing + during
               /\ missing <= report'.lost + during + Early
               /\ report'.fraction = 0 /\ report'.lost > 0 /\ received > 0 =>
                     report'.lost * 256 < report'.expected
    <3>1. SendRr
      BY <2>3 DEF RtcpNext, ReceiveMedia, ReceiveRefused, Record, RtcpTask, Wake, SendSr,
                  ReceiveRtcp, StopServing, PeerSends, rtcpTask
    <3>2. during # NoNumber /\ received \in Nat /\ Covers(received)
      BY <1>1, <2>3 DEF ToldInv, PendingInv
    <3> DEFINE e == expected_packets
               l == Lost(e, received)
    <3>3. report'.lost = l /\ report'.expected = e /\ report'.fraction = LossFraction(l, e)
      BY <3>1 DEF SendRr, LossReport
    <3>4. missing <= l + during + Early
      BY <1>1, <3>2, CoveredLoss DEF Covers
    <3>5. l <= Missing + during
      <4>1. PICK h \in {0, 1} : e + Early + h = Missing + Cardinality(arrived)
        BY <1>1, Balance DEF ToldInv
      <4>2. Missing \in Nat
        BY <1>1, Balance DEF ToldInv
      <4>3. Cardinality(arrived) <= received + during
        BY <3>2 DEF Covers
      <4>4. e - received <= Missing + during
        BY <2>1, <3>2, <4>1, <4>2, <4>3
      <4> QED BY <2>1, <3>2, <4>2, <4>4 DEF Lost
    <3>6. ASSUME LossFraction(l, e) = 0, l > 0, received > 0
          PROVE  l * 256 < e
      <4>1. l \in Nat /\ l < e
        BY <2>1, <3>2, <3>6 DEF Lost
      <4> HIDE DEF l
      <4> QED BY <2>1, <3>6, <4>1, FractionTold
    <3> QED BY <3>3, <3>4, <3>5, <3>6
  <2> QED BY <2>2, <2>3
<1>2. CountInv /\ [RtcpNext]_rtcpVars => CountInv'
  BY CountStep
<1>3. CountInv /\ ToldInv /\ CountInv' /\ [RtcpNext]_rtcpVars => ToldInv'
  BY ToldStep
<1> QED BY <1>1, <1>2, <1>3, CountInit, ToldInit, PTL DEF RtcpSpec, LossTold

-----------------------------------------------------------------------------
(* The bytes of RTP and RTCP packets *)

\* Datagrams built, cut short and garbled, on their own.
WireSpec == WireInit /\ [][WireNext]_wireVars

\* The fields of a byte.
LEMMA FieldsOfByte ==
    ASSUME NEW b \in Byte
    PROVE  /\ Bits(b, 1, 16) \in 0 .. 15 /\ Bits(b, 16, 2) \in {0, 1}
           /\ Bits(b, 32, 2) \in {0, 1} /\ b % 128 \in 0 .. 127
  BY DEF Bits, Byte

\* A sequence of n bytes is a word of n.
LEMMA SequenceIsWord ==
    ASSUME NEW t \in Seq(Byte), NEW n \in Nat, Len(t) = n
    PROVE  t \in Word(n)
  BY DEF Word

\* Consecutive bytes of a datagram.
LEMMA Slice ==
    ASSUME NEW data \in Seq(Byte), NEW from \in Nat \ {0}, NEW to \in Nat, NEW n \in Nat,
           to = from - 1 + n, to <= Len(data)
    PROVE  /\ SubSeq(data, from, to) \in Seq(Byte)
           /\ Len(SubSeq(data, from, to)) = n
           /\ \A i \in 1 .. n : SubSeq(data, from, to)[i] = data[from - 1 + i]
           /\ SubSeq(data, from, to) \in Word(n)
<1>1. /\ SubSeq(data, from, to) \in Seq(Byte)
      /\ Len(SubSeq(data, from, to)) = n
      /\ \A i \in 1 .. n : SubSeq(data, from, to)[i] = data[from - 1 + i]
  OBVIOUS
<1> QED BY <1>1, SequenceIsWord

\* A u16 on the wire.
LEMMA TwoBytes ==
    ASSUME NEW high \in Byte, NEW low \in Byte
    PROVE  high * 256 + low \in Nat
  BY DEF Byte

\* Fields of their types make a header.
LEMMA HeaderOf ==
    ASSUME NEW p \in BOOLEAN, NEW e \in BOOLEAN, NEW k \in BOOLEAN, NEW t \in 0 .. 127,
           NEW u \in Word(2), NEW v \in Word(4), NEW w \in Word(4), NEW c \in Seq(Word(4)),
           NEW d \in Seq(Byte)
    PROVE  [padding |-> p, extension |-> e, marker |-> k, payload_type |-> t, sequence |-> u,
            timestamp |-> v, ssrc |-> w, csrc |-> c, extension_data |-> d] \in Header
  BY DEF Header

\* What parse reads off a datagram it does not refuse is a header, as long as
\* where rtp_header_len says that it ends.
LEMMA ParsedIsHeader ==
    ASSUME NEW data \in Seq(Byte), ~Refused(data)
    PROVE  /\ Fields(data) \in Header
           /\ header_length(Fields(data)) = rtp_header_len(data)
           /\ header_length(Fields(data)) <= Len(data)
<1> DEFINE cc == Bits(data[1], 1, 16)
           x == Bits(data[1], 16, 2)
           end == CsrcEnd(data)
           h == Fields(data)
<1>1. Len(data) \in Nat /\ Len(data) >= 12 /\ data[1] \in Byte /\ data[2] \in Byte
  BY DEF Refused
<1>2. cc \in 0 .. 15 /\ x \in {0, 1} /\ data[2] % 128 \in 0 .. 127
  BY <1>1, FieldsOfByte
<1>3. end = 12 + 4 * cc /\ end \in Nat /\ end <= Len(data)
  BY <1>1, <1>2 DEF CsrcEnd, Refused
<1> HIDE DEF cc, x, end
<1>4. SubSeq(data, 3, 4) \in Word(2)
  <2>1. PICK from \in Nat \ {0}, to \in Nat, n \in Nat : from = 3 /\ to = 4 /\ n = 2
    OBVIOUS
  <2>2. SubSeq(data, from, to) \in Word(n)
    BY <1>1, <2>1, Slice
  <2> QED BY <2>1, <2>2
<1>5. SubSeq(data, 5, 8) \in Word(4)
  <2>1. PICK from \in Nat \ {0}, to \in Nat, n \in Nat : from = 5 /\ to = 8 /\ n = 4
    OBVIOUS
  <2>2. SubSeq(data, from, to) \in Word(n)
    BY <1>1, <2>1, Slice
  <2> QED BY <2>1, <2>2
<1>6. SubSeq(data, 9, 12) \in Word(4)
  <2>1. PICK from \in Nat \ {0}, to \in Nat, n \in Nat : from = 9 /\ to = 12 /\ n = 4
    OBVIOUS
  <2>2. SubSeq(data, from, to) \in Word(n)
    BY <1>1, <2>1, Slice
  <2> QED BY <2>1, <2>2
<1>7. h.csrc \in Seq(Word(4)) /\ Len(h.csrc) = cc
  <2>1. h.csrc = [i \in 1 .. cc |-> SubSeq(data, 9 + 4 * i, 12 + 4 * i)]
    BY DEF Fields, cc
  <2>2. ASSUME NEW i \in 1 .. cc PROVE SubSeq(data, 9 + 4 * i, 12 + 4 * i) \in Word(4)
    <3>1. PICK from \in Nat \ {0}, to \in Nat : from = 9 + 4 * i /\ to = 12 + 4 * i
      BY <1>2
    <3>2. to <= Len(data) /\ to = from - 1 + 4
      BY <1>1, <1>2, <1>3, <3>1
    <3>3. SubSeq(data, from, to) \in Word(4)
      BY <3>2, Slice
    <3> QED BY <3>1, <3>3
  <2> HIDE DEF h
  <2>3. cc \in Nat
    BY <1>2
  <2> QED BY <2>1, <2>2, <2>3
<1>8. /\ h.extension_data \in Seq(Byte)
      /\ end + Len(h.extension_data) = (IF x = 0 THEN end ELSE ExtensionEnd(data))
      /\ end + Len(h.extension_data) <= Len(data)
  <2>1. CASE x = 0
    <3>1. h.extension_data = <<>>
      BY <2>1 DEF Fields, x
    <3> QED BY <1>1, <1>3, <2>1, <3>1
  <2>2. CASE x = 1
    <3> DEFINE words == data[end + 3] * 256 + data[end + 4]
    <3>1. end + 4 <= Len(data)
      BY <1>1, <1>3, <2>2 DEF Refused, x, end
    <3>2. data[end + 3] \in Byte /\ data[end + 4] \in Byte
      BY <1>3, <3>1
    <3>3. words \in Nat
      BY <3>2, TwoBytes
    <3>4. ExtensionEnd(data) = end + 4 + 4 * words
      BY DEF ExtensionEnd, end
    <3>5. ExtensionEnd(data) <= Len(data)
      BY <1>1, <1>3, <2>2, <3>1, <3>3, <3>4 DEF Refused, x, end
    <3> HIDE DEF words
    <3>6. PICK n \in Nat : n = 4 + 4 * words
      BY <3>3
    <3>7. end + n <= Len(data) /\ ExtensionEnd(data) = end + n
      BY <1>3, <3>3, <3>4, <3>5, <3>6
    <3>8. h.extension_data = SubSeq(data, end + 1, end + n)
      <4>1. h.extension_data = IF x = 0 THEN <<>>
                               ELSE SubSeq(data, CsrcEnd(data) + 1, ExtensionEnd(data))
        BY Zenon DEF Fields, x
      <4> HIDE DEF h
      <4> QED BY <2>2, <3>7, <4>1 DEF end
    <3>9. h.extension_data \in Seq(Byte) /\ Len(h.extension_data) = n
      <4>1. PICK from \in Nat \ {0}, to \in Nat : from = end + 1 /\ to = end + n
        BY <1>3
      <4>2. to = from - 1 + n /\ to <= Len(data)
        BY <1>3, <3>7, <4>1
      <4>3. SubSeq(data, from, to) \in Seq(Byte) /\ Len(SubSeq(data, from, to)) = n
        BY ONLY data \in Seq(Byte), from \in Nat \ {0}, to \in Nat, n \in Nat, <4>2, Slice
      <4>4. h.extension_data = SubSeq(data, from, to)
        BY <3>8, <4>1, Zenon
      <4> QED BY ONLY <4>3, <4>4, Zenon
    <3> QED BY <2>2, <3>7, <3>9
  <2> QED BY <1>2, <2>1, <2>2
<1>9. h \in Header
  <2>1. h.csrc \in Seq(Word(4)) /\ h.extension_data \in Seq(Byte)
    BY <1>7, <1>8
  <2> DEFINE p == Bits(data[1], 32, 2) = 1
             e == x = 1
             k == data[2] >= 128
  <2>2. h = [padding |-> p, extension |-> e, marker |-> k, payload_type |-> data[2] % 128,
             sequence |-> SubSeq(data, 3, 4), timestamp |-> SubSeq(data, 5, 8),
             ssrc |-> SubSeq(data, 9, 12), csrc |-> h.csrc, extension_data |-> h.extension_data]
    BY Zenon DEF Fields, x
  <2>3. p \in BOOLEAN /\ e \in BOOLEAN /\ k \in BOOLEAN
    <3>1. k \in BOOLEAN
      BY SMT
    <3> QED BY <3>1, Zenon
  <2> DEFINE t == data[2] % 128
             u == SubSeq(data, 3, 4)
             v == SubSeq(data, 5, 8)
             w == SubSeq(data, 9, 12)
  <2>4. t \in 0 .. 127 /\ u \in Word(2) /\ v \in Word(4) /\ w \in Word(4)
    BY <1>2, <1>4, <1>5, <1>6
  <2> HIDE DEF h, p, e, k, t, u, v, w
  <2>5. h = [padding |-> p, extension |-> e, marker |-> k, payload_type |-> t, sequence |-> u,
             timestamp |-> v, ssrc |-> w, csrc |-> h.csrc, extension_data |-> h.extension_data]
    BY <2>2 DEF t, u, v, w
  <2>6. PICK c \in Seq(Word(4)), d \in Seq(Byte) : c = h.csrc /\ d = h.extension_data
    BY <2>1
  <2>7. [padding |-> p, extension |-> e, marker |-> k, payload_type |-> t, sequence |-> u,
         timestamp |-> v, ssrc |-> w, csrc |-> c, extension_data |-> d] \in Header
    BY <2>3, <2>4, HeaderOf, Zenon
  <2> QED BY <2>5, <2>6, <2>7, Zenon
<1>10. header_length(h) = 12 + 4 * cc + Len(h.extension_data)
  BY <1>7 DEF header_length
<1>11. rtp_header_len(data) = IF x = 0 THEN end ELSE ExtensionEnd(data)
  <2>1. data # <<>>
    BY <1>1
  <2>2. CASE x = 0
    BY <1>1, <1>3, <2>1, <2>2 DEF rtp_header_len, x, cc
  <2>3. CASE x = 1
    <3>1. ~(Len(data) < end + 4) /\ Len(data) >= ExtensionEnd(data)
      BY <1>1, <1>3, <1>8, <2>3 DEF Refused, x, end
    <3>2. ExtensionEnd(data) = end + 4 + 4 * (data[end + 3] * 256 + data[end + 4])
      BY DEF ExtensionEnd, end
    <3> QED BY <1>1, <1>3, <2>1, <2>3, <3>1, <3>2 DEF rtp_header_len, x, cc
  <2> QED BY <1>2, <2>2, <2>3
<1> QED BY <1>3, <1>8, <1>9, <1>10, <1>11

\* srtp.rs refuses what header.rs does.
LEMMA RefusedAlike ==
    ASSUME NEW data \in Seq(Byte), data # <<>>, Bits(data[1], 64, 4) = 2, Refused(data)
    PROVE  rtp_header_len(data) = -1
<1> DEFINE cc == Bits(data[1], 1, 16)
           x == Bits(data[1], 16, 2)
           end == CsrcEnd(data)
<1>1. Len(data) \in Nat /\ data[1] \in Byte
  OBVIOUS
<1>2. cc \in 0 .. 15 /\ x \in {0, 1}
  BY <1>1, FieldsOfByte
<1>3. end = 12 + 4 * cc /\ end \in Nat /\ 12 <= end
  BY <1>2 DEF CsrcEnd
<1>4. \/ Len(data) < end
      \/ x = 1 /\ (Len(data) < end + 4 \/ Len(data) < ExtensionEnd(data))
  BY <1>1, <1>3 DEF Refused
<1>5. CASE x = 0
  BY <1>1, <1>3, <1>4, <1>5 DEF rtp_header_len
<1>6. CASE x = 1 /\ Len(data) < end + 4
  BY <1>1, <1>3, <1>6 DEF rtp_header_len
<1>7. CASE x = 1 /\ ~(Len(data) < end + 4)
  <2>1. data[end + 3] \in Byte /\ data[end + 4] \in Byte
    BY <1>1, <1>3, <1>7
  <2>2. ExtensionEnd(data) = end + 4 + 4 * (data[end + 3] * 256 + data[end + 4])
    BY DEF ExtensionEnd
  <2>3. ExtensionEnd(data) \in Nat
    <3>1. data[end + 3] * 256 + data[end + 4] \in Nat
      BY <2>1, TwoBytes
    <3> QED BY <1>3, <2>2, <3>1
  <2>4. Len(data) < ExtensionEnd(data)
    BY <1>1, <1>3, <1>4, <1>7
  <2> QED BY <1>1, <1>3, <1>7, <2>2, <2>3, <2>4 DEF rtp_header_len
<1> QED BY <1>2, <1>5, <1>6, <1>7

\* Words are sequences.
LEMMA WordIsSequence ==
    ASSUME NEW n \in Nat, NEW w \in Word(n)
    PROVE  w \in Seq(Byte) /\ Len(w) = n
  BY DEF Word

\* One piece of a packet after another.
LEMMA Join ==
    ASSUME NEW s \in Seq(Byte), NEW t \in Seq(Byte)
    PROVE  /\ s \o t \in Seq(Byte) /\ Len(s \o t) = Len(s) + Len(t)
           /\ \A i \in 1 .. Len(s) : (s \o t)[i] = s[i]
           /\ \A i \in 1 .. Len(t) : (s \o t)[Len(s) + i] = t[i]
  OBVIOUS

\* Reading back a piece whose bytes are there.
LEMMA ReadBack ==
    ASSUME NEW data \in Seq(Byte), NEW w \in Seq(Byte), NEW from \in Nat \ {0}, NEW to \in Nat,
           to = from - 1 + Len(w), to <= Len(data),
           \A i \in 1 .. Len(w) : data[from - 1 + i] = w[i]
    PROVE  SubSeq(data, from, to) = w
<1> DEFINE t == SubSeq(data, from, to)
           n == Len(w)
<1>1. n \in Nat /\ t \in Seq(Byte) /\ Len(t) = n /\ \A i \in 1 .. n : t[i] = w[i]
  BY Slice
<1> HIDE DEF t
<1>2. t = w
  BY <1>1
<1> QED BY <1>2 DEF t

\* The CSRCs are four bytes each.
LEMMA CsrcWords ==
    ASSUME NEW csrc \in Seq(Word(4))
    PROVE  /\ CsrcBytes(csrc) \in Seq(Byte) /\ Len(CsrcBytes(csrc)) = 4 * Len(csrc)
           /\ \A k \in 1 .. Len(csrc), i \in 1 .. 4 :
                 CsrcBytes(csrc)[4 * (k - 1) + i] = csrc[k][i]
<1> DEFINE n == Len(csrc)
           B == CsrcBytes(csrc)
<1>1. n \in Nat /\ 4 * n \in Nat
  OBVIOUS
<1>2. B = [i \in 1 .. 4 * n |-> csrc[1 + ((i - 1) \div 4)][1 + ((i - 1) % 4)]]
  BY DEF CsrcBytes
<1>3. ASSUME NEW k \in 1 .. n, NEW i \in 1 .. 4 PROVE csrc[k][i] \in Byte
  <2>1. csrc[k] \in Word(4)
    OBVIOUS
  <2> QED BY <2>1 DEF Word
<1>4. ASSUME NEW j \in 1 .. 4 * n
      PROVE  1 + ((j - 1) \div 4) \in 1 .. n /\ 1 + ((j - 1) % 4) \in 1 .. 4
  BY <1>1
<1>5. \A j \in 1 .. 4 * n : B[j] \in Byte
  BY <1>2, <1>3, <1>4
<1> HIDE DEF n, B
<1>6. B \in Seq(Byte) /\ Len(B) = 4 * n
  BY <1>1, <1>2, <1>5
<1>7. ASSUME NEW k \in 1 .. n, NEW i \in 1 .. 4
      PROVE  B[4 * (k - 1) + i] = csrc[k][i]
  <2>1. PICK j \in 1 .. 4 * n : j = 4 * (k - 1) + i
    BY <1>1
  <2>2. (j - 1) \div 4 = k - 1 /\ (j - 1) % 4 = i - 1
    BY <1>1, <2>1
  <2>3. 1 + ((j - 1) \div 4) = k /\ 1 + ((j - 1) % 4) = i
    BY <1>1, <2>2
  <2>4. B[j] = csrc[1 + ((j - 1) \div 4)][1 + ((j - 1) % 4)]
    BY <1>2
  <2> QED BY <2>1, <2>3, <2>4
<1> QED BY <1>6, <1>7 DEF n, B

\* parse_rtp reads back what was built.
LEMMA RoundTrip ==
    ASSUME NEW h \in Header, WellFormed(h), NEW payload \in Seq(Byte)
    PROVE  /\ to_bytes(h) \o payload \in Seq(Byte)
           /\ to_bytes(h) \o payload # <<>>
           /\ parse_rtp(to_bytes(h) \o payload) = [header |-> h, payload |-> payload]
<1> DEFINE n == Len(h.csrc)
           x == Len(h.extension_data)
           a == 2 * 64 + Flag(h.padding, 32) + Flag(h.extension, 16) + (n % 16)
           b == Flag(h.marker, 128) + (h.payload_type % 128)
           s0 == <<a, b>>
           s1 == s0 \o h.sequence
           s2 == s1 \o h.timestamp
           s3 == s2 \o h.ssrc
           s4 == s3 \o CsrcBytes(h.csrc)
           s5 == s4 \o h.extension_data
           data == s5 \o payload
<1>1. /\ h.padding \in BOOLEAN /\ h.extension \in BOOLEAN /\ h.marker \in BOOLEAN
      /\ h.payload_type \in 0 .. 127 /\ h.sequence \in Word(2) /\ h.timestamp \in Word(4)
      /\ h.ssrc \in Word(4) /\ h.csrc \in Seq(Word(4)) /\ h.extension_data \in Seq(Byte)
  BY DEF Header
<1>2. n \in 0 .. 15 /\ x \in Nat
  <2>1. n \in Nat /\ x \in Nat
    BY <1>1
  <2>2. n <= 15
    BY Zenon DEF WellFormed
  <2> HIDE DEF n, x
  <2> QED BY <2>1, <2>2
<1>3. /\ a \in Byte /\ b \in Byte /\ Bits(a, 64, 4) = 2 /\ Bits(a, 1, 16) = n
      /\ Bits(a, 32, 2) = Flag(h.padding, 1) /\ Bits(a, 16, 2) = Flag(h.extension, 1)
      /\ b >= 128 <=> h.marker
      /\ b % 128 = h.payload_type
  <2> DEFINE i == Flag(h.padding, 1)
             j == Flag(h.extension, 1)
             k == Flag(h.marker, 1)
             t == h.payload_type
  <2>1. i \in {0, 1} /\ j \in {0, 1} /\ k \in {0, 1} /\ (k = 1 <=> h.marker) /\ t \in 0 .. 127
    BY <1>1 DEF Flag
  <2>2. Flag(h.padding, 32) = 32 * i /\ Flag(h.extension, 16) = 16 * j /\ Flag(h.marker, 128) = 128 * k
    BY <1>1 DEF Flag
  <2> HIDE DEF i, j, k, t, n
  <2>3. n % 16 = n /\ t % 128 = t
    BY <1>2, <2>1
  <2>4. PICK c \in Int, d \in Int : c = 128 + 32 * i + 16 * j + n /\ d = 128 * k + t
    BY <1>2, <2>1
  <2>5. /\ c \in Byte /\ d \in Byte /\ Bits(c, 64, 4) = 2 /\ Bits(c, 1, 16) = n
        /\ Bits(c, 32, 2) = i /\ Bits(c, 16, 2) = j
        /\ d >= 128 <=> k = 1
        /\ d % 128 = t
    <3>1. /\ c \in 0 .. 255 /\ (c \div 64) % 4 = 2 /\ (c \div 1) % 16 = n
          /\ (c \div 32) % 2 = i /\ (c \div 16) % 2 = j
      <4>1. CASE i = 0 /\ j = 0
        BY <1>2, <2>4, <4>1
      <4>2. CASE i = 0 /\ j = 1
        BY <1>2, <2>4, <4>2
      <4>3. CASE i = 1 /\ j = 0
        BY <1>2, <2>4, <4>3
      <4>4. CASE i = 1 /\ j = 1
        BY <1>2, <2>4, <4>4
      <4> QED BY <2>1, <4>1, <4>2, <4>3, <4>4
    <3>2. d \in 0 .. 255 /\ (d >= 128 <=> k = 1) /\ d % 128 = t
      <4>1. CASE k = 0
        BY <2>1, <2>4, <4>1
      <4>2. CASE k = 1
        BY <2>1, <2>4, <4>2
      <4> QED BY <2>1, <4>1, <4>2
    <3> QED BY <3>1, <3>2 DEF Bits, Byte
  <2>6. 2 * 64 + 32 * i + 16 * j + n = c
    BY <1>2, <2>1, <2>4
  <2>7. c = a /\ d = b
    BY ONLY <2>2, <2>3, <2>4, <2>6, Zenon DEF a, b, t
  <2> HIDE DEF a, b
  <2> QED BY <2>1, <2>5, <2>7 DEF i, j, t
<1>4. /\ h.sequence \in Seq(Byte) /\ Len(h.sequence) = 2
      /\ h.timestamp \in Seq(Byte) /\ Len(h.timestamp) = 4
      /\ h.ssrc \in Seq(Byte) /\ Len(h.ssrc) = 4
      /\ CsrcBytes(h.csrc) \in Seq(Byte) /\ Len(CsrcBytes(h.csrc)) = 4 * n
  BY <1>1, WordIsSequence, CsrcWords
<1>5. to_bytes(h) \o payload = data
  BY DEF to_bytes
<1> HIDE DEF a, b, n, x
<1>6. s0 \in Seq(Byte) /\ Len(s0) = 2 /\ s0[1] = a /\ s0[2] = b
  BY <1>3
<1> HIDE DEF s0
<1>7. /\ s1 \in Seq(Byte) /\ Len(s1) = 4
      /\ \A i \in 1 .. 2 : s1[i] = s0[i]
      /\ \A i \in 1 .. 2 : s1[2 + i] = h.sequence[i]
  <2>1. /\ s1 \in Seq(Byte) /\ Len(s1) = Len(s0) + Len(h.sequence)
        /\ \A i \in 1 .. Len(s0) : s1[i] = s0[i]
        /\ \A i \in 1 .. Len(h.sequence) : s1[Len(s0) + i] = h.sequence[i]
    BY <1>4, <1>6, Join
  <2> HIDE DEF s1
  <2> QED BY <1>4, <1>6, <2>1
<1> HIDE DEF s1
<1>8. /\ s2 \in Seq(Byte) /\ Len(s2) = 8
      /\ \A i \in 1 .. 4 : s2[i] = s1[i]
      /\ \A i \in 1 .. 4 : s2[4 + i] = h.timestamp[i]
  <2>1. /\ s2 \in Seq(Byte) /\ Len(s2) = Len(s1) + Len(h.timestamp)
        /\ \A i \in 1 .. Len(s1) : s2[i] = s1[i]
        /\ \A i \in 1 .. Len(h.timestamp) : s2[Len(s1) + i] = h.timestamp[i]
    BY <1>4, <1>7, Join
  <2> HIDE DEF s2
  <2> QED BY <1>4, <1>7, <2>1
<1> HIDE DEF s2
<1>9. /\ s3 \in Seq(Byte) /\ Len(s3) = 12
      /\ \A i \in 1 .. 8 : s3[i] = s2[i]
      /\ \A i \in 1 .. 4 : s3[8 + i] = h.ssrc[i]
  <2>1. /\ s3 \in Seq(Byte) /\ Len(s3) = Len(s2) + Len(h.ssrc)
        /\ \A i \in 1 .. Len(s2) : s3[i] = s2[i]
        /\ \A i \in 1 .. Len(h.ssrc) : s3[Len(s2) + i] = h.ssrc[i]
    BY <1>4, <1>8, Join
  <2> HIDE DEF s3
  <2> QED BY <1>4, <1>8, <2>1
<1> HIDE DEF s3
<1>10. /\ s4 \in Seq(Byte) /\ Len(s4) = 12 + 4 * n
       /\ \A i \in 1 .. 12 : s4[i] = s3[i]
       /\ \A i \in 1 .. 4 * n : s4[12 + i] = CsrcBytes(h.csrc)[i]
  <2>1. /\ s4 \in Seq(Byte) /\ Len(s4) = Len(s3) + Len(CsrcBytes(h.csrc))
        /\ \A i \in 1 .. Len(s3) : s4[i] = s3[i]
        /\ \A i \in 1 .. Len(CsrcBytes(h.csrc)) : s4[Len(s3) + i] = CsrcBytes(h.csrc)[i]
    BY <1>4, <1>9, Join
  <2> HIDE DEF s4
  <2> QED BY <1>4, <1>9, <2>1
<1> HIDE DEF s4
<1>11. /\ s5 \in Seq(Byte) /\ Len(s5) = 12 + 4 * n + x
       /\ \A i \in 1 .. 12 + 4 * n : s5[i] = s4[i]
       /\ \A i \in 1 .. x : s5[12 + 4 * n + i] = h.extension_data[i]
  <2>1. /\ s5 \in Seq(Byte) /\ Len(s5) = Len(s4) + Len(h.extension_data)
        /\ \A i \in 1 .. Len(s4) : s5[i] = s4[i]
        /\ \A i \in 1 .. Len(h.extension_data) : s5[Len(s4) + i] = h.extension_data[i]
    BY <1>1, <1>10, Join
  <2> HIDE DEF s5
  <2> QED BY <1>1, <1>10, <2>1 DEF x
<1> HIDE DEF s5
<1>12. /\ data \in Seq(Byte) /\ Len(data) = 12 + 4 * n + x + Len(payload)
       /\ \A i \in 1 .. 12 + 4 * n + x : data[i] = s5[i]
       /\ \A i \in 1 .. Len(payload) : data[12 + 4 * n + x + i] = payload[i]
  <2>1. /\ data \in Seq(Byte) /\ Len(data) = Len(s5) + Len(payload)
        /\ \A i \in 1 .. Len(s5) : data[i] = s5[i]
        /\ \A i \in 1 .. Len(payload) : data[Len(s5) + i] = payload[i]
    BY <1>11, Join
  <2> HIDE DEF data
  <2> QED BY <1>11, <2>1
<1> HIDE DEF data
<1>13. Len(payload) \in Nat /\ n \in Nat /\ x \in Nat /\ Len(data) \in Nat /\ Len(data) >= 12
  BY <1>2, <1>12
<1>14. \A i \in 1 .. 12 + 4 * n : data[i] = s4[i]
  BY <1>11, <1>12, <1>13
<1>15. \A i \in 1 .. 12 : data[i] = s3[i]
  <2> SUFFICES ASSUME NEW i \in 1 .. 12 PROVE data[i] = s3[i]
    OBVIOUS
  <2>1. i \in 1 .. 12 + 4 * n
    BY ONLY <1>13, i \in 1 .. 12
  <2>2. data[i] = s4[i] /\ s4[i] = s3[i]
    BY ONLY <1>10, <1>14, <2>1, i \in 1 .. 12, Zenon
  <2> QED BY ONLY <2>2
<1>16. data[1] = a /\ data[2] = b
  BY <1>6, <1>7, <1>8, <1>9, <1>15
<1>17. SubSeq(data, 3, 4) = h.sequence
  <2>1. PICK from \in Nat \ {0}, to \in Nat : from = 3 /\ to = 4
    OBVIOUS
  <2>2. \A i \in 1 .. 2 : data[from - 1 + i] = h.sequence[i]
    BY <1>7, <1>8, <1>9, <1>15, <2>1
  <2>3. SubSeq(data, from, to) = h.sequence
    BY <1>4, <1>12, <1>13, <2>1, <2>2, ReadBack
  <2> QED BY <2>1, <2>3
<1>18. SubSeq(data, 5, 8) = h.timestamp
  <2>1. PICK from \in Nat \ {0}, to \in Nat : from = 5 /\ to = 8
    OBVIOUS
  <2>2. \A i \in 1 .. 4 : data[from - 1 + i] = h.timestamp[i]
    BY <1>8, <1>9, <1>15, <2>1
  <2>3. SubSeq(data, from, to) = h.timestamp
    BY <1>4, <1>12, <1>13, <2>1, <2>2, ReadBack
  <2> QED BY <2>1, <2>3
<1>19. SubSeq(data, 9, 12) = h.ssrc
  <2>1. PICK from \in Nat \ {0}, to \in Nat : from = 9 /\ to = 12
    OBVIOUS
  <2>2. \A i \in 1 .. 4 : data[from - 1 + i] = h.ssrc[i]
    BY <1>9, <1>15, <2>1
  <2>3. SubSeq(data, from, to) = h.ssrc
    BY <1>4, <1>12, <1>13, <2>1, <2>2, ReadBack
  <2> QED BY <2>1, <2>3
<1>20. CsrcEnd(data) = 12 + 4 * n /\ Bits(data[1], 1, 16) = n
  BY <1>3, <1>16 DEF CsrcEnd
<1>21. [i \in 1 .. n |-> SubSeq(data, 9 + 4 * i, 12 + 4 * i)] = h.csrc
  <2>1. ASSUME NEW k \in 1 .. n PROVE SubSeq(data, 9 + 4 * k, 12 + 4 * k) = h.csrc[k]
    <3>1. PICK from \in Nat \ {0}, to \in Nat : from = 9 + 4 * k /\ to = 12 + 4 * k
      BY <1>13
    <3>2. h.csrc[k] \in Word(4)
      BY <1>1 DEF n
    <3>3. h.csrc[k] \in Seq(Byte) /\ Len(h.csrc[k]) = 4
      BY <3>2, WordIsSequence
    <3>4. ASSUME NEW i \in 1 .. 4 PROVE data[from - 1 + i] = h.csrc[k][i]
      <4>1. PICK j \in 1 .. 4 * n : j = 4 * (k - 1) + i
        BY <1>13
      <4>2. from - 1 + i = 12 + j /\ 12 + j \in 1 .. 12 + 4 * n
        BY <1>13, <3>1, <4>1
      <4>3. data[12 + j] = CsrcBytes(h.csrc)[j]
        BY <1>10, <1>14, <4>2
      <4>4. CsrcBytes(h.csrc)[j] = h.csrc[k][i]
        BY <1>1, <4>1, CsrcWords DEF n
      <4> QED BY <4>2, <4>3, <4>4
    <3>5. to <= Len(data) /\ to = from - 1 + 4
      BY <1>12, <1>13, <3>1
    <3>6. SubSeq(data, from, to) = h.csrc[k]
      <4>1. PICK w \in Seq(Byte) : w = h.csrc[k]
        BY <3>3
      <4>2. to = from - 1 + Len(w) /\ to <= Len(data)
        BY <3>3, <3>5, <4>1
      <4>3. \A i \in 1 .. Len(w) : data[from - 1 + i] = w[i]
        BY <3>3, <3>4, <4>1
      <4>4. SubSeq(data, from, to) = w
        BY <1>12, <4>2, <4>3, ReadBack
      <4> QED BY <4>1, <4>4
    <3> QED BY <3>1, <3>6
  <2>2. h.csrc = [k \in 1 .. n |-> h.csrc[k]]
    BY <1>1 DEF n
  <2> QED BY <2>1, <2>2, Zenon
<1>22. ASSUME h.extension
       PROVE  /\ ExtensionEnd(data) = 12 + 4 * n + x /\ x >= 4
              /\ SubSeq(data, CsrcEnd(data) + 1, ExtensionEnd(data)) = h.extension_data
  <2>1. x >= 4 /\ x = 4 + 4 * (h.extension_data[3] * 256 + h.extension_data[4])
    BY <1>22 DEF WellFormed, x
  <2>2. \A i \in 1 .. x : data[12 + 4 * n + i] = h.extension_data[i]
    BY <1>11, <1>12, <1>13
  <2>3. data[12 + 4 * n + 3] = h.extension_data[3] /\ data[12 + 4 * n + 4] = h.extension_data[4]
    BY <1>13, <2>1, <2>2
  <2>4. ExtensionEnd(data) = 12 + 4 * n + x
    <3>1. h.extension_data[3] \in Byte /\ h.extension_data[4] \in Byte
      BY <1>1, <2>1 DEF x
    <3>2. h.extension_data[3] * 256 + h.extension_data[4] \in Nat
      BY <3>1, TwoBytes
    <3>3. ExtensionEnd(data)
            = 12 + 4 * n + 4 + 4 * (h.extension_data[3] * 256 + h.extension_data[4])
      BY <1>20, <2>3 DEF ExtensionEnd
    <3> QED BY <1>13, <2>1, <3>2, <3>3
  <2>5. PICK from \in Nat \ {0}, to \in Nat : from = 12 + 4 * n + 1 /\ to = 12 + 4 * n + x
    BY <1>13
  <2>6. \A i \in 1 .. x : data[from - 1 + i] = h.extension_data[i]
    <3> SUFFICES ASSUME NEW i \in 1 .. x PROVE data[from - 1 + i] = h.extension_data[i]
      OBVIOUS
    <3>1. from - 1 + i = 12 + 4 * n + i
      BY <1>13, <2>5
    <3> QED BY <2>2, <3>1
  <2>7. SubSeq(data, from, to) = h.extension_data
    <3>1. to = from - 1 + Len(h.extension_data) /\ to <= Len(data)
      BY <1>12, <1>13, <2>5 DEF x
    <3>2. \A i \in 1 .. Len(h.extension_data) : data[from - 1 + i] = h.extension_data[i]
      BY <2>6 DEF x
    <3> QED BY <1>1, <1>12, <3>1, <3>2, ReadBack
  <2> QED BY <1>20, <2>1, <2>4, <2>5, <2>7
<1>23. ~h.extension => h.extension_data = <<>>
  BY <1>1, Zenon DEF WellFormed
<1>24. ~Refused(data)
  <2>1. Bits(data[1], 64, 4) = 2 /\ Bits(data[1], 16, 2) = Flag(h.extension, 1)
    BY <1>3, <1>16
  <2>2. Bits(data[1], 16, 2) = 1 => h.extension
    BY <2>1 DEF Flag
  <2>3. ~(Len(data) < 12) /\ ~(Len(data) < CsrcEnd(data))
    BY <1>12, <1>13, <1>20
  <2>4. h.extension => ~(Len(data) < CsrcEnd(data) + 4) /\ ~(Len(data) < ExtensionEnd(data))
    BY <1>12, <1>13, <1>20, <1>22
  <2> QED BY <2>1, <2>2, <2>3, <2>4 DEF Refused
<1>25. Fields(data) = h
  <2>1. (Bits(data[1], 32, 2) = 1) = h.padding /\ (Bits(data[1], 16, 2) = 1) = h.extension
    BY <1>1, <1>3, <1>16 DEF Flag
  <2>2. (data[2] >= 128) = h.marker /\ data[2] % 128 = h.payload_type
    BY <1>1, <1>3, <1>16
  <2>3. (IF Bits(data[1], 16, 2) = 0 THEN <<>>
         ELSE SubSeq(data, CsrcEnd(data) + 1, ExtensionEnd(data))) = h.extension_data
    <3>1. Bits(data[1], 16, 2) = Flag(h.extension, 1)
      BY <1>3, <1>16
    <3>2. CASE h.extension
      <4>1. Bits(data[1], 16, 2) # 0
        BY <3>1, <3>2 DEF Flag
      <4> QED BY <1>22, <3>2, <4>1, Zenon
    <3>3. CASE ~h.extension
      <4>1. Bits(data[1], 16, 2) = 0
        BY <3>1, <3>3 DEF Flag
      <4> QED BY <1>23, <3>3, <4>1, Zenon
    <3> QED BY <3>2, <3>3
  <2>4. Fields(data)
          = [padding |-> h.padding, extension |-> h.extension, marker |-> h.marker,
             payload_type |-> h.payload_type, sequence |-> h.sequence,
             timestamp |-> h.timestamp, ssrc |-> h.ssrc, csrc |-> h.csrc,
             extension_data |-> h.extension_data]
    BY <1>17, <1>18, <1>19, <1>20, <1>21, <2>1, <2>2, <2>3, Zenon DEF Fields
  <2>5. h = [padding |-> h.padding, extension |-> h.extension, marker |-> h.marker,
             payload_type |-> h.payload_type, sequence |-> h.sequence,
             timestamp |-> h.timestamp, ssrc |-> h.ssrc, csrc |-> h.csrc,
             extension_data |-> h.extension_data]
    BY DEF Header
  <2> QED BY <2>4, <2>5, Zenon
<1>26. parse(data) = h /\ h # NoHeader
  BY <1>24, <1>25, HeadersAssumption DEF parse
<1>27. header_length(h) = 12 + 4 * n + x
  BY DEF header_length, n, x
<1>28. SubSeq(data, header_length(h) + 1, Len(data)) = payload
  <2>1. PICK from \in Nat \ {0}, to \in Nat : from = 12 + 4 * n + x + 1 /\ to = Len(data)
    <3>1. 12 + 4 * n + x + 1 \in Nat \ {0}
      BY <1>13
    <3> QED BY <1>13, <3>1
  <2>2. \A i \in 1 .. Len(payload) : data[from - 1 + i] = payload[i]
    BY <1>12, <1>13, <2>1
  <2>3. SubSeq(data, from, to) = payload
    BY <1>12, <1>13, <2>1, <2>2, ReadBack
  <2> QED BY <1>27, <2>1, <2>3
<1>29. ~(header_length(h) > Len(data))
  BY <1>12, <1>13, <1>27
<1>30. parse_rtp(data) = [header |-> h, payload |-> payload]
  BY <1>26, <1>28, <1>29 DEF parse_rtp
<1>31. data # <<>>
  BY <1>13
<1> QED BY <1>5, <1>12, <1>30, <1>31

\* Every report starts with a head of four bytes and its sender's SSRC.
StartsWith(data, head, ssrc) ==
    /\ data \in Seq(Byte) /\ Len(data) >= 8
    /\ \A i \in 1 .. 4 : data[i] = head[i] /\ data[4 + i] = ssrc[i]

\* Whatever follows them.
LEMMA Starts ==
    ASSUME NEW head \in Word(4), NEW ssrc \in Word(4)
    PROVE  StartsWith(head \o ssrc, head, ssrc) /\ Len(head \o ssrc) = 8
<1>1. head \in Seq(Byte) /\ ssrc \in Seq(Byte) /\ Len(head) = 4 /\ Len(ssrc) = 4
  BY WordIsSequence
<1> DEFINE s == head \o ssrc
<1>2. /\ s \in Seq(Byte) /\ Len(s) = Len(head) + Len(ssrc)
      /\ \A i \in 1 .. Len(head) : s[i] = head[i]
      /\ \A i \in 1 .. Len(ssrc) : s[Len(head) + i] = ssrc[i]
  BY <1>1, Join
<1> HIDE DEF s
<1>3. StartsWith(s, head, ssrc) /\ Len(s) = 8
  BY <1>1, <1>2 DEF StartsWith
<1> QED BY <1>3 DEF s

LEMMA StartsStill ==
    ASSUME NEW head, NEW ssrc, NEW s, StartsWith(s, head, ssrc), NEW t \in Seq(Byte)
    PROVE  StartsWith(s \o t, head, ssrc) /\ Len(s \o t) = Len(s) + Len(t)
<1> DEFINE u == s \o t
<1>1. s \in Seq(Byte) /\ Len(s) \in Nat /\ Len(t) \in Nat /\ Len(s) >= 8
  BY DEF StartsWith
<1>2. /\ u \in Seq(Byte) /\ Len(u) = Len(s) + Len(t)
      /\ \A i \in 1 .. Len(s) : u[i] = s[i]
  BY <1>1, Join
<1> HIDE DEF u
<1>3. \A i \in 1 .. 4 : u[i] = s[i] /\ u[4 + i] = s[4 + i]
  BY <1>1, <1>2
<1>4. StartsWith(u, head, ssrc)
  BY <1>1, <1>2, <1>3 DEF StartsWith
<1> QED BY <1>2, <1>4 DEF u

\* parse_rtcp finds the sender.
LEMMA SenderFound ==
    ASSUME NEW head, NEW ssrc \in Word(4), NEW data, StartsWith(data, head, ssrc)
    PROVE  SubSeq(data, 5, 8) = ssrc
<1>1. ssrc \in Seq(Byte) /\ Len(ssrc) = 4
  BY WordIsSequence
<1>2. PICK from \in Nat \ {0}, to \in Nat : from = 5 /\ to = 8
  OBVIOUS
<1>3. data \in Seq(Byte) /\ to = from - 1 + Len(ssrc) /\ to <= Len(data)
  BY <1>1, <1>2 DEF StartsWith
<1>4. \A i \in 1 .. Len(ssrc) : data[from - 1 + i] = ssrc[i]
  BY <1>1, <1>2 DEF StartsWith
<1>5. SubSeq(data, from, to) = ssrc
  BY <1>1, <1>3, <1>4, ReadBack
<1> QED BY <1>2, <1>5

\* Four bytes written out.
LEMMA FourBytes ==
    ASSUME NEW a \in Byte, NEW b \in Byte, NEW c \in Byte, NEW d \in Byte
    PROVE  /\ <<a, b, c, d>> \in Word(4)
           /\ <<a, b, c, d>>[1] = a /\ <<a, b, c, d>>[2] = b
           /\ <<a, b, c, d>>[3] = c /\ <<a, b, c, d>>[4] = d
<1>1. <<a, b, c, d>> \in Seq(Byte) /\ Len(<<a, b, c, d>>) = 4
  OBVIOUS
<1>2. <<a, b, c, d>> \in Word(4)
  BY <1>1, SequenceIsWord
<1> QED BY <1>2

LEMMA EightZeros == Zeros(8) \in Seq(Byte) /\ Len(Zeros(8)) = 8
<1>1. Zeros(8) = [i \in 1 .. 8 |-> 0] /\ 0 \in Byte
  BY DEF Zeros, Byte
<1>2. Zeros(8) \in Word(8)
  BY <1>1 DEF Word
<1> QED BY <1>2, WordIsSequence

\* A sender report, a receiver report and a goodbye, byte for byte.
LEMMA SrBytes ==
    ASSUME NEW ssrc \in Word(4), NEW r \in Word(4)
    PROVE  /\ StartsWith(build_rtcp_sr(ssrc, r, r, r), <<128, 200, 0, 6>>, ssrc)
           /\ Len(build_rtcp_sr(ssrc, r, r, r)) = 28
<1> DEFINE head == <<128, 200, 0, 6>>
           s1 == head \o ssrc
           s2 == s1 \o Zeros(8)
           s3 == s2 \o r
           s4 == s3 \o r
           s5 == s4 \o r
<1>1. head \in Word(4)
  <2>1. head \in Seq(Byte) /\ Len(head) = 4
    BY DEF Byte
  <2> HIDE DEF head
  <2> QED BY <2>1, SequenceIsWord
<1>2. r \in Seq(Byte) /\ Len(r) = 4
  BY WordIsSequence
<1> HIDE DEF head
<1>3. StartsWith(s1, head, ssrc) /\ Len(s1) = 8
  BY <1>1, Starts
<1> HIDE DEF s1
<1>4. StartsWith(s2, head, ssrc) /\ Len(s2) = 16
  <2>1. PICK z \in Seq(Byte) : z = Zeros(8) /\ Len(z) = 8
    BY EightZeros
  <2>2. StartsWith(s1 \o z, head, ssrc) /\ Len(s1 \o z) = Len(s1) + Len(z)
    <3>1. StartsWith(s1, head, ssrc)
      BY <1>3
    <3>2. z \in Seq(Byte)
      OBVIOUS
    <3> QED BY ONLY <3>1, <3>2, StartsStill
  <2>3. s2 = s1 \o z
    BY <2>1, Zenon DEF s2
  <2> HIDE DEF s2
  <2>4. StartsWith(s2, head, ssrc) /\ Len(s2) = Len(s1) + Len(z)
    BY <2>2, <2>3, Zenon
  <2> QED BY <1>3, <2>1, <2>4
<1> HIDE DEF s2
<1>5. StartsWith(s3, head, ssrc) /\ Len(s3) = 20
  <2>1. StartsWith(s3, head, ssrc) /\ Len(s3) = Len(s2) + Len(r)
    <3>1. StartsWith(s2, head, ssrc) /\ r \in Seq(Byte)
      BY <1>2, <1>4
    <3> QED BY ONLY <3>1, StartsStill
  <2> HIDE DEF s3
  <2> QED BY <1>2, <1>4, <2>1
<1> HIDE DEF s3
<1>6. StartsWith(s4, head, ssrc) /\ Len(s4) = 24
  <2>1. StartsWith(s4, head, ssrc) /\ Len(s4) = Len(s3) + Len(r)
    <3>1. StartsWith(s3, head, ssrc) /\ r \in Seq(Byte)
      BY <1>2, <1>5
    <3> QED BY ONLY <3>1, StartsStill
  <2> HIDE DEF s4
  <2> QED BY <1>2, <1>5, <2>1
<1> HIDE DEF s4
<1>7. StartsWith(s5, head, ssrc) /\ Len(s5) = 28
  <2>1. StartsWith(s5, head, ssrc) /\ Len(s5) = Len(s4) + Len(r)
    <3>1. StartsWith(s4, head, ssrc) /\ r \in Seq(Byte)
      BY <1>2, <1>6
    <3> QED BY ONLY <3>1, StartsStill
  <2> HIDE DEF s5
  <2> QED BY <1>2, <1>6, <2>1
<1>8. build_rtcp_sr(ssrc, r, r, r) = s5
  BY Zenon DEF build_rtcp_sr, s4, s3, s2, s1, head
<1> HIDE DEF s5
<1> QED BY <1>7, <1>8 DEF head

LEMMA ByeBytes ==
    ASSUME NEW ssrc \in Word(4)
    PROVE  /\ StartsWith(build_rtcp_bye(ssrc), <<129, 203, 0, 1>>, ssrc)
           /\ Len(build_rtcp_bye(ssrc)) = 8
<1> DEFINE head == <<129, 203, 0, 1>>
<1>1. head \in Word(4)
  <2>1. head \in Seq(Byte) /\ Len(head) = 4
    BY DEF Byte
  <2> HIDE DEF head
  <2> QED BY <2>1, SequenceIsWord
<1> HIDE DEF head
<1>2. StartsWith(head \o ssrc, head, ssrc) /\ Len(head \o ssrc) = 8
  BY <1>1, Starts
<1>3. build_rtcp_bye(ssrc) = head \o ssrc
  BY Zenon DEF build_rtcp_bye, head
<1> QED BY <1>2, <1>3 DEF head

\* The three bytes of a loss put it back together, in 24 bits.
LEMMA LossBytes ==
    ASSUME NEW number \in Nat
    PROVE  /\ (number \div 65536) % 256 \in Byte /\ (number \div 256) % 256 \in Byte
           /\ number % 256 \in Byte
           /\ (((number \div 65536) % 256) * 256 + ((number \div 256) % 256)) * 256 + (number % 256)
                = number % LossSpace
<1>1. /\ (number \div 65536) % 256 \in Byte /\ (number \div 256) % 256 \in Byte
      /\ number % 256 \in Byte
  BY DEF Byte
<1>2. (((number \div 65536) % 256) * 256 + ((number \div 256) % 256)) * 256 + (number % 256)
        = number % LossSpace
  <2>1. PICK q \in Nat, low \in 0 .. 255 : q = number \div 256 /\ low = number % 256
    OBVIOUS
  <2>2. PICK p \in Nat, middle \in 0 .. 255 : p = q \div 256 /\ middle = q % 256
    OBVIOUS
  <2>3. PICK m \in Nat, high \in 0 .. 255 : m = p \div 256 /\ high = p % 256
    OBVIOUS
  <2>4. number = 256 * q + low /\ q = 256 * p + middle /\ p = 256 * m + high
    BY <2>1, <2>2, <2>3
  <2>5. number \div 65536 = p
    BY <2>1, <2>2, <2>4
  <2>6. number = 16777216 * m + 65536 * high + 256 * middle + low
    BY <2>4
  <2>7. number % LossSpace = 65536 * high + 256 * middle + low
    BY <2>6, SMT DEF LossSpace
  <2>8. /\ (number \div 65536) % 256 = high /\ (number \div 256) % 256 = middle
        /\ number % 256 = low
    BY <2>1, <2>2, <2>3, <2>5
  <2>9. (high * 256 + middle) * 256 + low = 65536 * high + 256 * middle + low
    BY <2>1, <2>2, <2>3
  <2>10. (high * 256 + middle) * 256 + low = number % LossSpace
    BY <2>7, <2>9
  <2> QED BY <2>8, <2>10
<1> QED BY <1>1, <1>2

LEMMA RrBytes ==
    ASSUME NEW ssrc \in Word(4), NEW remote \in Word(4), NEW fraction \in Byte, NEW number \in Nat
    PROVE  LET data == build_rtcp_rr(ssrc, remote, fraction, number, remote, ssrc)
           IN  /\ StartsWith(data, <<129, 201, 0, 7>>, ssrc)
               /\ Len(data) = 32
               /\ \A i \in 1 .. 4 : data[12 + i] = LossWord(fraction, number)[i]
<1> DEFINE head == <<129, 201, 0, 7>>
           loss == LossWord(fraction, number)
           s1 == head \o ssrc
           s2 == s1 \o remote
           s3 == s2 \o loss
           s4 == s3 \o remote
           s5 == s4 \o ssrc
           s6 == s5 \o Zeros(8)
<1>1. head \in Word(4)
  <2>1. head \in Seq(Byte) /\ Len(head) = 4
    BY DEF Byte
  <2> HIDE DEF head
  <2> QED BY <2>1, SequenceIsWord
<1>2. remote \in Seq(Byte) /\ Len(remote) = 4 /\ ssrc \in Seq(Byte) /\ Len(ssrc) = 4
  BY WordIsSequence
<1>3. loss \in Seq(Byte) /\ Len(loss) = 4
  <2>1. loss \in Word(4)
    <3>1. PICK high \in Byte, middle \in Byte, low \in Byte :
             /\ high = (number \div 65536) % 256 /\ middle = (number \div 256) % 256
             /\ low = number % 256
      BY LossBytes
    <3>2. loss = <<fraction, high, middle, low>>
      BY <3>1 DEF LossWord
    <3> HIDE DEF loss
    <3> QED BY <3>2, FourBytes
  <2> HIDE DEF loss
  <2> QED BY <2>1, WordIsSequence
<1>4. PICK z \in Seq(Byte) : z = Zeros(8) /\ Len(z) = 8
  BY EightZeros
<1> HIDE DEF head, loss
<1>5. StartsWith(s1, head, ssrc) /\ Len(s1) = 8
  BY <1>1, Starts
<1> HIDE DEF s1
<1>6. StartsWith(s2, head, ssrc) /\ Len(s2) = 12
  <2>1. StartsWith(s2, head, ssrc) /\ Len(s2) = Len(s1) + Len(remote)
    <3>1. StartsWith(s1, head, ssrc) /\ remote \in Seq(Byte)
      BY <1>2, <1>5
    <3> QED BY ONLY <3>1, StartsStill
  <2> HIDE DEF s2
  <2> QED BY <1>2, <1>5, <2>1
<1> HIDE DEF s2
<1>7. /\ StartsWith(s3, head, ssrc) /\ Len(s3) = 16
      /\ \A i \in 1 .. 4 : s3[12 + i] = loss[i]
  <2>1. StartsWith(s3, head, ssrc) /\ Len(s3) = Len(s2) + Len(loss)
    <3>1. StartsWith(s2, head, ssrc) /\ loss \in Seq(Byte)
      BY <1>3, <1>6
    <3> QED BY ONLY <3>1, StartsStill
  <2>2. \A i \in 1 .. Len(loss) : s3[Len(s2) + i] = loss[i]
    <3>1. s2 \in Seq(Byte)
      BY <1>6 DEF StartsWith
    <3> QED BY <1>3, <3>1, Join
  <2> HIDE DEF s3
  <2> QED BY <1>3, <1>6, <2>1, <2>2
<1> HIDE DEF s3
<1>8. /\ StartsWith(s4, head, ssrc) /\ Len(s4) = 20
      /\ \A i \in 1 .. 4 : s4[12 + i] = s3[12 + i]
  <2>1. StartsWith(s4, head, ssrc) /\ Len(s4) = Len(s3) + Len(remote)
    <3>1. StartsWith(s3, head, ssrc)
      BY <1>7
    <3>2. PICK t \in Seq(Byte) : t = remote
      BY <1>2
    <3>3. StartsWith(s3 \o t, head, ssrc) /\ Len(s3 \o t) = Len(s3) + Len(t)
      BY ONLY <3>1, <3>2, StartsStill
    <3> QED BY <3>2, <3>3
  <2>2. \A i \in 1 .. Len(s3) : s4[i] = s3[i]
    <3>1. s3 \in Seq(Byte)
      BY <1>7 DEF StartsWith
    <3> QED BY <1>2, <3>1, Join
  <2> HIDE DEF s4
  <2> QED BY <1>2, <1>7, <2>1, <2>2
<1> HIDE DEF s4
<1>9. /\ StartsWith(s5, head, ssrc) /\ Len(s5) = 24
      /\ \A i \in 1 .. 4 : s5[12 + i] = s4[12 + i]
  <2>1. StartsWith(s5, head, ssrc) /\ Len(s5) = Len(s4) + Len(ssrc)
    <3>1. StartsWith(s4, head, ssrc)
      BY <1>8
    <3>2. PICK t \in Seq(Byte) : t = ssrc
      BY <1>2
    <3>3. StartsWith(s4 \o t, head, ssrc) /\ Len(s4 \o t) = Len(s4) + Len(t)
      BY ONLY <3>1, <3>2, StartsStill
    <3> QED BY <3>2, <3>3
  <2>2. \A i \in 1 .. Len(s4) : s5[i] = s4[i]
    <3>1. s4 \in Seq(Byte)
      BY <1>8 DEF StartsWith
    <3> QED BY <1>2, <3>1, Join
  <2> HIDE DEF s5
  <2> QED BY <1>2, <1>8, <2>1, <2>2
<1> HIDE DEF s5
<1>10. /\ StartsWith(s6, head, ssrc) /\ Len(s6) = 32
       /\ \A i \in 1 .. 4 : s6[12 + i] = s5[12 + i]
  <2>1. s6 = s5 \o z
    BY <1>4, Zenon DEF s6
  <2> HIDE DEF s6
  <2>2. StartsWith(s5 \o z, head, ssrc) /\ Len(s5 \o z) = Len(s5) + Len(z)
    <3>1. StartsWith(s5, head, ssrc)
      BY <1>9
    <3> QED BY ONLY <1>4, <3>1, StartsStill, Zenon
  <2>3. \A i \in 1 .. Len(s5) : (s5 \o z)[i] = s5[i]
    <3>1. s5 \in Seq(Byte)
      BY <1>9 DEF StartsWith
    <3> QED BY <1>4, <3>1, Join
  <2>4. /\ StartsWith(s6, head, ssrc) /\ Len(s6) = Len(s5) + Len(z)
        /\ \A i \in 1 .. Len(s5) : s6[i] = s5[i]
    BY <2>1, <2>2, <2>3, Zenon
  <2> QED BY <1>4, <1>9, <2>4
<1>11. build_rtcp_rr(ssrc, remote, fraction, number, remote, ssrc) = s6
  BY Zenon DEF build_rtcp_rr, s6, s5, s4, s3, s2, s1, head, loss
<1> HIDE DEF s6
<1>12. \A i \in 1 .. 4 : s6[12 + i] = loss[i]
  BY <1>7, <1>8, <1>9, <1>10
<1> QED BY <1>10, <1>11, <1>12, Zenon DEF head, loss

\* Inductive: a datagram is bytes, and one that nothing has happened to says
\* what was built.
WireInv ==
    /\ datagram \in Seq(Byte)
    /\ built # NoHeader /\ intact =>
          /\ ReportAgreed
          /\ built.kind = "rtp" =>
                parse_rtp(datagram) = [header |-> built.header, payload |-> built.payload]

\* An RTP packet that parse_rtcp takes has one of the types that admit keeps
\* for RTCP.
LEMMA WireBuildsRtp ==
    ASSUME NEW h \in Headers, NEW payload \in Payloads, BuildRtp(h, payload)
    PROVE  WireInv'
<1> DEFINE data == to_bytes(h) \o payload
<1>1. h \in Header /\ WellFormed(h) /\ payload \in Seq(Byte)
  BY HeadersAssumption
<1>2. data \in Seq(Byte) /\ parse_rtp(data) = [header |-> h, payload |-> payload]
  BY <1>1, RoundTrip
<1> HIDE DEF data
<1>3. datagram' = data /\ built' = [kind |-> "rtp", header |-> h, payload |-> payload]
  BY DEF BuildRtp, data
<1>4. parse_rtcp(data) # NoHeader => LooksLikeRtcp(data)
  <2>1. parse_rtcp(data) # NoHeader => data[2] \in 200 .. 204
    BY Zenon DEF parse_rtcp, RtcpTypes
  <2>2. data[2] \in 200 .. 204 => data[2] % 128 \in 72 .. 76
    OBVIOUS
  <2> QED BY <2>1, <2>2 DEF LooksLikeRtcp
<1>5. built'.kind = "rtp" /\ built'.header = h /\ built'.payload = payload
  BY <1>3
<1>6. parse_rtp(datagram') = [header |-> built'.header, payload |-> built'.payload]
  BY <1>2, <1>3, <1>5, Zenon
<1>7. ReportAgreed'
  BY <1>3, <1>4, <1>5, Zenon DEF ReportAgreed
<1> QED BY <1>2, <1>3, <1>6, <1>7, Zenon DEF WireInv

LEMMA ReportTypes == \A type \in RtcpTypes : type % 128 \in 72 .. 76
  BY DEF RtcpTypes

\* parse_rtcp takes a report of one of its types.
LEMMA ReportTaken ==
    ASSUME NEW data, ~(Len(data) < 8), Bits(data[1], 64, 4) = 2, data[2] \in RtcpTypes
    PROVE  LooksLikeRtcp(data) /\ parse_rtcp(data).ssrc = SubSeq(data, 5, 8)
<1>1. LooksLikeRtcp(data)
  BY ReportTypes, Zenon DEF LooksLikeRtcp
<1>2. parse_rtcp(data) = [packet_type |-> data[2], ssrc |-> SubSeq(data, 5, 8)]
  BY Zenon DEF parse_rtcp
<1> QED BY <1>1, <1>2

LEMMA WireBuildsRtcp ==
    ASSUME NEW kind \in {"sr", "rr", "bye"}, NEW ssrc \in Ssrc, NEW remote \in Ssrc,
           NEW fraction \in {0, 255}, NEW number \in Losses,
           BuildRtcp(kind, ssrc, remote, fraction, number)
    PROVE  WireInv'
<1> DEFINE data == datagram'
<1>1. ssrc \in Word(4) /\ remote \in Word(4) /\ number \in Nat /\ fraction \in Byte
  BY HeadersAssumption DEF Byte
<1>2. built' = [kind |-> kind, ssrc |-> ssrc, fraction |-> fraction, lost |-> number]
  BY DEF BuildRtcp
<1>3. /\ built'.kind = kind /\ built'.ssrc = ssrc /\ built'.fraction = fraction
      /\ built'.lost = number
  BY <1>2
<1>4. SUFFICES /\ data \in Seq(Byte) /\ LooksLikeRtcp(data) /\ parse_rtcp(data).ssrc = ssrc
               /\ Len(data) = 4 * (data[3] * 256 + data[4] + 1)
               /\ kind = "rr" =>
                     /\ data[13] = fraction
                     /\ (data[14] * 256 + data[15]) * 256 + data[16] = number % LossSpace
  <2>1. kind # "rtp"
    OBVIOUS
  <2> HIDE DEF data
  <2>2. ReportAgreed'
    BY <1>3, <1>4, <2>1 DEF ReportAgreed, data
  <2> QED BY <1>3, <1>4, <2>1, <2>2 DEF WireInv, data
<1>5. CASE kind = "sr"
  <2>1. data = build_rtcp_sr(ssrc, remote, remote, remote)
    BY <1>5 DEF BuildRtcp
  <2> HIDE DEF data
  <2>2. PICK head : head = <<128, 200, 0, 6>>
    OBVIOUS
  <2>3. StartsWith(data, head, ssrc) /\ Len(data) = 28
    BY <1>1, <2>1, <2>2, SrBytes
  <2>4. data[1] = 128 /\ data[2] = 200 /\ data[3] = 0 /\ data[4] = 6
    BY <2>2, <2>3 DEF StartsWith
  <2>5. /\ Bits(data[1], 64, 4) = 2 /\ data[2] \in RtcpTypes
        /\ data[4] \in Nat /\ Len(data) = 4 * (data[4] + 1)
    BY <2>3, <2>4 DEF Bits, RtcpTypes
  <2>6. /\ data \in Seq(Byte) /\ LooksLikeRtcp(data) /\ parse_rtcp(data).ssrc = ssrc
        /\ Len(data) = 4 * (data[3] * 256 + data[4] + 1)
    <3>1. data \in Seq(Byte) /\ ~(Len(data) < 8)
      BY <2>3 DEF StartsWith
    <3>2. LooksLikeRtcp(data) /\ parse_rtcp(data).ssrc = SubSeq(data, 5, 8)
      BY <2>5, <3>1, ReportTaken
    <3>3. SubSeq(data, 5, 8) = ssrc
      BY <1>1, <2>3, SenderFound
    <3>4. Len(data) = 4 * (data[3] * 256 + data[4] + 1)
      BY <2>3, <2>4
    <3> QED BY <3>1, <3>2, <3>3, <3>4
  <2> QED BY <1>5, <2>6
<1>6. CASE kind = "bye"
  <2>1. data = build_rtcp_bye(ssrc)
    BY <1>6 DEF BuildRtcp
  <2> HIDE DEF data
  <2>2. PICK head : head = <<129, 203, 0, 1>>
    OBVIOUS
  <2>3. StartsWith(data, head, ssrc) /\ Len(data) = 8
    BY <1>1, <2>1, <2>2, ByeBytes
  <2>4. data[1] = 129 /\ data[2] = 203 /\ data[3] = 0 /\ data[4] = 1
    BY <2>2, <2>3 DEF StartsWith
  <2>5. /\ Bits(data[1], 64, 4) = 2 /\ data[2] \in RtcpTypes
        /\ data[4] \in Nat /\ Len(data) = 4 * (data[4] + 1)
    BY <2>3, <2>4 DEF Bits, RtcpTypes
  <2>6. /\ data \in Seq(Byte) /\ LooksLikeRtcp(data) /\ parse_rtcp(data).ssrc = ssrc
        /\ Len(data) = 4 * (data[3] * 256 + data[4] + 1)
    <3>1. data \in Seq(Byte) /\ ~(Len(data) < 8)
      BY <2>3 DEF StartsWith
    <3>2. LooksLikeRtcp(data) /\ parse_rtcp(data).ssrc = SubSeq(data, 5, 8)
      BY <2>5, <3>1, ReportTaken
    <3>3. SubSeq(data, 5, 8) = ssrc
      BY <1>1, <2>3, SenderFound
    <3>4. Len(data) = 4 * (data[3] * 256 + data[4] + 1)
      BY <2>3, <2>4
    <3> QED BY <3>1, <3>2, <3>3, <3>4
  <2> QED BY <1>6, <2>6
<1>7. CASE kind = "rr"
  <2>1. data = build_rtcp_rr(ssrc, remote, fraction, number, remote, ssrc)
    BY <1>7 DEF BuildRtcp
  <2> HIDE DEF data
  <2>2. PICK head : head = <<129, 201, 0, 7>>
    OBVIOUS
  <2>3. StartsWith(data, head, ssrc) /\ Len(data) = 32
    BY <1>1, <2>1, <2>2, RrBytes
  <2>4. data[1] = 129 /\ data[2] = 201 /\ data[3] = 0 /\ data[4] = 7
    BY <2>2, <2>3 DEF StartsWith
  <2>5. /\ Bits(data[1], 64, 4) = 2 /\ data[2] \in RtcpTypes
        /\ data[4] \in Nat /\ Len(data) = 4 * (data[4] + 1)
    BY <2>3, <2>4 DEF Bits, RtcpTypes
  <2>6. /\ data \in Seq(Byte) /\ LooksLikeRtcp(data) /\ parse_rtcp(data).ssrc = ssrc
        /\ Len(data) = 4 * (data[3] * 256 + data[4] + 1)
    <3>1. data \in Seq(Byte) /\ ~(Len(data) < 8)
      BY <2>3 DEF StartsWith
    <3>2. LooksLikeRtcp(data) /\ parse_rtcp(data).ssrc = SubSeq(data, 5, 8)
      BY <2>5, <3>1, ReportTaken
    <3>3. SubSeq(data, 5, 8) = ssrc
      BY <1>1, <2>3, SenderFound
    <3>4. Len(data) = 4 * (data[3] * 256 + data[4] + 1)
      BY <2>3, <2>4
    <3> QED BY <3>1, <3>2, <3>3, <3>4
  <2>7. /\ data[13] = fraction /\ data[14] = (number \div 65536) % 256
        /\ data[15] = (number \div 256) % 256 /\ data[16] = number % 256
    <3>1. /\ LossWord(fraction, number)[1] = fraction
          /\ LossWord(fraction, number)[2] = (number \div 65536) % 256
          /\ LossWord(fraction, number)[3] = (number \div 256) % 256
          /\ LossWord(fraction, number)[4] = number % 256
      BY DEF LossWord
    <3>2. /\ data[12 + 1] = LossWord(fraction, number)[1]
          /\ data[12 + 2] = LossWord(fraction, number)[2]
          /\ data[12 + 3] = LossWord(fraction, number)[3]
          /\ data[12 + 4] = LossWord(fraction, number)[4]
      <4>1. \A i \in 1 .. 4 : data[12 + i] = LossWord(fraction, number)[i]
        BY <1>1, <2>1, RrBytes
      <4> QED BY <4>1
    <3> QED BY <3>1, <3>2
  <2>8. (data[14] * 256 + data[15]) * 256 + data[16] = number % LossSpace
    <3>1. (((number \div 65536) % 256) * 256 + ((number \div 256) % 256)) * 256 + (number % 256)
            = number % LossSpace
      BY <1>1, LossBytes
    <3> QED BY <2>7, <3>1
  <2> QED BY <2>6, <2>7, <2>8
<1> QED BY <1>5, <1>6, <1>7

LEMMA WireStep ==
    ASSUME WireInv, [WireNext]_wireVars
    PROVE  WireInv'
<1>1. ASSUME NEW h \in Headers, NEW payload \in Payloads, BuildRtp(h, payload) PROVE WireInv'
  BY <1>1, WireBuildsRtp
<1>2. ASSUME NEW kind \in {"sr", "rr", "bye"}, NEW ssrc \in Ssrc, NEW remote \in Ssrc,
             NEW fraction \in {0, 255}, NEW number \in Losses,
             BuildRtcp(kind, ssrc, remote, fraction, number)
      PROVE  WireInv'
  BY <1>2, WireBuildsRtcp
<1>3. ASSUME NEW n \in 0 .. 40, Cut(n) PROVE WireInv'
  BY <1>3 DEF Cut, WireInv
<1>4. ASSUME NEW byte \in 0 .. 255, Garble(byte) PROVE WireInv'
  <2>1. datagram \in Seq(Byte) /\ byte \in Byte
    BY DEF WireInv, Byte
  <2>2. [datagram EXCEPT ![1] = byte] \in Seq(Byte)
    <3>1. PICK n \in Nat : datagram \in [1 .. n -> Byte]
      BY <2>1
    <3>2. [datagram EXCEPT ![1] = byte] \in Word(n)
      BY <2>1, <3>1 DEF Word
    <3> QED BY <3>2, WordIsSequence
  <2> QED BY <1>4, <2>2 DEF Garble, WireInv
<1>5. CASE UNCHANGED wireVars
  BY <1>5, Zenon DEF wireVars, WireInv, ReportAgreed
<1> QED BY <1>1, <1>2, <1>3, <1>4, <1>5 DEF WireNext

\* What to_bytes and the three report builders write is what parse, parse_rtp
\* and parse_rtcp read, whatever the header, its CSRCs, its extension and its
\* payload; and off any datagram, whole, cut or garbled, srtp.rs reads the
\* header where header.rs does and refuses what it refuses.
THEOREM WireAlwaysAgrees == WireSpec => []WireAgreed
<1>1. WireInit => WireInv
  BY DEF WireInit, WireInv
<1>2. WireInv /\ [WireNext]_wireVars => WireInv'
  BY WireStep
<1>3. WireInv => WireAgreed
  <2> SUFFICES ASSUME WireInv PROVE WireAgreed
    OBVIOUS
  <2>1. datagram \in Seq(Byte)
    BY DEF WireInv
  <2>2. ASSUME datagram # <<>>, Bits(datagram[1], 64, 4) = 2
        PROVE  IF parse(datagram) = NoHeader THEN rtp_header_len(datagram) = -1
               ELSE rtp_header_len(datagram) = header_length(parse(datagram))
    <3>1. CASE Refused(datagram)
      <4>1. parse(datagram) = NoHeader
        BY <3>1, Zenon DEF parse
      <4>2. rtp_header_len(datagram) = -1
        BY <2>1, <2>2, <3>1, RefusedAlike
      <4> QED BY <4>1, <4>2
    <3>2. CASE ~Refused(datagram)
      <4>1. parse(datagram) = Fields(datagram)
        BY <3>2, Zenon DEF parse
      <4>2. Fields(datagram) \in Header /\ header_length(Fields(datagram)) = rtp_header_len(datagram)
        BY <2>1, <3>2, ParsedIsHeader
      <4>3. parse(datagram) # NoHeader
        BY <4>1, <4>2, HeadersAssumption
      <4> QED BY <4>1, <4>2, <4>3
    <3> QED BY <3>1, <3>2
  <2> QED BY <2>2, Zenon DEF WireInv, WireAgreed
<1> QED BY <1>1, <1>2, <1>3, PTL DEF WireSpec
=============================================================================
