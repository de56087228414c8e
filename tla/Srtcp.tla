------------------------------- MODULE Srtcp --------------------------------
(***************************************************************************)
(* SRTCP protection of RTCP packets, src/srtp.rs.  The index travels in    *)
(* the packet, so nothing is estimated: a receiver authenticates, bounds   *)
(* its sources and consults a replay window per source.                    *)
(*                                                                         *)
(* Cryptography is ideal, as in Srtp: a packet is its source and index,    *)
(* and a forged one (genuine = FALSE) never authenticates.                 *)
(***************************************************************************)
EXTENDS ReplayWindow, FiniteSets

CONSTANTS
    Sources,     \* SSRCs that send
    IndexSpace,  \* number of SRTCP indices, 2^31
    MaxSources   \* MAX_RX_SOURCES

ASSUME SrtcpAssumption ==
    /\ IndexSpace \in Nat \ {0}
    /\ MaxSources \in Nat

SrtcpIndex == 0 .. IndexSpace - 1

VARIABLES
    srtcp_index,  \* source -> index of its next packet
    rtcp_rx,      \* remembered source -> replay window
    wire,         \* packets protected so far
    accepted,     \* history: source -> indices accepted
    accepts       \* history: source -> packets accepted

srtcpVars == <<srtcp_index, rtcp_rx, wire, accepted, accepts>>

SrtcpInit ==
    /\ srtcp_index = [s \in Sources |-> 0]
    /\ rtcp_rx = [s \in {} |-> EmptyWindow]
    /\ wire = {}
    /\ accepted = [s \in Sources |-> {}]
    /\ accepts = [s \in Sources |-> 0]

\* The index moves on even for a packet that is then lost; it wraps.
protect_rtcp(ssrc) ==
    /\ srtcp_index' = [srtcp_index EXCEPT ![ssrc] = (@ + 1) % IndexSpace]
    /\ wire' = wire \cup {[ssrc |-> ssrc, index |-> srtcp_index[ssrc],
                           genuine |-> TRUE]}
    /\ UNCHANGED <<rtcp_rx, accepted, accepts>>

WindowOf(ssrc) == IF ssrc \in DOMAIN rtcp_rx THEN rtcp_rx[ssrc] ELSE EmptyWindow

\* A mutant: one source more than the bound.
TooManySourcesLate(ssrc) ==
    ssrc \notin DOMAIN rtcp_rx /\ Cardinality(DOMAIN rtcp_rx) > MaxSources

TooManySources(ssrc) ==
    ssrc \notin DOMAIN rtcp_rx /\ Cardinality(DOMAIN rtcp_rx) >= MaxSources

Acceptable(packet) ==
    /\ packet.genuine
    /\ ~TooManySources(packet.ssrc)
    /\ admits(WindowOf(packet.ssrc), packet.index)

\* An accepted packet enters the window of its source.
RtcpAccepted(packet) ==
    LET window == WindowOf(packet.ssrc)
    IN  /\ Acceptable(packet)
        /\ rtcp_rx' = [s \in DOMAIN rtcp_rx \cup {packet.ssrc} |->
                          IF s = packet.ssrc THEN accept(window, packet.index)
                          ELSE rtcp_rx[s]]
        /\ accepted' = [accepted EXCEPT ![packet.ssrc] = @ \cup {packet.index}]
        /\ accepts' = [accepts EXCEPT ![packet.ssrc] = @ + 1]
        /\ UNCHANGED <<srtcp_index, wire>>

\* A forged packet, one source too many, or a replay: an error, no change.
RtcpRefused(packet) == ~Acceptable(packet) /\ UNCHANGED srtcpVars

unprotect_rtcp(packet) == RtcpAccepted(packet) \/ RtcpRefused(packet)

Forged == [ssrc : Sources, index : SrtcpIndex, genuine : {FALSE}]

SrtcpNext ==
    \/ \E ssrc \in Sources : protect_rtcp(ssrc)
    \/ \E packet \in wire \cup Forged : unprotect_rtcp(packet)

-----------------------------------------------------------------------------

\* Whatever is lost, reordered, replayed or forged, no SRTCP index of a source
\* is accepted twice, each source's window is an exact record of what was
\* accepted from it, all of that was protected by the source, and no source
\* is forgotten for another, as there are never more windows than the bound.
RtcpReplayExact ==
    /\ Cardinality(DOMAIN rtcp_rx) <= MaxSources
    /\ \A s \in Sources :
          /\ accepts[s] = Cardinality(accepted[s])
          /\ Represents(WindowOf(s), accepted[s])
          /\ accepted[s] # {} => s \in DOMAIN rtcp_rx
          /\ \A i \in accepted[s] :
                [ssrc |-> s, index |-> i, genuine |-> TRUE] \in wire
=============================================================================
