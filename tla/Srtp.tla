-------------------------------- MODULE Srtp --------------------------------
(***************************************************************************)
(* SRTP protection of RTP packets, src/srtp.rs: the rollover counter a     *)
(* sender derives from its sequence numbers, and a receiver's per-source   *)
(* state (estimated rollover counter and replay window).                   *)
(*                                                                         *)
(* Cryptography is ideal: a protected packet is its source, its sequence   *)
(* number and the rollover counter its tag was computed with; a receiver   *)
(* accepts the tag exactly when it estimates that counter.  A forged or    *)
(* damaged packet carries no counter (None) and never authenticates, which *)
(* is also how malformed packets end (Error::Srtp, no state touched).      *)
(*                                                                         *)
(* Each source protects with a context of its own, all under the key of    *)
(* one receiving context.  The wire keeps everything ever protected:       *)
(* packets are lost, duplicated, delayed and reordered at will.            *)
(***************************************************************************)
EXTENDS ReplayWindow, SenderRoc, FiniteSets

CONSTANTS
    Sources,     \* SSRCs that send
    MaxSources,  \* MAX_RX_SOURCES
    MaxWire      \* bound: packets protected

ASSUME SrtpAssumption ==
    /\ MaxSources \in Nat
    /\ MaxWire \in Nat

RecvState == [roc : Roc, s_l : SeqNumber, window : Window]
Packet == [ssrc : Sources, seq : SeqNumber, roc : Roc \cup {None}]
Index(roc, seq) == roc * SeqSpace + seq

VARIABLES
    tx,        \* source -> send state
    rx,        \* remembered source -> receive state
    wire,      \* packets protected so far
    accepted,  \* history: source -> indices unprotect_rtp has accepted
    accepts,   \* history: source -> how often unprotect_rtp has accepted
    result     \* what the last unprotect_rtp returned, and for which index

vars == <<tx, rx, wire, accepted, accepts, result>>

Kind == {"none", "ok", "replay", "srtp"}

TypeOK ==
    /\ tx \in [Sources -> SendState]
    /\ \E S \in SUBSET Sources : rx \in [S -> RecvState]
    /\ wire \in SUBSET Packet
    /\ accepted \in [Sources -> SUBSET Nat]
    /\ accepts \in [Sources -> Nat]
    /\ result \in [kind : Kind, ssrc : Sources \cup {None}, index : Nat]

Init ==
    /\ tx = [s \in Sources |-> NewSendState]
    /\ rx = [s \in {} |-> 0]
    /\ wire = {}
    /\ accepted = [s \in Sources |-> {}]
    /\ accepts = [s \in Sources |-> 0]
    /\ result = [kind |-> "none", ssrc |-> None, index |-> 0]

-----------------------------------------------------------------------------
(* protect_rtp *)

protect_rtp(ssrc, seq) ==
    /\ Cardinality(wire) < MaxWire
    /\ tx' = [tx EXCEPT ![ssrc] = Protected(@, seq)]
    /\ wire' = wire \cup {[ssrc |-> ssrc, seq |-> seq,
                           roc |-> NextRoc(tx[ssrc], seq)]}
    /\ UNCHANGED <<rx, accepted, accepts, result>>

-----------------------------------------------------------------------------
(* unprotect_rtp *)

NewRecvState == [roc |-> 0, s_l |-> 0, window |-> EmptyWindow]

StateOf(ssrc) == IF ssrc \in DOMAIN rx THEN rx[ssrc] ELSE NewRecvState

\* The counter a packet most likely carries, from the highest index seen.
estimate_roc(state, seq) ==
    IF state.window.highest = None THEN state.roc
    ELSE IF seq - state.s_l > SeqSpace \div 2
    THEN (state.roc + RocSpace - 1) % RocSpace
    ELSE IF seq - state.s_l < -(SeqSpace \div 2)
    THEN (state.roc + 1) % RocSpace
    ELSE state.roc

EstimatedIndex(packet) ==
    Index(estimate_roc(StateOf(packet.ssrc), packet.seq), packet.seq)

TooManySources(ssrc) ==
    ssrc \notin DOMAIN rx /\ Cardinality(DOMAIN rx) >= MaxSources

\* A mutant: the tag is not verified.
AuthenticatesAnything(packet) == TRUE

Authenticates(packet) ==
    packet.roc = estimate_roc(StateOf(packet.ssrc), packet.seq)

\* The receive state once a packet has been accepted: the counter follows
\* only a new highest index, so a late packet does not rewind it.
Advanced(state, roc, seq) ==
    LET index == Index(roc, seq)
        newer == state.window.highest = None \/ index > state.window.highest
    IN  [roc    |-> IF newer THEN roc ELSE state.roc,
         s_l    |-> IF newer THEN seq ELSE state.s_l,
         window |-> accept(state.window, index)]

remember_source(ssrc, state) ==
    rx' = [s \in DOMAIN rx \cup {ssrc} |-> IF s = ssrc THEN state ELSE rx[s]]

Returns(kind, packet) ==
    result' = [kind |-> kind, ssrc |-> packet.ssrc,
               index |-> EstimatedIndex(packet)]

\* Refused before anything is learnt from it.
UnprotectFails(packet) ==
    /\ TooManySources(packet.ssrc) \/ ~Authenticates(packet)
    /\ Returns("srtp", packet)
    /\ UNCHANGED <<tx, rx, wire, accepted, accepts>>

UnprotectReplayed(packet) ==
    /\ ~TooManySources(packet.ssrc)
    /\ Authenticates(packet)
    /\ ~admits(StateOf(packet.ssrc).window, EstimatedIndex(packet))
    /\ Returns("replay", packet)
    /\ UNCHANGED <<tx, rx, wire, accepted, accepts>>

UnprotectAccepted(packet) ==
    LET state == StateOf(packet.ssrc)
    IN  /\ ~TooManySources(packet.ssrc)
        /\ Authenticates(packet)
        /\ admits(state.window, EstimatedIndex(packet))
        /\ remember_source(packet.ssrc,
               Advanced(state, estimate_roc(state, packet.seq), packet.seq))
        /\ accepted' = [accepted EXCEPT ![packet.ssrc] =
                           @ \cup {EstimatedIndex(packet)}]
        /\ accepts' = [accepts EXCEPT ![packet.ssrc] = @ + 1]
        /\ Returns("ok", packet)
        /\ UNCHANGED <<tx, wire>>

unprotect_rtp(packet) ==
    \/ UnprotectFails(packet)
    \/ UnprotectReplayed(packet)
    \/ UnprotectAccepted(packet)

-----------------------------------------------------------------------------

Forged == [ssrc : Sources, seq : SeqNumber, roc : {None}]

Next ==
    \/ \E ssrc \in Sources, seq \in SeqNumber : protect_rtp(ssrc, seq)
    \/ \E packet \in wire \cup Forged : unprotect_rtp(packet)

Spec == Init /\ [][Next]_vars

-----------------------------------------------------------------------------
(* Properties *)

\* No packet index of a source is ever accepted twice: neither a copy, nor a
\* late packet after the window has moved, nor a source that comes back.
AcceptedOnce == \A s \in Sources : accepts[s] = Cardinality(accepted[s])

\* A packet is called a replay only if its index was accepted before or has
\* fallen out of the window: the window never refuses a first arrival.
NoFalseReplay ==
    result.kind = "replay" =>
        \/ result.index \in accepted[result.ssrc]
        \/ /\ result.ssrc \in DOMAIN rx
           /\ rx[result.ssrc].window.highest - result.index >= WindowSize

\* Each source's replay window is an exact record of what was accepted from
\* it, as far back as the window reaches, through every shift and late packet.
WindowExact ==
    \A s \in Sources : Represents(StateOf(s).window, accepted[s])

\* The counter and sequence number kept per source are those of the highest
\* index accepted from it: estimates are never made against a late packet.
RocOfHighest ==
    \A s \in DOMAIN rx :
        rx[s].window.highest = Index(rx[s].roc, rx[s].s_l)

\* What is accepted was protected by its source with exactly that index:
\* a forged packet never gets in and never moves a window.
AcceptedWasSent ==
    \A s \in Sources : \A i \in accepted[s] :
        \E p \in wire : p.ssrc = s /\ p.roc # None /\ Index(p.roc, p.seq) = i

\* Sources are bounded, and one that was heard is never forgotten, so its
\* window is never blank again.
SourcesKept ==
    /\ Cardinality(DOMAIN rx) <= MaxSources
    /\ \A s \in Sources : accepted[s] # {} => s \in DOMAIN rx
=============================================================================
