----------------------------- MODULE SrtpStream -----------------------------
(***************************************************************************)
(* Srtp under two kinds of traffic.                                        *)
(*                                                                         *)
(* Any: what Srtp allows, every sequence number in any order, forgeries.   *)
(* Orderly: one sender protects consecutive sequence numbers and a network *)
(* with bounded loss and reordering brings them to one receiver: do both   *)
(* ends keep the same rollover counter?                                    *)
(***************************************************************************)
EXTENDS Srtp, Sequences

CONSTANTS
    FirstSeqs,  \* sequence numbers the sender may start from
    Reorder,    \* bound: how far behind the newest one a packet may arrive
    Gap,        \* bound: packets lost in a row
    MaxAny      \* bound: packets protected, in traffic of any kind

ASSUME StreamAssumption ==
    /\ FirstSeqs \subseteq SeqNumber
    /\ Reorder \in Nat
    /\ Gap \in Nat
    /\ MaxAny \in Nat

VARIABLES
    orderly,    \* the kind of traffic
    first_seq,  \* the sender's first sequence number
    sent,       \* the packets, in the order they were protected
    newest      \* position in sent of the newest packet delivered

streamVars == <<vars, orderly, first_seq, sent, newest>>

StreamInit ==
    /\ Init
    /\ orderly \in BOOLEAN
    /\ first_seq \in IF orderly THEN FirstSeqs ELSE {0}
    /\ sent = <<>>
    /\ newest = 0

\* Anything at all is protected, delivered or made up.
AnyTraffic ==
    /\ ~orderly
    /\ Next
    /\ Cardinality(wire') <= MaxAny
    /\ UNCHANGED <<orderly, first_seq, sent, newest>>

\* The next packet of the only source is protected.
Send(ssrc) ==
    LET seq == (first_seq + Len(sent)) % SeqSpace
    IN  /\ orderly
        /\ \A i \in DOMAIN sent : sent[i].ssrc = ssrc
        /\ protect_rtp(ssrc, seq)
        /\ sent' = Append(sent, [ssrc |-> ssrc, seq |-> seq,
                                 roc |-> tx'[ssrc].roc])
        /\ UNCHANGED <<orderly, first_seq, newest>>

\* A packet arrives: the next, one after a gap, a late one or a copy.
Deliver(i) ==
    /\ orderly
    /\ i >= newest - Reorder
    /\ i <= newest + 1 + Gap
    /\ unprotect_rtp(sent[i])
    /\ newest' = IF i > newest THEN i ELSE newest
    /\ UNCHANGED <<orderly, first_seq, sent>>

StreamNext ==
    \/ AnyTraffic
    \/ \E ssrc \in Sources : Send(ssrc)
    \/ \E i \in DOMAIN sent : Deliver(i)

StreamSpec == StreamInit /\ [][StreamNext]_streamVars

-----------------------------------------------------------------------------

\* Every packet of an orderly sender authenticates, across any number of rollovers,
\* losses and late arrivals: both ends agree on the rollover counter.
GenuineAuthenticates == orderly => result.kind # "srtp"
=============================================================================
