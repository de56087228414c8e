---------------------------- MODULE JitterStream ----------------------------
(***************************************************************************)
(* The jitter buffer fed by one RTP stream over a network that loses,      *)
(* duplicates and reorders, and drained by the receive loop's 20 ms tick.  *)
(*                                                                         *)
(* The sender numbers its packets 0, 1, 2... (the number is the packet's   *)
(* timestamp too) and puts (first_seq + number) modulo SeqSpace on the     *)
(* wire.  A sender that restarts its sequence moves first_seq.  Neither    *)
(* receive loop calls reset or flush on a running stream of one SSRC, so   *)
(* they are not part of this composition.                                  *)
(***************************************************************************)
EXTENDS JitterBuffer

CONSTANTS
    Jumps,     \* by how much a restarting sender moves its sequence
    MaxNumber, \* bound: highest packet number sent
    Networks   \* conditions to consider, one of which governs a behaviour

\* The conditions a stream meets: the sequence number the sender starts from,
\* how far behind the newest one a packet may arrive, how many packets are
\* skipped (lost, or still to come) at a time, how often the sender restarts,
\* and bounds on the packets sent and delivered.
Network == [first : SeqNumber, reorder : Nat, gap : Nat, restarts : Nat,
            numbers : 0 .. MaxNumber, deliveries : Nat]

ASSUME StreamAssumption ==
    /\ Jumps \subseteq SeqNumber
    /\ MaxNumber \in Nat /\ MaxNumber < TsSpace
    /\ Networks \subseteq Network

VARIABLES
    net,         \* the conditions of this behaviour
    first_seq,   \* sequence number of packet 0 (in the current numbering)
    oldest,      \* first packet sent since the sender last restarted
    newest,      \* newest packet delivered, -1 before the first
    restarts,    \* how often the sender has restarted
    lastPlayed,  \* history: the last packet played, -1 before the first
    lateRun      \* history: new packets dropped as late since one was buffered
                 \* or the sender restarted

envVars == <<net, first_seq, oldest, newest, restarts>>
streamVars == <<vars, envVars, lastPlayed, lateRun>>

StreamInit ==
    /\ Init
    /\ net \in Networks
    /\ first_seq = net.first
    /\ oldest = 0
    /\ newest = -1
    /\ restarts = 0
    /\ lastPlayed = -1
    /\ lateRun = 0

SeqOf(number) == (first_seq + number) % SeqSpace

\* Packet number arrives: a new one, an old one out of order, or a copy.
Deliver(number) ==
    /\ stats.received < net.deliveries
    /\ \/ /\ PushLate(SeqOf(number), number)
          /\ lateRun' = IF number > newest THEN lateRun + 1 ELSE lateRun
       \/ PushBuffered(SeqOf(number), number) /\ lateRun' = 0
    /\ newest' = IF number > newest THEN number ELSE newest
    /\ UNCHANGED <<net, first_seq, oldest, restarts, lastPlayed>>

Arrivals ==
    {n \in oldest .. net.numbers :
        n >= newest - net.reorder /\ n <= newest + 1 + net.gap}

\* The sender starts its sequence over somewhere else.  Packets sent before
\* are gone from the network.
Restart(jump) ==
    /\ restarts < net.restarts
    /\ newest >= oldest
    /\ first_seq' = (first_seq + jump) % SeqSpace
    /\ oldest' = newest + 1
    /\ restarts' = restarts + 1
    /\ lateRun' = 0
    /\ UNCHANGED <<vars, net, newest, lastPlayed>>

PlayTick ==
    /\ Pop
    /\ lastPlayed' = IF out' # None /\ ~out'.synthesized
                     THEN out'.timestamp ELSE lastPlayed
    /\ UNCHANGED <<envVars, lateRun>>

Clock == Tick /\ UNCHANGED <<envVars, lastPlayed, lateRun>>

StreamNext ==
    \/ \E number \in Arrivals : Deliver(number)
    \/ \E jump \in Jumps : Restart(jump)
    \/ PlayTick
    \/ Clock

\* The receive loop's interval keeps ticking and time keeps passing.
Fairness == WF_streamVars(PlayTick) /\ WF_streamVars(Clock)

StreamSpec == StreamInit /\ [][StreamNext]_streamVars /\ Fairness

-----------------------------------------------------------------------------

\* The buffer keeps the promise of OrderedPlayout to a sender that does not
\* restart: every packet played at most once and in sending order, whatever
\* the network did to them.
Steady == net.restarts = 0
Promise == INSTANCE OrderedPlayout WITH
              Numbers <- 0 .. MaxNumber,
              pending <- IF Steady THEN {packets[k] : k \in Keys} ELSE {},
              last <- IF Steady THEN lastPlayed ELSE -1
ImplementsOrderedPlayout == Promise!Spec

\* Playout starts over only when the sender restarted its sequence (the
\* comment in push_at says that is what such a packet means).
RestartOnlyAfterSender ==
    [][playout_seq # None /\ playout_seq' = None => restarts > 0]_vars

\* A sender's restart silences a stream that loses nothing for at most three
\* buffers' worth of packets (one the new sequence is behind; one concealed
\* and one played out of the old sequence meanwhile), instead of having every
\* later packet of the call dropped as late.
ResyncBounded == restarts <= 1 => lateRun <= 3 * discontinuity

\* What is buffered is played or given up sooner or later: once packets stop
\* arriving (deliveries are bounded) the receive loop's polling empties the
\* buffer, from every state.
EveryPacketLeaves == []<>(Keys = {})
=============================================================================
