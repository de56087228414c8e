----------------------------- MODULE DtmfStream -----------------------------
(***************************************************************************)
(* Digits from one headless stream to another: StreamSend, a network that  *)
(* loses, duplicates and reorders, and the part of StreamCore's admit that *)
(* turns event packets into digits (StreamReceive has the rest of it).     *)
(***************************************************************************)
EXTENDS StreamSend

INSTANCE WrappingTime

CONSTANT Reorder  \* bound: how far behind the newest one a packet may arrive

ASSUME ReorderAssumption == Reorder \in Nat

VARIABLES
    last_dtmf_timestamp,  \* of the last digit reported, or NoDigit
    newest,               \* position in sent of the newest packet delivered
    newestPress,          \* history: the newest press delivered, or 0
    reported              \* history: the digits reported, in order

receiverVars == <<last_dtmf_timestamp, newest, newestPress, reported>>
dtmfVars == <<sendVars, receiverVars>>

DtmfInit ==
    /\ SendInit
    /\ last_dtmf_timestamp = NoDigit
    /\ newest = 0
    /\ newestPress = 0
    /\ reported = <<>>

\* An event packet is a new press unless it is not newer than the last one.
AdmitDtmf(packet) ==
    IF last_dtmf_timestamp = NoDigit \/ After(packet.ts, last_dtmf_timestamp)
    THEN /\ last_dtmf_timestamp' = packet.ts
         /\ reported' = Append(reported, packet.press)
    ELSE UNCHANGED <<last_dtmf_timestamp, reported>>

\* A packet arrives: in order, after losses, late, or again.
Deliver(i) ==
    /\ i >= newest - Reorder
    /\ newest' = IF i > newest THEN i ELSE newest
    /\ newestPress' = IF sent[i].press > newestPress THEN sent[i].press
                      ELSE newestPress
    /\ IF sent[i].press > 0 THEN AdmitDtmf(sent[i])
       ELSE UNCHANGED <<last_dtmf_timestamp, reported>>
    /\ UNCHANGED sendVars

DtmfNext ==
    \/ SendNext /\ UNCHANGED receiverVars
    \/ \E i \in DOMAIN sent : Deliver(i)

DtmfSpec == DtmfInit /\ [][DtmfNext]_dtmfVars

-----------------------------------------------------------------------------

\* One press is reported once, in order, however its packets arrive, and as
\* soon as one of them arrives before those of a later press.
DigitsOnce ==
    /\ \A i, j \in DOMAIN reported : i < j => reported[i] < reported[j]
    /\ newestPress > 0 => /\ reported # <<>>
                          /\ reported[Len(reported)] = newestPress
=============================================================================
