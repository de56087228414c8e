--------------------------- MODULE OrderedPlayout ---------------------------
(***************************************************************************)
(* What a playout buffer promises its listener, without sequence numbers,  *)
(* keys or timing: of the packets of one stream, numbered in the order the *)
(* sender sent them, each is played at most once and never after a later   *)
(* one.  Packets may be refused and the oldest may be given up.            *)
(***************************************************************************)
EXTENDS Integers, FiniteSetsExt

CONSTANT Numbers  \* the packets the sender may send

VARIABLES
    pending,  \* packets accepted and not yet played
    last      \* the last packet played, -1 before the first

vars == <<pending, last>>

Init == pending = {} /\ last = -1

\* A packet not yet overtaken comes in, perhaps in place of the oldest one.
Accept(i) ==
    /\ i > last
    /\ \/ pending' = pending \cup {i}
       \/ pending # {} /\ pending' = (pending \ {Min(pending)}) \cup {i}
    /\ UNCHANGED last

\* The earliest pending packet is played.
Play ==
    /\ pending # {}
    /\ Min(pending) > last
    /\ last' = Min(pending)
    /\ pending' = pending \ {last'}

Next == (\E i \in Numbers : Accept(i)) \/ Play

Spec == Init /\ [][Next]_vars
=============================================================================
