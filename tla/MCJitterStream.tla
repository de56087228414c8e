--------------------------- MODULE MCJitterStream ---------------------------
(***************************************************************************)
(* Model checking of JitterStream under three kinds of conditions.         *)
(***************************************************************************)
EXTENDS JitterStream

\* A network that loses, duplicates and reorders; no rollover.
Reordering == {[first |-> 2, reorder |-> 1, gap |-> 2, restarts |-> 0,
                numbers |-> 6, deliveries |-> 7]}

\* Loss and duplication while the sequence rolls over.
RollingOver == [first : {13, 14}, reorder : {0}, gap : {1}, restarts : {0},
                numbers : {7}, deliveries : {7}]

\* A sender that restarts its sequence, over a network that only duplicates.
Restarting == [first : {14}, reorder : {0}, gap : {0}, restarts : {1},
               numbers : {10}, deliveries : {11}]

MCNetworks == Reordering \cup RollingOver \cup Restarting

\* Reordering across a rollover.
LateRolloverNetworks == {[first |-> 14, reorder |-> 2, gap |-> 2,
                          restarts |-> 0, numbers |-> 6, deliveries |-> 7]}
=============================================================================
