----------------------------- MODULE SenderRoc ------------------------------
(***************************************************************************)
(* The rollover counter of an SRTP sender, src/srtp.rs: how protect_rtp    *)
(* counts the wraps of the sequence numbers it is given.                   *)
(***************************************************************************)
EXTENDS Integers

CONSTANTS
    SeqSpace,  \* number of sequence numbers, 2^16
    RocSpace   \* number of rollover counters, 2^32

ASSUME RocAssumption == SeqSpace \in Nat \ {0} /\ RocSpace \in Nat \ {0}

SeqNumber == 0 .. SeqSpace - 1
Roc == 0 .. RocSpace - 1
SendState == [roc : Roc, s_l : SeqNumber, initialized : BOOLEAN]

NewSendState == [roc |-> 0, s_l |-> 0, initialized |-> FALSE]

\* A mutant: the counter never moves.
NextRocNever(state, seq) == state.roc

\* The counter moves when, and only when, 0 is protected right after the
\* last number of a cycle.
NextRoc(state, seq) ==
    IF state.initialized /\ seq = 0 /\ state.s_l = SeqSpace - 1
    THEN (state.roc + 1) % RocSpace
    ELSE state.roc

\* The send state once seq has been protected.
Protected(state, seq) ==
    [roc |-> NextRoc(state, seq), s_l |-> seq, initialized |-> TRUE]
=============================================================================
