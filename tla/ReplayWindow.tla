---------------------------- MODULE ReplayWindow ----------------------------
(***************************************************************************)
(* The sliding replay window of src/srtp.rs: the highest packet index      *)
(* authenticated so far and which of the WindowSize indices at and below   *)
(* it have been seen.  The code's 64-bit map is the set of its set bits:   *)
(* offset o stands for index highest - o.                                  *)
(***************************************************************************)
EXTENDS Integers

CONSTANTS
    WindowSize,  \* REPLAY_WINDOW
    None         \* Option::None

ASSUME WindowAssumption == WindowSize \in Nat \ {0}
ASSUME NoneAssumption == None \notin Nat

Offset == 0 .. WindowSize - 1

Window == [highest : Nat \cup {None}, seen : SUBSET Offset]

EmptyWindow == [highest |-> None, seen |-> {}]

\* Mutants: what is behind the highest index is refused, or is let in unseen
\* or not.
admitsNewer(window, index) ==
    window.highest # None => index > window.highest
admitsUnchecked(window, index) ==
    window.highest # None =>
        index > window.highest \/ window.highest - index < WindowSize

\* Newer than anything seen, or inside the window and not yet seen.
admits(window, index) ==
    window.highest # None =>
        \/ index > window.highest
        \/ /\ window.highest - index < WindowSize
           /\ window.highest - index \notin window.seen

\* A mutant: the map is not shifted when the highest index moves.
acceptUnshifted(window, index) ==
    IF window.highest # None /\ index <= window.highest
    THEN [window EXCEPT !.seen = @ \cup {window.highest - index}]
    ELSE [highest |-> index, seen |-> window.seen \cup {0}]

\* The window once index, which it admits, has been received.
accept(window, index) ==
    IF window.highest = None
    THEN [highest |-> index, seen |-> {0}]
    ELSE IF index <= window.highest
    THEN [window EXCEPT !.seen = @ \cup {window.highest - index}]
    ELSE [highest |-> index,
          seen |-> {o \in Offset : o - (index - window.highest) \in window.seen}
                      \cup {0}]

\* What a window stands for: the highest of the indices received (A), and
\* exactly those of them that are no further behind than the map reaches.
Represents(window, A) ==
    IF window.highest = None
    THEN A = {} /\ window.seen = {}
    ELSE /\ window.highest \in A
         /\ \A i \in A : i <= window.highest
         /\ \A o \in Offset : o \in window.seen <=> window.highest - o \in A
=============================================================================
