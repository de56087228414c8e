------------------------------- MODULE MCCall -------------------------------
(***************************************************************************)
(* Model checking of two things an application does during a call: record  *)
(* it (SessionAudio, a media session) and dial (DtmfStream, a headless     *)
(* stream).                                                                *)
(*                                                                         *)
(* They share no state, so their behaviours are checked side by side: part *)
(* says which of them moves.                                               *)
(***************************************************************************)
EXTENDS SessionAudio, DtmfStream

VARIABLE part

MCVars == <<part, vars, dtmfVars>>

CONSTANT MaxRxFrames  \* bound: received frames, in a call that is recorded

MCInit == part \in {"recorded", "played", "dtmf"} /\ Init /\ DtmfInit

\* With recordings, or with a longer stream to play and none.
Audio ==
    /\ Next
    /\ \/ part = "recorded" /\ frames'["rx"] <= MaxRxFrames
       \/ part = "played" /\ recorders' = 0

MCNext ==
    \/ part \in {"recorded", "played"} /\ Audio /\ UNCHANGED <<part, dtmfVars>>
    \/ part = "dtmf" /\ DtmfNext /\ UNCHANGED <<part, vars>>

MCSpec == MCInit /\ [][MCNext]_MCVars
=============================================================================
