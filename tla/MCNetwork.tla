----------------------------- MODULE MCNetwork ------------------------------
(***************************************************************************)
(* Model checking of what a session has on the network besides its media:  *)
(* statistics and the RTCP task, SRTCP, the STUN client, setting sessions  *)
(* up, and the bytes of RTP and RTCP packets.                              *)
(*                                                                         *)
(* They share no state, so their behaviours are checked side by side: part *)
(* says which of them moves.  The statistics are checked twice, on a long  *)
(* stream without the rest and with everything on a short one.             *)
(***************************************************************************)
EXTENDS SessionRtcp, Srtcp, Stun, SessionSetup, RtpWire

CONSTANT MaxShort    \* bound: highest packet number with everything

VARIABLE part

vars == <<part, rtcpVars, srtcpVars, stunVars, setupVars, wireVars>>

MCHeaders ==
    {[padding |-> FALSE, extension |-> e # <<>>, marker |-> m, payload_type |-> pt,
      sequence |-> <<255, 254>>, timestamp |-> <<1, 2, 3, 4>>, ssrc |-> <<9, 8, 7, 6>>,
      csrc |-> c, extension_data |-> e] :
        m \in BOOLEAN, pt \in {72, 127},
        c \in {<<>>, <<<<1, 0, 0, 1>>, <<2, 0, 0, 2>>>>},
        e \in {<<>>, <<190, 222, 0, 0>>, <<190, 222, 0, 1, 4, 5, 6, 7>>}}

MCPayloads == {<<>>, <<7>>, <<1, 2, 3, 4, 5>>}
MCSsrc == {<<0, 0, 0, 0>>, <<255, 1, 2, 3>>}
MCLosses == {0, 1, 2^24 - 1, 2^24}

Init ==
    /\ part \in {"counting", "rtcp", "srtcp", "stun", "setup", "wire"}
    /\ RtcpInit /\ SrtcpInit /\ StunInit /\ SetupInit /\ WireInit

\* A long stream: nobody stops the session, and all that comes is the media.
Counting == RtcpNext /\ heard' = 0 /\ learned' # "other" /\ serving'

Reporting == RtcpNext /\ arrived' \subseteq 0 .. MaxShort

Next ==
    \/ /\ part = "counting" /\ Counting
       /\ UNCHANGED <<part, srtcpVars, stunVars, setupVars, wireVars>>
    \/ /\ part = "rtcp" /\ Reporting
       /\ UNCHANGED <<part, srtcpVars, stunVars, setupVars, wireVars>>
    \/ /\ part = "srtcp" /\ SrtcpNext
       /\ UNCHANGED <<part, rtcpVars, stunVars, setupVars, wireVars>>
    \/ /\ part = "stun" /\ StunNext
       /\ UNCHANGED <<part, rtcpVars, srtcpVars, setupVars, wireVars>>
    \/ /\ part = "setup" /\ SetupNext
       /\ UNCHANGED <<part, rtcpVars, srtcpVars, stunVars, wireVars>>
    \/ /\ part = "wire" /\ WireNext
       /\ UNCHANGED <<part, rtcpVars, srtcpVars, stunVars, setupVars>>

\* The tasks of a running session go on, and so does discovery.
Spec ==
    /\ Init /\ [][Next]_vars
    /\ WF_vars(part = "rtcp" /\ RtcpTask /\ UNCHANGED <<part, srtcpVars, stunVars, setupVars, wireVars>>)
    /\ WF_vars(part = "stun" /\ Discover /\ UNCHANGED <<part, rtcpVars, srtcpVars, setupVars, wireVars>>)
    /\ \A s \in Sessions :
          WF_vars(part = "setup" /\ TaskEnds(s) /\ UNCHANGED <<part, rtcpVars, srtcpVars, stunVars, wireVars>>)
=============================================================================
