--------------------------- MODULE VoiceProcessor ---------------------------
(***************************************************************************)
(* The voice processor of one call, src/audio_proc/processor.rs and        *)
(* frame.rs: the microphone and the speaker thread negotiate one sample    *)
(* rate, then cut what their callbacks bring into frames of exactly 10 ms  *)
(* for the echo canceller.  Either may reopen its device at any time, and  *)
(* its old callback runs until the new one is in place.                    *)
(*                                                                         *)
(* The state is behind a lock that a callback holds for reading while it   *)
(* works, so attach, process and analyze are one step each.  Samples are   *)
(* counted, not looked at.  The canceller is external: it may refuse to    *)
(* start, and wants frames of its own rate's length.                       *)
(***************************************************************************)
EXTENDS Integers

CONSTANTS
    Rates,      \* device sample rates
    Supported,  \* those FrameAccumulator::new accepts
    frame_len,  \* rate -> samples in 10 ms
    MaxInput,   \* bound: samples a callback brings
    None        \* Option::None

ASSUME VoiceAssumption ==
    /\ Supported \subseteq Rates
    /\ frame_len \in [Rates -> Nat \ {0}]
    /\ MaxInput \in Nat
    /\ None \notin Rates

Side == {"capture", "render"}
Kind == {"negotiating", "active", "disabled"}

VARIABLES
    kind,      \* which State
    rate,      \* the rate of the active backend, or None
    known,     \* side -> rate it reported while negotiating, or None
    opening,   \* side -> rate its thread has reported for a path it has yet
               \* to take up, or None
    path,      \* side -> device_rate of the path in use, or None
    pending,   \* side -> samples held back by its accumulator
    reported,  \* history: side -> rate it reported last, or None
    shown      \* the last frame given to the backend, and at what rate

state == <<kind, rate, known>>
paths == <<path, pending>>
vars == <<state, opening, paths, reported, shown>>

TypeOK ==
    /\ kind \in Kind
    /\ rate \in Rates \cup {None}
    /\ kind = "active" <=> rate # None
    /\ known \in [Side -> Rates \cup {None}]
    /\ opening \in [Side -> Rates \cup {None}]
    /\ path \in [Side -> Rates \cup {None}]
    /\ pending \in [Side -> Nat]
    /\ reported \in [Side -> Rates \cup {None}]
    /\ shown \in [len : Nat, rate : Rates \cup {None}]

\* A processor that was asked for nothing, or not compiled in, is disabled.
Init ==
    /\ kind \in {"negotiating", "disabled"}
    /\ rate = None
    /\ known = [s \in Side |-> None]
    /\ opening = [s \in Side |-> None]
    /\ path = [s \in Side |-> None]
    /\ pending = [s \in Side |-> 0]
    /\ reported = [s \in Side |-> None]
    /\ shown = [len |-> 0, rate |-> None]

-----------------------------------------------------------------------------
(* attach *)

Activate(r) == kind' = "active" /\ rate' = r

Disable == kind' = "disabled" /\ rate' = None

\* Both rates are known.  The backend may refuse to start.
negotiate(capture, render) ==
    \/ capture = render /\ render \in Supported /\ Activate(render)
    \/ Disable

Reports(side, r) ==
    /\ opening[side] = None
    /\ opening' = [opening EXCEPT ![side] = r]
    /\ reported' = [reported EXCEPT ![side] = r]
    /\ UNCHANGED <<paths, shown>>

\* The device's rate is noted; the second to be known settles the matter.
AttachNegotiating(side, r) ==
    /\ kind = "negotiating"
    /\ known' = [known EXCEPT ![side] = r]
    /\ IF known'["capture"] # None /\ known'["render"] # None
       THEN negotiate(known'["capture"], known'["render"])
       ELSE UNCHANGED <<kind, rate>>

\* A mutant: a device reopened at another rate is let through.
AttachActiveLax(side, r) ==
    /\ kind = "active"
    /\ UNCHANGED state

\* A stream restarted: the echo estimate is reset, or all is over.
AttachActive(side, r) ==
    /\ kind = "active"
    /\ IF r = rate THEN UNCHANGED <<kind, rate>> ELSE Disable
    /\ UNCHANGED known

AttachDisabled(side, r) == kind = "disabled" /\ UNCHANGED state

attach(side, r) ==
    /\ Reports(side, r)
    /\ \/ AttachNegotiating(side, r)
       \/ AttachActive(side, r)
       \/ AttachDisabled(side, r)

\* capture_path and render_path: the path takes the place of the old one,
\* whose accumulator goes with it.
NewPath(side) ==
    /\ opening[side] # None
    /\ path' = [path EXCEPT ![side] = opening[side]]
    /\ pending' = [pending EXCEPT ![side] = 0]
    /\ opening' = [opening EXCEPT ![side] = None]
    /\ UNCHANGED <<state, reported, shown>>

-----------------------------------------------------------------------------
(* process and analyze *)

\* The callback's samples are framed for the backend.
Frames(side) == kind = "active" /\ path[side] = rate /\ path[side] \in Supported

\* A mutant: a frame that is just complete is kept for the next call.
WholeLate(side, input) ==
    LET samples == pending[side] + input
    IN  IF samples = 0 THEN 0 ELSE (samples - 1) \div frame_len[path[side]]

\* The whole frames in what is held back and what comes in.
Whole(side, input) == (pending[side] + input) \div frame_len[path[side]]

\* FrameAccumulator::push: every whole frame is given to the backend, and
\* returned; the rest waits.
ProcessFrames(side, input) ==
    LET done == Whole(side, input) * frame_len[path[side]]
    IN  /\ Frames(side)
        /\ pending' = [pending EXCEPT ![side] = (@ + input) - done]
        /\ shown' = IF done = 0 THEN shown
                    ELSE [len |-> frame_len[path[side]], rate |-> rate]
        /\ UNCHANGED <<state, opening, path, reported>>

\* Otherwise the samples are returned as they are.
PassThrough(side) ==
    /\ path[side] # None
    /\ ~Frames(side)
    /\ UNCHANGED vars

\* CapturePath::process, RenderPath::analyze.
process(side, input) == ProcessFrames(side, input) \/ PassThrough(side)

\* reset: the microphone is no longer muted.
reset(side) ==
    /\ path[side] # None
    /\ pending' = [pending EXCEPT ![side] = 0]
    /\ UNCHANGED <<state, opening, path, reported, shown>>

Next ==
    \/ \E side \in Side, r \in Rates : attach(side, r)
    \/ \E side \in Side : NewPath(side) \/ reset(side)
    \/ \E side \in Side, input \in 0 .. MaxInput : process(side, input)

Spec == Init /\ [][Next]_vars

-----------------------------------------------------------------------------
(* Properties *)

\* The canceller only runs while both devices are at its rate: whoever comes
\* second, and whichever of them is reopened with whatever rate, what they
\* reported last is what it was built for.
DevicesAgree ==
    kind = "active" => rate \in Supported /\ \A s \in Side : reported[s] = rate

\* Every frame the backend is given is as long as a frame of its rate: also
\* from the old callback of a device that has reported another rate since.
FramesFit == shown.rate # None => shown.len = frame_len[shown.rate]

\* Framing adds less than one frame of delay, and no sample of a path is
\* carried over into the path that replaces it: what a path holds back is
\* short of a frame of the path's own rate, whatever the rates before it.
HeldBack == \A s \in Side : path[s] # None => pending[s] < frame_len[path[s]]
=============================================================================
