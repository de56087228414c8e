---------------------------- MODULE MCAudioPath -----------------------------
(***************************************************************************)
(* Model checking of what audio goes through between a device and a        *)
(* packet: the device, resampling, voice processing, and the codecs.       *)
(*                                                                         *)
(* They share no state, so their behaviours are checked side by side: part *)
(* says which of them moves.                                               *)
(***************************************************************************)
EXTENDS VoiceProcessor, AudioDevice, Resampler, G711, G722, CodecSession

VARIABLE part

notVoice == <<deviceVars, resampleVars, g711Vars, g722Vars, codecVars>>
allVars == <<part, vars, notVoice>>

-----------------------------------------------------------------------------
(* Constants *)

\* Frames of 2 and of 3 samples.
MCFrameLen == [r \in Rates |-> IF r = 16 THEN 3 ELSE 2]

MCRatios == {<<1, 1>>, <<1, 3>>, <<3, 1>>, <<2, 3>>, <<3, 2>>, <<5, 2>>}

MCSpoken == -32768 .. 32767

\* Odd and even lengths, and samples that saturate the predictors.
MCCalls == {<<32767>>, <<-32768, 32767>>, <<0, 0, 0>>}

\* Session descriptions: the audio section before or between others, with
\* static and dynamic payload types and maps that agree, disagree, contradict
\* each other or fail; the others use payload types of their own, or those of
\* the audio section.
Audio(pts) == [line |-> "audio", pts |-> pts]
Media == [line |-> "media"]
Map(pt, name, clock) == [line |-> "rtpmap", pt |-> pt, name |-> name, rate |-> clock]
MapLists ==
    {<<>>,
     <<Map(96, "opus", 48000)>>,
     <<Map(0, "g722", 8000)>>,
     <<Map(96, "g729", 8000), Map(9, "pcma", 8000)>>,
     <<Map(111, "telephone-event", 8000)>>,
     <<Map(96, "opus", 8000)>>,
     <<Map(96, "opus", 48000), Map(96, "g729", 8000)>>,
     <<Map(8, "pcma", 0)>>}
Lists == {<<>>} \cup {<<a, b>> : a, b \in {0, 8, 9, 18, 96, 111, 300}}
MCDescriptions ==
    {<<Audio(l)>> \o m : l \in Lists, m \in MapLists} \cup
    {<<Media, other, Audio(l)>> \o m \o <<Media, Audio(<<98>>), Map(98, "opus", 48000)>> :
        l \in Lists, m \in MapLists, other \in {Map(97, "vp8", 90000), Map(96, "pcma", 8000)}} \cup
    {<<Audio(l)>> \o m \o <<Audio(<<9>>), Map(9, "opus", 48000)>> : l \in Lists, m \in MapLists}

-----------------------------------------------------------------------------

MCInit ==
    /\ part \in {"host", "capture", "playback", "resample", "voice", "g711", "g722", "codec"}
    /\ Init /\ DeviceInit /\ ResampleInit /\ G711Init /\ G722Init /\ CodecInit
    /\ part # "voice" => kind = "disabled"

MCNext ==
    /\ UNCHANGED part
    /\ \/ /\ part = "voice" /\ Next
          /\ UNCHANGED notVoice
       \/ /\ part = "host" /\ HostNext
          /\ UNCHANGED <<vars, resampleVars, g711Vars, g722Vars, codecVars>>
       \/ /\ part = "capture" /\ CaptureNext
          /\ UNCHANGED <<vars, hostVars, playbackVars, resampleVars, g711Vars, g722Vars, codecVars>>
       \/ /\ part = "playback" /\ PlaybackNext
          /\ UNCHANGED <<vars, hostVars, captureVars, resampleVars, g711Vars, g722Vars, codecVars>>
       \/ /\ part = "resample" /\ ResampleNext
          /\ UNCHANGED <<vars, deviceVars, g711Vars, g722Vars, codecVars>>
       \/ /\ part = "g711" /\ G711Next
          /\ UNCHANGED <<vars, deviceVars, resampleVars, g722Vars, codecVars>>
       \/ /\ part = "g722" /\ G722Next
          /\ UNCHANGED <<vars, deviceVars, resampleVars, g711Vars, codecVars>>
       \/ /\ part = "codec" /\ CodecNext
          /\ UNCHANGED <<vars, deviceVars, resampleVars, g711Vars, g722Vars>>

MCSpec == MCInit /\ [][MCNext]_allVars
=============================================================================
