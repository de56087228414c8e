----------------------------- MODULE AudioDevice ----------------------------
(***************************************************************************)
(* src/device.rs: the one way into cpal, the choice of a device, and the   *)
(* buffers between the device's callbacks and the caller.                  *)
(*                                                                         *)
(* cpal itself is external: on Windows the first thread that enumerates    *)
(* devices builds the enumerator every later call uses, and the pointer is *)
(* dead once that thread has exited.  host() first makes sure that thread  *)
(* is one that never exits (prime_device_enumerator).                      *)
(*                                                                         *)
(* Samples are numbered as they come, captured ones by the microphone and  *)
(* written ones by the caller; conversion and resampling are in Resampler. *)
(***************************************************************************)
EXTENDS Integers, Sequences

CONSTANTS
    Callers,     \* threads that use audio devices, one call's each
    Devices,     \* the devices a host may have
    Bursts,      \* samples of one callback, one read or one write
    DeviceRate,  \* samples a second: the limit of either buffer
    MaxSampled,  \* bound: samples captured, and samples written
    NoOne        \* no thread, no device

ASSUME DeviceAssumption ==
    /\ DeviceRate \in Nat /\ DeviceRate >= 10
    /\ Bursts \subseteq Nat
    /\ {"unset", "set", "com", NoOne} \cap Callers = {} /\ NoOne # "com"

VARIABLES
    primed,      \* PRIMED: "unset", the thread initialising it, or "set"
    com,         \* the COM thread: "absent", "starting" or "parked"
    enumerator,  \* the thread that built cpal's enumerator, "com" or NoOne
    caller,      \* what each thread is doing
    unsafe,      \* history: the COM thread did not start, or not in time
    plugged,     \* the devices present, the default one first
    device,      \* the device each thread opened, or NoOne
    running,     \* AudioCapture::running
    capture,     \* the capture buffer
    captured,    \* samples captured so far
    read,        \* history: samples read
    playback,    \* the playback buffer
    written,     \* samples written so far
    out          \* history: samples the output callback took

hostVars == <<primed, com, enumerator, caller, unsafe, plugged, device>>
captureVars == <<running, capture, captured, read>>
playbackVars == <<playback, written, out>>
deviceVars == <<hostVars, captureVars, playbackVars>>

DeviceInit ==
    /\ primed = "unset" /\ com = "absent" /\ enumerator = NoOne
    /\ caller = [t \in Callers |-> "outside"]
    /\ unsafe = FALSE
    /\ plugged = <<>>
    /\ device = [t \in Callers |-> NoOne]
    /\ running = TRUE /\ capture = <<>> /\ captured = 0 /\ read = <<>>
    /\ playback = <<>> /\ written = 0 /\ out = <<>>

-----------------------------------------------------------------------------
(* host() and prime_device_enumerator *)

\* The first caller initialises PRIMED: it starts the COM thread, and waits.
Prime(t) ==
    /\ caller[t] = "outside" /\ primed = "unset"
    /\ \/ primed' = t /\ com' = "starting" /\ UNCHANGED unsafe
       \/ primed' = "set" /\ unsafe' = TRUE /\ UNCHANGED com  \* no thread to be had
    /\ caller' = [caller EXCEPT ![t] = IF primed' = "set" THEN "inside" ELSE "waiting"]
    /\ UNCHANGED <<enumerator, plugged, device, captureVars, playbackVars>>

\* The COM thread enumerates, reports ready and parks for ever.
ComThread ==
    /\ com = "starting"
    /\ enumerator' = IF enumerator = NoOne THEN "com" ELSE enumerator
    /\ com' = "parked"
    /\ UNCHANGED <<primed, caller, unsafe, plugged, device, captureVars, playbackVars>>

\* A mutant: nobody waits for the COM thread.
NoWait(t) ==
    /\ caller[t] = "waiting"
    /\ primed' = "set"
    /\ caller' = [caller EXCEPT ![t] = "inside"]
    /\ UNCHANGED <<com, enumerator, unsafe, plugged, device, captureVars, playbackVars>>

\* recv_timeout: the COM thread is ready, or five seconds are over.
Primed(t) ==
    /\ caller[t] = "waiting"
    /\ primed' = "set"
    /\ unsafe' = (unsafe \/ com = "starting")
    /\ caller' = [caller EXCEPT ![t] = "inside"]
    /\ UNCHANGED <<com, enumerator, plugged, device, captureVars, playbackVars>>

\* A later caller waits while PRIMED is being initialised, and goes on.
AlreadyPrimed(t) ==
    /\ caller[t] = "outside" /\ primed = "set"
    /\ caller' = [caller EXCEPT ![t] = "inside"]
    /\ UNCHANGED <<primed, com, enumerator, unsafe, plugged, device, captureVars, playbackVars>>

\* The host's enumerator, built by whoever asks first.
Enumerates(t) == enumerator' = IF enumerator = NoOne THEN t ELSE enumerator

-----------------------------------------------------------------------------
(* The choice of a device *)

\* safe_default_*: no default is asked for when no device is listed.
SafeDefault == IF plugged = <<>> THEN NoOne ELSE plugged[1]

\* The device of that name, or the default one.
Chosen(name) ==
    IF \E i \in DOMAIN plugged : plugged[i] = name THEN name ELSE SafeDefault

\* start and start_with_device_name: open a device; without one, or when it has
\* no configuration or its stream cannot be built or played, an error.
Open(t, name) ==
    /\ caller[t] = "inside"
    /\ Enumerates(t)
    /\ \E opened \in {Chosen(name), NoOne} :
          /\ device' = [device EXCEPT ![t] = opened]
          /\ caller' = [caller EXCEPT ![t] = IF opened = NoOne THEN "outside" ELSE "open"]
    /\ UNCHANGED <<primed, com, unsafe, plugged, captureVars, playbackVars>>

\* list_*_devices and list_devices.
List(t) ==
    /\ caller[t] = "inside"
    /\ Enumerates(t)
    /\ caller' = [caller EXCEPT ![t] = "outside"]
    /\ UNCHANGED <<primed, com, unsafe, plugged, device, captureVars, playbackVars>>

\* A call's audio thread ends: the stream is dropped, the thread exits.
Exit(t) ==
    /\ caller[t] \in {"outside", "open"}
    /\ caller' = [caller EXCEPT ![t] = "exited"]
    /\ device' = [device EXCEPT ![t] = NoOne]
    /\ UNCHANGED <<primed, com, enumerator, unsafe, plugged, captureVars, playbackVars>>

\* Devices come and go (external).
Plug(present) ==
    /\ plugged # present
    /\ plugged' = present
    /\ UNCHANGED <<primed, com, enumerator, caller, unsafe, device, captureVars, playbackVars>>

HostNext ==
    \/ \E t \in Callers : Prime(t) \/ Primed(t) \/ AlreadyPrimed(t) \/ List(t) \/ Exit(t)
    \/ \E t \in Callers, name \in Devices \cup {NoOne} : Open(t, name)
    \/ ComThread
    \/ \E d, e \in Devices : \E present \in {<<>>, <<d>>, <<d, e>>} : Plug(present)

-----------------------------------------------------------------------------
(* The buffers *)

Numbers(from, n) == [i \in 1 .. n |-> from + i]
Shorter(n, s) == IF n < Len(s) THEN n ELSE Len(s)

\* Tenths of a second are dropped, oldest first, until a second is left.
WithinSecond(s) ==
    LET tenth == DeviceRate \div 10
        over  == Len(s) - DeviceRate
    IN  IF over <= 0 THEN s ELSE SubSeq(s, tenth * ((over + tenth - 1) \div tenth) + 1, Len(s))

\* A mutant: what does not fit is dropped.
NewestDropped(n) ==
    /\ captured + n <= MaxSampled
    /\ captured' = captured + n
    /\ capture' = SubSeq(capture \o Numbers(captured, n), 1,
                         Shorter(DeviceRate, capture \o Numbers(captured, n)))
    /\ UNCHANGED <<running, read, hostVars, playbackVars>>

\* The input callback.
InputCallback(n) ==
    /\ captured + n <= MaxSampled
    /\ captured' = captured + n
    /\ capture' = IF running THEN WithinSecond(capture \o Numbers(captured, n)) ELSE capture
    /\ UNCHANGED <<running, read, hostVars, playbackVars>>

\* AudioCapture::read_samples: as many as the request needs, or as there are.
ReadSamples(n) ==
    /\ capture # <<>>
    /\ read' = read \o SubSeq(capture, 1, Shorter(n, capture))
    /\ capture' = SubSeq(capture, Shorter(n, capture) + 1, Len(capture))
    /\ UNCHANGED <<running, captured, hostVars, playbackVars>>

\* AudioCapture::stop.
StopCapture ==
    /\ running
    /\ running' = FALSE
    /\ UNCHANGED <<capture, captured, read, hostVars, playbackVars>>

\* AudioPlayback::write_samples: the oldest are dropped beyond a second.
WriteSamples(n) ==
    LET buffer == playback \o Numbers(written, n)
    IN  /\ written + n <= MaxSampled
        /\ written' = written + n
        /\ playback' = SubSeq(buffer, Len(buffer) - Shorter(DeviceRate, buffer) + 1, Len(buffer))
        /\ UNCHANGED <<out, hostVars, captureVars>>

\* The output callback takes what it needs, zeros where there is nothing.
OutputCallback(n) ==
    /\ playback # <<>>
    /\ out' = out \o SubSeq(playback, 1, Shorter(n, playback))
    /\ playback' = SubSeq(playback, Shorter(n, playback) + 1, Len(playback))
    /\ UNCHANGED <<written, hostVars, captureVars>>

CaptureNext == (\E n \in Bursts : InputCallback(n) \/ ReadSamples(n)) \/ StopCapture
PlaybackNext == \E n \in Bursts : WriteSamples(n) \/ OutputCallback(n)

DeviceNext == HostNext \/ CaptureNext \/ PlaybackNext

DeviceSpec == DeviceInit /\ [][DeviceNext]_deviceVars

-----------------------------------------------------------------------------
(* Properties *)

\* No thread about to enumerate devices holds a dead enumerator, unless the
\* COM thread could not be started or was not ready within five seconds:
\* whichever of the callers came first and whichever have ended since ("the
\* first call to end would otherwise poison audio for every call after it").
EnumeratorAlive ==
    (\E t \in Callers : caller[t] = "inside")
        /\ enumerator \in Callers /\ caller[enumerator] = "exited" => unsafe

Following(s) == \A i \in 1 .. Len(s) - 1 : s[i + 1] = s[i] + 1
Increasing(s) == \A i \in 1 .. Len(s) - 1 : s[i + 1] > s[i]

\* Both buffers hold at most a second, and it is the newest: an unbroken run
\* up to the last sample captured or written.  What is read or played is in
\* order and never twice, and nothing is skipped before a second has come in.
BuffersFresh ==
    /\ Len(capture) <= DeviceRate /\ Len(playback) <= DeviceRate
    /\ Following(capture) /\ Following(playback)
    /\ Increasing(read \o capture) /\ Increasing(out \o playback)
    /\ playback # <<>> => playback[Len(playback)] = written
    /\ running /\ capture # <<>> => capture[Len(capture)] = captured
    /\ running /\ Len(read) + Len(capture) < captured => captured > DeviceRate
    /\ Len(out) + Len(playback) < written => written > DeviceRate
=============================================================================
