---------------------------- MODULE SessionAudio ----------------------------
(***************************************************************************)
(* What becomes of decoded and captured audio inside a MediaSession,       *)
(* src/session.rs and src/recorder.rs.                                     *)
(*                                                                         *)
(*   - the receive loop hands each frame it pops from the jitter buffer to *)
(*     the recorder and then to the playback queue;                        *)
(*   - the output callback drains that queue (fill_playback);              *)
(*   - the microphone callback hands each frame to the recorder;           *)
(*   - the application starts and stops recordings, one call at a time,    *)
(*     and in the end drops the session.                                   *)
(*                                                                         *)
(* Each critical section is one step, except that a handle stays locked    *)
(* while add_samples runs under it.  A frame is its number on its channel; *)
(* of the playback queue, a FIFO, only the length is kept, in blocks of    *)
(* samples.  No lock is poisoned.                                          *)
(***************************************************************************)
EXTENDS Integers, Sequences, SequencesExt

CONSTANTS
    PreBuffer,       \* pre_buffer_samples, in blocks
    MaxBuffer,       \* max_buffer_samples, in blocks
    FrameBlocks,     \* blocks the resampler may make of a frame
    CallbackBlocks,  \* blocks an output callback asks for
    MaxFrames,       \* bound: frames per channel
    MaxRecordings,   \* bound: start_recording calls
    None             \* Option::None

ASSUME AudioAssumption ==
    /\ PreBuffer \in Nat /\ MaxBuffer \in Nat /\ PreBuffer <= MaxBuffer
    /\ FrameBlocks \subseteq 0 .. MaxBuffer
    /\ CallbackBlocks \in Nat \ {0}
    /\ MaxFrames \in Nat /\ MaxRecordings \in Nat

Channel == {"tx", "rx"}
Recorder == 1 .. MaxRecordings

\* The audio of a file: what was recorded, and silence.
FileAudio == [Channel -> Seq(Nat \cup {None})]

ASSUME NoneAssumption == None \notin {0} \cup Recorder \cup FileAudio

VARIABLES
    running,      \* the session's flag
    recorder,     \* the CallRecorder stored in the session, or None
    handle,       \* channel -> whose handle its audio thread finds, or None
    recording,    \* recorder -> its flag
    samples,      \* recorder -> channel -> frames recorded
    file,         \* recorder -> channel -> frames in its file, or None
    saved,        \* recorder -> whether write_wav has returned Ok
    recorders,    \* recorders made so far
    call,         \* what the application is doing, "idle" or "gone"
    closing,      \* the recorder that is being stopped, or None
    thread,       \* channel -> what its audio thread does next
    frames,       \* channel -> frames so far
    queued,       \* blocks in the playback queue
    playback_started,
    since,        \* history: channel -> first frame begun once start returned
    run           \* history: full callbacks since playback started, capped

books == <<recorder, handle, recording, samples, file, saved, recorders, closing>>
playback == <<queued, playback_started, run>>
vars == <<running, books, call, thread, frames, playback, since>>

Init ==
    /\ running = TRUE
    /\ recorder = None
    /\ handle = [ch \in Channel |-> None]
    /\ recording = [r \in Recorder |-> FALSE]
    /\ samples = [r \in Recorder |-> [ch \in Channel |-> <<>>]]
    /\ file = [r \in Recorder |-> None]
    /\ saved = [r \in Recorder |-> FALSE]
    /\ recorders = 0
    /\ closing = None
    /\ call = "idle"
    /\ thread = [ch \in Channel |-> "idle"]
    /\ frames = [ch \in Channel |-> 0]
    /\ queued = 0
    /\ playback_started = FALSE
    /\ since = [ch \in Channel |-> 1]
    /\ run = 0

Goto(ch, step) == thread' = [thread EXCEPT ![ch] = step]

\* What the thread does once it is past the recorder.
Recorded(ch) == Goto(ch, IF ch = "rx" THEN "queue" ELSE "idle")

-----------------------------------------------------------------------------
(* The audio threads *)

\* The head of the receive loop.
RxLoop ==
    /\ thread["rx"] = "idle"
    /\ Goto("rx", IF running THEN "select" ELSE "done")
    /\ UNCHANGED <<running, books, call, frames, playback, since>>

\* A frame is popped and decoded, or completed by the microphone (whose
\* callback looks at running only when it starts).
NewFrame(ch) ==
    /\ thread[ch] = (IF ch = "rx" THEN "select" ELSE "idle")
    /\ frames[ch] < MaxFrames
    /\ frames' = [frames EXCEPT ![ch] = @ + 1]
    /\ Goto(ch, "record")
    /\ UNCHANGED <<running, books, call, playback, since>>

\* A tick with nothing to play.
NoFrame ==
    /\ thread["rx"] = "select"
    /\ Goto("rx", "idle")
    /\ UNCHANGED <<running, books, call, frames, playback, since>>

\* The handle is locked; add_samples looks at the flag of its recorder.
LockHandle(ch) ==
    /\ thread[ch] = "record"
    /\ IF handle[ch] # None /\ recording[handle[ch]]
       THEN Goto(ch, "append") ELSE Recorded(ch)
    /\ UNCHANGED <<running, books, call, frames, playback, since>>

\* add_samples appends, and the handle is unlocked.
add_samples(ch) ==
    /\ thread[ch] = "append"
    /\ samples' = [samples EXCEPT ![handle[ch]][ch] = Append(@, frames[ch])]
    /\ Recorded(ch)
    /\ UNCHANGED <<running, recorder, handle, recording, file, saved, recorders,
                   closing, call, frames, playback, since>>

\* The length of the queue after a push: the oldest blocks make room.
Queued(blocks) ==
    IF queued + blocks > MaxBuffer
    THEN (queued - (queued + blocks - MaxBuffer)) + blocks
    ELSE queued + blocks

\* The receive loop queues the resampled frame for playback.
QueueFrame(blocks) ==
    /\ thread["rx"] = "queue"
    /\ queued' = Queued(blocks)
    /\ Goto("rx", "idle")
    /\ UNCHANGED <<running, books, call, frames, playback_started, run, since>>

-----------------------------------------------------------------------------
(* The output callback *)

\* A mutant: playback starts with whatever there is.
PreBufferedAny == playback_started \/ queued > 0

PreBuffered == playback_started \/ queued >= PreBuffer

\* Silence while the pre-buffer fills; silence and a new pre-buffering when
\* the queue has run dry; otherwise as much as there is.
fill_playback ==
    /\ playback_started' = (PreBuffered /\ queued > 0)
    /\ queued' = IF ~PreBuffered \/ queued <= CallbackBlocks
                 THEN (IF PreBuffered THEN 0 ELSE queued)
                 ELSE queued - CallbackBlocks
    /\ run' = IF ~playback_started' THEN 0
              ELSE IF queued >= CallbackBlocks /\ run < PreBuffer \div CallbackBlocks
              THEN run + 1 ELSE run
    /\ UNCHANGED <<running, books, call, thread, frames, since>>

-----------------------------------------------------------------------------
(* The application *)

\* The handle's lock is free.
Unlocked(ch) == thread[ch] # "append"

\* A mutant: a handle that is set is left alone.
StoreHandleOnce(ch) ==
    handle' = [handle EXCEPT ![ch] = IF @ = None THEN recorders ELSE @]

StoreHandle(ch) == handle' = [handle EXCEPT ![ch] = recorders]

\* start_recording: a recorder is made and started...
start_recording ==
    /\ call = "idle"
    /\ recorders < MaxRecordings
    /\ recorders' = recorders + 1
    /\ recording' = [recording EXCEPT ![recorders + 1] = TRUE]
    /\ call' = "start_tx"
    /\ UNCHANGED <<running, recorder, handle, samples, file, saved, closing,
                   thread, frames, playback, since>>

\* ...its handles are stored one after the other...
StoreHandles ==
    /\ \/ /\ call = "start_tx" /\ Unlocked("tx")
          /\ StoreHandle("tx")
          /\ call' = "start_rx"
       \/ /\ call = "start_rx" /\ Unlocked("rx")
          /\ StoreHandle("rx")
          /\ call' = "store"
    /\ UNCHANGED <<running, recorder, recording, samples, file, saved, recorders,
                   closing, thread, frames, playback, since>>

\* The first frame a thread will begin from now on.
NextFrame(ch) == frames[ch] + 1

\* A recorder is stopped (its flag; the file follows), if there is one.
Close(r) ==
    /\ closing' = r
    /\ recording' = IF r = None THEN recording
                    ELSE [recording EXCEPT ![r] = FALSE]

\* ...and the recorder itself.  The one it replaces is dropped, which stops it.
StoreRecorder ==
    /\ call = "store"
    /\ recorder' = recorders
    /\ Close(recorder)
    /\ since' = [ch \in Channel |-> NextFrame(ch)]
    /\ call' = IF recorder = None THEN "idle" ELSE "write"
    /\ UNCHANGED <<running, handle, samples, file, saved, recorders, thread,
                   frames, playback>>

\* A mutant: the recorder is stopped while the handles are still there.
FirstCleared == "take"

\* What stop_recording does first.
Cleared == "clear_tx"

stop_recording ==
    /\ call = "idle"
    /\ call' = Cleared
    /\ UNCHANGED <<running, books, thread, frames, playback, since>>

ClearHandles ==
    /\ \/ /\ call = "clear_tx" /\ Unlocked("tx")
          /\ handle' = [handle EXCEPT !["tx"] = None]
          /\ call' = "clear_rx"
       \/ /\ call = "clear_rx" /\ Unlocked("rx")
          /\ handle' = [handle EXCEPT !["rx"] = None]
          /\ call' = "take"
    /\ UNCHANGED <<running, recorder, recording, samples, file, saved, recorders,
                   closing, thread, frames, playback, since>>

TakeRecorder ==
    /\ call = "take"
    /\ recorder' = None
    /\ Close(recorder)
    /\ call' = IF recorder = None THEN "idle" ELSE "write"
    /\ UNCHANGED <<running, handle, samples, file, saved, recorders, thread,
                   frames, playback, since>>

\* The session is dropped: stop, then its fields, the recorder among them.
\* The audio threads keep their handles.
DropSession ==
    /\ call = "idle"
    /\ running' = FALSE
    /\ recorder' = None
    /\ Close(recorder)
    /\ call' = IF recorder = None THEN "gone" ELSE "write"
    /\ UNCHANGED <<handle, samples, file, saved, recorders, thread, frames,
                   playback, since>>

Longest(r) ==
    IF Len(samples[r]["tx"]) > Len(samples[r]["rx"])
    THEN Len(samples[r]["tx"]) ELSE Len(samples[r]["rx"])

\* The first n frames of the file; the shorter channel is padded with silence.
Stereo(r, n) ==
    [ch \in Channel |-> [i \in 1 .. n |->
        IF i <= Len(samples[r][ch]) THEN samples[r][ch][i] ELSE None]]

\* write_wav returns.  Who replaces or drops a recorder ignores the result;
\* after an error the recorder is gone all the same.
Return(ok) ==
    /\ saved' = [saved EXCEPT ![closing] = ok]
    /\ closing' = None
    /\ call' = IF running THEN "idle" ELSE "gone"
    /\ UNCHANGED <<running, recorder, handle, recording, samples, recorders,
                   thread, frames, playback, since>>

\* Under both sample locks: no file if nothing was recorded, or if it cannot
\* be created; if writing to it fails, what had been written stays behind (a
\* frame cut in two, or a header alone, is not counted).
write_wav ==
    /\ call = "write"
    /\ LET all == Longest(closing)
           Write(n) == file' = [file EXCEPT ![closing] = Stereo(closing, n)]
       IN  \/ all = 0 /\ UNCHANGED file /\ Return(TRUE)
           \/ all > 0 /\ UNCHANGED file /\ Return(FALSE)
           \/ all > 0 /\ (\E n \in 0 .. all : Write(n)) /\ Return(FALSE)
           \/ all > 0 /\ Write(all) /\ Return(TRUE)

Next ==
    \/ RxLoop \/ NoFrame
    \/ \E ch \in Channel : NewFrame(ch) \/ LockHandle(ch) \/ add_samples(ch)
    \/ \E blocks \in FrameBlocks : QueueFrame(blocks)
    \/ fill_playback
    \/ start_recording \/ StoreHandles \/ StoreRecorder
    \/ stop_recording \/ ClearHandles \/ TakeRecorder
    \/ DropSession
    \/ write_wav

Spec == Init /\ [][Next]_vars

-----------------------------------------------------------------------------
(* Properties *)

\* What a recorder has on disk of a channel.
OnDisk(r, ch) == IF file[r] = None THEN <<>> ELSE file[r][ch]

\* A channel on disk against what its recorder was handed: each frame in its
\* place as far as it goes, silence only after the last (few); and if saved is
\* claimed, it goes to the last (few).
Holds(disk, ok, kept, fewer) ==
    /\ \A i \in DOMAIN disk :
          \/ i \in DOMAIN kept /\ disk[i] = kept[i]
          \/ i > Len(kept) - fewer /\ disk[i] = None
    /\ ok => 1 .. Len(kept) - fewer \subseteq DOMAIN disk

\* When write_wav returns Ok, what is on disk is everything the recorder was
\* ever handed, on both channels and in order, however the audio threads run
\* while the recording is stopped or replaced; and what a failed write leaves
\* behind is the beginning of that.  Only dropping the session may lose the
\* frame a thread is at.
SavedWhole ==
    \A r \in Recorder, ch \in Channel :
        Holds(OnDisk(r, ch), saved[r], samples[r][ch], IF running THEN 0 ELSE 1)

\* The frames a thread has been past the recorder with.
Past(ch) == IF thread[ch] \in {"record", "append"} THEN frames[ch] - 1
            ELSE frames[ch]

\* From the return of start_recording to the next call every frame of either
\* direction is recorded, also when it replaces a recording under way.
NoFrameMissed ==
    call = "idle" /\ recorder # None =>
        \A ch \in Channel : \A n \in since[ch] .. Past(ch) :
            n \in ToSet(samples[recorder][ch])

\* Once playback starts it is not cut short at once: as many callbacks as the
\* pre-buffer has audio for are filled completely before one is not.
PreBufferLasts ==
    [][fill_playback /\ playback_started /\ queued < CallbackBlocks
         => run >= PreBuffer \div CallbackBlocks]_vars
=============================================================================
