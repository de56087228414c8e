----------------------------- MODULE CallProofs -----------------------------
(***************************************************************************)
(* What an application does with a call, for any number of frames,         *)
(* recordings and digits: recordings are whole however they are started,   *)
(* replaced and stopped beside the audio threads, playback lasts as long   *)
(* as its pre-buffer, and digits are sent one after another and reported   *)
(* once at the other end.                                                  *)
(***************************************************************************)
EXTENDS SessionAudio, DtmfStream, SequenceTheorems, TLAPS

-----------------------------------------------------------------------------
(* Recording *)

\* The steps of start_recording and of stop_recording.
Starting == {"start_tx", "start_rx", "store"}
Stopping == {"clear_tx", "clear_rx", "take"}

\* Types of what the recording books and the audio threads are made of.
AudioTypes ==
    /\ running \in BOOLEAN
    /\ recorder \in Recorder \cup {None}
    /\ handle \in [Channel -> Recorder \cup {None}]
    /\ recording \in [Recorder -> BOOLEAN]
    /\ samples \in [Recorder -> [Channel -> Seq(Nat)]]
    /\ file \in [Recorder -> FileAudio \cup {None}]
    /\ saved \in [Recorder -> BOOLEAN]
    /\ recorders \in 0 .. MaxRecordings
    /\ call \in {"idle", "write", "gone"} \cup Starting \cup Stopping
    /\ closing \in Recorder \cup {None}
    /\ thread \in [Channel -> {"idle", "select", "record", "append", "queue", "done"}]
    /\ frames \in [Channel -> Nat]
    /\ since \in [Channel -> Nat]

\* The recorder whose handle a channel's thread finds, while the session is
\* not dropped: the stored one, but for the slots start_recording has replaced
\* already and those stop_recording has cleared.
Expected(ch) ==
    IF call = "store" \/ (call = "start_rx" /\ ch = "tx") THEN recorders
    ELSE IF call = "take" \/ (call = "clear_rx" /\ ch = "tx") THEN None
    ELSE recorder

\* Who records: the stored recorder and the one being started.
Active == ({recorder} \ {None}) \cup (IF call \in Starting THEN {recorders} ELSE {})

\* The flags, the handles and the stored recorder agree at every step of a call.
BooksAgree ==
    /\ \A r \in Recorder : recording[r] <=> r \in Active
    /\ Active \subseteq 1 .. recorders
    /\ call \in Starting => recorder # recorders
    /\ running => call # "gone" /\ \A ch \in Channel : handle[ch] = Expected(ch)
    /\ ~running => call \in {"write", "gone"} /\ recorder = None
    /\ closing # None => closing <= recorders /\ closing \notin Active
    /\ call = "write" => closing # None

\* A thread appends under the handle of a recorder; while the session is not
\* dropped that recorder has not been stopped.
AppendsUnderHandle ==
    \A ch \in Channel : thread[ch] = "append" =>
        handle[ch] # None /\ (running => handle[ch] \in Active)

\* What a thread has still to append to a recorder's channel.
Pending(r, ch) == thread[ch] = "append" /\ handle[ch] = r

\* A recorder that has been written, or has left a file behind.
Closed(r) == file[r] # None \/ saved[r]

\* Files are as SavedWhole says; a frame that may still be lost has not been
\* yet.
FilesWhole ==
    \A r \in Recorder : Closed(r) =>
        /\ r <= recorders /\ r \notin Active /\ r # closing
        /\ \A ch \in Channel :
              Holds(OnDisk(r, ch), saved[r], samples[r][ch],
                    IF running \/ Pending(r, ch) THEN 0 ELSE 1)

\* NoFrameMissed, also while the recording that was replaced is written.
AllRecorded ==
    call \in {"idle", "write"} /\ recorder # None =>
        \A ch \in Channel : \A n \in since[ch] .. Past(ch) :
            n \in ToSet(samples[recorder][ch])

\* The inductive invariant of recording.
RecordingInv ==
    /\ AudioTypes /\ BooksAgree /\ AppendsUnderHandle /\ FilesWhole /\ AllRecorded

\* None is no recorder; the channels are the two directions.
LEMMA NotARecorder == None \notin Recorder /\ None # 0 /\ Channel = {"tx", "rx"}
BY NoneAssumption DEF Channel

\* A file has audio, however much of it is written.
LEMMA StereoIsAudio ==
    ASSUME AudioTypes, NEW r \in Recorder, NEW n \in 0 .. Longest(r)
    PROVE  Longest(r) \in Nat /\ Stereo(r, n) \in FileAudio /\ Stereo(r, n) # None
<1>1. Longest(r) \in Nat
  BY DEF AudioTypes, Longest, Channel
<1>2. ASSUME NEW ch \in Channel PROVE Stereo(r, n)[ch] \in Seq(Nat \cup {None})
  <2>1. samples[r][ch] \in Seq(Nat)
    BY DEF AudioTypes
  <2>2. \A i \in 1 .. n : i <= Len(samples[r][ch]) => samples[r][ch][i] \in Nat
    BY <1>1, <2>1
  <2>3. Stereo(r, n)[ch] \in [1 .. n -> Nat \cup {None}]
    BY <2>2 DEF Stereo
  <2> QED BY <1>1, <2>3, SeqDef
<1>3. Stereo(r, n) = [ch \in Channel |-> Stereo(r, n)[ch]]
  BY DEF Stereo
<1>4. Stereo(r, n) \in FileAudio
  BY <1>2, <1>3 DEF FileAudio
<1> QED BY <1>1, <1>4, NoneAssumption

\* add_samples adds one frame to one channel of one recorder.
LEMMA SamplesAfter ==
    ASSUME AudioTypes, AppendsUnderHandle, NEW ch \in Channel, add_samples(ch)
    PROVE  /\ handle[ch] \in Recorder
           /\ samples' \in [Recorder -> [Channel -> Seq(Nat)]]
           /\ samples'[handle[ch]][ch] = Append(samples[handle[ch]][ch], frames[ch])
           /\ \A r \in Recorder, c \in Channel :
                 r # handle[ch] \/ c # ch => samples'[r][c] = samples[r][c]
<1>1. handle[ch] \in Recorder
  BY DEF AudioTypes, AppendsUnderHandle, add_samples
<1>2. Append(samples[handle[ch]][ch], frames[ch]) \in Seq(Nat)
  BY <1>1 DEF AudioTypes
<1> QED BY <1>1, <1>2 DEF AudioTypes, add_samples

\* A new session records nothing.
LEMMA RecordingInit == Init => RecordingInv
<1> SUFFICES ASSUME Init PROVE RecordingInv
  OBVIOUS
<1> USE NotARecorder
<1>1. AudioTypes
  <2>1. recorders \in 0 .. MaxRecordings
    BY AudioAssumption DEF Init
  <2>2. samples \in [Recorder -> [Channel -> Seq(Nat)]]
    BY DEF Init
  <2> QED BY <2>1, <2>2 DEF Init, AudioTypes
<1>2. Active = {} /\ \A ch \in Channel : Expected(ch) = None
  BY DEF Init, Active, Expected, Starting
<1>3. BooksAgree
  BY <1>2 DEF Init, BooksAgree, Starting
<1>4. AppendsUnderHandle /\ FilesWhole /\ AllRecorded
  BY DEF Init, AppendsUnderHandle, FilesWhole, Closed, AllRecorded
<1> QED BY <1>1, <1>3, <1>4 DEF RecordingInv

\* Every step keeps the types.
LEMMA AudioTypesNext == AudioTypes /\ AppendsUnderHandle /\ BooksAgree /\ [Next]_vars => AudioTypes'
<1> SUFFICES ASSUME AudioTypes, AppendsUnderHandle, BooksAgree, [Next]_vars PROVE AudioTypes'
  OBVIOUS
<1> USE NotARecorder DEF Goto, Recorded, books, playback
<1>1. CASE UNCHANGED vars
  BY <1>1 DEF AudioTypes, vars
<1>2. CASE RxLoop \/ NoFrame \/ fill_playback \/ \E blocks \in FrameBlocks : QueueFrame(blocks)
  BY <1>2 DEF AudioTypes, RxLoop, NoFrame, fill_playback, QueueFrame
<1>3. ASSUME NEW ch \in Channel, NewFrame(ch) \/ LockHandle(ch) PROVE AudioTypes'
  BY <1>3 DEF AudioTypes, NewFrame, LockHandle
<1>4. ASSUME NEW ch \in Channel, add_samples(ch) PROVE AudioTypes'
  <2>1. samples' \in [Recorder -> [Channel -> Seq(Nat)]]
    BY <1>4, SamplesAfter
  <2> QED BY <1>4, <2>1 DEF AudioTypes, add_samples
<1>5. CASE start_recording
  <2>0. /\ MaxRecordings \in Nat /\ recorders \in 0 .. MaxRecordings
        /\ recorders < MaxRecordings /\ recorders' = recorders + 1
    BY <1>5, AudioAssumption DEF AudioTypes, start_recording
  <2>1. recorders' \in 0 .. MaxRecordings
    BY ONLY <2>0
  <2>2. recording' \in [Recorder -> BOOLEAN]
    BY <1>5 DEF AudioTypes, start_recording
  <2> QED BY <1>5, <2>1, <2>2 DEF AudioTypes, start_recording, Starting
<1>6. CASE StoreHandles
  <2>1. recorders \in Recorder
    <3>1. recorders \in Active
      BY <1>6 DEF StoreHandles, Active, Starting
    <3>2. recorders \in 1 .. recorders
      BY <3>1 DEF BooksAgree
    <3>3. MaxRecordings \in Nat /\ recorders \in 0 .. MaxRecordings
      BY AudioAssumption DEF AudioTypes
    <3> QED BY ONLY <3>2, <3>3 DEF Recorder
  <2>2. handle' \in [Channel -> Recorder \cup {None}]
    BY <1>6, <2>1 DEF AudioTypes, StoreHandles, StoreHandle
  <2>3. call' \in Starting
    BY <1>6 DEF StoreHandles, Starting
  <2>4. UNCHANGED <<running, recorder, recording, samples, file, saved, recorders, closing,
                    thread, frames, since>>
    BY <1>6 DEF StoreHandles
  <2> QED BY <2>2, <2>3, <2>4 DEF AudioTypes
<1>7. CASE StoreRecorder
  <2>1. recorders \in Recorder
    <3>1. recorders \in Active
      BY <1>7 DEF StoreRecorder, Active, Starting
    <3>2. recorders \in 1 .. recorders
      BY <3>1 DEF BooksAgree
    <3>3. MaxRecordings \in Nat /\ recorders \in 0 .. MaxRecordings
      BY AudioAssumption DEF AudioTypes
    <3> QED BY ONLY <3>2, <3>3 DEF Recorder
  <2>2. recording' \in [Recorder -> BOOLEAN] /\ closing' = recorder
    BY <1>7 DEF AudioTypes, StoreRecorder, Close
  <2>3. since' \in [Channel -> Nat]
    BY <1>7 DEF AudioTypes, StoreRecorder, NextFrame
  <2> QED BY <1>7, <2>1, <2>2, <2>3 DEF AudioTypes, StoreRecorder
<1>8. CASE stop_recording \/ ClearHandles
  BY <1>8 DEF AudioTypes, stop_recording, ClearHandles, Cleared, Stopping
<1>9. CASE TakeRecorder \/ DropSession
  <2>1. recording' \in [Recorder -> BOOLEAN] /\ closing' = recorder
    BY <1>9 DEF AudioTypes, TakeRecorder, DropSession, Close
  <2> QED BY <1>9, <2>1 DEF AudioTypes, TakeRecorder, DropSession
<1>10. CASE write_wav
  <2>1. \E ok \in BOOLEAN : Return(ok)
    BY <1>10 DEF write_wav
  <2>0. closing \in Recorder
    BY <1>10 DEF AudioTypes, BooksAgree, write_wav
  <2>2. file' \in [Recorder -> FileAudio \cup {None}]
    <3>1. UNCHANGED file \/ \E n \in 0 .. Longest(closing) :
                               file' = [file EXCEPT ![closing] = Stereo(closing, n)]
      <4>1. Longest(closing) \in 0 .. Longest(closing)
        BY <2>0, StereoIsAudio DEF AudioTypes, Longest, Channel
      <4> QED BY <1>10, <4>1 DEF write_wav
    <3>2. \A n \in 0 .. Longest(closing) : Stereo(closing, n) \in FileAudio
      BY <2>0, StereoIsAudio
    <3>3. CASE UNCHANGED file
      BY <3>3 DEF AudioTypes
    <3>4. ASSUME NEW n \in 0 .. Longest(closing),
                 file' = [file EXCEPT ![closing] = Stereo(closing, n)]
          PROVE  file' \in [Recorder -> FileAudio \cup {None}]
      <4>1. file \in [Recorder -> FileAudio \cup {None}]
        BY DEF AudioTypes
      <4>2. Stereo(closing, n) \in FileAudio
        BY <3>2
      <4> QED BY ONLY <2>0, <3>4, <4>1, <4>2
    <3> QED BY <3>1, <3>3, <3>4
  <2>3. saved' \in [Recorder -> BOOLEAN]
    BY <2>1 DEF AudioTypes, Return
  <2> QED BY <2>1, <2>2, <2>3 DEF AudioTypes, Return
<1> QED
  BY <1>1, <1>2, <1>3, <1>4, <1>5, <1>6, <1>7, <1>8, <1>9, <1>10 DEF Next

\* Steps of the audio threads and of playback leave the books alone.
LEMMA BooksFrame ==
    ASSUME BooksAgree,
           UNCHANGED <<running, recorder, handle, recording, recorders, closing, call>>
    PROVE  BooksAgree'
BY DEF BooksAgree, Active, Expected

\* start_recording makes a recorder nobody has used, and puts it everywhere.
LEMMA BooksStart ==
    ASSUME AudioTypes, BooksAgree, start_recording \/ StoreHandles \/ StoreRecorder
    PROVE  BooksAgree'
<1> USE NotARecorder
<1>0. recorders \in Nat /\ Recorder = 1 .. MaxRecordings /\ MaxRecordings \in Nat
  BY AudioAssumption DEF AudioTypes, Recorder
<1>1. CASE start_recording
  <2>1. /\ call = "idle" /\ call' = "start_tx" /\ recorders' = recorders + 1
        /\ recording' = [recording EXCEPT ![recorders + 1] = TRUE]
        /\ UNCHANGED <<running, recorder, handle, closing>>
    BY <1>1 DEF start_recording
  <2>2. Active = {recorder} \ {None} /\ Active' = Active \cup {recorders'}
    BY <2>1 DEF Active, Starting
  <2>3. recorder # None => recorder \in 1 .. recorders
    BY <2>2 DEF BooksAgree
  <2>4. recorders' \in Recorder /\ recorder # recorders'
    BY <1>0, <1>1, <2>1, <2>3 DEF start_recording, AudioTypes
  <2>5. \A r \in Recorder : recording'[r] <=> r \in Active'
    BY <2>1, <2>2, <2>4 DEF BooksAgree, AudioTypes
  <2>6. Active' \subseteq 1 .. recorders'
    BY <1>0, <2>1, <2>2, <2>3, <2>4
  <2>7. running' => \A ch \in Channel : handle'[ch] = Expected(ch)'
    BY <2>1 DEF BooksAgree, Expected
  <2>8. running /\ closing' = closing
    BY <2>1 DEF BooksAgree
  <2>9. closing # None => closing <= recorders' /\ closing \notin Active'
    BY <1>0, <2>1, <2>2 DEF BooksAgree, AudioTypes, Recorder
  <2> QED BY <2>1, <2>4, <2>5, <2>6, <2>7, <2>8, <2>9 DEF BooksAgree
<1>2. CASE StoreHandles
  <2>1. /\ call \in Starting /\ call' \in Starting
        /\ UNCHANGED <<running, recorder, recording, recorders, closing>>
    BY <1>2 DEF StoreHandles, Starting
  <2>2. Active' = Active
    BY <2>1 DEF Active
  <2>3. running /\ \A ch \in Channel : handle[ch] = Expected(ch)
    BY <2>1 DEF BooksAgree, Starting
  <2>4. \A ch \in Channel : handle'[ch] = Expected(ch)'
    BY <1>2, <2>1, <2>3 DEF StoreHandles, StoreHandle, Expected, AudioTypes
  <2> QED BY <2>1, <2>2, <2>3, <2>4 DEF BooksAgree, Starting
<1>3. CASE StoreRecorder
  <2>1. /\ call = "store" /\ recorder' = recorders /\ closing' = recorder
        /\ call' = IF recorder = None THEN "idle" ELSE "write"
        /\ UNCHANGED <<running, handle, recorders>>
    BY <1>3 DEF StoreRecorder, Close
  <2>2. Active = ({recorder} \ {None}) \cup {recorders} /\ recorder # recorders
    BY <2>1 DEF Active, Starting, BooksAgree
  <2>3. recorders \in Recorder /\ Active \subseteq 1 .. recorders
    <3>1. Active \subseteq 1 .. recorders /\ recorders \in 0 .. MaxRecordings
      BY DEF BooksAgree, AudioTypes
    <3>2. recorders \in 1 .. recorders
      BY <2>2, <3>1
    <3> QED BY ONLY <1>0, <3>1, <3>2
  <2>4. Active' = {recorders}
    BY <2>1, <2>3 DEF Active, Starting
  <2>5. \A r \in Recorder : recording'[r] <=> r \in Active'
    BY <1>3, <2>2, <2>4 DEF StoreRecorder, Close, BooksAgree, AudioTypes
  <2>6. running /\ \A ch \in Channel : handle[ch] = recorders
    BY <2>1 DEF BooksAgree, Expected
  <2>7. \A ch \in Channel : handle'[ch] = Expected(ch)'
    BY <2>1, <2>6 DEF Expected
  <2>8. closing' # None => closing' <= recorders' /\ closing' \notin Active'
    BY <1>0, <2>1, <2>2, <2>3, <2>4
  <2>9. Active' \subseteq 1 .. recorders'
    BY <1>0, <2>1, <2>3, <2>4 DEF AudioTypes
  <2> QED BY <2>1, <2>5, <2>6, <2>7, <2>8, <2>9 DEF BooksAgree, Starting
<1> QED BY <1>1, <1>2, <1>3

\* stop_recording clears the handles before it stops the recorder; dropping
\* the session stops it and leaves the handles.
LEMMA BooksStop ==
    ASSUME AudioTypes, BooksAgree,
           stop_recording \/ ClearHandles \/ TakeRecorder \/ DropSession
    PROVE  BooksAgree'
<1> USE NotARecorder
<1>1. CASE stop_recording \/ ClearHandles
  <2>1. /\ call \in {"idle", "clear_tx", "clear_rx"} /\ call' \in Stopping
        /\ UNCHANGED <<running, recorder, recording, recorders, closing>>
    BY <1>1 DEF stop_recording, ClearHandles, Cleared, Stopping, books
  <2>2. Active' = Active
    BY <2>1 DEF Active, Starting, Stopping
  <2>3. running /\ \A ch \in Channel : handle[ch] = Expected(ch)
    BY <2>1 DEF BooksAgree
  <2>4. \A ch \in Channel : handle'[ch] = Expected(ch)'
    BY <1>1, <2>1, <2>3
       DEF stop_recording, ClearHandles, Cleared, books, Expected, AudioTypes
  <2> QED BY <2>1, <2>2, <2>3, <2>4 DEF BooksAgree, Stopping, Starting
<1>2. ASSUME recorder' = None, Close(recorder), UNCHANGED <<handle, recorders>>,
             call \in {"take", "idle"},
             call' \in (IF recorder = None THEN {"idle", "gone"} ELSE {"write"}),
             running' => running /\ call' # "gone" /\ call = "take",
             ~running' => call' # "idle"
      PROVE  BooksAgree'
  <2>1. Active = {recorder} \ {None} /\ Active' = {}
    BY <1>2 DEF Active, Starting
  <2>2. \A r \in Recorder : ~recording'[r]
    BY <1>2, <2>1 DEF Close, BooksAgree, AudioTypes
  <2>3. closing' = recorder
    BY <1>2 DEF Close
  <2>4. recorder # None => recorder <= recorders
    BY <2>1, AudioAssumption DEF BooksAgree, AudioTypes
  <2>5. running' => \A ch \in Channel : handle'[ch] = Expected(ch)'
    BY <1>2 DEF BooksAgree, Expected
  <2> QED BY <1>2, <2>1, <2>2, <2>3, <2>4, <2>5 DEF BooksAgree, Starting
<1>3. CASE TakeRecorder
  <2>1. running /\ running' = running
    BY <1>3 DEF TakeRecorder, BooksAgree
  <2> QED BY <1>2, <1>3, <2>1 DEF TakeRecorder
<1>4. CASE DropSession
  BY <1>2, <1>4 DEF DropSession
<1> QED BY <1>1, <1>3, <1>4

\* The books agree after every step.
LEMMA BooksNext == AudioTypes /\ BooksAgree /\ [Next]_vars => BooksAgree'
<1> SUFFICES ASSUME AudioTypes, BooksAgree, [Next]_vars PROVE BooksAgree'
  OBVIOUS
<1>1. CASE UNCHANGED vars
  BY <1>1, BooksFrame DEF vars, books
<1>2. CASE RxLoop \/ NoFrame \/ fill_playback \/ \E blocks \in FrameBlocks : QueueFrame(blocks)
  BY <1>2, BooksFrame DEF RxLoop, NoFrame, fill_playback, QueueFrame, books
<1>3. ASSUME NEW ch \in Channel, NewFrame(ch) \/ LockHandle(ch) \/ add_samples(ch)
      PROVE  BooksAgree'
  BY <1>3, BooksFrame DEF NewFrame, LockHandle, add_samples, books
<1>4. CASE write_wav
  <2>1. /\ call = "write" /\ call' = IF running THEN "idle" ELSE "gone"
        /\ closing' = None /\ UNCHANGED <<running, recorder, handle, recording, recorders>>
    BY <1>4 DEF write_wav, Return
  <2>2. Active' = Active /\ \A ch \in Channel : Expected(ch)' = Expected(ch)
    BY <2>1 DEF Active, Expected, Starting
  <2> QED BY <2>1, <2>2 DEF BooksAgree, Starting
<1> QED BY <1>1, <1>2, <1>3, <1>4, BooksStart, BooksStop DEF Next

\* Threads append only under the lock of their handle, which the application
\* needs to change it.
LEMMA AppendsNext ==
    AudioTypes /\ BooksAgree /\ AppendsUnderHandle /\ [Next]_vars => AppendsUnderHandle'
<1> SUFFICES ASSUME AudioTypes, BooksAgree, AppendsUnderHandle, [Next]_vars,
                    NEW ch \in Channel, thread'[ch] = "append"
             PROVE  handle'[ch] # None /\ (running' => handle'[ch] \in Active')
  BY DEF AppendsUnderHandle
<1> USE NotARecorder
<1>1. ASSUME UNCHANGED <<running, recorder, recorders, call, handle>>, thread[ch] = "append"
      PROVE  handle'[ch] # None /\ (running' => handle'[ch] \in Active')
  BY <1>1 DEF AppendsUnderHandle, Active
<1>2. CASE UNCHANGED vars
  BY <1>1, <1>2 DEF vars, books
<1>3. CASE RxLoop \/ NoFrame \/ fill_playback \/ \E blocks \in FrameBlocks : QueueFrame(blocks)
  BY <1>1, <1>3 DEF RxLoop, NoFrame, fill_playback, QueueFrame, Goto, books, AudioTypes
<1>4. ASSUME NEW c \in Channel, NewFrame(c) \/ add_samples(c)
      PROVE  handle'[ch] # None /\ (running' => handle'[ch] \in Active')
  BY <1>1, <1>4 DEF NewFrame, add_samples, Recorded, Goto, books, AudioTypes
<1>5. ASSUME NEW c \in Channel, LockHandle(c)
      PROVE  handle'[ch] # None /\ (running' => handle'[ch] \in Active')
  <2>1. UNCHANGED <<running, recorder, recorders, call, handle>>
    BY <1>5 DEF LockHandle, books
  <2>2. thread[ch] = "append" \/ (handle[ch] # None /\ recording[handle[ch]])
    BY <1>5 DEF LockHandle, Recorded, Goto, AudioTypes
  <2>3. handle[ch] # None /\ recording[handle[ch]] => handle[ch] \in Active
    BY DEF AudioTypes, BooksAgree
  <2>4. Active' = Active
    BY <2>1 DEF Active
  <2> QED BY <1>1, <2>1, <2>2, <2>3, <2>4
<1>6. CASE start_recording \/ stop_recording \/ write_wav
  <2>1. UNCHANGED <<running, recorder, handle, thread>>
    BY <1>6 DEF start_recording, stop_recording, write_wav, Return, books
  <2>2. Active \subseteq Active'
    BY <1>6 DEF start_recording, stop_recording, write_wav, Return, books, Active, Starting
  <2> QED BY <2>1, <2>2 DEF AppendsUnderHandle
<1>7. CASE StoreHandles \/ ClearHandles
  <2>1. UNCHANGED <<running, recorder, recorders, thread>> /\ Active' = Active
    BY <1>7 DEF StoreHandles, ClearHandles, Active, Starting
  <2>2. handle'[ch] = handle[ch]
    BY <1>7, <2>1 DEF StoreHandles, ClearHandles, StoreHandle, Unlocked, AudioTypes
  <2> QED BY <2>1, <2>2 DEF AppendsUnderHandle
<1>8. CASE StoreRecorder
  <2>1. call = "store" /\ UNCHANGED <<running, handle, recorders, thread>> /\ recorder' = recorders
    BY <1>8 DEF StoreRecorder
  <2>2. running /\ handle[ch] = recorders
    BY <2>1 DEF BooksAgree, Expected
  <2>3. recorders # None
    <3>1. recorders = 0 \/ recorders \in Recorder
      <4>1. recorders \in 0 .. MaxRecordings /\ MaxRecordings \in Nat
        BY AudioAssumption DEF AudioTypes
      <4> QED BY ONLY <4>1 DEF Recorder
    <3> QED BY <3>1
  <2> QED BY <2>1, <2>2, <2>3 DEF Active
<1>9. CASE TakeRecorder
  <2>1. call = "take" /\ UNCHANGED <<running, handle, thread>>
    BY <1>9 DEF TakeRecorder
  <2>2. handle[ch] = None
    BY <2>1 DEF BooksAgree, Expected
  <2> QED BY <2>1, <2>2 DEF AppendsUnderHandle
<1>10. CASE DropSession
  BY <1>10 DEF DropSession, AppendsUnderHandle
<1> QED BY <1>2, <1>3, <1>4, <1>5, <1>6, <1>7, <1>8, <1>9, <1>10 DEF Next

\* What misses nothing misses at most one, and one more frame handed over is
\* one missed.
LEMMA HoldsFewer ==
    ASSUME NEW disk, NEW ok, NEW kept \in Seq(Nat), NEW x \in Nat, Holds(disk, ok, kept, 0),
           DOMAIN disk \subseteq Nat
    PROVE  Holds(disk, ok, kept, 1) /\ Holds(disk, ok, Append(kept, x), 1)
<1> DEFINE more == Append(kept, x)
<1>1. /\ Len(kept) \in Nat /\ Len(more) - 1 = Len(kept)
      /\ \A i \in DOMAIN kept : i \in DOMAIN more /\ more[i] = kept[i]
      /\ 1 .. Len(kept) - 1 \subseteq 1 .. Len(kept)
      /\ Len(kept) - 0 = Len(kept)
  OBVIOUS
<1>2. \A i \in DOMAIN disk : i > Len(kept) => i > Len(kept) - 1
  BY <1>1
<1> HIDE DEF more
<1>3. Holds(disk, ok, kept, 1)
  BY <1>1, <1>2 DEF Holds
<1>4. Holds(disk, ok, more, 1)
  BY <1>1 DEF Holds
<1> QED BY <1>3, <1>4 DEF more

\* However much of a file is written, it begins as it should; written to the
\* end it has everything there is, and so has no file when nothing is recorded.
LEMMA StereoHolds ==
    ASSUME AudioTypes, NEW r \in Recorder, NEW ch \in Channel, NEW n \in 0 .. Longest(r), NEW ok,
           ok => n = Longest(r)
    PROVE  /\ Holds(Stereo(r, n)[ch], ok, samples[r][ch], 0)
           /\ DOMAIN Stereo(r, n)[ch] \subseteq Nat
           /\ Longest(r) = 0 => Holds(<<>>, ok, samples[r][ch], 0)
<1> DEFINE kept == samples[r][ch]
           long == Longest(r)
           disk == [i \in 1 .. n |-> IF i <= Len(kept) THEN kept[i] ELSE None]
<1>1. kept \in Seq(Nat) /\ Len(kept) \in Nat /\ DOMAIN kept = 1 .. Len(kept)
  BY DEF AudioTypes
<1>2. samples[r]["tx"] \in Seq(Nat) /\ samples[r]["rx"] \in Seq(Nat)
  BY DEF AudioTypes, Channel
<1>3. long \in Nat /\ Len(kept) <= long
  BY <1>2 DEF Longest, Channel
<1>4. Stereo(r, n)[ch] = disk
  BY DEF Stereo
<1> HIDE DEF kept, long
<1>5. DOMAIN disk = 1 .. n /\ n \in Nat
  BY <1>3 DEF long
<1>6. ok => 1 .. Len(kept) - 0 \subseteq 1 .. n
  BY <1>1, <1>3 DEF long
<1>7. \A i \in DOMAIN disk : \/ i \in DOMAIN kept /\ disk[i] = kept[i]
                             \/ i > Len(kept) - 0 /\ disk[i] = None
  BY <1>1, <1>5
<1>8. Holds(disk, ok, kept, 0) /\ DOMAIN disk \subseteq Nat
  BY <1>5, <1>6, <1>7 DEF Holds
<1>9. long = 0 => Holds(<<>>, ok, kept, 0)
  <2>1. long = 0 => 1 .. Len(kept) - 0 = {}
    BY <1>1, <1>3
  <2>2. DOMAIN <<>> = {}
    OBVIOUS
  <2> QED BY <2>1, <2>2 DEF Holds
<1> QED BY <1>4, <1>8, <1>9 DEF kept, long

\* What write_wav leaves on disk, whatever fails.
LEMMA WrittenHolds ==
    ASSUME AudioTypes, BooksAgree, FilesWhole, write_wav,
           NEW r \in Recorder, r = closing, NEW ch \in Channel
    PROVE  /\ Holds(OnDisk(r, ch)', saved'[r], samples[r][ch], 0)
           /\ DOMAIN OnDisk(r, ch)' \subseteq Nat
<1>1. /\ file[r] = None
      /\ file \in [Recorder -> FileAudio \cup {None}] /\ saved \in [Recorder -> BOOLEAN]
  BY DEF AudioTypes, BooksAgree, write_wav, FilesWhole, Closed
<1> DEFINE all == Longest(r)
<1>2. all \in 0 .. all
  BY <1>1, StereoIsAudio DEF AudioTypes, Longest, Channel
<1>3. ASSUME NEW ok \in BOOLEAN, Return(ok) PROVE saved'[r] = ok
  BY <1>1, <1>3 DEF Return
<1>4. ASSUME NEW ok \in BOOLEAN, Return(ok), UNCHANGED file, ok => all = 0
      PROVE  /\ Holds(OnDisk(r, ch)', saved'[r], samples[r][ch], 0)
             /\ DOMAIN OnDisk(r, ch)' \subseteq Nat
  <2>1. OnDisk(r, ch)' = <<>> /\ DOMAIN <<>> = {}
    BY <1>1, <1>4 DEF OnDisk
  <2>2. saved'[r] = ok
    BY <1>3, <1>4
  <2>3. CASE ok
    BY <1>1, <1>2, <1>4, <2>1, <2>2, <2>3, StereoHolds
  <2>4. CASE ~ok
    BY <2>1, <2>2, <2>4 DEF Holds
  <2> QED BY <2>1, <2>3, <2>4
<1>5. ASSUME NEW ok \in BOOLEAN, Return(ok), NEW n \in 0 .. all, ok => n = all,
             file' = [file EXCEPT ![r] = Stereo(r, n)]
      PROVE  /\ Holds(OnDisk(r, ch)', saved'[r], samples[r][ch], 0)
             /\ DOMAIN OnDisk(r, ch)' \subseteq Nat
  <2>1. file'[r] = Stereo(r, n) /\ Stereo(r, n) # None
    BY <1>1, <1>5, StereoIsAudio
  <2>2. OnDisk(r, ch)' = Stereo(r, n)[ch]
    BY <2>1 DEF OnDisk
  <2>3. saved'[r] = ok
    BY <1>3, <1>5
  <2> QED BY <1>1, <1>5, <2>2, <2>3, StereoHolds
<1> HIDE DEF all
<1>6. \/ Return(TRUE) /\ UNCHANGED file /\ all = 0
      \/ Return(FALSE) /\ UNCHANGED file
      \/ Return(FALSE) /\ \E n \in 0 .. all : file' = [file EXCEPT ![r] = Stereo(r, n)]
      \/ Return(TRUE) /\ file' = [file EXCEPT ![r] = Stereo(r, all)]
  BY DEF write_wav, all
<1> QED BY <1>2, <1>4, <1>5, <1>6

\* What is on disk is a sequence.
LEMMA OnDiskTypes ==
    ASSUME AudioTypes, NEW r \in Recorder, NEW ch \in Channel
    PROVE  DOMAIN OnDisk(r, ch) \subseteq Nat
<1>1. OnDisk(r, ch) \in Seq(Nat \cup {None})
  BY DEF AudioTypes, FileAudio, OnDisk
<1> QED BY <1>1

\* Steps that append nothing keep files whole, unless a thread comes to have
\* something to append to a recorder that has its file.
LEMMA FilesFrame ==
    ASSUME AudioTypes, FilesWhole, UNCHANGED <<file, saved, samples>>,
           \A r \in Recorder : Closed(r) => r <= recorders' /\ r \notin Active' /\ r # closing',
           \A r \in Recorder, ch \in Channel :
              Closed(r) /\ (running' \/ Pending(r, ch)') => running \/ Pending(r, ch)
    PROVE  FilesWhole'
<1> SUFFICES ASSUME NEW r \in Recorder, Closed(r), NEW ch \in Channel
             PROVE  Holds(OnDisk(r, ch), saved[r], samples[r][ch],
                          IF running' \/ Pending(r, ch)' THEN 0 ELSE 1)
  BY DEF FilesWhole, Closed, OnDisk
<1>1. Holds(OnDisk(r, ch), saved[r], samples[r][ch], IF running \/ Pending(r, ch) THEN 0 ELSE 1)
  BY DEF FilesWhole
<1>2. samples[r][ch] \in Seq(Nat) /\ DOMAIN OnDisk(r, ch) \subseteq Nat
  BY OnDiskTypes DEF AudioTypes
<1>3. running' \/ Pending(r, ch)' => running \/ Pending(r, ch)
  OBVIOUS
<1>4. Holds(OnDisk(r, ch), saved[r], samples[r][ch], 0)
        => Holds(OnDisk(r, ch), saved[r], samples[r][ch], 1)
  BY <1>2, HoldsFewer
<1> QED BY <1>1, <1>3, <1>4

\* Files stay whole.  The handle of a recorder that has its file is gone, but
\* for a dropped session, whose threads may append the frame they are at.
LEMMA FilesNext ==
    AudioTypes /\ BooksAgree /\ AppendsUnderHandle /\ FilesWhole /\ [Next]_vars => FilesWhole'
<1> SUFFICES ASSUME AudioTypes, BooksAgree, AppendsUnderHandle, FilesWhole, [Next]_vars
             PROVE  FilesWhole'
  OBVIOUS
<1> USE NotARecorder
<1>0. /\ Recorder = 1 .. MaxRecordings /\ MaxRecordings \in Nat /\ recorders \in Nat
      /\ \A r \in Recorder : Closed(r) => r <= recorders /\ r \notin Active /\ r # closing
  BY AudioAssumption DEF AudioTypes, FilesWhole, Recorder
<1>1. ASSUME UNCHANGED <<file, saved, samples, running, recorder, recorders, closing, handle,
                       call>>,
             \A r \in Recorder, ch \in Channel :
                Closed(r) /\ Pending(r, ch)' => running \/ Pending(r, ch)
      PROVE  FilesWhole'
  <2>1. Active' = Active
    BY <1>1 DEF Active
  <2> QED BY <1>0, <1>1, <2>1, FilesFrame
<1>2. CASE UNCHANGED vars
  BY <1>1, <1>2 DEF vars, books, Pending
<1>3. CASE RxLoop \/ NoFrame \/ fill_playback \/ \E blocks \in FrameBlocks : QueueFrame(blocks)
  BY <1>1, <1>3 DEF RxLoop, NoFrame, fill_playback, QueueFrame, Goto, books, AudioTypes, Pending
<1>4. ASSUME NEW c \in Channel, NewFrame(c) PROVE FilesWhole'
  BY <1>1, <1>4 DEF NewFrame, Goto, books, AudioTypes, Pending
<1>5. ASSUME NEW c \in Channel, LockHandle(c) PROVE FilesWhole'
  <2>1. UNCHANGED <<file, saved, samples, running, recorder, recorders, closing, handle, call>>
    BY <1>5 DEF LockHandle, books
  <2>2. ASSUME NEW r \in Recorder, NEW ch \in Channel, Pending(r, ch)', ~Pending(r, ch)
        PROVE  running
    <3>1. handle[ch] = r /\ recording[r]
      BY <1>5, <2>1, <2>2 DEF LockHandle, Recorded, Goto, AudioTypes, Pending
    <3>2. ~running => Active = {}
      BY DEF BooksAgree, Active, Starting
    <3> QED BY <3>1, <3>2 DEF BooksAgree
  <2> QED BY <1>1, <2>1, <2>2
<1>6. ASSUME NEW c \in Channel, add_samples(c) PROVE FilesWhole'
  <2>1. /\ UNCHANGED <<file, saved, running, recorder, recorders, closing, handle, call>>
        /\ thread[c] = "append" /\ thread'[c] # "append"
        /\ \A ch \in Channel : ch # c => thread'[ch] = thread[ch]
    BY <1>6 DEF add_samples, Recorded, Goto, AudioTypes
  <2>2. Active' = Active
    BY <2>1 DEF Active
  <2> SUFFICES ASSUME NEW r \in Recorder, Closed(r), NEW ch \in Channel
               PROVE  Holds(OnDisk(r, ch), saved[r], samples'[r][ch],
                            IF running' \/ Pending(r, ch)' THEN 0 ELSE 1)
    BY <1>0, <2>1, <2>2 DEF FilesWhole, Closed, OnDisk
  <2>3. Holds(OnDisk(r, ch), saved[r], samples[r][ch],
              IF running \/ Pending(r, ch) THEN 0 ELSE 1)
    BY DEF FilesWhole
  <2>4. CASE r = handle[c] /\ ch = c
    <3>1. ~running
      BY <1>0, <2>1, <2>4 DEF AppendsUnderHandle
    <3>2. Pending(r, ch) /\ ~Pending(r, ch)'
      BY <2>1, <2>4 DEF Pending
    <3>3. samples'[r][ch] = Append(samples[r][ch], frames[c])
      BY <1>6, <2>4, SamplesAfter
    <3>4. /\ samples[r][ch] \in Seq(Nat) /\ frames[c] \in Nat
          /\ DOMAIN OnDisk(r, ch) \subseteq Nat
      BY OnDiskTypes DEF AudioTypes
    <3>5. Holds(OnDisk(r, ch), saved[r], samples[r][ch], 0)
      BY <2>3, <3>2
    <3>6. Holds(OnDisk(r, ch), saved[r], samples'[r][ch], 1)
      BY <3>3, <3>4, <3>5, HoldsFewer
    <3> QED BY <2>1, <3>1, <3>2, <3>6
  <2>5. CASE r # handle[c] \/ ch # c
    <3>1. samples'[r][ch] = samples[r][ch]
      BY <1>6, <2>5, SamplesAfter
    <3>2. Pending(r, ch)' <=> Pending(r, ch)
      BY <2>1, <2>5 DEF Pending
    <3> QED BY <2>1, <2>3, <3>1, <3>2
  <2> QED BY <2>4, <2>5
<1>7. CASE start_recording
  <2>1. /\ UNCHANGED <<file, saved, samples, running, handle, thread, recorder, closing>>
        /\ call = "idle" /\ call' = "start_tx" /\ recorders' = recorders + 1
    BY <1>7 DEF start_recording
  <2>2. Active' = Active \cup {recorders + 1}
    BY <2>1 DEF Active, Starting
  <2>3. \A r \in Recorder : Closed(r) => r <= recorders' /\ r \notin Active' /\ r # closing'
    BY <1>0, <2>1, <2>2
  <2> QED BY <2>1, <2>3, FilesFrame DEF Pending
<1>8. CASE StoreHandles \/ ClearHandles
  <2>1. UNCHANGED <<file, saved, samples, running, recorder, recorders, closing, thread>> /\ Active' = Active
    BY <1>8 DEF StoreHandles, ClearHandles, Active, Starting
  <2>2. \A ch \in Channel : thread[ch] = "append" => handle'[ch] = handle[ch]
    BY <1>8, <2>1 DEF StoreHandles, ClearHandles, StoreHandle, Unlocked, AudioTypes
  <2> QED BY <1>0, <2>1, <2>2, FilesFrame DEF Pending
<1>9. CASE stop_recording \/ StoreRecorder \/ TakeRecorder \/ DropSession
  <2>1. /\ UNCHANGED <<file, saved, samples, recorders, handle, thread>> /\ Active' \subseteq Active
        /\ (running' => running)
        /\ closing' = closing \/ closing' \in Active \cup {None}
    BY <1>9 DEF stop_recording, StoreRecorder, TakeRecorder, DropSession, books, Active,
                Starting, Cleared, Close
  <2> QED BY <1>0, <2>1, FilesFrame DEF Pending
<1>10. CASE write_wav
  <2>1. /\ UNCHANGED <<running, recorder, handle, samples, recorders, thread>>
        /\ call = "write" /\ call' \in {"idle", "gone"}
    BY <1>10 DEF write_wav, Return
  <2>2. Active' = Active
    BY <2>1 DEF Active, Starting
  <2>3. closing \in Recorder /\ closing <= recorders /\ closing \notin Active
    BY <2>1 DEF BooksAgree, AudioTypes
  <2> SUFFICES ASSUME NEW r \in Recorder, Closed(r)'
               PROVE  /\ r <= recorders /\ r \notin Active /\ r # None
                      /\ \A ch \in Channel : Holds(OnDisk(r, ch)', saved'[r], samples[r][ch],
                            IF running \/ Pending(r, ch) THEN 0 ELSE 1)
    BY <1>10, <2>1, <2>2 DEF FilesWhole, Pending, Return, write_wav
  <2>4. CASE r # closing
    <3>1. file'[r] = file[r] /\ saved'[r] = saved[r]
      BY <1>10, <2>3, <2>4 DEF write_wav, Return, AudioTypes
    <3> QED BY <3>1 DEF FilesWhole, Closed, OnDisk
  <2>5. CASE r = closing
    <3> SUFFICES ASSUME NEW ch \in Channel
                 PROVE  Holds(OnDisk(r, ch)', saved'[r], samples[r][ch], 0)
                        /\ DOMAIN OnDisk(r, ch)' \subseteq Nat
      BY <2>3, <2>5, HoldsFewer DEF AudioTypes
    <3>1. /\ Holds(OnDisk(r, ch)', saved'[r], samples[r][ch], 0)
          /\ DOMAIN OnDisk(r, ch)' \subseteq Nat
      BY <1>10, <2>5, WrittenHolds
    <3> QED BY <3>1
  <2> QED BY <2>4, <2>5
<1> QED BY <1>2, <1>3, <1>4, <1>5, <1>6, <1>7, <1>8, <1>9, <1>10 DEF Next

\* Appending adds one element.
LEMMA ToSetAppend ==
    ASSUME NEW kept \in Seq(Nat), NEW x \in Nat
    PROVE  ToSet(Append(kept, x)) = ToSet(kept) \cup {x}
<1> DEFINE more == Append(kept, x)
<1>1. /\ Len(kept) \in Nat /\ DOMAIN kept = 1 .. Len(kept)
      /\ DOMAIN more = 1 .. Len(kept) + 1 /\ more[Len(kept) + 1] = x
      /\ \A i \in 1 .. Len(kept) : more[i] = kept[i]
  OBVIOUS
<1> HIDE DEF more
<1>2. \A i \in DOMAIN more : i \in DOMAIN kept \/ i = Len(kept) + 1
  BY <1>1
<1>3. Len(kept) + 1 \in DOMAIN more /\ \A i \in DOMAIN kept : i \in DOMAIN more
  BY <1>1
<1>4. ToSet(more) = ToSet(kept) \cup {x}
  BY <1>1, <1>2, <1>3 DEF ToSet
<1> QED BY <1>4 DEF more

\* AllRecorded rests on the stored recorder, its samples and the threads' places.
LEMMA RecordedFrame ==
    ASSUME AllRecorded, UNCHANGED <<recorder, samples, since>>,
           call' \in {"idle", "write"} => call \in {"idle", "write"},
           \A ch \in Channel : Past(ch)' = Past(ch)
    PROVE  AllRecorded'
BY DEF AllRecorded

\* Between two calls of the application a thread finds the handle of the
\* stored recorder, and that recorder records.
LEMMA HandleOfStored ==
    ASSUME AudioTypes, BooksAgree, call \in {"idle", "write"}, recorder # None, NEW ch \in Channel
    PROVE  handle[ch] = recorder /\ recording[handle[ch]]
<1>1. running
  BY DEF BooksAgree
<1>2. handle[ch] = recorder
  BY <1>1 DEF BooksAgree, Expected
<1>3. recorder \in Active /\ recorder \in Recorder
  BY DEF Active, AudioTypes
<1> QED BY <1>2, <1>3 DEF BooksAgree

\* Every frame begun since start_recording returned is recorded.
LEMMA RecordedNext ==
    AudioTypes /\ BooksAgree /\ AppendsUnderHandle /\ AllRecorded /\ [Next]_vars => AllRecorded'
<1> SUFFICES ASSUME AudioTypes, BooksAgree, AppendsUnderHandle, AllRecorded, [Next]_vars
             PROVE  AllRecorded'
  OBVIOUS
<1> USE NotARecorder
<1>1. CASE UNCHANGED vars
  BY <1>1, RecordedFrame DEF vars, books, Past
<1>2. CASE RxLoop \/ NoFrame \/ fill_playback \/ \E blocks \in FrameBlocks : QueueFrame(blocks)
  <2>1. /\ UNCHANGED <<recorder, samples, since, call, frames>>
        /\ \A ch \in Channel : thread'[ch] \in {"record", "append"}
                               <=> thread[ch] \in {"record", "append"}
    BY <1>2 DEF RxLoop, NoFrame, fill_playback, QueueFrame, Goto, books, AudioTypes
  <2> QED BY <2>1, RecordedFrame DEF Past
<1>3. ASSUME NEW c \in Channel, NewFrame(c) PROVE AllRecorded'
  <2>1. /\ UNCHANGED <<recorder, samples, since, call>>
        /\ thread[c] \notin {"record", "append"} /\ thread'[c] = "record"
        /\ frames[c] \in Nat /\ frames'[c] = frames[c] + 1
        /\ \A ch \in Channel : ch # c => thread'[ch] = thread[ch] /\ frames'[ch] = frames[ch]
    BY <1>3 DEF NewFrame, Goto, books, AudioTypes
  <2>2. \A ch \in Channel : Past(ch)' = Past(ch)
    BY <2>1 DEF Past
  <2> QED BY <2>1, <2>2, RecordedFrame
<1>4. ASSUME NEW c \in Channel, LockHandle(c) PROVE AllRecorded'
  <2>1. UNCHANGED <<recorder, samples, since, call, frames>>
    BY <1>4 DEF LockHandle, books
  <2>2. ASSUME call \in {"idle", "write"}, recorder # None, NEW ch \in Channel
        PROVE  Past(ch)' = Past(ch)
    <3>1. handle[c] = recorder /\ recording[handle[c]]
      BY <2>2, HandleOfStored
    <3>2. thread[c] = "record" /\ thread'[c] = "append"
          /\ (ch # c => thread'[ch] = thread[ch])
      BY <1>4, <2>2, <3>1 DEF LockHandle, Goto, AudioTypes
    <3> QED BY <2>1, <3>2 DEF Past
  <2> QED BY <2>1, <2>2 DEF AllRecorded
<1>5. ASSUME NEW c \in Channel, add_samples(c) PROVE AllRecorded'
  <2>1. /\ UNCHANGED <<recorder, since, call, frames>>
        /\ thread[c] = "append" /\ thread'[c] \notin {"record", "append"}
        /\ \A ch \in Channel : ch # c => thread'[ch] = thread[ch]
    BY <1>5 DEF add_samples, Recorded, Goto, AudioTypes
  <2> SUFFICES ASSUME call \in {"idle", "write"}, recorder # None, NEW ch \in Channel,
                      NEW n \in since[ch] .. Past(ch)'
               PROVE  n \in ToSet(samples'[recorder][ch])
    BY <2>1 DEF AllRecorded
  <2>2. handle[c] = recorder /\ recorder \in Recorder
    BY HandleOfStored DEF AudioTypes
  <2>3. CASE ch # c
    <3>1. samples'[recorder][ch] = samples[recorder][ch]
      BY <1>5, <2>2, <2>3, SamplesAfter
    <3>2. Past(ch)' = Past(ch)
      BY <2>1, <2>3 DEF Past
    <3> QED BY <3>1, <3>2 DEF AllRecorded
  <2>4. CASE ch = c
    <3> DEFINE kept == samples[recorder][ch]
    <3>1. samples'[recorder][ch] = Append(kept, frames[ch])
      BY <1>5, <2>2, <2>4, SamplesAfter
    <3>2. kept \in Seq(Nat) /\ frames[ch] \in Nat /\ since[ch] \in Nat
      BY <2>2 DEF AudioTypes
    <3>3. Past(ch)' = frames[ch] /\ Past(ch) = frames[ch] - 1
      BY <2>1, <2>4 DEF Past
    <3>4. n = frames[ch] \/ n \in since[ch] .. Past(ch)
      BY <3>2, <3>3
    <3>5. n = frames[ch] \/ n \in ToSet(kept)
      BY <3>4 DEF AllRecorded
    <3> HIDE DEF kept
    <3>6. ToSet(Append(kept, frames[ch])) = ToSet(kept) \cup {frames[ch]}
      BY <3>2, ToSetAppend
    <3> QED BY <3>1, <3>5, <3>6
  <2> QED BY <2>3, <2>4
<1>6. CASE start_recording \/ StoreHandles \/ stop_recording \/ ClearHandles
  BY <1>6 DEF start_recording, StoreHandles, stop_recording, ClearHandles, Cleared, AllRecorded
<1>7. CASE StoreRecorder
  <2>1. \A ch \in Channel : since'[ch] = frames[ch] + 1 /\ frames'[ch] = frames[ch]
                            /\ frames[ch] \in Nat
    BY <1>7 DEF StoreRecorder, NextFrame, AudioTypes
  <2>2. \A ch \in Channel : since'[ch] .. Past(ch)' = {}
    BY <2>1 DEF Past
  <2> QED BY <2>2 DEF AllRecorded
<1>8. CASE TakeRecorder \/ DropSession
  BY <1>8 DEF TakeRecorder, DropSession, AllRecorded
<1>9. CASE write_wav
  BY <1>9, RecordedFrame DEF write_wav, Return, Past
<1> QED BY <1>1, <1>2, <1>3, <1>4, <1>5, <1>6, <1>7, <1>8, <1>9 DEF Next

\* The books, the threads' places and the files agree, for any number of
\* recordings, replacements and frames.
THEOREM RecordingInvariance == Spec => []RecordingInv
<1>1. RecordingInv /\ [Next]_vars => RecordingInv'
  BY AudioTypesNext, BooksNext, AppendsNext, FilesNext, RecordedNext DEF RecordingInv
<1> QED BY <1>1, RecordingInit, PTL DEF Spec

\* When write_wav returns Ok the file is not short of anything its recorder was
\* handed, but for the frame a thread is at when the session is dropped; and
\* what a failed one leaves behind is the beginning of that.
THEOREM RecordingsSavedWhole == Spec => []SavedWhole
<1>1. RecordingInv => SavedWhole
  <2> SUFFICES ASSUME AudioTypes, FilesWhole, NEW r \in Recorder, NEW ch \in Channel
               PROVE  Holds(OnDisk(r, ch), saved[r], samples[r][ch], IF running THEN 0 ELSE 1)
    BY DEF RecordingInv, SavedWhole
  <2>1. CASE Closed(r)
    <3>1. Holds(OnDisk(r, ch), saved[r], samples[r][ch],
                IF running \/ Pending(r, ch) THEN 0 ELSE 1)
      BY <2>1 DEF FilesWhole
    <3>2. samples[r][ch] \in Seq(Nat) /\ DOMAIN OnDisk(r, ch) \subseteq Nat
      BY OnDiskTypes DEF AudioTypes
    <3>3. Holds(OnDisk(r, ch), saved[r], samples[r][ch], 0)
            => Holds(OnDisk(r, ch), saved[r], samples[r][ch], 1)
      BY <3>2, HoldsFewer
    <3> QED BY <3>1, <3>3
  <2>2. CASE ~Closed(r)
    <3>1. OnDisk(r, ch) = <<>> /\ ~saved[r]
      BY <2>2 DEF Closed, OnDisk
    <3>2. DOMAIN <<>> = {}
      OBVIOUS
    <3> QED BY <3>1, <3>2 DEF Holds
  <2> QED BY <2>1, <2>2
<1> QED BY <1>1, RecordingInvariance, PTL

\* From the return of start_recording to the next call no frame of either
\* direction escapes the recording.
THEOREM RecordingMissesNothing == Spec => []NoFrameMissed
<1>1. RecordingInv => NoFrameMissed
  BY DEF RecordingInv, AllRecorded, NoFrameMissed
<1> QED BY <1>1, RecordingInvariance, PTL

-----------------------------------------------------------------------------
(* Playback *)

\* Callbacks the pre-buffer has audio for.
Lasting == PreBuffer \div CallbackBlocks

\* What is queued and what the callbacks were filled with since playback
\* started is at least the pre-buffer, until it has lasted.
PlayInv ==
    /\ queued \in Nat /\ run \in 0 .. Lasting /\ playback_started \in BOOLEAN
    /\ playback_started /\ run < Lasting => queued + run * CallbackBlocks >= PreBuffer
    /\ ~playback_started => run = 0

\* Before the pre-buffer has lasted there is one more callback's audio in it.
LEMMA LastingHasMore ==
    ASSUME NEW n \in Nat, n < Lasting
    PROVE  n * CallbackBlocks + CallbackBlocks <= PreBuffer
<1> DEFINE c == CallbackBlocks
           q == PreBuffer \div c
           m == PreBuffer % c
<1>1. PreBuffer \in Nat /\ c \in Nat \ {0}
  BY AudioAssumption
<1>2. q \in Nat /\ m \in 0 .. c - 1 /\ PreBuffer = q * c + m
  BY ONLY <1>1, SMTT(30)
<1>3. n < q
  BY DEF Lasting
<1> HIDE DEF c, q, m
<1>4. (n + 1) * c <= q * c
  BY ONLY <1>1, <1>2, <1>3, n \in Nat, SMTT(30)
<1>5. n * c + c <= PreBuffer
  BY ONLY <1>1, <1>2, <1>4, n \in Nat, SMTT(30)
<1> QED BY <1>5 DEF c

\* A queue of nothing has started nothing.
LEMMA PlayInit == Init => PlayInv
<1>1. PreBuffer \in Nat /\ CallbackBlocks \in Nat \ {0}
  BY AudioAssumption
<1>2. Lasting \in Nat
  BY <1>1 DEF Lasting
<1> SUFFICES ASSUME Init PROVE PlayInv
  OBVIOUS
<1>3. queued \in Nat /\ run \in 0 .. Lasting /\ run = 0
  BY <1>2 DEF Init
<1>4. ~playback_started /\ playback_started \in BOOLEAN
  BY Zenon DEF Init
<1> QED BY <1>3, <1>4 DEF PlayInv

\* The receive loop only drops blocks to make room for newer ones; a callback
\* takes at most what it asks for.
LEMMA PlayNext == PlayInv /\ [Next]_vars => PlayInv'
<1> SUFFICES ASSUME PlayInv, [Next]_vars PROVE PlayInv'
  OBVIOUS
<1>0. /\ PreBuffer \in Nat /\ MaxBuffer \in Nat /\ PreBuffer <= MaxBuffer
      /\ CallbackBlocks \in Nat \ {0} /\ queued \in Nat /\ run \in Nat
  BY AudioAssumption DEF PlayInv
<1>1. Lasting \in Nat
  BY <1>0 DEF Lasting
<1>2. CASE UNCHANGED playback
  BY <1>2 DEF PlayInv, playback
<1>3. ASSUME NEW blocks \in FrameBlocks, QueueFrame(blocks) PROVE PlayInv'
  <2>1. blocks \in 0 .. MaxBuffer
    BY AudioAssumption
  <2>2. queued' \in Nat /\ (queued' >= queued \/ queued' >= MaxBuffer)
    BY <1>0, <1>3, <2>1 DEF QueueFrame, Queued
  <2>3. UNCHANGED <<playback_started, run>>
    BY <1>3 DEF QueueFrame
  <2>4. run * CallbackBlocks \in Nat
    BY <1>0
  <2>5. ASSUME NEW filled \in Nat, queued + filled >= PreBuffer
        PROVE  queued' + filled >= PreBuffer
    <3>1. ASSUME NEW q \in Nat, NEW r \in Nat, r >= q \/ r >= MaxBuffer, q + filled >= PreBuffer
          PROVE  r + filled >= PreBuffer
      <4>1. CASE r >= q
        BY <1>0, <3>1, <4>1
      <4>2. CASE r >= MaxBuffer
        BY <1>0, <4>2
      <4> QED BY <3>1, <4>1, <4>2
    <3> QED BY <1>0, <2>2, <2>5, <3>1
  <2> QED BY <2>2, <2>3, <2>4, <2>5 DEF PlayInv
<1>4. CASE fill_playback
  <2>1. queued' \in Nat
    BY <1>0, <1>4 DEF fill_playback
  <2>2. playback_started' \in BOOLEAN /\ (~playback_started' => run' = 0)
    BY <1>4 DEF fill_playback
  <2>3. run' \in 0 .. Lasting
    BY <1>0, <1>1, <1>4 DEF fill_playback, PlayInv, Lasting
  <2>4. ASSUME playback_started', run' < Lasting
        PROVE  queued' + run' * CallbackBlocks >= PreBuffer
    <3>1. PreBuffered /\ queued > 0
      BY <1>4, <2>4 DEF fill_playback
    <3>2. run < Lasting
      BY <1>0, <1>1, <1>4, <2>4, <2>3 DEF fill_playback, PlayInv, Lasting
    <3>3. queued + run * CallbackBlocks >= PreBuffer
      <4>1. CASE playback_started
        BY <3>2, <4>1 DEF PlayInv
      <4>2. CASE ~playback_started
        BY <1>0, <3>1, <4>2 DEF PlayInv, PreBuffered
      <4> QED BY <4>1, <4>2
    <3>4. run * CallbackBlocks + CallbackBlocks <= PreBuffer
      BY <1>0, <3>2, LastingHasMore
    <3>5. run * CallbackBlocks \in Nat /\ (run + 1) * CallbackBlocks = run * CallbackBlocks + CallbackBlocks
      BY <1>0
    <3>6. queued >= CallbackBlocks
      BY <1>0, <3>3, <3>4, <3>5
    <3>7. run' = run + 1 /\ queued' = queued - CallbackBlocks
      BY <1>0, <1>4, <2>4, <3>1, <3>2, <3>6 DEF fill_playback, Lasting
    <3> QED BY <1>0, <3>3, <3>5, <3>7
  <2> QED BY <2>1, <2>2, <2>3, <2>4 DEF PlayInv
<1> QED
  BY <1>2, <1>3, <1>4
     DEF Next, vars, RxLoop, NoFrame, NewFrame, LockHandle, add_samples, start_recording,
         StoreHandles, StoreRecorder, stop_recording, ClearHandles, TakeRecorder,
         DropSession, write_wav, Return

\* However long its frames, its callbacks and its queue: playback that has
\* waited for the pre-buffer fills as many callbacks as that has audio for.
THEOREM PreBufferOutlasted == Spec => PreBufferLasts
<1>1. PlayInv /\ [Next]_vars
      => [fill_playback /\ playback_started /\ queued < CallbackBlocks
            => run >= PreBuffer \div CallbackBlocks]_vars
  <2> SUFFICES ASSUME PlayInv, playback_started, queued < CallbackBlocks
               PROVE  run >= PreBuffer \div CallbackBlocks
    OBVIOUS
  <2>1. /\ PreBuffer \in Nat /\ CallbackBlocks \in Nat \ {0} /\ queued \in Nat /\ run \in Nat
    BY AudioAssumption DEF PlayInv
  <2>2. Lasting \in Nat
    BY <2>1 DEF Lasting
  <2>3. ~(run < Lasting)
    <3> SUFFICES ASSUME run < Lasting PROVE FALSE
      OBVIOUS
    <3>1. queued + run * CallbackBlocks >= PreBuffer
      BY DEF PlayInv
    <3>2. run * CallbackBlocks + CallbackBlocks <= PreBuffer
      BY <2>1, LastingHasMore
    <3>3. run * CallbackBlocks \in Nat
      BY <2>1
    <3> QED BY <2>1, <3>1, <3>2, <3>3
  <2> QED BY <2>1, <2>2, <2>3 DEF Lasting
<1> QED BY <1>1, PlayInit, PlayNext, PTL DEF Spec, PreBufferLasts

-----------------------------------------------------------------------------
(* Dialling *)

SentPacket == [press : Nat, seq : Nat, ts : Nat, marker : BOOLEAN, report : Nat, end : BOOLEAN]

Latest == sent[Len(sent)]

\* Presses are numbered; this is the last one whose sending has begun.
Begun == presses - Len(dtmf)

DialTypes ==
    /\ seq \in 0 .. SeqSpace - 1 /\ timestamp \in Nat
    /\ marker \in BOOLEAN
    /\ presses \in Nat /\ packetized \in Nat
    /\ dtmf \in Seq(Nat) /\ Len(dtmf) <= presses
    /\ dtmf_sending \in [press : Nat, timestamp : Nat, sent : Nat] \cup {NoDigit}
    /\ sent \in Seq(SentPacket)

\* How two datagrams that follow each other relate.
Neighbours(i) ==
    LET p == sent[i]
        q == sent[i + 1]
    IN  /\ q.seq = (p.seq + 1) % SeqSpace
        /\ q.press > 0 /\ q.press = p.press =>
              /\ q.ts = p.ts
              /\ q.report = IF p.end THEN p.report ELSE p.report + 1
        /\ q.press > 0 /\ q.press # p.press =>
              /\ p.press = 0 \/ p.end
              /\ q.report = 1
              /\ \A j \in 1 .. i : sent[j].press < q.press
        /\ q.press = 0 => (q.marker <=> p.press > 0)

InSequence == \A i \in 1 .. Len(sent) - 1 : Neighbours(i)

\* What the stream's state remembers of the last datagram.
LastKnown ==
    sent # <<>> =>
        /\ seq = (Latest.seq + 1) % SeqSpace
        /\ marker <=> Latest.press > 0
        /\ dtmf_sending = NoDigit => Latest.press = 0 \/ Latest.end

\* The digit being sent is the last one begun, and is not over.
NotOver ==
    dtmf_sending # NoDigit =>
        /\ dtmf_sending.press = Begun /\ Begun > 0
        /\ sent # <<>> /\ Latest.press = Begun /\ ~Latest.end
        /\ Latest.report = dtmf_sending.sent /\ Latest.ts = dtmf_sending.timestamp
        /\ \A i \in 1 .. Len(sent) : sent[i].press = Begun => ~sent[i].end

\* The inductive invariant of the sender.
DialInv ==
    /\ DialTypes
    /\ \A i \in 1 .. Len(dtmf) : dtmf[i] = Begun + i
    /\ \A i \in 1 .. Len(sent) : sent[i].press <= Begun
    /\ LastKnown
    /\ NotOver
    /\ InSequence
    /\ EndsRepeated

\* k datagrams that differ only in their sequence numbers were sent.
Extends(k, press, ts, mark, report, end) ==
    /\ sent' \in Seq(SentPacket) /\ Len(sent') = Len(sent) + k
    /\ \A i \in 1 .. Len(sent) : sent'[i] = sent[i]
    /\ \A j \in 1 .. k :
          LET q == sent'[Len(sent) + j]
          IN  /\ q.press = press /\ q.ts = ts /\ (q.marker <=> mark) /\ q.report = report
              /\ (q.end <=> end) /\ q.seq = (seq + j - 1) % SeqSpace
    /\ seq' = (seq + k) % SeqSpace

\* finish does that.
LEMMA FinishExtends ==
    ASSUME DialTypes, NEW k \in Nat, NEW packet \in SentPacket, finish(k, packet)
    PROVE  Extends(k, packet.press, packet.ts, packet.marker, packet.report, packet.end)
<1> DEFINE more == [i \in 1 .. k |-> [packet EXCEPT !.seq = (seq + i - 1) % SeqSpace]]
<1>1. sent \in Seq(SentPacket) /\ seq \in Nat /\ SeqSpace \in Nat \ {0} /\ Len(sent) \in Nat
  BY SendAssumption DEF DialTypes
<1>2. ASSUME NEW i \in 1 .. k PROVE [packet EXCEPT !.seq = (seq + i - 1) % SeqSpace] \in SentPacket
  <2>1. (seq + i - 1) % SeqSpace \in Nat
    BY <1>1
  <2> QED BY <2>1 DEF SentPacket
<1>3. more \in Seq(SentPacket) /\ Len(more) = k
  BY <1>2
<1>4. ASSUME NEW j \in 1 .. k
      PROVE  /\ more[j].press = packet.press /\ more[j].ts = packet.ts
             /\ more[j].marker = packet.marker /\ more[j].report = packet.report
             /\ more[j].end = packet.end /\ more[j].seq = (seq + j - 1) % SeqSpace
  BY DEF SentPacket
<1>5. sent' = sent \o more /\ seq' = (seq + k) % SeqSpace
  BY DEF finish
<1> HIDE DEF more
<1>6. sent' \in Seq(SentPacket) /\ Len(sent') = Len(sent) + k
  BY <1>1, <1>3, <1>5
<1>7. ASSUME NEW i \in 1 .. Len(sent) PROVE sent'[i] = sent[i]
  BY <1>1, <1>3, <1>5
<1>8. ASSUME NEW j \in 1 .. k PROVE sent'[Len(sent) + j] = more[j]
  BY <1>1, <1>3, <1>5
<1> QED BY <1>4, <1>5, <1>6, <1>7, <1>8 DEF Extends

\* The next sequence number, from a wrapped one.
LEMMA NextWrapped ==
    ASSUME NEW x \in Nat, NEW s \in Nat \ {0}
    PROVE  (x + 1) % s = ((x % s) + 1) % s
<1> DEFINE q == x \div s
           r == x % s
<1>1. q \in Nat /\ r \in 0 .. s - 1
  OBVIOUS
<1>2. x = q * s + r
  BY SMTT(30)
<1> HIDE DEF q, r
<1>3. CASE r + 1 < s
  <2>1. (x + 1) % s = r + 1
    BY <1>1, <1>2, <1>3, SMTT(30)
  <2>2. (r + 1) % s = r + 1
    BY <1>1, <1>3
  <2> QED BY <2>1, <2>2 DEF r
<1>4. CASE r + 1 = s
  <2>1. x + 1 = (q + 1) * s
    BY <1>1, <1>2, <1>4, SMTT(30)
  <2>2. ((q + 1) * s) % s = 0
    BY <1>1, SMTT(30)
  <2>3. (r + 1) % s = 0
    BY <1>1, <1>4
  <2> QED BY <2>1, <2>2, <2>3 DEF r
<1> QED BY <1>1, <1>3, <1>4

\* What has to be shown of new datagrams for all neighbours to stay in order.
LEMMA NeighboursKept ==
    ASSUME DialTypes, LastKnown, InSequence,
           NEW k \in Nat \ {0}, NEW d \in Nat, NEW t, NEW mark \in BOOLEAN, NEW r, NEW e \in BOOLEAN,
           Extends(k, d, t, mark, r, e),
           k > 1 => d > 0 /\ e,
           sent # <<>> =>
               /\ d > 0 /\ d = Latest.press =>
                     t = Latest.ts /\ r = IF Latest.end THEN Latest.report ELSE Latest.report + 1
               /\ d > 0 /\ d # Latest.press =>
                     /\ Latest.press = 0 \/ Latest.end
                     /\ r = 1 /\ \A j \in 1 .. Len(sent) : sent[j].press < d
               /\ d = 0 => (mark <=> Latest.press > 0)
    PROVE  /\ InSequence' /\ sent' # <<>> /\ Latest' \in SentPacket
           /\ seq' = (Latest'.seq + 1) % SeqSpace /\ seq' \in 0 .. SeqSpace - 1
           /\ Latest'.press = d /\ Latest'.ts = t /\ (Latest'.end <=> e) /\ Latest'.report = r
<1> DEFINE n == Len(sent)
<1>1. /\ n \in Nat /\ sent \in Seq(SentPacket) /\ seq \in Nat /\ seq < SeqSpace
      /\ SeqSpace \in Nat \ {0}
  BY SendAssumption DEF DialTypes
<1>2. /\ sent' \in Seq(SentPacket) /\ Len(sent') = n + k
      /\ \A i \in 1 .. n : sent'[i] = sent[i]
      /\ seq' = (seq + k) % SeqSpace
  BY DEF Extends
<1>3. ASSUME NEW j \in 1 .. k
      PROVE  /\ sent'[n + j].press = d /\ sent'[n + j].ts = t /\ (sent'[n + j].marker <=> mark)
             /\ sent'[n + j].report = r /\ (sent'[n + j].end <=> e)
             /\ sent'[n + j].seq = (seq + j - 1) % SeqSpace
  BY DEF Extends
<1> HIDE DEF n
<1>4. ASSUME NEW i \in 1 .. Len(sent') - 1 PROVE Neighbours(i)'
  <2>0. i \in Nat /\ i >= 1 /\ i <= (n + k) - 1 /\ k \in Nat /\ k >= 1
    BY <1>1, <1>2
  <2>1. CASE i < n
    <3>1. i \in 1 .. Len(sent) - 1 /\ i \in 1 .. n /\ i + 1 \in 1 .. n /\ 1 .. i \subseteq 1 .. n
      BY <1>1, <2>0, <2>1 DEF n
    <3>2. Neighbours(i)
      BY <3>1 DEF InSequence
    <3>3. sent'[i] = sent[i] /\ sent'[i + 1] = sent[i + 1] /\ \A j \in 1 .. i : sent'[j] = sent[j]
      BY <1>2, <3>1
    <3> QED BY <3>2, <3>3 DEF Neighbours
  <2>2. CASE i = n
    <3>1. 1 \in 1 .. k /\ n \in 1 .. n /\ sent # <<>>
      BY <1>1, <2>0, <2>2 DEF n
    <3>2. /\ sent'[n + 1].press = d /\ sent'[n + 1].ts = t /\ (sent'[n + 1].marker <=> mark)
          /\ sent'[n + 1].report = r
          /\ sent'[n + 1].seq = (seq + 1 - 1) % SeqSpace
      BY <1>3, <3>1
    <3>3. sent'[n] = Latest /\ \A j \in 1 .. i : sent'[j] = sent[j]
      BY <1>2, <2>2, <3>1 DEF Latest, n
    <3>4. (seq + 1 - 1) % SeqSpace = seq /\ seq = (Latest.seq + 1) % SeqSpace
      BY <1>1, <3>1 DEF LastKnown
    <3> QED BY <2>2, <3>1, <3>2, <3>3, <3>4 DEF Neighbours, n
  <2>3. CASE i > n
    <3>1. PICK j \in 1 .. k : i = n + j /\ j + 1 \in 1 .. k
      <4>1. i - n \in 1 .. k /\ (i - n) + 1 \in 1 .. k /\ i = n + (i - n)
        BY <1>1, <2>0, <2>3
      <4> QED BY <4>1
    <3>2. n + (j + 1) = i + 1
      BY <1>1, <3>1
    <3>3. /\ sent'[i].press = d /\ sent'[i].ts = t /\ (sent'[i].end <=> e)
          /\ sent'[i].report = r /\ sent'[i].seq = (seq + j - 1) % SeqSpace
      BY <1>3, <3>1
    <3>4. /\ sent'[i + 1].press = d /\ sent'[i + 1].ts = t
          /\ sent'[i + 1].report = r /\ sent'[i + 1].seq = (seq + (j + 1) - 1) % SeqSpace
      BY <1>3, <3>1, <3>2
    <3>5. d > 0 /\ e
      BY <3>1
    <3>6. (seq + (j + 1) - 1) % SeqSpace = (((seq + j - 1) % SeqSpace) + 1) % SeqSpace
      <4>1. seq + j - 1 \in Nat /\ seq + (j + 1) - 1 = (seq + j - 1) + 1
        BY <1>1
      <4> QED BY <1>1, <4>1, NextWrapped
    <3> QED BY <3>3, <3>4, <3>5, <3>6 DEF Neighbours
  <2> QED BY <1>1, <2>0, <2>1, <2>2, <2>3
<1>5. Latest' = sent'[n + k] /\ n + k \in 1 .. Len(sent') /\ k \in 1 .. k
  BY <1>1, <1>2 DEF Latest
<1>6. /\ Latest' \in SentPacket /\ sent' # <<>>
      /\ Latest'.press = d /\ Latest'.ts = t /\ (Latest'.end <=> e) /\ Latest'.report = r
      /\ Latest'.seq = (seq + k - 1) % SeqSpace
  BY <1>2, <1>3, <1>5
<1>7. seq' = (((seq + k - 1) % SeqSpace) + 1) % SeqSpace /\ seq' \in 0 .. SeqSpace - 1
  <2>1. seq + k - 1 \in Nat /\ seq + k = (seq + k - 1) + 1
    BY <1>1
  <2>2. (seq + k) % SeqSpace = (((seq + k - 1) % SeqSpace) + 1) % SeqSpace
    BY <1>1, <2>1, NextWrapped
  <2> QED BY <1>1, <1>2, <2>2
<1> QED BY <1>4, <1>6, <1>7 DEF InSequence

\* The end of a digit is new, and comes EndCopies times.
LEMMA EndsKept ==
    ASSUME DialTypes, EndsRepeated, presses' = presses,
           NEW k \in Nat \ {0}, NEW d \in Nat, NEW t, NEW mark, NEW r, NEW e \in BOOLEAN,
           Extends(k, d, t, mark, r, e),
           e => k = EndCopies /\ \A i \in 1 .. Len(sent) : sent[i].press = d => ~sent[i].end
    PROVE  EndsRepeated'
<1> DEFINE n == Len(sent)
<1>1. n \in Nat /\ sent \in Seq(SentPacket) /\ DOMAIN sent = 1 .. n /\ k \in Nat
  BY DEF DialTypes
<1>2. /\ DOMAIN sent' = 1 .. n + k
      /\ \A i \in 1 .. n : sent'[i] = sent[i]
  BY DEF Extends
<1>3. ASSUME NEW i \in n + 1 .. n + k PROVE sent'[i].press = d /\ (sent'[i].end <=> e)
  <2>1. i - n \in 1 .. k /\ n + (i - n) = i
    BY <1>1
  <2> QED BY <2>1 DEF Extends
<1>4. SUFFICES ASSUME NEW c \in 1 .. presses
               PROVE  LET ends == {i \in DOMAIN sent' : sent'[i].press = c /\ sent'[i].end}
                      IN  ends = {} \/ \E i \in ends : ends = i .. i + EndCopies - 1
  BY DEF EndsRepeated
<1> DEFINE before == {i \in DOMAIN sent : sent[i].press = c /\ sent[i].end}
           after == {i \in DOMAIN sent' : sent'[i].press = c /\ sent'[i].end}
<1> HIDE DEF n
<1>5. CASE e /\ c = d
  <2>1. \A i \in 1 .. n : ~(sent'[i].press = c /\ sent'[i].end)
    BY <1>2, <1>5 DEF n
  <2>2. \A i \in n + 1 .. n + k : sent'[i].press = c /\ sent'[i].end
    BY <1>3, <1>5
  <2>3. after = n + 1 .. n + k
    BY <1>1, <1>2, <2>1, <2>2
  <2>4. n + k = (n + 1) + EndCopies - 1 /\ n + 1 \in n + 1 .. n + k
    BY <1>1, <1>5
  <2> QED BY <2>3, <2>4
<1>6. CASE ~(e /\ c = d)
  <2>1. \A i \in n + 1 .. n + k : ~(sent'[i].press = c /\ sent'[i].end)
    BY <1>3, <1>6
  <2>2. \A i \in 1 .. n : (sent'[i].press = c /\ sent'[i].end) <=> (sent[i].press = c /\ sent[i].end)
    BY <1>2
  <2>3. after = before
    BY <1>1, <1>2, <2>1, <2>2
  <2>4. before = {} \/ \E i \in before : before = i .. i + EndCopies - 1
    BY DEF EndsRepeated
  <2> QED BY <2>3, <2>4
<1> QED BY <1>5, <1>6

LEMMA DialInit == SendInit => DialInv
<1> SUFFICES ASSUME SendInit PROVE DialInv
  OBVIOUS
<1>1. DialTypes
  BY SendAssumption DEF SendInit, DialTypes
<1>2. sent = <<>> /\ dtmf = <<>> /\ dtmf_sending = NoDigit /\ Len(sent) = 0 /\ Len(dtmf) = 0
      /\ presses = 0
  BY DEF SendInit
<1>3. InSequence /\ EndsRepeated /\ LastKnown /\ NotOver
  BY <1>2 DEF InSequence, EndsRepeated, LastKnown, NotOver
<1> QED BY <1>1, <1>2, <1>3 DEF DialInv

\* A digit is queued behind the others.
LEMMA DialQueue == ASSUME DialInv, queue_dtmf PROVE DialInv'
<1>1. /\ presses' = presses + 1 /\ dtmf' = Append(dtmf, presses + 1)
      /\ UNCHANGED <<seq, timestamp, marker, dtmf_sending, packetized, sent>>
  BY DEF queue_dtmf
<1>2. /\ presses \in Nat /\ dtmf \in Seq(Nat) /\ Len(dtmf) \in Nat /\ Len(dtmf) <= presses
      /\ sent \in Seq(SentPacket)
  BY DEF DialInv, DialTypes
<1>3. dtmf' \in Seq(Nat) /\ Len(dtmf') = Len(dtmf) + 1
  BY <1>1, <1>2
<1>4. Begun' = Begun /\ Begun \in Nat /\ Begun <= presses
  BY <1>1, <1>2, <1>3 DEF Begun
<1>5. DialTypes'
  BY <1>1, <1>2, <1>3 DEF DialInv, DialTypes
<1>6. ASSUME NEW i \in 1 .. Len(dtmf') PROVE dtmf'[i] = Begun' + i
  <2>1. CASE i <= Len(dtmf)
    <3>1. i \in 1 .. Len(dtmf) /\ dtmf'[i] = dtmf[i]
      BY <1>1, <1>2, <1>3, <2>1
    <3> QED BY <1>4, <3>1 DEF DialInv
  <2>2. CASE i = Len(dtmf) + 1
    BY <1>1, <1>2, <1>3, <1>4, <2>2 DEF Begun
  <2> QED BY <1>2, <1>3, <2>1, <2>2
<1>7. EndsRepeated'
  <2> SUFFICES ASSUME NEW c \in 1 .. presses'
               PROVE  LET ends == {i \in DOMAIN sent : sent[i].press = c /\ sent[i].end}
                      IN  ends = {} \/ \E i \in ends : ends = i .. i + EndCopies - 1
    BY <1>1 DEF EndsRepeated
  <2>1. CASE c \in 1 .. presses
    BY <2>1 DEF DialInv, EndsRepeated
  <2>2. CASE c = presses + 1
    <3>1. ASSUME NEW i \in DOMAIN sent PROVE sent[i].press # c
      <4>1. i \in 1 .. Len(sent) /\ sent[i] \in SentPacket
        BY <1>2
      <4>2. sent[i].press \in Nat /\ sent[i].press <= Begun
        BY <4>1 DEF DialInv, SentPacket
      <4> QED BY <1>2, <1>4, <2>2, <4>2
    <3> QED BY <3>1
  <2>3. c \in 1 .. presses \/ c = presses + 1
    BY <1>1, <1>2
  <2> QED BY <2>1, <2>2, <2>3
<1>8. InSequence' /\ LastKnown' /\ NotOver'
  BY <1>1, <1>4 DEF DialInv, InSequence, Neighbours, LastKnown, NotOver, Latest
<1> QED BY <1>1, <1>4, <1>5, <1>6, <1>7, <1>8 DEF DialInv

\* The digit a frame is about: the one being sent, or the next press.
LEMMA DialSending ==
    ASSUME DialInv, dtmf_sending # NoDigit \/ dtmf # <<>>,
           dtmf' = (IF dtmf_sending = NoDigit THEN Tail(dtmf) ELSE dtmf), presses' = presses
    PROVE  /\ Sending \in [press : Nat, timestamp : Nat, sent : Nat]
           /\ Sending.press = Begun' /\ Begun' \in Nat /\ Begun' > 0
           /\ dtmf' \in Seq(Nat) /\ Len(dtmf') <= presses
           /\ \A i \in 1 .. Len(dtmf') : dtmf'[i] = Begun' + i
           /\ \A i \in 1 .. Len(sent) : /\ sent[i].press <= Begun'
                                        /\ sent[i].press = Begun' => ~sent[i].end
           /\ dtmf_sending = NoDigit => /\ Sending.sent = 0
                                        /\ \A i \in 1 .. Len(sent) : sent[i].press < Begun'
           /\ dtmf_sending # NoDigit => /\ Sending = dtmf_sending /\ Begun' = Begun
<1>1. /\ presses \in Nat /\ dtmf \in Seq(Nat) /\ Len(dtmf) \in Nat /\ Len(dtmf) <= presses
      /\ sent \in Seq(SentPacket) /\ timestamp \in Nat
      /\ dtmf_sending \in [press : Nat, timestamp : Nat, sent : Nat] \cup {NoDigit}
      /\ \A i \in 1 .. Len(dtmf) : dtmf[i] = Begun + i
  BY DEF DialInv, DialTypes
<1>2. Begun \in Nat
  BY <1>1 DEF Begun
<1>2a. ASSUME NEW i \in 1 .. Len(sent) PROVE sent[i].press \in Nat /\ sent[i].press <= Begun
  <2>1. sent[i] \in SentPacket
    BY <1>1
  <2> QED BY <2>1 DEF DialInv, SentPacket
<1>3. CASE dtmf_sending # NoDigit
  <2>1. Sending = dtmf_sending /\ dtmf' = dtmf /\ Begun' = Begun
    BY <1>3 DEF Sending, Begun
  <2>2. NotOver
    BY DEF DialInv
  <2> QED BY <1>2a, <1>1, <1>2, <1>3, <2>1, <2>2 DEF NotOver
<1>4. CASE dtmf_sending = NoDigit
  <2>1. dtmf # <<>> /\ dtmf' = Tail(dtmf)
    BY <1>4
  <2>2. /\ dtmf' \in Seq(Nat) /\ Len(dtmf') = Len(dtmf) - 1 /\ Len(dtmf) >= 1
        /\ Head(dtmf) = dtmf[1] /\ \A i \in 1 .. Len(dtmf) - 1 : dtmf'[i] = dtmf[i + 1]
    BY <1>1, <2>1
  <2>3. Begun' = Begun + 1
    <3>1. Begun' = presses' - Len(dtmf') /\ Begun = presses - Len(dtmf)
      BY DEF Begun
    <3>2. presses' = presses /\ Len(dtmf') = Len(dtmf) - 1 /\ Len(dtmf) \in Nat /\ presses \in Nat
      BY <1>1, <2>2
    <3>3. \A x, y \in Nat : x - (y - 1) = (x - y) + 1
      BY ONLY TRUE
    <3> QED BY ONLY <3>1, <3>2, <3>3
  <2>4. Head(dtmf) = Begun + 1
    BY <1>1, <2>2
  <2>5. dtmf_timestamp \in Nat
    <3>1. Ratio \in Nat \ {0}
      BY SendAssumption
    <3>2. timestamp \div Ratio \in Nat
      BY <1>1, <3>1
    <3> QED BY <3>2 DEF dtmf_timestamp
  <2>6. Sending = [press |-> Begun', timestamp |-> dtmf_timestamp, sent |-> 0]
    BY <1>4, <2>3, <2>4 DEF Sending
  <2>7. ASSUME NEW i \in 1 .. Len(dtmf') PROVE dtmf'[i] = Begun' + i
    <3>1. i + 1 \in 1 .. Len(dtmf) /\ i \in 1 .. Len(dtmf) - 1
      BY <1>1, <2>2
    <3>2. dtmf[i + 1] = Begun + (i + 1)
      BY <1>1, <3>1
    <3> QED BY <1>2, <2>2, <2>3, <3>1, <3>2
  <2>8. \A i \in 1 .. Len(sent) : sent[i].press < Begun' /\ sent[i].press # Begun'
    BY <1>2a, <1>2, <2>3
  <2>9. /\ Sending \in [press : Nat, timestamp : Nat, sent : Nat]
        /\ Sending.press = Begun' /\ Sending.sent = 0 /\ Begun' \in Nat /\ Begun' > 0
    BY <1>2, <2>3, <2>5, <2>6
  <2>10. dtmf' \in Seq(Nat) /\ Len(dtmf') <= presses
    BY <1>1, <2>2
  <2>11. \A i \in 1 .. Len(sent) : sent[i].press <= Begun'
    BY <1>2, <1>2a, <2>3
  <2> QED BY <1>4, <2>7, <2>8, <2>9, <2>10, <2>11
<1> QED BY <1>3, <1>4

\* What a frame that carries the next report of a digit sends: k datagrams
\* of press d with timestamp t and report r, which end the digit or not.
LEMMA EventSent ==
    ASSUME DialInv, PacketizeEvent
    PROVE  \E k \in Nat \ {0}, d \in Nat, t \in Nat, r \in Nat, e \in BOOLEAN, mark \in BOOLEAN :
              /\ d = Sending.press /\ t = Sending.timestamp /\ r = Sending.sent + 1 /\ d > 0
              /\ k > 1 => e
              /\ e => k = EndCopies
              /\ Extends(k, d, t, mark, r, e)
              /\ e => dtmf_sending' = NoDigit
              /\ ~e => dtmf_sending' = [Sending EXCEPT !.sent = r]
<1> DEFINE report == Sending.sent + 1
           end == report >= LastReport
           k == IF end THEN EndCopies ELSE 1
           packet == [press |-> Sending.press, seq |-> seq, ts |-> Sending.timestamp,
                      marker |-> report = 1, report |-> report, end |-> end]
<1>1. /\ dtmf_sending # NoDigit \/ dtmf # <<>>
      /\ dtmf' = IF dtmf_sending = NoDigit THEN Tail(dtmf) ELSE dtmf
      /\ presses' = presses /\ finish(k, packet)
      /\ dtmf_sending' = IF end THEN NoDigit ELSE [Sending EXCEPT !.sent = report]
  BY DEF PacketizeEvent, FrameDone
<1>2. /\ Sending \in [press : Nat, timestamp : Nat, sent : Nat]
      /\ Sending.press = Begun' /\ Begun' > 0
  BY <1>1, DialSending
<1>3. /\ DialTypes /\ seq \in Nat /\ EndCopies \in Nat \ {0}
      /\ Sending.press \in Nat /\ Sending.timestamp \in Nat /\ Sending.sent + 1 \in Nat
  BY <1>2, SendAssumption DEF DialInv, DialTypes
<1>4. PICK d \in Nat, t \in Nat, r \in Nat :
          d = Sending.press /\ t = Sending.timestamp /\ r = report
  BY <1>3
<1>5. end \in BOOLEAN /\ (report = 1) \in BOOLEAN
  OBVIOUS
<1>6. PICK e \in BOOLEAN, mark \in BOOLEAN : (e <=> end) /\ (mark <=> report = 1)
  BY <1>5
<1>7. k \in Nat \ {0} /\ (k > 1 => e) /\ (e => k = EndCopies)
  <2>1. CASE end
    BY <1>3, <1>6, <2>1
  <2>2. CASE ~end
    BY <1>6, <2>2
  <2> QED BY <2>1, <2>2
<1> HIDE DEF k
<1>8. packet \in SentPacket
  BY <1>3, <1>4 DEF SentPacket
<1>9. Extends(k, d, t, mark, r, e)
  <2>1. Extends(k, packet.press, packet.ts, packet.marker, packet.report, packet.end)
    BY <1>1, <1>3, <1>7, <1>8, FinishExtends
  <2>2. /\ packet.press = d /\ packet.ts = t /\ (packet.marker <=> mark)
        /\ packet.report = r /\ (packet.end <=> e)
    BY <1>4, <1>6
  <2> QED BY <2>1, <2>2 DEF Extends
<1>10. (e => dtmf_sending' = NoDigit) /\ (~e => dtmf_sending' = [Sending EXCEPT !.sent = r])
  BY <1>1, <1>4, <1>6
<1>11. d > 0
  BY <1>2, <1>4
<1> HIDE DEF packet, end, report
<1>12. r = Sending.sent + 1
  BY <1>4 DEF report
<1> QED BY <1>4, <1>7, <1>9, <1>10, <1>11, <1>12

\* A frame carries the next report of a digit.
LEMMA DialEvent == ASSUME DialInv, PacketizeEvent PROVE DialInv'
<1>1. /\ dtmf_sending # NoDigit \/ dtmf # <<>>
      /\ dtmf' = IF dtmf_sending = NoDigit THEN Tail(dtmf) ELSE dtmf
      /\ presses' = presses /\ marker' = TRUE
      /\ packetized' = packetized + 1 /\ timestamp' = (timestamp + Ratio) % TsSpace
  BY DEF PacketizeEvent, FrameDone
<1>2. /\ Sending \in [press : Nat, timestamp : Nat, sent : Nat]
      /\ Sending.press = Begun' /\ Begun' \in Nat /\ Begun' > 0
      /\ dtmf' \in Seq(Nat) /\ Len(dtmf') <= presses
      /\ \A i \in 1 .. Len(dtmf') : dtmf'[i] = Begun' + i
      /\ \A i \in 1 .. Len(sent) : /\ sent[i].press <= Begun'
                                   /\ sent[i].press = Begun' => ~sent[i].end
      /\ dtmf_sending = NoDigit => /\ Sending.sent = 0
                                   /\ \A i \in 1 .. Len(sent) : sent[i].press < Begun'
      /\ dtmf_sending # NoDigit => Sending = dtmf_sending /\ Begun' = Begun
  BY <1>1, DialSending
<1>3. /\ DialTypes /\ LastKnown /\ NotOver /\ InSequence /\ EndsRepeated
      /\ seq \in Nat /\ EndCopies \in Nat \ {0} /\ Sending.sent \in Nat /\ Sending.timestamp \in Nat
      /\ timestamp \in Nat /\ Ratio \in Nat /\ TsSpace \in Nat \ {0} /\ packetized \in Nat
      /\ sent \in Seq(SentPacket)
  BY <1>2, SendAssumption DEF DialInv, DialTypes
<1>4. PICK k \in Nat \ {0}, d \in Nat, t \in Nat, r \in Nat, e \in BOOLEAN, mark \in BOOLEAN :
          /\ d = Sending.press /\ t = Sending.timestamp /\ r = Sending.sent + 1 /\ d > 0
          /\ k > 1 => e
          /\ e => k = EndCopies
          /\ Extends(k, d, t, mark, r, e)
          /\ e => dtmf_sending' = NoDigit
          /\ ~e => dtmf_sending' = [Sending EXCEPT !.sent = r]
  BY EventSent
<1>5. ASSUME sent # <<>>
      PROVE  /\ d = Latest.press =>
                   t = Latest.ts /\ r = IF Latest.end THEN Latest.report ELSE Latest.report + 1
             /\ d # Latest.press =>
                   /\ Latest.press = 0 \/ Latest.end
                   /\ r = 1 /\ \A j \in 1 .. Len(sent) : sent[j].press < d
  <2>1. CASE dtmf_sending # NoDigit
    BY <1>2, <1>3, <1>4, <2>1 DEF NotOver
  <2>2. CASE dtmf_sending = NoDigit
    <3>1. Len(sent) \in 1 .. Len(sent)
      BY <1>3, <1>5
    <3>2. Latest.press < d /\ Latest.press \in Nat
      <4>1. Latest \in SentPacket
        BY <1>3, <3>1 DEF Latest
      <4>2. sent[Len(sent)].press < d
        BY <1>2, <1>4, <2>2, <3>1
      <4> QED BY <4>1, <4>2 DEF Latest, SentPacket
    <3>3. d # Latest.press
      BY <3>2
    <3> QED BY <1>2, <1>3, <1>4, <1>5, <2>2, <3>3 DEF LastKnown
  <2> QED BY <2>1, <2>2
<1>6. /\ DialTypes /\ LastKnown /\ InSequence /\ Extends(k, d, t, mark, r, e) /\ d > 0
      /\ k > 1 => d > 0 /\ e
  BY <1>3, <1>4
<1>7. /\ InSequence' /\ sent' # <<>> /\ Latest' \in SentPacket
      /\ seq' = (Latest'.seq + 1) % SeqSpace /\ seq' \in 0 .. SeqSpace - 1
      /\ Latest'.press = d /\ Latest'.ts = t /\ (Latest'.end <=> e) /\ Latest'.report = r
  BY <1>5, <1>6, NeighboursKept
<1>8. EndsRepeated'
  <2>1. e => k = EndCopies /\ \A i \in 1 .. Len(sent) : sent[i].press = d => ~sent[i].end
    BY <1>2, <1>4
  <2>2. presses' = presses /\ DialTypes /\ EndsRepeated
    BY <1>1, <1>3
  <2> QED BY <1>4, <2>1, <2>2, EndsKept
<1>9. /\ dtmf_sending' = NoDigit <=> e
      /\ dtmf_sending' \in [press : Nat, timestamp : Nat, sent : Nat] \cup {NoDigit}
      /\ ~e => dtmf_sending'.press = d /\ dtmf_sending'.sent = r /\ dtmf_sending'.timestamp = t
  <2>1. CASE e
    BY <1>4, <2>1
  <2>2. CASE ~e
    <3>1. dtmf_sending' = [Sending EXCEPT !.sent = r]
      BY <1>4, <2>2
    <3>2. /\ dtmf_sending' \in [press : Nat, timestamp : Nat, sent : Nat]
          /\ dtmf_sending'.press = d /\ dtmf_sending'.sent = r /\ dtmf_sending'.timestamp = t
      BY <1>2, <1>4, <3>1
    <3> QED BY <2>2, <3>2, SendAssumption
  <2> QED BY <2>1, <2>2
<1>10. /\ sent' \in Seq(SentPacket)
       /\ \A i \in 1 .. Len(sent') : /\ sent'[i].press <= Begun'
                                     /\ ~e /\ sent'[i].press = Begun' => ~sent'[i].end
  <2>1. sent' \in Seq(SentPacket) /\ Len(sent') = Len(sent) + k /\ Len(sent) \in Nat
    BY <1>3, <1>4 DEF Extends
  <2>2. ASSUME NEW i \in 1 .. Len(sent')
        PROVE  sent'[i].press <= Begun' /\ (~e /\ sent'[i].press = Begun' => ~sent'[i].end)
    <3>1. CASE i <= Len(sent)
      <4>1. i \in 1 .. Len(sent) /\ sent'[i] = sent[i]
        BY <1>4, <2>1, <3>1 DEF Extends
      <4> QED BY <1>2, <4>1
    <3>2. CASE i > Len(sent)
      <4>1. i - Len(sent) \in 1 .. k /\ Len(sent) + (i - Len(sent)) = i
        BY <1>4, <2>1, <3>2
      <4>2. sent'[i].press = d /\ (sent'[i].end <=> e)
        BY <1>4, <4>1 DEF Extends
      <4> QED BY <1>2, <1>4, <4>2
    <3> QED BY <2>1, <3>1, <3>2
  <2> QED BY <2>1, <2>2
<1>11. DialTypes'
  <2>1. timestamp + Ratio \in Nat /\ packetized' \in Nat
    BY <1>1, <1>3
  <2>2. (timestamp + Ratio) % TsSpace \in Nat
    BY <1>3, <2>1
  <2>3. timestamp' \in Nat
    BY <1>1, <2>2
  <2>4. presses' \in Nat /\ dtmf' \in Seq(Nat) /\ Len(dtmf') <= presses' /\ marker' \in BOOLEAN
    BY <1>1, <1>2, <1>3 DEF DialTypes
  <2>5. seq' \in 0 .. SeqSpace - 1 /\ sent' \in Seq(SentPacket) /\ packetized' \in Nat
    BY <1>7, <1>10, <2>1
  <2>6. dtmf_sending' \in [press : Nat, timestamp : Nat, sent : Nat] \cup {NoDigit}
    BY <1>9
  <2> QED BY <2>3, <2>4, <2>5, <2>6 DEF DialTypes
<1>12. LastKnown'
  BY <1>1, <1>6, <1>7, <1>9 DEF LastKnown
<1>13. NotOver'
  BY <1>2, <1>4, <1>7, <1>9, <1>10 DEF NotOver
<1> QED BY <1>2, <1>7, <1>8, <1>10, <1>11, <1>12, <1>13 DEF DialInv

\* What a frame that carries audio sends.
LEMMA AudioSent ==
    ASSUME DialTypes, PacketizeAudio
    PROVE  \E k \in Nat \ {0}, d \in Nat, e \in BOOLEAN :
              k = 1 /\ d = 0 /\ ~e /\ Extends(k, d, timestamp, marker, d, e)
<1> DEFINE packet == [press |-> 0, seq |-> seq, ts |-> timestamp, marker |-> marker,
                      report |-> 0, end |-> FALSE]
<1>1. finish(1, packet)
  BY DEF PacketizeAudio
<1>2. seq \in Nat /\ timestamp \in Nat /\ marker \in BOOLEAN
  BY SendAssumption DEF DialTypes
<1>3. packet \in SentPacket
  BY <1>2, Zenon DEF SentPacket
<1>4. Extends(1, packet.press, packet.ts, packet.marker, packet.report, packet.end)
  BY <1>1, <1>3, FinishExtends
<1>5. Extends(1, 0, timestamp, marker, 0, FALSE)
  BY <1>4
<1> HIDE DEF packet
<1>6. PICK k \in Nat \ {0}, d \in Nat : k = 1 /\ d = 0
  OBVIOUS
<1>7. PICK e \in BOOLEAN : ~e
  BY Zenon
<1>8. Extends(k, d, timestamp, marker, d, e)
  BY <1>5, <1>6, <1>7 DEF Extends
<1> QED BY <1>6, <1>7, <1>8

\* A frame carries audio, since no digit is being sent or waiting.
LEMMA DialAudio == ASSUME DialInv, PacketizeAudio PROVE DialInv'
<1>1. /\ dtmf_sending = NoDigit /\ dtmf_sending' = NoDigit /\ dtmf = <<>> /\ dtmf' = <<>>
      /\ marker' = FALSE /\ presses' = presses
      /\ packetized' = packetized + 1 /\ timestamp' = (timestamp + Ratio) % TsSpace
  BY DEF PacketizeAudio, FrameDone
<1>2. /\ DialTypes /\ LastKnown /\ InSequence /\ EndsRepeated
      /\ seq \in Nat /\ timestamp \in Nat /\ marker \in BOOLEAN /\ packetized \in Nat
      /\ presses \in Nat /\ sent \in Seq(SentPacket) /\ Len(sent) \in Nat
      /\ \A i \in 1 .. Len(sent) : sent[i].press <= Begun
  BY SendAssumption DEF DialInv, DialTypes
<1>3. Begun' = Begun /\ Begun \in Nat /\ Len(dtmf') = 0
  BY <1>1, <1>2 DEF Begun
<1>4. PICK k \in Nat \ {0}, d \in Nat, e \in BOOLEAN :
          k = 1 /\ d = 0 /\ ~e /\ Extends(k, d, timestamp, marker, d, e)
  BY <1>2, AudioSent
<1>5. ~(k > 1) /\ ~(d > 0) /\ Extends(k, d, timestamp, marker, d, e)
  BY <1>4
<1>6. /\ InSequence' /\ sent' # <<>> /\ Latest' \in SentPacket
      /\ seq' = (Latest'.seq + 1) % SeqSpace /\ seq' \in 0 .. SeqSpace - 1
      /\ Latest'.press = 0
  <2>1. sent # <<>> => (marker <=> Latest.press > 0)
    BY <1>2 DEF LastKnown
  <2> QED BY <1>2, <1>4, <1>5, <2>1, NeighboursKept
<1>7. EndsRepeated'
  BY <1>1, <1>2, <1>4, EndsKept
<1>8. sent' \in Seq(SentPacket) /\ \A i \in 1 .. Len(sent') : sent'[i].press <= Begun'
  <2>1. /\ sent' \in Seq(SentPacket) /\ Len(sent') = Len(sent) + 1
        /\ \A i \in 1 .. Len(sent) : sent'[i] = sent[i]
        /\ sent'[Len(sent) + 1].press = 0
    BY <1>2, <1>4 DEF Extends
  <2>2. ASSUME NEW i \in 1 .. Len(sent') PROVE sent'[i].press <= Begun'
    <3>1. i \in 1 .. Len(sent) \/ i = Len(sent) + 1
      BY <1>2, <2>1
    <3> QED BY <1>2, <1>3, <2>1, <3>1
  <2> QED BY <2>1, <2>2
<1>9. DialTypes'
  <2>1. Ratio \in Nat /\ TsSpace \in Nat \ {0}
    BY SendAssumption
  <2>2. timestamp + Ratio \in Nat
    BY <1>2, <2>1
  <2>3. (timestamp + Ratio) % TsSpace \in Nat
    BY <2>1, <2>2
  <2>4. timestamp' \in Nat /\ packetized' \in Nat
    BY <1>1, <1>2, <2>3
  <2> QED BY <1>1, <1>2, <1>3, <1>6, <1>8, <2>4 DEF DialTypes
<1>10. LastKnown' /\ NotOver'
  BY <1>1, <1>6 DEF LastKnown, NotOver
<1> QED BY <1>3, <1>6, <1>7, <1>8, <1>9, <1>10 DEF DialInv

LEMMA DialStep == DialInv /\ [DtmfNext]_dtmfVars => DialInv'
<1> SUFFICES ASSUME DialInv, [DtmfNext]_dtmfVars PROVE DialInv'
  OBVIOUS
<1>1. CASE queue_dtmf
  BY <1>1, DialQueue
<1>2. CASE PacketizeEvent
  BY <1>2, DialEvent
<1>3. CASE PacketizeAudio
  BY <1>3, DialAudio
<1>4. CASE UNCHANGED sendVars
  <2>1. UNCHANGED <<seq, timestamp, marker, dtmf, dtmf_sending, presses, packetized, sent>>
    BY <1>4 DEF sendVars
  <2>2. Begun' = Begun /\ Latest' = Latest
    BY <2>1 DEF Begun, Latest
  <2>3. DialTypes' /\ LastKnown' /\ NotOver'
    BY <2>1, <2>2 DEF DialInv, DialTypes, LastKnown, NotOver
  <2>4. EndsRepeated'
    BY <2>1 DEF DialInv, EndsRepeated
  <2>5. InSequence'
    <3>1. ASSUME NEW i \in 1 .. Len(sent) - 1 PROVE Neighbours(i)'
      <4>1. Neighbours(i)
        BY DEF DialInv, InSequence
      <4> QED BY <2>1, <4>1 DEF Neighbours
    <3> QED BY <2>1, <3>1 DEF InSequence
  <2> QED BY <2>1, <2>2, <2>3, <2>4, <2>5 DEF DialInv
<1> QED BY <1>1, <1>2, <1>3, <1>4 DEF DtmfNext, SendNext, packetize, Deliver, dtmfVars

\* Digits queued on a stream, while audio frames and other digits are sent
\* and whatever the network does: they go out in the order they were queued,
\* each with one timestamp, its reports counting up from 1 and its end sent
\* EndCopies times, without a gap in the sequence numbers, and audio resumes
\* with a marker.
THEOREM DigitsSentInOrder == DtmfSpec => []EventsInOrder
<1>1. DtmfInit => DialInv
  BY DialInit DEF DtmfInit
<1>2. DialInv => EventsInOrder
  BY DEF DialInv, EventsInOrder, InSequence, Neighbours
<1> QED BY <1>1, <1>2, DialStep, PTL DEF DtmfSpec

-----------------------------------------------------------------------------
(* Reporting *)

\* Frames since timestamp ts, when a frame is one tick.
Age(ts) == (timestamp - ts) % TsSpace

\* Every event packet carries the time its digit began: not longer ago than
\* the call is, and longer ago than any later digit.
AgeInv ==
    /\ timestamp \in 0 .. TsSpace - 1
    /\ packetized \in 0 .. MaxPacketized
    /\ \A i \in 1 .. Len(sent) :
          sent[i].press > 0 => sent[i].ts \in 0 .. TsSpace - 1 /\ Age(sent[i].ts) \in 1 .. packetized
    /\ \A i, j \in 1 .. Len(sent) :
          /\ sent[i].press > 0 /\ sent[i].press < sent[j].press =>
                Age(sent[i].ts) > Age(sent[j].ts)
          /\ sent[i].press > 0 /\ sent[i].press = sent[j].press => sent[i].ts = sent[j].ts

\* The receiver has the timestamp of the newest press that reached it, which
\* is the last one it reported.
HeardInv ==
    /\ newestPress \in Nat /\ reported \in Seq(Nat)
    /\ \A i, j \in 1 .. Len(reported) : i < j => reported[i] < reported[j]
    /\ \A i \in 1 .. Len(reported) : reported[i] <= newestPress
    /\ newestPress = 0 => last_dtmf_timestamp = NoDigit /\ reported = <<>>
    /\ newestPress > 0 =>
          /\ reported # <<>> /\ reported[Len(reported)] = newestPress
          /\ \E i \in 1 .. Len(sent) :
                sent[i].press = newestPress /\ last_dtmf_timestamp = sent[i].ts

\* The difference of two timestamps, wrapped.
LEMMA WrapDiff ==
    ASSUME NEW T \in Nat \ {0}, NEW x \in 0 .. T - 1, NEW y \in 0 .. T - 1
    PROVE  (x - y) % T = IF x >= y THEN x - y ELSE (x - y) + T
<1>1. CASE x >= y
  <2>1. x - y \in 0 .. T - 1
    BY <1>1
  <2> QED BY <1>1, <2>1
<1>2. CASE x < y
  <2>1. (x - y) + T \in 0 .. T - 1 /\ x - y = (-1) * T + ((x - y) + T)
    BY <1>2
  <2>2. (x - y) % T = (x - y) + T
    BY <2>1, SMTT(30)
  <2> QED BY <1>2, <2>2
<1> QED BY <1>1, <1>2

\* One frame later every age is one more, and that of the last frame is 1.
LEMMA AgeGrows ==
    ASSUME NEW T \in Nat, T > 1, NEW now \in 0 .. T - 1, NEW ts \in 0 .. T - 1,
           (now - ts) % T < T - 1
    PROVE  /\ (now + 1) % T \in 0 .. T - 1
           /\ (((now + 1) % T) - ts) % T = ((now - ts) % T) + 1
           /\ (((now + 1) % T) - now) % T = 1
<1>1. (now + 1) % T = IF now + 1 = T THEN 0 ELSE now + 1
  <2>1. CASE now + 1 = T
    BY <2>1
  <2>2. CASE now + 1 # T
    <3>1. now + 1 \in 0 .. T - 1
      BY <2>2
    <3> QED BY <2>2, <3>1
  <2> QED BY <2>1, <2>2
<1>2. (now + 1) % T \in 0 .. T - 1
  BY <1>1
<1>3. (now - ts) % T = IF now >= ts THEN now - ts ELSE (now - ts) + T
  BY WrapDiff
<1> DEFINE next == (now + 1) % T
<1> HIDE DEF next
<1>4. next \in 0 .. T - 1 /\ next = IF now + 1 = T THEN 0 ELSE now + 1
  BY <1>1, <1>2 DEF next
<1>5. (next - ts) % T = IF next >= ts THEN next - ts ELSE (next - ts) + T
  BY <1>4, WrapDiff, T \in Nat \ {0}
<1>6. (next - now) % T = IF next >= now THEN next - now ELSE (next - now) + T
  BY <1>4, WrapDiff
<1>7. (next - now) % T = 1
  BY <1>4, <1>6
<1>8. (next - ts) % T = ((now - ts) % T) + 1
  BY <1>3, <1>4, <1>5
<1> QED BY <1>2, <1>7, <1>8 DEF next

\* Ages order timestamps that are less than half the space old.
LEMMA AfterByAge ==
    ASSUME NEW x \in 0 .. TsSpace - 1, NEW y \in 0 .. TsSpace - 1,
           timestamp \in 0 .. TsSpace - 1,
           NEW h \in Nat, h < TsSpace \div 2, Age(x) \in 1 .. h, Age(y) \in 1 .. h
    PROVE  After(x, y) <=> Age(x) < Age(y)
<1>1. TsSpace \in Nat \ {0} /\ TsSpace \div 2 \in Nat /\ 2 * (TsSpace \div 2) <= TsSpace
  BY SendAssumption
<1>2. (x - y) % TsSpace = IF x >= y THEN x - y ELSE (x - y) + TsSpace
  BY <1>1, WrapDiff
<1>3. Age(x) = IF timestamp >= x THEN timestamp - x ELSE (timestamp - x) + TsSpace
  BY <1>1, WrapDiff DEF Age
<1>4. Age(y) = IF timestamp >= y THEN timestamp - y ELSE (timestamp - y) + TsSpace
  BY <1>1, WrapDiff DEF Age
<1> DEFINE half == TsSpace \div 2
<1>5. half \in Nat /\ 2 * half <= TsSpace /\ h < half
  BY <1>1
<1>6. After(x, y) <=> (x - y) % TsSpace \in 1 .. half - 1
  BY DEF After
<1> HIDE DEF half
<1>7. (x - y) % TsSpace = IF Age(y) >= Age(x) THEN Age(y) - Age(x) ELSE (Age(y) - Age(x)) + TsSpace
  BY <1>1, <1>2, <1>3, <1>4
<1> QED BY <1>1, <1>5, <1>6, <1>7

-----------------------------------------------------------------------------
LEMMA AgeInit == SendInit => AgeInv
BY SendAssumption DEF SendInit, AgeInv

\* A call of an 8 kHz codec that is shorter than half the timestamp space.
ShortCall == Ratio = 1 /\ MaxPacketized < TsSpace \div 2

\* What has to be shown of new datagrams for the ages to stay in order.
LEMMA AgesKept ==
    ASSUME ShortCall, DialTypes, AgeInv, FrameDone,
           NEW k \in Nat \ {0}, NEW d \in Nat, NEW t, NEW mark, NEW r, NEW e,
           Extends(k, d, t, mark, r, e),
           d > 0 =>
               /\ t \in 0 .. TsSpace - 1 /\ Age(t) \in 0 .. packetized
               /\ \A i \in 1 .. Len(sent) :
                     /\ sent[i].press <= d
                     /\ sent[i].press > 0 /\ sent[i].press < d => Age(sent[i].ts) > Age(t)
                     /\ sent[i].press = d => sent[i].ts = t
    PROVE  AgeInv'
<1> DEFINE n == Len(sent)
<1>1. /\ TsSpace \in Nat /\ TsSpace > 1 /\ packetized \in Nat /\ packetized < TsSpace - 1
      /\ timestamp \in 0 .. TsSpace - 1 /\ n \in Nat /\ MaxPacketized \in Nat
  BY SendAssumption DEF ShortCall, AgeInv, DialTypes
<1>2. timestamp' = (timestamp + 1) % TsSpace
  BY DEF FrameDone, ShortCall
<1>3. packetized' = packetized + 1 /\ packetized < MaxPacketized
  BY DEF FrameDone
<1>4. ASSUME NEW ts \in 0 .. TsSpace - 1, Age(ts) \in 0 .. packetized
      PROVE  (timestamp' - ts) % TsSpace = Age(ts) + 1
  <2>1. Age(ts) < TsSpace - 1
    BY <1>1, <1>4
  <2> QED BY <1>1, <1>2, <2>1, AgeGrows DEF Age
<1>5. timestamp' \in 0 .. TsSpace - 1
  BY <1>1, <1>2
<1>6. packetized' \in 0 .. MaxPacketized
  BY <1>1, <1>3
<1>7. ASSUME NEW i \in 1 .. Len(sent')
      PROVE  \/ i \in 1 .. n /\ sent'[i] = sent[i]
             \/ i \in n + 1 .. n + k /\ sent'[i].press = d /\ sent'[i].ts = t
  <2>1. Len(sent') = n + k /\ k \in Nat
    BY DEF Extends
  <2>2. CASE i <= n
    BY <1>1, <2>1, <2>2 DEF Extends
  <2>3. CASE i > n
    <3>1. i - n \in 1 .. k /\ n + (i - n) = i
      BY <1>1, <2>1, <2>3
    <3>2. sent'[i].press = d /\ sent'[i].ts = t
      BY <3>1 DEF Extends
    <3> QED BY <1>1, <2>1, <2>3, <3>2
  <2> QED BY <1>1, <2>2, <2>3
<1>8. ASSUME NEW i \in 1 .. n
      PROVE  /\ sent[i].press \in Nat
             /\ sent[i].press > 0 => /\ sent[i].ts \in 0 .. TsSpace - 1
                                     /\ Age(sent[i].ts) \in 1 .. packetized
                                     /\ (timestamp' - sent[i].ts) % TsSpace = Age(sent[i].ts) + 1
  <2>1. sent[i].press \in Nat
    <3>1. sent[i] \in SentPacket
      BY DEF DialTypes
    <3> QED BY <3>1 DEF SentPacket
  <2>2. ASSUME sent[i].press > 0
        PROVE  sent[i].ts \in 0 .. TsSpace - 1 /\ Age(sent[i].ts) \in 1 .. packetized
    BY <2>2 DEF AgeInv
  <2>3. ASSUME sent[i].press > 0
        PROVE  (timestamp' - sent[i].ts) % TsSpace = Age(sent[i].ts) + 1
    <3>1. Age(sent[i].ts) \in 0 .. packetized
      BY <1>1, <2>2, <2>3
    <3> QED BY <1>4, <2>2, <2>3, <3>1
  <2> QED BY <2>1, <2>2, <2>3
<1>9. d > 0 => (timestamp' - t) % TsSpace = Age(t) + 1
  BY <1>4
<1> HIDE DEF n
<1>10. ASSUME NEW i \in 1 .. Len(sent'), sent'[i].press > 0
       PROVE  /\ sent'[i].ts \in 0 .. TsSpace - 1
              /\ (timestamp' - sent'[i].ts) % TsSpace \in 1 .. packetized'
  <2>1. PICK u : /\ u = sent'[i].ts /\ u \in 0 .. TsSpace - 1 /\ Age(u) \in 0 .. packetized
                 /\ (timestamp' - u) % TsSpace = Age(u) + 1
    <3>1. CASE i \in 1 .. n /\ sent'[i] = sent[i]
      <4>1. sent[i].press > 0
        BY <1>10, <3>1
      <4>2. Age(sent[i].ts) \in 0 .. packetized
        BY <1>1, <1>8, <3>1, <4>1
      <4> QED BY <1>8, <3>1, <4>1, <4>2
    <3>2. CASE sent'[i].press = d /\ sent'[i].ts = t
      <4>1. d > 0
        BY <1>10, <3>2
      <4> QED BY <1>9, <3>2, <4>1
    <3> QED BY <1>7, <3>1, <3>2
  <2>2. Age(u) + 1 \in 1 .. packetized'
    BY <1>1, <1>3, <2>1
  <2> QED BY <2>1, <2>2
<1>11. ASSUME NEW i \in 1 .. Len(sent'), NEW j \in 1 .. Len(sent'),
              sent'[i].press > 0, sent'[i].press < sent'[j].press
       PROVE  (timestamp' - sent'[i].ts) % TsSpace > (timestamp' - sent'[j].ts) % TsSpace
  <2>1. CASE i \in 1 .. n /\ j \in 1 .. n /\ sent'[i] = sent[i] /\ sent'[j] = sent[j]
    <3>1. sent[i].press > 0 /\ sent[j].press > 0
      BY <1>8, <1>11, <2>1
    <3>2. Age(sent[i].ts) > Age(sent[j].ts)
      BY <1>11, <2>1 DEF AgeInv, n
    <3> QED BY <1>1, <1>8, <2>1, <3>1, <3>2
  <2>2. CASE i \in 1 .. n /\ sent'[i] = sent[i] /\ sent'[j].press = d /\ sent'[j].ts = t
    <3>1. d > 0 /\ sent[i].press > 0 /\ Age(sent[i].ts) > Age(t)
      BY <1>8, <1>11, <2>2 DEF n
    <3> QED BY <1>1, <1>8, <1>9, <2>2, <3>1
  <2>3. CASE j \in 1 .. n /\ sent'[j] = sent[j] /\ sent'[i].press = d
    BY <1>8, <1>11, <2>3 DEF n
  <2>4. CASE sent'[i].press = d /\ sent'[j].press = d
    BY <1>11, <2>4
  <2> QED BY <1>7, <2>1, <2>2, <2>3, <2>4
<1>12. ASSUME NEW i \in 1 .. Len(sent'), NEW j \in 1 .. Len(sent'),
              sent'[i].press > 0, sent'[i].press = sent'[j].press
       PROVE  sent'[i].ts = sent'[j].ts
  <2>1. CASE i \in 1 .. n /\ j \in 1 .. n /\ sent'[i] = sent[i] /\ sent'[j] = sent[j]
    BY <1>12, <2>1 DEF AgeInv, n
  <2>2. CASE i \in 1 .. n /\ sent'[i] = sent[i] /\ sent'[j].press = d /\ sent'[j].ts = t
    BY <1>12, <2>2 DEF n
  <2>3. CASE j \in 1 .. n /\ sent'[j] = sent[j] /\ sent'[i].press = d /\ sent'[i].ts = t
    BY <1>12, <2>3 DEF n
  <2> QED BY <1>7, <2>1, <2>2, <2>3
<1> QED BY <1>5, <1>6, <1>10, <1>11, <1>12 DEF AgeInv, Age

LEMMA AgeStep ==
    ASSUME ShortCall, DialInv, AgeInv, [DtmfNext]_dtmfVars
    PROVE  AgeInv'
<1>1. CASE queue_dtmf
  <2>1. UNCHANGED <<timestamp, packetized, sent>>
    BY <1>1 DEF queue_dtmf
  <2> QED BY <2>1 DEF AgeInv, Age
<1>2. CASE PacketizeEvent
  <2>1. PICK k \in Nat \ {0}, d \in Nat, t \in Nat, r \in Nat, e \in BOOLEAN, mark \in BOOLEAN :
            d = Sending.press /\ t = Sending.timestamp /\ d > 0 /\ Extends(k, d, t, mark, r, e)
    BY <1>2, EventSent
  <2>2. /\ dtmf_sending # NoDigit \/ dtmf # <<>>
        /\ dtmf' = IF dtmf_sending = NoDigit THEN Tail(dtmf) ELSE dtmf
        /\ presses' = presses /\ FrameDone
    BY <1>2 DEF PacketizeEvent, FrameDone
  <2>3. /\ Sending.press = Begun'
        /\ \A i \in 1 .. Len(sent) : sent[i].press <= Begun'
        /\ dtmf_sending = NoDigit => \A i \in 1 .. Len(sent) : sent[i].press < Begun'
        /\ dtmf_sending # NoDigit => Sending = dtmf_sending /\ Begun' = Begun
    BY <2>2, DialSending
  <2>4. DialTypes /\ NotOver /\ sent \in Seq(SentPacket) /\ packetized \in Nat
    BY DEF DialInv, DialTypes
  <2>5. ASSUME NEW i \in 1 .. Len(sent) PROVE sent[i].press \in Nat
    <3>1. sent[i] \in SentPacket
      BY <2>4
    <3> QED BY <3>1 DEF SentPacket
  <2>6. /\ t \in 0 .. TsSpace - 1 /\ Age(t) \in 0 .. packetized
        /\ \A i \in 1 .. Len(sent) :
              /\ sent[i].press <= d
              /\ sent[i].press > 0 /\ sent[i].press < d => Age(sent[i].ts) > Age(t)
              /\ sent[i].press = d => sent[i].ts = t
    <3>1. CASE dtmf_sending = NoDigit
      <4>1. t = timestamp
        <5>1. t = timestamp \div Ratio
          BY <2>1, <3>1 DEF Sending, dtmf_timestamp
        <5>2. Ratio = 1 /\ timestamp \in Nat
          BY DEF ShortCall, AgeInv
        <5>3. timestamp \div 1 = timestamp
          BY <5>2
        <5> QED BY <5>1, <5>2, <5>3
      <4>2. t \in 0 .. TsSpace - 1 /\ TsSpace \in Nat \ {0}
        BY <4>1, SendAssumption DEF AgeInv
      <4>3. Age(t) = 0
        <5>1. (t - t) % TsSpace = 0
          BY <4>2, WrapDiff
        <5> QED BY <4>1, <5>1 DEF Age
      <4>4. ASSUME NEW i \in 1 .. Len(sent)
            PROVE  /\ sent[i].press < d
                   /\ sent[i].press > 0 => Age(sent[i].ts) > Age(t)
        <5>1. sent[i].press > 0 => Age(sent[i].ts) \in 1 .. packetized
          BY DEF AgeInv
        <5> QED BY <2>1, <2>3, <2>4, <3>1, <4>3, <5>1
      <4> QED BY <2>4, <2>5, <4>2, <4>3, <4>4
    <3>2. CASE dtmf_sending # NoDigit
      <4>1. Len(sent) \in 1 .. Len(sent) /\ d = sent[Len(sent)].press /\ t = sent[Len(sent)].ts
        BY <2>1, <2>3, <2>4, <3>2 DEF NotOver, Latest
      <4>2. t \in 0 .. TsSpace - 1 /\ Age(t) \in 1 .. packetized
        BY <2>1, <4>1 DEF AgeInv
      <4>3. Age(t) \in 0 .. packetized
        BY <2>4, <4>2
      <4>4. ASSUME NEW i \in 1 .. Len(sent)
            PROVE  /\ sent[i].press > 0 /\ sent[i].press < d => Age(sent[i].ts) > Age(t)
                   /\ sent[i].press = d => sent[i].ts = t
        BY <2>1, <4>1 DEF AgeInv
      <4> QED BY <2>1, <2>3, <4>2, <4>3, <4>4
    <3> QED BY <3>1, <3>2
  <2> QED BY <2>1, <2>2, <2>4, <2>6, AgesKept
<1>3. CASE PacketizeAudio
  <2>1. FrameDone /\ DialTypes
    BY <1>3 DEF PacketizeAudio, DialInv
  <2>2. PICK k \in Nat \ {0}, d \in Nat, e \in BOOLEAN :
            k = 1 /\ d = 0 /\ ~e /\ Extends(k, d, timestamp, marker, d, e)
    BY <1>3, <2>1, AudioSent
  <2>3. ~(d > 0) /\ Extends(k, d, timestamp, marker, d, e)
    BY <2>2
  <2> QED BY <2>1, <2>3, AgesKept
<1>4. CASE UNCHANGED sendVars
  <2>1. UNCHANGED <<timestamp, packetized, sent>>
    BY <1>4 DEF sendVars
  <2> QED BY <2>1 DEF AgeInv, Age
<1> QED BY <1>1, <1>2, <1>3, <1>4 DEF DtmfNext, SendNext, packetize, Deliver, dtmfVars

\* The receiver only hears of what was sent, which stays sent.
LEMMA HeardSend ==
    ASSUME DialInv, HeardInv, SendNext, UNCHANGED receiverVars
    PROVE  HeardInv'
<1>1. UNCHANGED <<last_dtmf_timestamp, newest, newestPress, reported>>
  BY DEF receiverVars
<1>2. /\ Len(sent') \in Nat /\ Len(sent) \in Nat /\ Len(sent') >= Len(sent)
      /\ \A i \in 1 .. Len(sent) : sent'[i] = sent[i]
  <2>1. CASE queue_dtmf
    BY <2>1 DEF queue_dtmf, DialInv, DialTypes
  <2>2. CASE PacketizeEvent
    <3>1. PICK k \in Nat \ {0}, d \in Nat, t \in Nat, r \in Nat, e \in BOOLEAN, mark \in BOOLEAN :
              Extends(k, d, t, mark, r, e)
      BY <2>2, EventSent
    <3> QED BY <3>1 DEF Extends, DialInv, DialTypes
  <2>3. CASE PacketizeAudio
    <3>1. PICK k \in Nat \ {0}, d \in Nat, e \in BOOLEAN :
              Extends(k, d, timestamp, marker, d, e)
      BY <2>3, AudioSent DEF DialInv
    <3> QED BY <3>1 DEF Extends, DialInv, DialTypes
  <2> QED BY <2>1, <2>2, <2>3 DEF SendNext, packetize
<1>3. 1 .. Len(sent) \subseteq 1 .. Len(sent')
  BY <1>2
<1> QED BY <1>1, <1>2, <1>3 DEF HeardInv

\* A packet arrives.
LEMMA HeardDeliver ==
    ASSUME ShortCall, DialInv, AgeInv, HeardInv, NEW i \in DOMAIN sent, Deliver(i)
    PROVE  HeardInv'
<1> DEFINE p == sent[i]
<1>1. /\ newestPress' = IF p.press > newestPress THEN p.press ELSE newestPress
      /\ IF p.press > 0 THEN AdmitDtmf(p) ELSE UNCHANGED <<last_dtmf_timestamp, reported>>
      /\ sent' = sent
  BY DEF Deliver, sendVars
<1>2. i \in 1 .. Len(sent) /\ p \in SentPacket
  BY DEF DialInv, DialTypes
<1>3. p.press \in Nat /\ newestPress \in Nat /\ reported \in Seq(Nat) /\ Len(reported) \in Nat
  BY <1>2 DEF SentPacket, HeardInv
<1> HIDE DEF p
<1>4. CASE p.press > newestPress
  <2>1. last_dtmf_timestamp = NoDigit \/ After(p.ts, last_dtmf_timestamp)
    <3>1. CASE newestPress = 0
      BY <3>1 DEF HeardInv
    <3>2. CASE newestPress > 0
      <4>1. PICK j \in 1 .. Len(sent) : sent[j].press = newestPress /\ last_dtmf_timestamp = sent[j].ts
        BY <3>2 DEF HeardInv
      <4>2. /\ p.ts \in 0 .. TsSpace - 1 /\ Age(p.ts) \in 1 .. packetized
            /\ sent[j].ts \in 0 .. TsSpace - 1 /\ Age(sent[j].ts) \in 1 .. packetized
            /\ Age(p.ts) < Age(sent[j].ts)
        <5>1. sent[i].press > 0 /\ sent[j].press > 0 /\ sent[j].press < sent[i].press
          BY <1>3, <1>4, <3>2, <4>1 DEF p
        <5> QED BY <1>2, <5>1 DEF AgeInv, p
      <4>3. timestamp \in 0 .. TsSpace - 1 /\ packetized \in Nat /\ packetized < TsSpace \div 2
        BY SendAssumption DEF AgeInv, ShortCall
      <4> QED BY <4>1, <4>2, <4>3, AfterByAge
    <3> QED BY <1>3, <3>1, <3>2
  <2>2. last_dtmf_timestamp' = p.ts /\ reported' = Append(reported, p.press) /\ newestPress' = p.press
        /\ p.press > 0
    BY <1>1, <1>3, <1>4, <2>1 DEF AdmitDtmf
  <2>3. /\ reported' \in Seq(Nat) /\ Len(reported') = Len(reported) + 1 /\ reported' # <<>>
        /\ reported'[Len(reported) + 1] = p.press
        /\ \A j \in 1 .. Len(reported) : reported'[j] = reported[j]
    BY <1>3, <2>2
  <2>4. ASSUME NEW j \in 1 .. Len(reported) PROVE reported[j] \in Nat /\ reported[j] < p.press
    <3>1. reported[j] \in Nat /\ reported[j] <= newestPress
      BY <1>3 DEF HeardInv
    <3> QED BY <1>3, <1>4, <3>1
  <2>5. ASSUME NEW j \in 1 .. Len(reported') PROVE reported'[j] <= newestPress'
    <3>1. j \in 1 .. Len(reported) \/ j = Len(reported) + 1
      BY <1>3, <2>3
    <3> QED BY <1>3, <2>2, <2>3, <2>4, <3>1
  <2>6. ASSUME NEW j \in 1 .. Len(reported'), NEW m \in 1 .. Len(reported'), j < m
        PROVE  reported'[j] < reported'[m]
    <3>0. j \in Nat /\ m \in Nat /\ 1 <= j /\ m <= Len(reported) + 1 /\ Len(reported) \in Nat
      BY <1>3, <2>3
    <3>1. j \in 1 .. Len(reported) /\ (m \in 1 .. Len(reported) \/ m = Len(reported) + 1)
      BY <2>6, <3>0
    <3>2. CASE m \in 1 .. Len(reported)
      BY <2>3, <2>6, <3>1, <3>2 DEF HeardInv
    <3>3. CASE m = Len(reported) + 1
      BY <2>3, <2>4, <3>1, <3>3
    <3> QED BY <3>1, <3>2, <3>3
  <2>7. \E j \in 1 .. Len(sent') : sent'[j].press = newestPress' /\ last_dtmf_timestamp' = sent'[j].ts
    BY <1>1, <1>2, <2>2 DEF p
  <2>8. /\ newestPress' \in Nat /\ newestPress' > 0 /\ reported' \in Seq(Nat)
        /\ reported' # <<>> /\ reported'[Len(reported')] = newestPress'
    BY <1>3, <2>2, <2>3
  <2>9. ~(newestPress' = 0)
    BY <2>8
  <2> QED BY <2>5, <2>6, <2>7, <2>8, <2>9 DEF HeardInv
<1>5. CASE p.press <= newestPress
  <2>1. UNCHANGED <<last_dtmf_timestamp, reported>>
    <3>1. CASE p.press = 0
      BY <1>1, <3>1
    <3>2. CASE p.press > 0
      <4>1. PICK j \in 1 .. Len(sent) : sent[j].press = newestPress /\ last_dtmf_timestamp = sent[j].ts
        BY <1>3, <1>5, <3>2 DEF HeardInv
      <4>2. /\ p.ts \in 0 .. TsSpace - 1 /\ Age(p.ts) \in 1 .. packetized
            /\ sent[j].ts \in 0 .. TsSpace - 1 /\ Age(sent[j].ts) \in 1 .. packetized
            /\ Age(p.ts) >= Age(sent[j].ts)
        <5>1. sent[i].press > 0 /\ sent[j].press > 0
              /\ (sent[i].press < sent[j].press \/ sent[i].press = sent[j].press)
          BY <1>3, <1>5, <3>2, <4>1 DEF p
        <5>2. /\ p.ts \in 0 .. TsSpace - 1 /\ Age(p.ts) \in 1 .. packetized
              /\ sent[j].ts \in 0 .. TsSpace - 1 /\ Age(sent[j].ts) \in 1 .. packetized
          BY <1>2, <5>1 DEF AgeInv, p
        <5>3. Age(p.ts) > Age(sent[j].ts) \/ p.ts = sent[j].ts
          BY <1>2, <5>1 DEF AgeInv, p
        <5> QED BY <5>2, <5>3
      <4>3. timestamp \in 0 .. TsSpace - 1 /\ packetized \in Nat /\ packetized < TsSpace \div 2
        BY SendAssumption DEF AgeInv, ShortCall
      <4>4. After(p.ts, sent[j].ts) <=> Age(p.ts) < Age(sent[j].ts)
        BY <4>2, <4>3, AfterByAge
      <4>5. ~After(p.ts, last_dtmf_timestamp)
        BY <4>1, <4>2, <4>4
      <4>6. last_dtmf_timestamp # NoDigit
        <5>1. last_dtmf_timestamp \in Nat
          BY <4>1, <4>2
        <5> QED BY <5>1, SendAssumption
      <4> QED BY <1>1, <3>2, <4>5, <4>6 DEF AdmitDtmf
    <3> QED BY <1>3, <3>1, <3>2
  <2>2. newestPress' = newestPress
    BY <1>1, <1>3, <1>5
  <2> QED BY <1>1, <2>1, <2>2 DEF HeardInv
<1> QED BY <1>3, <1>4, <1>5

\* One press is reported once, and in order, and as soon as a packet of it
\* arrives before those of a later press, although the network loses,
\* duplicates and reorders packets and the timestamp wraps: in a call of an
\* 8 kHz codec shorter than half the timestamp space (74 hours), which is
\* how far the signed difference of timestamps that admit uses can see.
THEOREM DigitsReportedOnce ==
    ASSUME ShortCall
    PROVE  DtmfSpec => []DigitsOnce
<1>1. DtmfInit => DialInv /\ AgeInv /\ HeardInv
  <2> SUFFICES ASSUME DtmfInit PROVE DialInv /\ AgeInv /\ HeardInv
    OBVIOUS
  <2>1. newestPress = 0 /\ reported = <<>> /\ last_dtmf_timestamp = NoDigit /\ SendInit
    BY DEF DtmfInit
  <2>2. HeardInv
    BY <2>1 DEF HeardInv
  <2> QED BY <2>1, <2>2, DialInit, AgeInit
<1>2. DialInv /\ AgeInv /\ HeardInv /\ [DtmfNext]_dtmfVars => (DialInv /\ AgeInv /\ HeardInv)'
  <2> SUFFICES ASSUME DialInv, AgeInv, HeardInv, [DtmfNext]_dtmfVars
               PROVE  DialInv' /\ AgeInv' /\ HeardInv'
    OBVIOUS
  <2>1. DialInv' /\ AgeInv'
    BY DialStep, AgeStep
  <2>2. CASE SendNext /\ UNCHANGED receiverVars
    BY <2>1, <2>2, HeardSend
  <2>3. ASSUME NEW i \in DOMAIN sent, Deliver(i) PROVE HeardInv'
    BY <2>3, HeardDeliver
  <2>4. CASE UNCHANGED dtmfVars
    <3>1. UNCHANGED <<last_dtmf_timestamp, newestPress, reported, sent>>
      BY <2>4 DEF dtmfVars, receiverVars, sendVars
    <3> QED BY <2>1, <3>1 DEF HeardInv
  <2> QED BY <2>1, <2>2, <2>3, <2>4 DEF DtmfNext
<1>3. HeardInv => DigitsOnce
  <2> SUFFICES ASSUME HeardInv PROVE DigitsOnce
    OBVIOUS
  <2>1. DOMAIN reported = 1 .. Len(reported)
    BY DEF HeardInv
  <2> QED BY <2>1 DEF HeardInv, DigitsOnce
<1> QED BY <1>1, <1>2, <1>3, PTL DEF DtmfSpec

=============================================================================
