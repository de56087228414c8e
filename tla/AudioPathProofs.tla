-------------------------- MODULE AudioPathProofs ---------------------------
(***************************************************************************)
(* The audio path, for every size: VoiceProcessor for every set of rates,  *)
(* frame length and size of callback; AudioDevice for any number of        *)
(* threads, any device rate and any sizes of callbacks, reads and writes;  *)
(* CodecSession for every session description; G722 for all samples in     *)
(* calls of any length; Resampler for every pair of rates, size of chunk   *)
(* and of call, and any chunks that fail.                                  *)
(***************************************************************************)
EXTENDS VoiceProcessor, AudioDevice, Resampler, G722, CodecSession,
        FiniteSetTheorems, WellFoundedInduction, TLAPS

-----------------------------------------------------------------------------
(* Voice processing *)

\* What is left of x samples after all whole frames of n are taken is less
\* than a frame.
LEMMA LessThanFrame ==
    ASSUME NEW x \in Nat, NEW n \in Nat \ {0}
    PROVE  /\ x - (x \div n) * n \in Nat
           /\ x - (x \div n) * n < n
  OBVIOUS

\* While the rates are being negotiated, what is known of each side is what
\* it reported last; this is why the backend is built for the rates in use.
KnownIsReported == kind = "negotiating" => \A s \in Side : known[s] = reported[s]

\* The inductive invariant.
Inv == TypeOK /\ KnownIsReported /\ DevicesAgree /\ FramesFit /\ HeldBack

\* A call starts with nothing reported, held back or shown.
LEMMA InitInv == Init => Inv
  BY VoiceAssumption DEF Init, Inv, TypeOK, KnownIsReported, DevicesAgree,
     FramesFit, HeldBack, Kind, Side

\* attach keeps the state's rate that of the last reports.
LEMMA AttachInv ==
    ASSUME Inv, NEW side \in Side, NEW r \in Rates, attach(side, r)
    PROVE  Inv'
<1> USE VoiceAssumption DEF Inv, Reports
<1>1. /\ opening' \in [Side -> Rates \cup {None}]
      /\ reported' \in [Side -> Rates \cup {None}]
      /\ path' = path /\ pending' = pending /\ shown' = shown
      /\ reported'[side] = r
      /\ \A s \in Side : s # side => reported'[s] = reported[s]
  BY DEF attach, TypeOK, paths
<1>2. FramesFit' /\ HeldBack'
  BY <1>1 DEF FramesFit, HeldBack
<1>3. CASE AttachNegotiating(side, r)
  <2>1. /\ known' \in [Side -> Rates \cup {None}]
        /\ \A s \in Side : known'[s] = reported'[s]
    BY <1>1, <1>3 DEF AttachNegotiating, TypeOK, KnownIsReported
  <2>2. CASE kind' = kind /\ rate' = rate
    BY <1>1, <1>2, <1>3, <2>1, <2>2
       DEF AttachNegotiating, TypeOK, KnownIsReported, DevicesAgree
  <2>3. CASE /\ known'["capture"] = known'["render"]
             /\ known'["render"] \in Supported
             /\ Activate(known'["render"])
    BY <1>1, <1>2, <2>1, <2>3
       DEF Activate, TypeOK, Kind, Side, KnownIsReported, DevicesAgree
  <2>4. CASE Disable
    BY <1>1, <1>2, <2>1, <2>4
       DEF Disable, TypeOK, Kind, KnownIsReported, DevicesAgree
  <2>. QED
    BY <1>3, <2>2, <2>3, <2>4 DEF AttachNegotiating, negotiate
<1>4. CASE AttachActive(side, r)
  BY <1>1, <1>2, <1>4
     DEF AttachActive, Disable, TypeOK, Kind, KnownIsReported, DevicesAgree
<1>5. CASE AttachDisabled(side, r)
  BY <1>1, <1>2, <1>5
     DEF AttachDisabled, state, TypeOK, KnownIsReported, DevicesAgree
<1>. QED
  BY <1>3, <1>4, <1>5 DEF attach

\* A path that is taken up, or reset, holds nothing back.
LEMMA NewPathInv ==
    ASSUME Inv, NEW side \in Side, NewPath(side) \/ reset(side)
    PROVE  Inv'
<1>1. CASE NewPath(side)
  BY <1>1, VoiceAssumption
     DEF NewPath, Inv, TypeOK, KnownIsReported, DevicesAgree, FramesFit,
         HeldBack, state
<1>2. CASE reset(side)
  BY <1>2, VoiceAssumption
     DEF reset, Inv, TypeOK, KnownIsReported, DevicesAgree, FramesFit,
         HeldBack, state
<1>. QED
  BY <1>1, <1>2

\* Framing keeps less than a frame, and the frames are of the backend's rate.
LEMMA ProcessInv ==
    ASSUME Inv, NEW side \in Side, NEW input \in 0 .. MaxInput,
           ProcessFrames(side, input)
    PROVE  Inv'
<1> DEFINE n == frame_len[path[side]]
           x == pending[side] + input
           left == x - (x \div n) * n
<1>1. /\ rate \in Rates /\ path[side] = rate
      /\ n \in Nat \ {0}
      /\ pending[side] + input \in Nat
  BY VoiceAssumption DEF Inv, TypeOK, ProcessFrames, Frames
<1>2. /\ pending' = [pending EXCEPT ![side] = left]
      /\ shown' = shown \/ shown' = [len |-> n, rate |-> rate]
      /\ UNCHANGED <<state, opening, path, reported>>
  <2>1. Whole(side, input) = x \div n
    BY DEF Whole
  <2>2. pending' = [pending EXCEPT ![side] = x - Whole(side, input) * n]
    BY <1>1 DEF ProcessFrames
  <2>3. shown' = shown \/ shown' = [len |-> n, rate |-> rate]
    BY <1>1 DEF ProcessFrames
  <2>4. UNCHANGED <<state, opening, path, reported>>
    BY <1>1 DEF ProcessFrames
  <2> HIDE DEF x, n
  <2>. QED
    BY <2>1, <2>2, <2>3, <2>4, Zenon
<1>3. left \in Nat /\ left < n
  <2> HIDE DEF x, n
  <2>. QED
    BY <1>1, LessThanFrame DEF x
<1> HIDE DEF left, n
<1>4. pending' \in [Side -> Nat] /\ HeldBack'
  BY <1>1, <1>2, <1>3 DEF Inv, HeldBack, TypeOK, n
<1>5. FramesFit' /\ shown' \in [len : Nat, rate : Rates \cup {None}]
  BY <1>1, <1>2 DEF Inv, FramesFit, TypeOK, n
<1>. QED
  BY <1>2, <1>4, <1>5
     DEF Inv, TypeOK, KnownIsReported, DevicesAgree, state

\* No step breaks the invariant.
LEMMA NextInv == Inv /\ [Next]_vars => Inv'
<1> SUFFICES ASSUME Inv, [Next]_vars PROVE Inv'
  OBVIOUS
<1>1. CASE UNCHANGED vars
  BY <1>1 DEF Inv, TypeOK, KnownIsReported, DevicesAgree, FramesFit, HeldBack,
     vars, state, paths
<1>2. CASE \E side \in Side, r \in Rates : attach(side, r)
  BY <1>2, AttachInv
<1>3. CASE \E side \in Side : NewPath(side) \/ reset(side)
  BY <1>3, NewPathInv
<1>4. CASE \E side \in Side, input \in 0 .. MaxInput : process(side, input)
  BY <1>1, <1>4, ProcessInv DEF process, PassThrough
<1>. QED
  BY <1>1, <1>2, <1>3, <1>4 DEF Next

\* The invariant holds throughout.
THEOREM Invariance == Spec => []Inv
  BY InitInv, NextInv, PTL DEF Spec

\* The canceller only ever runs at the rate both devices reported last.
THEOREM RatesAgree == Spec => []DevicesAgree
  BY Invariance, PTL DEF Inv

\* The backend is never given a frame of another rate's length.
THEOREM OnlyWholeFrames == Spec => []FramesFit
  BY Invariance, PTL DEF Inv

\* Framing never holds back a whole frame, of any rate.
THEOREM DelayBounded == Spec => []HeldBack
  BY Invariance, PTL DEF Inv

-----------------------------------------------------------------------------
(* The enumerator *)

\* The inductive invariant of host(): nobody is inside before PRIMED is set,
\* and by then the COM thread has enumerated or something went wrong.
HostInv ==
    /\ caller \in [Callers -> {"outside", "waiting", "inside", "open", "exited"}]
    /\ com \in {"absent", "starting", "parked"}
    /\ unsafe \in BOOLEAN
    /\ \A t \in Callers : caller[t] = "waiting" => com # "absent"
    /\ \A t \in Callers : caller[t] = "inside" => primed = "set"
    /\ primed = "set" => unsafe \/ com = "parked"
    /\ com = "parked" => enumerator # NoOne
    /\ unsafe \/ enumerator \in {NoOne, "com"}

LEMMA HostInit == DeviceInit => HostInv
  BY DeviceAssumption DEF DeviceInit, HostInv

\* A thread that enumerates is too late to build the enumerator itself.
LEMMA EnumeratesLate ==
    ASSUME HostInv, NEW t \in Callers, caller[t] = "inside", Enumerates(t)
    PROVE  /\ unsafe \/ enumerator' \in {NoOne, "com"}
           /\ com = "parked" => enumerator' # NoOne
  BY DeviceAssumption DEF HostInv, Enumerates

LEMMA HostStep == HostInv /\ [DeviceNext]_deviceVars => HostInv'
<1> SUFFICES ASSUME HostInv, [DeviceNext]_deviceVars PROVE HostInv'
  OBVIOUS
<1>1. CASE UNCHANGED hostVars
  BY <1>1 DEF hostVars, HostInv
<1>2. ASSUME NEW t \in Callers, Prime(t) PROVE HostInv'
  BY <1>2, DeviceAssumption DEF Prime, HostInv
<1>3. ASSUME NEW t \in Callers, Primed(t) PROVE HostInv'
  BY <1>3 DEF Primed, HostInv
<1>4. ASSUME NEW t \in Callers, AlreadyPrimed(t) PROVE HostInv'
  BY <1>4 DEF AlreadyPrimed, HostInv
<1>5. ASSUME NEW t \in Callers, List(t) PROVE HostInv'
  BY <1>5, EnumeratesLate DEF List, HostInv
<1>6. ASSUME NEW t \in Callers, Exit(t) PROVE HostInv'
  BY <1>6 DEF Exit, HostInv
<1>7. ASSUME NEW t \in Callers, NEW name, Open(t, name) PROVE HostInv'
  BY <1>7, EnumeratesLate DEF Open, HostInv
<1>8. CASE ComThread
  BY <1>8, DeviceAssumption DEF ComThread, HostInv
<1>9. ASSUME NEW present, Plug(present) PROVE HostInv'
  BY <1>9 DEF Plug, HostInv
<1>10. CASE HostNext
  BY <1>2, <1>3, <1>4, <1>5, <1>6, <1>7, <1>8, <1>9, <1>10 DEF HostNext
<1>11. CASE CaptureNext \/ PlaybackNext
  BY <1>1, <1>11 DEF CaptureNext, InputCallback, ReadSamples, StopCapture,
                     PlaybackNext, WriteSamples, OutputCallback
<1> QED BY <1>1, <1>10, <1>11 DEF DeviceNext, deviceVars

\* host() never hands out an enumerator whose thread has ended, whichever of
\* any number of threads came first, unless the COM thread could not be
\* started or was late.
THEOREM EnumeratorOutlivesCallers == DeviceSpec => []EnumeratorAlive
<1>1. HostInv => EnumeratorAlive
  BY DeviceAssumption DEF HostInv, EnumeratorAlive
<1> QED BY <1>1, HostInit, HostStep, PTL DEF DeviceSpec

-----------------------------------------------------------------------------
(* The buffers *)

\* A buffer holds the samples up to top, none missing.
Run(buffer, top) ==
    /\ buffer \in Seq(Nat) /\ Len(buffer) <= top
    /\ \A i \in 1 .. Len(buffer) : buffer[i] = (top - Len(buffer)) + i

\* What was taken out is in order and not beyond bound.
TakenInOrder(taken, bound) ==
    /\ taken \in Seq(Nat)
    /\ \A i \in 1 .. Len(taken) : taken[i] <= bound
    /\ \A i \in 1 .. Len(taken) - 1 : taken[i + 1] > taken[i]

\* A buffer, and what was taken out of it, when sample top was the last.
Fresh(buffer, taken, top) ==
    /\ top \in Nat
    /\ Run(buffer, top) /\ Len(buffer) <= DeviceRate
    /\ TakenInOrder(taken, top - Len(buffer))
    /\ top <= DeviceRate => Len(taken) + Len(buffer) = top

\* The inductive invariant of both buffers; once capture has stopped its
\* buffer stays where it was.
BuffersInv ==
    /\ captured \in Nat /\ running \in BOOLEAN
    /\ \E top \in 0 .. captured : (running => top = captured) /\ Fresh(capture, read, top)
    /\ Fresh(playback, out, written)

\* Samples are pushed at the end.
LEMMA RunGrows ==
    ASSUME NEW top \in Nat, NEW buffer, Run(buffer, top), NEW n \in Nat
    PROVE  /\ Run(buffer \o Numbers(top, n), top + n)
           /\ Len(buffer \o Numbers(top, n)) = Len(buffer) + n
<1> DEFINE more == Numbers(top, n)
<1>1. more \in Seq(Nat) /\ Len(more) = n /\ \A i \in 1 .. n : more[i] = top + i
  BY DEF Numbers
<1> HIDE DEF more
<1>2. buffer \in Seq(Nat) /\ Len(buffer) \in Nat /\ Len(buffer) <= top
  BY DEF Run
<1>3. /\ buffer \o more \in Seq(Nat) /\ Len(buffer \o more) = Len(buffer) + n
      /\ \A i \in 1 .. Len(buffer) + n :
            (buffer \o more)[i] = IF i <= Len(buffer) THEN buffer[i] ELSE more[i - Len(buffer)]
  <2>1. buffer \o more \in Seq(Nat) /\ Len(buffer \o more) = Len(buffer) + n
    BY <1>1, <1>2
  <2>2. ASSUME NEW i \in 1 .. Len(buffer) + n
        PROVE  (buffer \o more)[i] = IF i <= Len(buffer) THEN buffer[i] ELSE more[i - Len(buffer)]
    BY <1>1, <1>2
  <2> QED BY <2>1, <2>2
<1>4. ASSUME NEW i \in 1 .. Len(buffer) + n
      PROVE  (buffer \o more)[i] = ((top + n) - (Len(buffer) + n)) + i
  <2>1. CASE i <= Len(buffer)
    BY <1>2, <1>3, <2>1 DEF Run
  <2>2. CASE i > Len(buffer)
    <3>1. i - Len(buffer) \in 1 .. n
      BY <1>2, <2>2
    <3> QED BY <1>1, <1>2, <1>3, <2>2, <3>1
  <2>3. i <= Len(buffer) \/ i > Len(buffer)
    BY <1>2
  <2> QED BY <2>1, <2>2, <2>3
<1> QED BY <1>2, <1>3, <1>4 DEF Run, more

\* The oldest are dropped.
LEMMA RunShrinks ==
    ASSUME NEW top \in Nat, NEW buffer, Run(buffer, top), NEW d \in 0 .. Len(buffer)
    PROVE  /\ Run(SubSeq(buffer, d + 1, Len(buffer)), top)
           /\ Len(SubSeq(buffer, d + 1, Len(buffer))) = Len(buffer) - d
<1> DEFINE kept == SubSeq(buffer, d + 1, Len(buffer))
<1>1. buffer \in Seq(Nat) /\ Len(buffer) \in Nat /\ Len(buffer) <= top
  BY DEF Run
<1>2. /\ kept \in Seq(Nat) /\ Len(kept) = Len(buffer) - d
      /\ \A i \in 1 .. Len(buffer) - d : kept[i] = buffer[d + i]
  BY <1>1
<1> HIDE DEF kept
<1>3. ASSUME NEW i \in 1 .. Len(buffer) - d PROVE kept[i] = (top - (Len(buffer) - d)) + i
  <2>1. d + i \in 1 .. Len(buffer)
    BY <1>1
  <2>2. buffer[d + i] = (top - Len(buffer)) + (d + i)
    BY <2>1 DEF Run
  <2> QED BY <1>1, <1>2, <2>2
<1>4. Len(kept) <= top
  BY <1>1, <1>2
<1> QED BY <1>2, <1>3, <1>4 DEF Run, kept

\* The oldest are taken.
LEMMA RunTaken ==
    ASSUME NEW top \in Nat, NEW buffer, Run(buffer, top), NEW d \in 0 .. Len(buffer),
           NEW taken, TakenInOrder(taken, top - Len(buffer))
    PROVE  /\ TakenInOrder(taken \o SubSeq(buffer, 1, d), top - (Len(buffer) - d))
           /\ Len(taken \o SubSeq(buffer, 1, d)) = Len(taken) + d
<1> DEFINE first == SubSeq(buffer, 1, d)
           all == taken \o first
           base == top - Len(buffer)
<1>1. /\ buffer \in Seq(Nat) /\ Len(buffer) \in Nat /\ Len(buffer) <= top
      /\ taken \in Seq(Nat) /\ Len(taken) \in Nat
  BY DEF Run, TakenInOrder
<1>2. first \in Seq(Nat) /\ Len(first) = d /\ \A i \in 1 .. d : first[i] = base + i
  BY <1>1 DEF Run
<1> HIDE DEF first
<1>3. /\ all \in Seq(Nat) /\ Len(all) = Len(taken) + d
      /\ \A i \in 1 .. Len(taken) + d :
            all[i] = IF i <= Len(taken) THEN taken[i] ELSE first[i - Len(taken)]
  BY <1>1, <1>2
<1> HIDE DEF all
<1>4. base \in Nat
  BY <1>1
<1>5. \A i \in 1 .. Len(taken) : all[i] \in Nat /\ all[i] = taken[i] /\ all[i] <= base
  BY <1>1, <1>3 DEF TakenInOrder
<1> HIDE DEF base
<1>6. ASSUME NEW i \in Len(taken) + 1 .. Len(taken) + d PROVE all[i] = base + (i - Len(taken))
  <2>1. i - Len(taken) \in 1 .. d /\ ~(i <= Len(taken)) /\ i \in 1 .. Len(taken) + d
    BY <1>1
  <2> QED BY <1>2, <1>3, <2>1
<1>7. ASSUME NEW i \in 1 .. Len(all) PROVE all[i] <= base + d
  <2>0. i \in 1 .. Len(taken) + d /\ i \in Nat /\ d \in Nat
    BY <1>1, <1>3
  <2>1. CASE i <= Len(taken)
    BY <1>1, <1>4, <1>5, <2>0, <2>1
  <2>2. CASE i > Len(taken)
    <3>1. i \in Len(taken) + 1 .. Len(taken) + d
      BY <1>1, <2>0, <2>2
    <3> QED BY <1>1, <1>4, <1>6, <3>1
  <2> QED BY <1>1, <2>0, <2>1, <2>2
<1>8. ASSUME NEW i \in 1 .. Len(all) - 1 PROVE all[i + 1] > all[i]
  <2>0. i \in 1 .. (Len(taken) + d) - 1 /\ i \in Nat /\ d \in Nat
    BY <1>1, <1>3
  <2>1. CASE i + 1 <= Len(taken)
    <3>1. i \in 1 .. Len(taken) - 1 /\ i \in 1 .. Len(taken) /\ i + 1 \in 1 .. Len(taken)
      BY <1>1, <2>1
    <3> QED BY <1>5, <3>1 DEF TakenInOrder
  <2>2. CASE i <= Len(taken) /\ i + 1 > Len(taken)
    <3>1. i \in 1 .. Len(taken) /\ i + 1 \in Len(taken) + 1 .. Len(taken) + d
      BY <1>1, <1>3, <2>2
    <3>2. all[i] <= base /\ all[i + 1] = base + ((i + 1) - Len(taken)) /\ all[i] \in Nat
      BY <1>5, <1>6, <3>1
    <3> QED BY <1>1, <1>4, <2>2, <3>2
  <2>3. CASE i > Len(taken)
    <3>1. i \in Len(taken) + 1 .. Len(taken) + d /\ i + 1 \in Len(taken) + 1 .. Len(taken) + d
      BY <1>1, <2>0, <2>3
    <3>2. all[i] = base + (i - Len(taken)) /\ all[i + 1] = base + ((i + 1) - Len(taken))
      BY <1>6, <3>1
    <3> QED BY <1>1, <1>4, <3>2
  <2> QED BY <1>1, <2>0, <2>1, <2>2, <2>3
<1>9. base + d = top - (Len(buffer) - d)
  BY <1>1 DEF base
<1> QED BY <1>3, <1>7, <1>8, <1>9 DEF TakenInOrder, all, first

\* Room for samples still to come.
LEMMA TakenLater ==
    ASSUME NEW taken, NEW a \in Int, NEW b \in Int, a <= b, TakenInOrder(taken, a)
    PROVE  TakenInOrder(taken, b)
  BY DEF TakenInOrder

\* Whole tenths of a second drop no less than what is over, and less than a
\* tenth more.
LEMMA TenthsOver ==
    ASSUME NEW over \in Nat \ {0}, NEW tenth \in Nat \ {0}
    PROVE  LET d == tenth * ((over + tenth - 1) \div tenth)
           IN  d \in Nat /\ over <= d /\ d < over + tenth
<1> DEFINE x == (over + tenth) - 1
           q == x \div tenth
           r == x % tenth
           d == tenth * q
<1>1. x \in Nat
  OBVIOUS
<1> HIDE DEF x
<1>2. q \in Nat /\ r \in 0 .. tenth - 1
  BY <1>1
<1>3. x = q * tenth + r
  BY <1>1, SMTT(30)
<1> HIDE DEF q, r
<1>4. d \in Nat /\ d = q * tenth
  BY <1>2
<1> HIDE DEF d
<1>5. d \in Nat /\ over <= d /\ d < over + tenth
  BY <1>2, <1>3, <1>4 DEF x
<1>6. over + tenth - 1 = x
  BY DEF x
<1> QED BY <1>5, <1>6 DEF d, q

\* The input callback leaves at most a second, and all of it while there is
\* room.
LEMMA TrimmedFresh ==
    ASSUME NEW top \in Nat, NEW buffer, Run(buffer, top)
    PROVE  /\ Run(WithinSecond(buffer), top) /\ Len(WithinSecond(buffer)) <= DeviceRate
           /\ Len(WithinSecond(buffer)) <= Len(buffer)
           /\ Len(buffer) <= DeviceRate => WithinSecond(buffer) = buffer
<1> DEFINE over == Len(buffer) - DeviceRate
           tenth == DeviceRate \div 10
           d == tenth * ((over + tenth - 1) \div tenth)
<1>1. DeviceRate \in Nat /\ tenth \in Nat \ {0} /\ tenth <= DeviceRate
  BY DeviceAssumption
<1>2. Len(buffer) \in Nat
  BY DEF Run
<1>3. CASE over <= 0
  BY <1>1, <1>2, <1>3 DEF WithinSecond
<1>4. CASE over > 0
  <2>1. over \in Nat \ {0}
    BY <1>1, <1>2, <1>4
  <2> HIDE DEF over, tenth
  <2>2. d \in Nat /\ over <= d /\ d < over + tenth
    BY <1>1, <2>1, TenthsOver
  <2>3. WithinSecond(buffer) = SubSeq(buffer, d + 1, Len(buffer))
    BY <1>2, <1>1, <2>1 DEF WithinSecond, over, tenth
  <2> HIDE DEF d
  <2>4. d \in 0 .. Len(buffer) /\ Len(buffer) - d <= DeviceRate
    BY <1>1, <1>2, <2>2 DEF over
  <2>5. ~(Len(buffer) <= DeviceRate)
    BY <1>1, <1>2, <2>1 DEF over
  <2> QED BY <1>1, <1>2, <2>3, <2>4, <2>5, RunShrinks
<1> QED BY <1>1, <1>2, <1>3, <1>4

\* A buffer is filled at its end, once the callback or the writer has trimmed
\* it to b.
LEMMA FilledFresh ==
    ASSUME NEW top \in Nat, NEW buffer, NEW taken, Fresh(buffer, taken, top),
           NEW n \in Nat, NEW b, Run(b, top + n), Len(b) <= DeviceRate,
           Len(b) <= Len(buffer) + n,
           Len(buffer) + n <= DeviceRate => Len(b) = Len(buffer) + n
    PROVE  Fresh(b, taken, top + n)
<1>1. /\ DeviceRate \in Nat /\ Len(buffer) \in Nat /\ Len(b) \in Nat
      /\ Len(taken) \in Nat /\ Len(buffer) <= top
  BY DeviceAssumption DEF Fresh, Run, TakenInOrder
<1>2. TakenInOrder(taken, (top + n) - Len(b))
  BY <1>1, TakenLater DEF Fresh
<1>3. top + n <= DeviceRate => Len(taken) + Len(b) = top + n
  BY <1>1 DEF Fresh
<1> QED BY <1>2, <1>3 DEF Fresh

\* A buffer is emptied at its front.
LEMMA TakenFresh ==
    ASSUME NEW top \in Nat, NEW buffer, NEW taken, Fresh(buffer, taken, top), NEW n \in Nat
    PROVE  Fresh(SubSeq(buffer, Shorter(n, buffer) + 1, Len(buffer)),
                 taken \o SubSeq(buffer, 1, Shorter(n, buffer)), top)
<1> DEFINE d == Shorter(n, buffer)
           kept == SubSeq(buffer, d + 1, Len(buffer))
           more == taken \o SubSeq(buffer, 1, d)
<1>1. /\ DeviceRate \in Nat /\ Len(buffer) \in Nat /\ Len(taken) \in Nat
      /\ Run(buffer, top) /\ TakenInOrder(taken, top - Len(buffer))
      /\ Len(buffer) <= DeviceRate /\ (top <= DeviceRate => Len(taken) + Len(buffer) = top)
  BY DeviceAssumption DEF Fresh, Run, TakenInOrder
<1>2. d \in 0 .. Len(buffer)
  BY <1>1 DEF Shorter
<1> HIDE DEF d
<1>3. Run(kept, top) /\ Len(kept) = Len(buffer) - d
  BY <1>1, <1>2, RunShrinks
<1>4. TakenInOrder(more, top - (Len(buffer) - d)) /\ Len(more) = Len(taken) + d
  BY <1>1, <1>2, RunTaken
<1> HIDE DEF kept, more
<1>5. Len(kept) <= DeviceRate /\ (top <= DeviceRate => Len(more) + Len(kept) = top)
  BY <1>1, <1>2, <1>3, <1>4
<1> QED BY <1>3, <1>4, <1>5 DEF Fresh, kept, more, d

LEMMA BuffersInit == DeviceInit => BuffersInv
<1> SUFFICES ASSUME DeviceInit PROVE BuffersInv
  OBVIOUS
<1>1. Fresh(<<>>, <<>>, 0)
  BY DeviceAssumption DEF Fresh, Run, TakenInOrder
<1> QED BY <1>1 DEF DeviceInit, BuffersInv

LEMMA BuffersStep == BuffersInv /\ [DeviceNext]_deviceVars => BuffersInv'
<1> SUFFICES ASSUME BuffersInv, [DeviceNext]_deviceVars PROVE BuffersInv'
  OBVIOUS
<1>1. Bursts \subseteq Nat /\ DeviceRate \in Nat
  BY DeviceAssumption
<1>2. PICK top \in 0 .. captured : (running => top = captured) /\ Fresh(capture, read, top)
  BY DEF BuffersInv
<1>3. top \in Nat /\ captured \in Nat /\ top <= captured /\ written \in Nat
  BY <1>2 DEF BuffersInv, Fresh
<1>4. CASE UNCHANGED <<captureVars, playbackVars>>
  BY <1>4 DEF captureVars, playbackVars, BuffersInv
<1>5. ASSUME NEW n \in Bursts, InputCallback(n) PROVE BuffersInv'
  <2>1. n \in Nat /\ captured' = captured + n /\ captured' \in Nat
    BY <1>1, <1>3, <1>5 DEF InputCallback
  <2>2. UNCHANGED <<running, read, playback, written, out>>
    BY <1>5 DEF InputCallback, playbackVars
  <2>3. CASE running
    <3> DEFINE all == capture \o Numbers(captured, n)
    <3>1. top = captured /\ Fresh(capture, read, captured) /\ Run(capture, captured)
      BY <1>2, <2>3 DEF Fresh
    <3>2. Run(all, captured + n) /\ Len(all) = Len(capture) + n
      BY <1>3, <2>1, <3>1, RunGrows
    <3>3. capture' = WithinSecond(all)
      BY <1>5, <2>3 DEF InputCallback
    <3> HIDE DEF all
    <3>4. /\ Run(capture', captured + n) /\ Len(capture') <= DeviceRate
          /\ Len(capture') <= Len(capture) + n
          /\ Len(capture) + n <= DeviceRate => Len(capture') = Len(capture) + n
      BY <1>3, <2>1, <3>2, <3>3, TrimmedFresh
    <3>5. Fresh(capture', read, captured + n)
      BY <1>3, <2>1, <3>1, <3>4, FilledFresh
    <3> QED BY <2>1, <2>2, <3>5 DEF BuffersInv
  <2>4. CASE ~running
    <3>1. capture' = capture /\ top \in 0 .. captured'
      BY <1>3, <1>5, <2>1, <2>4 DEF InputCallback
    <3> QED BY <1>2, <2>1, <2>2, <2>4, <3>1 DEF BuffersInv
  <2> QED BY <2>3, <2>4
<1>6. ASSUME NEW n \in Bursts, ReadSamples(n) PROVE BuffersInv'
  <2>1. /\ UNCHANGED <<running, captured, playback, written, out>>
        /\ read' = read \o SubSeq(capture, 1, Shorter(n, capture))
        /\ capture' = SubSeq(capture, Shorter(n, capture) + 1, Len(capture))
    BY <1>6 DEF ReadSamples, playbackVars
  <2>2. Fresh(capture', read', top)
    BY <1>1, <1>2, <1>3, <2>1, TakenFresh
  <2> QED BY <1>2, <2>1, <2>2 DEF BuffersInv
<1>7. CASE StopCapture
  <2>1. running' = FALSE /\ UNCHANGED <<capture, captured, read, playback, written, out>>
    BY <1>7 DEF StopCapture, playbackVars
  <2> QED BY <1>2, <2>1 DEF BuffersInv
<1>8. ASSUME NEW n \in Bursts, WriteSamples(n) PROVE BuffersInv'
  <2> DEFINE all == playback \o Numbers(written, n)
             d == Len(all) - Shorter(DeviceRate, all)
  <2>1. /\ n \in Nat /\ written' = written + n
        /\ UNCHANGED <<running, capture, captured, read, out>>
        /\ playback' = SubSeq(all, d + 1, Len(all))
    BY <1>1, <1>8 DEF WriteSamples, captureVars
  <2>2. Fresh(playback, out, written) /\ Run(playback, written) /\ Len(playback) \in Nat
    BY DEF BuffersInv, Fresh, Run
  <2>3. Run(all, written + n) /\ Len(all) = Len(playback) + n
    BY <1>3, <2>1, <2>2, RunGrows
  <2> HIDE DEF all
  <2>4. /\ d \in 0 .. Len(all) /\ Len(all) - d <= DeviceRate
        /\ Len(all) <= DeviceRate => d = 0
    <3>1. Len(all) \in Nat
      BY <2>1, <2>2, <2>3
    <3> QED BY <1>1, <3>1 DEF Shorter
  <2> HIDE DEF d
  <2>5. Run(playback', written + n) /\ Len(playback') = Len(all) - d
    <3>1. written + n \in Nat
      BY <1>3, <2>1
    <3>2. /\ Run(SubSeq(all, d + 1, Len(all)), written + n)
          /\ Len(SubSeq(all, d + 1, Len(all))) = Len(all) - d
      BY <2>3, <2>4, <3>1, RunShrinks
    <3> QED BY <2>1, <3>2
  <2>6. /\ Len(playback') <= DeviceRate /\ Len(playback') <= Len(playback) + n
        /\ Len(playback) + n <= DeviceRate => Len(playback') = Len(playback) + n
    BY <2>1, <2>2, <2>3, <2>4, <2>5
  <2>7. Fresh(playback', out, written + n)
    BY <1>3, <2>1, <2>2, <2>5, <2>6, FilledFresh
  <2> QED BY <1>2, <2>1, <2>7 DEF BuffersInv
<1>9. ASSUME NEW n \in Bursts, OutputCallback(n) PROVE BuffersInv'
  <2>1. /\ UNCHANGED <<running, capture, captured, read, written>>
        /\ out' = out \o SubSeq(playback, 1, Shorter(n, playback))
        /\ playback' = SubSeq(playback, Shorter(n, playback) + 1, Len(playback))
    BY <1>9 DEF OutputCallback, captureVars
  <2>2. Fresh(playback', out', written)
    BY <1>1, <1>3, <2>1, TakenFresh DEF BuffersInv
  <2> QED BY <1>2, <2>1, <2>2 DEF BuffersInv
<1>10. CASE HostNext
  BY <1>4, <1>10 DEF HostNext, Prime, Primed, AlreadyPrimed, List, Exit, Open, ComThread, Plug
<1> QED BY <1>4, <1>5, <1>6, <1>7, <1>8, <1>9, <1>10
        DEF DeviceNext, CaptureNext, PlaybackNext, deviceVars

\* What the invariant says of one buffer.
LEMMA FreshInOrder ==
    ASSUME NEW top \in Nat, NEW buffer, NEW taken, Fresh(buffer, taken, top)
    PROVE  /\ Len(buffer) <= DeviceRate
           /\ Following(buffer) /\ Increasing(taken \o buffer)
           /\ buffer # <<>> => buffer[Len(buffer)] = top
           /\ Len(taken) + Len(buffer) < top => top > DeviceRate
<1>1. /\ DeviceRate \in Nat /\ Len(buffer) \in Nat /\ Len(taken) \in Nat
      /\ Run(buffer, top) /\ TakenInOrder(taken, top - Len(buffer))
      /\ Len(buffer) <= DeviceRate /\ (top <= DeviceRate => Len(taken) + Len(buffer) = top)
      /\ buffer \in Seq(Nat)
  BY DeviceAssumption DEF Fresh, Run, TakenInOrder
<1>2. Following(buffer)
  <2> SUFFICES ASSUME NEW i \in 1 .. Len(buffer) - 1 PROVE buffer[i + 1] = buffer[i] + 1
    BY DEF Following
  <2>1. i \in 1 .. Len(buffer) /\ i + 1 \in 1 .. Len(buffer)
    BY <1>1
  <2>2. /\ buffer[i] = (top - Len(buffer)) + i
        /\ buffer[i + 1] = (top - Len(buffer)) + (i + 1)
    BY <1>1, <2>1 DEF Run
  <2> QED BY <1>1, <2>1, <2>2
<1>3. Increasing(taken \o buffer)
  <2>1. SubSeq(buffer, 1, Len(buffer)) = buffer /\ Len(buffer) \in 0 .. Len(buffer)
    BY <1>1
  <2>2. TakenInOrder(taken \o buffer, top - (Len(buffer) - Len(buffer)))
    BY <1>1, <2>1, RunTaken
  <2> QED BY <2>2 DEF TakenInOrder, Increasing
<1>4. ASSUME buffer # <<>> PROVE buffer[Len(buffer)] = top
  <2>1. Len(buffer) \in 1 .. Len(buffer)
    BY <1>1, <1>4
  <2>2. buffer[Len(buffer)] = (top - Len(buffer)) + Len(buffer)
    BY <1>1, <2>1 DEF Run
  <2> QED BY <1>1, <2>2
<1>5. Len(taken) + Len(buffer) < top => top > DeviceRate
  BY <1>1
<1> QED BY <1>1, <1>2, <1>3, <1>4, <1>5

\* Neither device buffer ever holds more than a second or anything but the
\* newest samples, and neither loses, repeats or reorders a sample before it
\* is full, for any sizes of callbacks, reads and writes.
THEOREM BuffersKeepNewest == DeviceSpec => []BuffersFresh
<1>1. BuffersInv => BuffersFresh
  <2> SUFFICES ASSUME BuffersInv PROVE BuffersFresh
    OBVIOUS
  <2>1. PICK top \in 0 .. captured : (running => top = captured) /\ Fresh(capture, read, top)
    BY DEF BuffersInv
  <2>2. top \in Nat /\ written \in Nat /\ Fresh(playback, out, written)
    BY <2>1 DEF BuffersInv, Fresh
  <2>3. /\ Len(capture) <= DeviceRate /\ Following(capture) /\ Increasing(read \o capture)
        /\ capture # <<>> => capture[Len(capture)] = top
        /\ Len(read) + Len(capture) < top => top > DeviceRate
    BY <2>1, <2>2, FreshInOrder
  <2>4. /\ Len(playback) <= DeviceRate /\ Following(playback) /\ Increasing(out \o playback)
        /\ playback # <<>> => playback[Len(playback)] = written
        /\ Len(out) + Len(playback) < written => written > DeviceRate
    BY <2>2, FreshInOrder
  <2> QED BY <2>1, <2>3, <2>4 DEF BuffersFresh
<1> QED BY <1>1, BuffersInit, BuffersStep, PTL DEF DeviceSpec

-----------------------------------------------------------------------------
(* The negotiation *)

\* The negotiation and the packets that follow, on their own.
CodecSpec == CodecInit /\ [][CodecNext]_codecVars

\* The community modules' Min of a set of places is the first of them.
LEMMA FirstPlace ==
    ASSUME NEW S \in SUBSET Nat, S # {}
    PROVE  Min(S) \in S /\ \A y \in S : Min(S) <= y
<1> DEFINE R == OpToRel(<, Nat)
           L == {p \in Nat \X Nat : p[1] < p[2]}
<1>1. R = L
  BY DEF OpToRel
<1>2. IsWellFoundedOn(R, Nat)
  BY NatLessThanWellFounded
<1>3. PICK x \in S : \A y \in S : ~(<<y, x>> \in L)
  <2> HIDE DEF R, L
  <2> QED BY <1>1, <1>2, WFMin
<1>4. ASSUME NEW y \in S, y < x
      PROVE  <<y, x>> \in L
  BY <1>4
<1>5. \A y \in S : x <= y
  <2> HIDE DEF L, R
  <2>1. \A y \in S : ~(y < x)
    BY <1>3, <1>4
  <2> QED BY <2>1
<1> QED BY <1>5 DEF Min

\* The first audio section is one, unless there is none.
LEMMA FirstAudioFound ==
    ASSUME NEW d \in Seq(Line)
    PROVE  IF FirstAudio(d) = 0 THEN \A i \in DOMAIN d : ~HasTypes(d[i])
           ELSE FirstAudio(d) \in DOMAIN d /\ HasTypes(d[FirstAudio(d)])
<1> DEFINE I == {i \in 1 .. Len(d) : HasTypes(d[i])}
<1>1. FirstAudio(d) = IF I # {} THEN Min(I) ELSE 0
  BY DEF FirstAudio, SelectInSeq
<1>2. I # {} => Min(I) \in I
  <2>1. I \in SUBSET Nat
    OBVIOUS
  <2> HIDE DEF I
  <2> QED BY <2>1, FirstPlace
<1>3. DOMAIN d = 1 .. Len(d)
  OBVIOUS
<1> QED BY <1>1, <1>2, <1>3

\* The rtpmap that is found is the first one.
LEMMA RtpmapFound ==
    ASSUME NEW d \in Seq(Line), NEW pt
    PROVE  IF RtpmapOf(d, pt) = 0 THEN \A i \in DOMAIN d : ~Maps(d[i], pt)
           ELSE /\ RtpmapOf(d, pt) \in DOMAIN d /\ Maps(d[RtpmapOf(d, pt)], pt)
                /\ \A i \in DOMAIN d : Maps(d[i], pt) => RtpmapOf(d, pt) <= i
<1> DEFINE I == {i \in 1 .. Len(d) : Maps(d[i], pt)}
<1>1. RtpmapOf(d, pt) = IF I # {} THEN Min(I) ELSE 0
  BY DEF RtpmapOf, SelectInSeq
<1>2. I # {} => Min(I) \in I /\ \A y \in I : Min(I) <= y
  <2>1. I \in SUBSET Nat
    OBVIOUS
  <2> HIDE DEF I
  <2> QED BY <2>1, FirstPlace
<1>3. DOMAIN d = 1 .. Len(d)
  OBVIOUS
<1> QED BY <1>1, <1>2, <1>3

\* No name stands for two codecs.
LEMMA NamesDisjoint ==
    ASSUME NEW c \in CodecType, NEW b \in CodecType, NEW name, name \in Names[c], name \in Names[b]
    PROVE  c = b
  BY DEF CodecType, Names

\* The static payload types stand for codecs.
LEMMA StaticCodecs ==
    ASSUME NEW pt \in DOMAIN StaticTypes
    PROVE  StaticTypes[pt] \in CodecType
  BY DEF StaticTypes, CodecType

\* An offered payload type means here what it means in the peer's own audio
\* section, though the text is searched for its rtpmap from the top, unless that
\* finds one of another section.
LEMMA OfferedMeans ==
    ASSUME NEW d \in Descriptions, ~Shadowed(d),
           NEW k \in DOMAIN Offered(d), Parses(Offered(d)[k])
    PROVE  LET pt == Offered(d)[k]
           IN  /\ CodecOf(d, pt) = PeerMeans(d, pt)
               /\ CodecOf(d, pt) \in CodecType \cup {Nothing}
<1> DEFINE pt == Offered(d)[k]
           f == FirstAudio(d)
           maps == {j \in DOMAIN d : InSection(d, f, j) /\ Maps(d[j], pt)}
           own == {j \in maps : \A i \in maps : j <= i}
           Means(c) == IF maps = {} THEN pt \in DOMAIN StaticTypes /\ StaticTypes[pt] = c
                       ELSE \E j \in own : d[j].name \in Names[c] /\ d[j].rate = clock_rate[c]
<1>1. d \in Seq(Line)
  BY DescriptionsAssumption
<1>2. RtpmapOf(d, pt) # 0 => InSection(d, f, RtpmapOf(d, pt))
  BY DEF Shadowed
<1>3. PeerMeans(d, pt) = IF \E c \in CodecType : Means(c) THEN CHOOSE c \in CodecType : Means(c)
                         ELSE Nothing
  BY DEF PeerMeans
<1> HIDE DEF pt
<1>4. CASE RtpmapOf(d, pt) = 0
  <2>1. maps = {}
    BY <1>1, <1>4, RtpmapFound
  <2>2. CodecOf(d, pt) = from_payload_type(pt)
    BY <1>4 DEF CodecOf
  <2>3. CASE pt \in DOMAIN StaticTypes
    <3>1. CodecOf(d, pt) = StaticTypes[pt] /\ StaticTypes[pt] \in CodecType
      BY <2>2, <2>3, StaticCodecs DEF from_payload_type
    <3>2. \A c \in CodecType : Means(c) <=> StaticTypes[pt] = c
      BY <2>1, <2>3
    <3> HIDE DEF Means
    <3> QED BY <1>3, <3>1, <3>2 DEF pt
  <2>4. CASE pt \notin DOMAIN StaticTypes
    BY <1>3, <2>1, <2>2, <2>4 DEF from_payload_type, pt
  <2> QED BY <2>3, <2>4
<1>5. CASE RtpmapOf(d, pt) # 0
  <2> DEFINE r == RtpmapOf(d, pt)
             name == d[r].name
             clock == d[r].rate
  <2>1. r \in DOMAIN d /\ Maps(d[r], pt)
    BY <1>1, <1>5, RtpmapFound
  <2>2. r \in maps /\ \A j \in maps : r <= j
    BY <1>1, <1>2, <1>5, RtpmapFound
  <2>3. own = {r} /\ maps # {}
    <3>1. maps \subseteq Nat
      BY <1>1
    <3> HIDE DEF r, maps
    <3>2. r \in own
      BY <2>2
    <3>3. ASSUME NEW j \in own PROVE j = r
      <4>1. j \in Nat /\ r \in Nat /\ j <= r /\ r <= j
        BY <2>2, <3>1
      <4> QED BY ONLY <4>1
    <3> HIDE DEF own
    <3> QED BY <2>2, <3>2, <3>3
  <2> HIDE DEF r
  <2>4. \A c \in CodecType : Means(c) <=> name \in Names[c] /\ clock = clock_rate[c]
    BY <2>3
  <2>5. CodecOf(d, pt) = Mapped(name, clock)
    BY <1>5 DEF CodecOf, r
  <2> HIDE DEF Means, name, clock
  <2>6. CASE \E c \in CodecType : name \in Names[c]
    <3>1. PICK c \in CodecType : name \in Names[c]
      BY <2>6
    <3>2. \A b \in CodecType : name \in Names[b] => b = c
      BY <3>1, NamesDisjoint
    <3>3. from_name(name) = c
      BY <3>1, <3>2 DEF from_name
    <3>4. c # Nothing
      BY NothingAssumption
    <3>5. Mapped(name, clock) = IF clock_rate[c] = clock THEN c ELSE Nothing
      BY <3>3, <3>4 DEF Mapped
    <3>6. CASE clock_rate[c] = clock
      <4>1. Means(c) /\ \A b \in CodecType : Means(b) => b = c
        BY <2>4, <3>1, <3>2, <3>6
      <4> QED BY <1>3, <2>5, <3>5, <3>6, <4>1 DEF pt
    <3>7. CASE clock_rate[c] # clock
      <4>1. \A b \in CodecType : ~Means(b)
        BY <2>4, <3>2, <3>7
      <4> QED BY <1>3, <2>5, <3>5, <3>7, <4>1 DEF pt
    <3> QED BY <3>6, <3>7
  <2>7. CASE ~\E c \in CodecType : name \in Names[c]
    <3>1. Mapped(name, clock) = Nothing
      BY <2>7 DEF Mapped, from_name
    <3>2. \A b \in CodecType : ~Means(b)
      BY <2>4, <2>7
    <3> QED BY <1>3, <2>5, <3>1, <3>2 DEF pt
  <2> QED BY <2>6, <2>7
<1> QED BY <1>4, <1>5

\* What is offered and parses is a u8.
LEMMA OfferedTypes ==
    ASSUME NEW d \in Descriptions
    PROVE  /\ Offered(d) \in Seq(Nat)
           /\ \A k \in DOMAIN Offered(d) : Parses(Offered(d)[k]) => Offered(d)[k] \in 0 .. 255
<1>1. d \in Seq(Line)
  BY DescriptionsAssumption
<1>2. Offered(d) \in Seq(Nat)
  <2>1. CASE FirstAudio(d) = 0
    BY <2>1 DEF Offered
  <2>2. CASE FirstAudio(d) # 0
    <3>1. FirstAudio(d) \in DOMAIN d /\ HasTypes(d[FirstAudio(d)])
      BY <1>1, <2>2, FirstAudioFound
    <3>2. PICK l \in Line : l = d[FirstAudio(d)]
      BY <1>1, <3>1
    <3>3. l.line = "audio"
      BY <3>1, <3>2 DEF HasTypes
    <3>4. l.pts \in Seq(Nat)
      BY <3>3 DEF Line
    <3> QED BY <2>2, <3>2, <3>4 DEF Offered
  <2> QED BY <2>1, <2>2
<1>3. ASSUME NEW k \in DOMAIN Offered(d), Parses(Offered(d)[k])
      PROVE  Offered(d)[k] \in 0 .. 255
  <2>1. PICK n \in Nat : n = Offered(d)[k]
    BY <1>2
  <2> QED BY <1>3, <2>1 DEF Parses
<1> QED BY <1>2, <1>3

\* The payload types of a description that both ends have.
CommonTypes(d) ==
    {i \in DOMAIN Offered(d) : Parses(Offered(d)[i]) /\ PeerMeans(d, Offered(d)[i]) # Nothing}

\* negotiate_codec_with_pt returns the first of them, as the peer means it, if
\* no rtpmap is shadowed.
LEMMA NegotiatesFirst ==
    ASSUME NEW d \in Descriptions, ~Shadowed(d)
    PROVE  LET answer == negotiate_codec_with_pt(d)
           IN  IF answer = Nothing THEN CommonTypes(d) = {} /\ negotiate_codec(d) = "Pcmu"
               ELSE /\ answer.codec \in CodecType
                    /\ answer.codec = PeerMeans(d, answer.pt)
                    /\ \E i \in CommonTypes(d) : /\ \A j \in CommonTypes(d) : i <= j
                                                 /\ answer.pt = Offered(d)[i]
<1> DEFINE o == Offered(d)
           I == {i \in 1 .. Len(o) : Parses(o[i]) /\ CodecOf(d, o[i]) # Nothing}
           chosen == IF I # {} THEN Min(I) ELSE 0
           answer == negotiate_codec_with_pt(d)
<1>1. answer = IF chosen = 0 THEN Nothing
               ELSE [codec |-> CodecOf(d, o[chosen]), pt |-> o[chosen]]
  BY DEF negotiate_codec_with_pt, SelectInSeq
<1>2. DOMAIN o = 1 .. Len(o)
  BY OfferedTypes
<1>3. I = CommonTypes(d)
  BY <1>2, OfferedMeans DEF CommonTypes
<1>4. I # {} => Min(I) \in I /\ \A y \in I : Min(I) <= y
  <2>1. I \in SUBSET Nat
    BY <1>2
  <2> HIDE DEF I
  <2> QED BY <2>1, FirstPlace
<1>5. CASE I = {}
  <2>1. answer = Nothing
    BY <1>1, <1>5
  <2> QED BY <1>3, <1>5, <2>1 DEF negotiate_codec
<1>6. CASE I # {}
  <2>1. chosen \in I /\ chosen # 0 /\ \A y \in I : chosen <= y
    BY <1>4, <1>6
  <2> DEFINE c == CodecOf(d, o[chosen])
             pt == o[chosen]
  <2>2. answer = [codec |-> c, pt |-> pt]
    BY <1>1, <2>1
  <2>3. Parses(pt) /\ c # Nothing /\ chosen \in DOMAIN o
    BY <1>2, <2>1
  <2> HIDE DEF chosen
  <2>4. c = PeerMeans(d, pt) /\ c \in CodecType
    BY <2>3, OfferedMeans
  <2>5. pt \in 0 .. 255
    BY <2>3, OfferedTypes
  <2> HIDE DEF c, pt, answer
  <2>6. answer # Nothing
    BY <2>2, <2>4, <2>5, NothingAssumption
  <2>7. answer.codec = c /\ answer.pt = pt
    BY <2>2
  <2>8. \E i \in CommonTypes(d) : (\A j \in CommonTypes(d) : i <= j) /\ answer.pt = o[i]
    BY <1>3, <2>1, <2>7 DEF pt
  <2> QED BY <2>4, <2>6, <2>7, <2>8 DEF answer
<1> QED BY <1>5, <1>6

-----------------------------------------------------------------------------
(* The packets that follow *)

\* A packet of every codec is of whole frames, comes out of the decoder with
\* as many samples as went in, and the timestamp moves on by as long.
LEMMA FramingExact ==
    ASSUME NEW c \in CodecType
    PROVE  LET n == pcm_samples_per_packet(c)
           IN  /\ n \in Nat /\ rtp_ticks_per_packet(c) \in Nat
               /\ Encode(c, n) \in [codec : CodecType, bytes : Nat, samples : Nat]
               /\ Encode(c, n).codec = c
               /\ Decode(c, Encode(c, n)) = n
               /\ pcm_rate[c] \in Nat /\ clock_rate[c] \in Nat
               /\ rtp_ticks_per_packet(c) * pcm_rate[c] = n * clock_rate[c]
<1> USE DEF pcm_samples_per_packet, rtp_ticks_per_packet, pcm_rate, clock_rate, PacketMs, CodecType,
            Encode, Decode
<1>1. CASE c = "Pcmu"
  BY <1>1
<1>2. CASE c = "Pcma"
  BY <1>2
<1>3. CASE c = "G722"
  BY <1>3
<1>4. CASE c = "G729"
  BY <1>4 DEF G729Encode, G729Decode
<1>5. CASE c = "Opus"
  BY <1>5 DEF OpusEncode, OpusDecode, ValidFrameLengths
<1> QED BY <1>1, <1>2, <1>3, <1>4, <1>5

CodedPacket ==
    [seq : Nat, ts : Nat, payload : [codec : CodecType, bytes : Nat, samples : Nat]]

\* Before an answer nothing is sent.
Unanswered ==
    config = Nothing => /\ sent = 0 /\ timestamp = 0 /\ next = 0
                        /\ arriving = <<>> /\ frames = <<>>

\* What was negotiated, and that codec coding whatever is on its way.
Answered ==
    config # Nothing =>
        /\ sdp # Nothing
        /\ timestamp = sent * rtp_ticks_per_packet(config.codec)
        /\ \A i \in DOMAIN arriving :
              /\ arriving[i].ts = arriving[i].seq * rtp_ticks_per_packet(config.codec)
              /\ arriving[i].payload
                    = Encode(config.codec, pcm_samples_per_packet(config.codec))
        /\ \A i \in DOMAIN frames : frames[i] = pcm_samples_per_packet(config.codec)

\* What was described and what it gives, for any description.
Described ==
    /\ sdp \in Descriptions \cup {Nothing}
    /\ config = IF sdp = Nothing THEN Nothing ELSE negotiate_codec_with_pt(sdp)

\* The call that follows, if no rtpmap is shadowed.
Conversing ==
    /\ sent \in Nat /\ next \in Nat
    /\ arriving \in Seq(CodedPacket) /\ frames \in Seq(Nat) /\ Len(frames) = next
    /\ Unanswered /\ Answered
    /\ \A pair \in codecs : pair[1] = pair[2]

\* The inductive invariant.
CodecInv == Described /\ (Clear => Conversing)

\* The codec in use is the peer's.
LEMMA CodecInUse ==
    ASSUME CodecInv, Clear, config # Nothing
    PROVE  /\ sdp \in Descriptions /\ config.codec \in CodecType
           /\ config.codec = PeerMeans(sdp, config.pt)
<1>1. /\ sdp # Nothing /\ sdp \in Descriptions /\ config = negotiate_codec_with_pt(sdp)
      /\ ~Shadowed(sdp)
  BY DEF CodecInv, Described, Clear
<1> QED BY <1>1, NegotiatesFirst

LEMMA CodecInitInv == CodecInit => CodecInv
<1> SUFFICES ASSUME CodecInit PROVE CodecInv
  OBVIOUS
<1>1. Len(<<>>) = 0 /\ <<>> \in Seq(CodedPacket) /\ <<>> \in Seq(Nat)
  OBVIOUS
<1> QED BY <1>1 DEF CodecInit, CodecInv, Described, Conversing, Unanswered, Answered

LEMMA NegotiateKeeps ==
    ASSUME CodecInv, NEW description \in Descriptions, Negotiate(description)
    PROVE  CodecInv'
<1>1. /\ sdp = Nothing /\ sdp' = description
      /\ config' = negotiate_codec_with_pt(description)
      /\ UNCHANGED <<timestamp, sent, arriving, next, frames, codecs>>
  BY DEF Negotiate
<1>2. config = Nothing
  BY <1>1 DEF CodecInv, Described
<1>3. /\ sent = 0 /\ timestamp = 0 /\ next = 0 /\ arriving = <<>> /\ frames = <<>>
  BY <1>1, <1>2 DEF CodecInv, Conversing, Clear, Unanswered
<1>4. Unanswered'
  BY <1>1, <1>3 DEF Unanswered
<1>5. Clear' => Answered'
  <2> SUFFICES ASSUME Clear', config' # Nothing PROVE Answered'
    BY DEF Answered
  <2> DEFINE answer == negotiate_codec_with_pt(description)
  <2>1. answer # Nothing /\ answer = config' /\ ~Shadowed(description)
    BY <1>1, NothingAssumption DEF Clear
  <2>2. PICK c \in CodecType : c = answer.codec
    BY <2>1, NegotiatesFirst
  <2>3. rtp_ticks_per_packet(c) \in Nat
    BY FramingExact
  <2>4. 0 = 0 * rtp_ticks_per_packet(c)
    BY <2>3
  <2>5. sdp' # Nothing /\ DOMAIN arriving' = {} /\ DOMAIN frames' = {}
    BY <1>1, <1>3, NothingAssumption
  <2> HIDE DEF answer
  <2> QED BY <1>1, <1>3, <2>1, <2>2, <2>4, <2>5 DEF Answered
<1>6. Described'
  BY <1>1, NothingAssumption DEF Described
<1>7. Clear' => Conversing'
  BY <1>1, <1>3, <1>4, <1>5 DEF CodecInv, Conversing, Clear
<1> QED BY <1>6, <1>7 DEF CodecInv

LEMMA PacketizeKeeps ==
    ASSUME CodecInv, Clear, Packetize
    PROVE  Conversing'
<1> DEFINE c == config.codec
           n == pcm_samples_per_packet(c)
           ticks == rtp_ticks_per_packet(c)
           packet == [seq |-> sent, ts |-> timestamp, payload |-> Encode(c, n)]
<1>1. config # Nothing
  BY DEF Packetize
<1>2. c \in CodecType /\ c = PeerMeans(sdp, config.pt)
  BY <1>1, CodecInUse
<1>3. /\ arriving' = Append(arriving, packet) /\ timestamp' = timestamp + ticks
      /\ sent' = sent + 1 /\ UNCHANGED <<sdp, config, next, frames, codecs>>
  BY <1>2 DEF Packetize
<1>4. /\ timestamp = sent * ticks /\ sent \in Nat /\ arriving \in Seq(CodedPacket)
      /\ \A i \in DOMAIN arriving : /\ arriving[i].ts = arriving[i].seq * ticks
                                    /\ arriving[i].payload = Encode(c, n)
      /\ \A i \in DOMAIN frames : frames[i] = n
      /\ sdp # Nothing
  BY <1>1 DEF CodecInv, Conversing, Answered
<1>5. ticks \in Nat /\ Encode(c, n) \in [codec : CodecType, bytes : Nat, samples : Nat]
  BY <1>2, FramingExact
<1> HIDE DEF c, n, ticks
<1>6. sent * ticks \in Nat /\ sent * ticks + ticks = (sent + 1) * ticks
  BY <1>4, <1>5
<1>7. packet \in CodedPacket
  BY <1>4, <1>5, <1>6 DEF CodedPacket
<1>8. packet.ts = packet.seq * ticks /\ packet.payload = Encode(c, n)
  BY <1>4
<1> HIDE DEF packet
<1>9. arriving' \in Seq(CodedPacket)
  BY <1>3, <1>4, <1>7
<1>10. ASSUME NEW i \in DOMAIN arriving'
       PROVE  arriving'[i].ts = arriving'[i].seq * ticks /\ arriving'[i].payload = Encode(c, n)
  <2>1. arriving'[i] = packet \/ (i \in DOMAIN arriving /\ arriving'[i] = arriving[i])
    BY <1>3, <1>4, <1>7, <1>10
  <2> QED BY <1>4, <1>8, <2>1
<1>11. timestamp' = sent' * ticks /\ sent' \in Nat
  BY <1>3, <1>4, <1>6
<1>12. Answered'
  BY <1>3, <1>4, <1>10, <1>11 DEF Answered, c, n, ticks
<1>13. Unanswered'
  BY <1>1, <1>3 DEF Unanswered
<1> QED BY <1>3, <1>9, <1>11, <1>12, <1>13 DEF CodecInv, Conversing

\* Taking a packet off the front leaves the others as they are.
LEMMA TailKeeps ==
    ASSUME NEW q \in Seq(CodedPacket), q # <<>>
    PROVE  /\ Tail(q) \in Seq(CodedPacket)
           /\ \A i \in DOMAIN Tail(q) : i + 1 \in DOMAIN q /\ Tail(q)[i] = q[i + 1]
           /\ Head(q) = q[1] /\ 1 \in DOMAIN q
  OBVIOUS

LEMMA LoseKeeps ==
    ASSUME CodecInv, Clear, Lose
    PROVE  Conversing'
<1>1. /\ arriving # <<>> /\ arriving' = Tail(arriving)
      /\ UNCHANGED <<sdp, config, timestamp, sent, next, frames, codecs>>
      /\ arriving \in Seq(CodedPacket)
  BY DEF Lose, CodecInv, Conversing
<1>2. config # Nothing
  BY <1>1 DEF CodecInv, Conversing, Unanswered
<1>3. /\ arriving' \in Seq(CodedPacket)
      /\ \A i \in DOMAIN arriving' : i + 1 \in DOMAIN arriving /\ arriving'[i] = arriving[i + 1]
  BY <1>1, TailKeeps
<1>4. Answered'
  BY <1>1, <1>2, <1>3 DEF CodecInv, Conversing, Answered
<1> QED BY <1>1, <1>2, <1>3, <1>4 DEF CodecInv, Conversing, Unanswered

LEMMA PlayoutKeeps ==
    ASSUME CodecInv, Clear, Playout
    PROVE  Conversing'
<1> DEFINE c == config.codec
           n == pcm_samples_per_packet(c)
           packet == Head(arriving)
<1>1. /\ arriving # <<>> /\ arriving \in Seq(CodedPacket) /\ frames \in Seq(Nat)
      /\ next \in Nat /\ Len(frames) = next
      /\ next' = next + 1 /\ UNCHANGED <<sdp, config, timestamp, sent>>
  BY DEF Playout, CodecInv, Conversing
<1>2. config # Nothing
  BY <1>1 DEF CodecInv, Conversing, Unanswered
<1>3. c \in CodecType
  BY <1>2, CodecInUse
<1>4. n \in Nat /\ Encode(c, n).codec = c /\ Decode(c, Encode(c, n)) = n
  BY <1>3, FramingExact
<1>5. packet.payload = Encode(c, n)
  BY <1>1, <1>2, TailKeeps DEF CodecInv, Conversing, Answered
<1>6. /\ frames' = Append(frames, n)
      /\ \/ UNCHANGED <<arriving, codecs>>
         \/ arriving' = Tail(arriving) /\ codecs' = codecs \cup {<<c, c>>}
  BY <1>4, <1>5 DEF Playout, conceal_loss
<1> HIDE DEF c, n, packet
<1>7. /\ frames' \in Seq(Nat) /\ Len(frames') = next'
      /\ \A i \in DOMAIN frames' : (i \in DOMAIN frames /\ frames'[i] = frames[i]) \/ frames'[i] = n
  BY <1>1, <1>4, <1>6
<1>8. /\ arriving' \in Seq(CodedPacket)
      /\ \A i \in DOMAIN arriving' : \E j \in DOMAIN arriving : arriving'[i] = arriving[j]
  <2>1. CASE arriving' = arriving
    BY <1>1, <2>1
  <2>2. CASE arriving' = Tail(arriving)
    <3>1. /\ Tail(arriving) \in Seq(CodedPacket)
          /\ \A i \in DOMAIN Tail(arriving) : /\ i + 1 \in DOMAIN arriving
                                              /\ Tail(arriving)[i] = arriving[i + 1]
      BY <1>1, TailKeeps
    <3> QED BY ONLY <2>2, <3>1
  <2> QED BY <1>6, <2>1, <2>2
<1>9. \A pair \in codecs' : pair[1] = pair[2]
  BY <1>6 DEF CodecInv, Conversing
<1>10. Answered'
  BY <1>1, <1>2, <1>7, <1>8 DEF CodecInv, Conversing, Answered, c, n
<1>11. Unanswered'
  BY <1>1, <1>2 DEF Unanswered
<1> QED BY <1>1, <1>7, <1>8, <1>9, <1>10, <1>11 DEF CodecInv, Conversing

LEMMA CodecNextInv == CodecInv /\ [CodecNext]_codecVars => CodecInv'
<1> SUFFICES ASSUME CodecInv, [CodecNext]_codecVars PROVE CodecInv'
  OBVIOUS
<1>1. CASE UNCHANGED codecVars
  BY <1>1 DEF codecVars, CodecInv, Described, Clear, Conversing, Unanswered, Answered
<1>2. CASE Packetize \/ Lose \/ Playout
  <2>1. UNCHANGED <<sdp, config>>
    BY <1>2 DEF Packetize, Lose, Playout
  <2>2. Described' /\ (Clear' => Clear)
    BY <2>1 DEF CodecInv, Described, Clear
  <2>3. Clear => Conversing'
    BY <1>2, PacketizeKeeps, LoseKeeps, PlayoutKeeps
  <2> QED BY <2>2, <2>3 DEF CodecInv
<1> QED BY <1>1, <1>2, NegotiateKeeps DEF CodecNext

\* Whatever a peer describes, unless another section's rtpmap shadows one of
\* its audio section's payload types, the codec and payload type agreed on are
\* the first of its own that this end has, in the sense of that section, none
\* only when there is none, and every packet is decoded by the codec it was
\* coded with.
THEOREM PeersAlwaysAgree == CodecSpec => []PeersAgree
<1>1. CodecInv => PeersAgree
  <2> SUFFICES ASSUME CodecInv, Clear, sdp # Nothing
               PROVE  IF config = Nothing THEN CommonTypes(sdp) = {} /\ negotiate_codec(sdp) = "Pcmu"
                      ELSE \E i \in CommonTypes(sdp) :
                              /\ \A j \in CommonTypes(sdp) : i <= j
                              /\ config.pt = Offered(sdp)[i]
                              /\ config.codec = PeerMeans(sdp, Offered(sdp)[i])
    BY DEF CodecInv, Conversing, PeersAgree, CommonTypes
  <2>1. sdp \in Descriptions /\ config = negotiate_codec_with_pt(sdp) /\ ~Shadowed(sdp)
    BY DEF CodecInv, Described, Clear
  <2> QED BY <2>1, NegotiatesFirst
<1> QED BY <1>1, CodecInitInv, CodecNextInv, PTL DEF CodecSpec

\* With every codec, through any losses, no frame is cut or padded, and when a
\* packet's turn comes the samples played are those its timestamp says.
THEOREM AudioAlwaysKeepsTime == CodecSpec => []AudioKeepsTime
<1>1. CodecInv => AudioKeepsTime
  <2> SUFFICES ASSUME CodecInv, Clear, config # Nothing PROVE AudioKeepsTime
    BY DEF AudioKeepsTime
  <2> DEFINE c == config.codec
             n == pcm_samples_per_packet(c)
             ticks == rtp_ticks_per_packet(c)
  <2>1. c \in CodecType
    BY CodecInUse
  <2>2. /\ n \in Nat /\ ticks \in Nat /\ pcm_rate[c] \in Nat /\ clock_rate[c] \in Nat
        /\ ticks * pcm_rate[c] = n * clock_rate[c]
    BY <2>1, FramingExact
  <2>3. /\ \A i \in DOMAIN frames : frames[i] = n
        /\ \A i \in DOMAIN arriving : arriving[i].ts = arriving[i].seq * ticks
        /\ Len(frames) = next /\ next \in Nat
    BY DEF CodecInv, Conversing, Answered
  <2> HIDE DEF c, n, ticks
  <2>4. (next * ticks) * pcm_rate[c] = next * n * clock_rate[c]
    <3>1. PICK p \in Nat, k \in Nat : p = pcm_rate[c] /\ k = clock_rate[c]
      BY <2>2
    <3>2. (next * ticks) * p = next * (ticks * p) /\ next * n * k = next * (n * k)
      BY <2>2, <2>3
    <3> QED BY <2>2, <3>1, <3>2
  <2> QED BY <2>3, <2>4 DEF AudioKeepsTime, c, n
<1> QED BY <1>1, CodecInitInv, CodecNextInv, PTL DEF CodecSpec

-----------------------------------------------------------------------------
(* G.722 *)

\* A stream of calls of encode and decode, on its own.
G722Spec == G722Init /\ [][G722Next]_g722Vars

\* Each encoder of a run follows from the one before and a pair of samples:
\* such a function exists for no pairs, and for one more than any number.
LEMMA EncoderByEncoder ==
    ASSUME NEW enc, NEW samples \in Seq(Sample)
    PROVE  /\ Encoders(enc, samples)[0] = enc
           /\ \A k \in 1 .. Len(samples) \div 2 :
                 Encoders(enc, samples)[k]
                   = encode_pair(Encoders(enc, samples)[k - 1],
                                 samples[2 * k - 1], samples[2 * k]).enc
<1> DEFINE Pair(f, k) == encode_pair(f[k - 1], samples[2 * k - 1], samples[2 * k]).enc
           F(f, n) == f = [k \in 0 .. n |-> IF k = 0 THEN enc ELSE Pair(f, k)]
           bad == {n \in Nat : \A f : ~F(f, n)}
           pairs == Len(samples) \div 2
<1>1. bad = {}
  <2> SUFFICES ASSUME bad # {} PROVE FALSE
    OBVIOUS
  <2>1. PICK m \in Nat : m \in bad /\ \A y \in bad : m <= y
    <3>1. bad \in SUBSET Nat
      OBVIOUS
    <3> HIDE DEF bad
    <3> QED BY <3>1, FirstPlace
  <2>2. CASE m = 0
    <3> DEFINE f == [k \in 0 .. 0 |-> enc]
    <3>1. F(f, 0)
      OBVIOUS
    <3> QED BY <2>1, <2>2, <3>1
  <2>3. CASE m > 0
    <3>1. PICK before \in Nat : before = m - 1
      BY <2>3
    <3>2. before \notin bad
      <4> HIDE DEF bad
      <4> QED BY <2>1, <3>1
    <3>3. PICK f : F(f, before)
      BY <3>2
    <3> DEFINE g == [k \in 0 .. m |-> IF k = m THEN Pair(f, m) ELSE f[k]]
    <3>4. ASSUME NEW k \in 0 .. m
          PROVE  g[k] = IF k = 0 THEN enc ELSE Pair(g, k)
      <4>1. CASE k = 0
        BY <2>3, <3>1, <3>3, <4>1
      <4>2. CASE k > 0 /\ k < m
        <5>1. k \in 0 .. before /\ k - 1 \in 0 .. before /\ k - 1 \in 0 .. m /\ k - 1 # m /\ k # m /\ k # 0
          BY <3>1, <4>2
        <5>2. g[k] = f[k] /\ g[k - 1] = f[k - 1]
          BY <5>1
        <5>3. f[k] = Pair(f, k)
          BY <3>3, <5>1
        <5> QED BY <5>1, <5>2, <5>3
      <4>3. CASE k > 0 /\ k = m
        <5>1. m - 1 \in 0 .. m /\ m - 1 # m
          BY <4>3
        <5>2. g[m - 1] = f[m - 1]
          BY <5>1
        <5> QED BY <4>3, <5>2
      <4> QED BY <4>1, <4>2, <4>3
    <3>5. F(g, m)
      BY <3>4
    <3> QED BY <2>1, <3>5
  <2> QED BY <2>2, <2>3
<1>2. pairs \in Nat
  OBVIOUS
<1>3. \E f : F(f, pairs)
  BY <1>1, <1>2
<1>4. Encoders(enc, samples) = CHOOSE f : F(f, pairs)
  BY DEF Encoders
<1>5. F(Encoders(enc, samples), pairs)
  BY <1>3, <1>4
<1> QED BY <1>2, <1>5

\* The pairs of part come in whole after the first done.
Continues(part, whole, done) ==
    /\ done + (Len(part) \div 2) <= Len(whole) \div 2
    /\ \A i \in 1 .. 2 * (Len(part) \div 2) : part[i] = whole[2 * done + i]

\* A call that takes up where a run stands takes it on: the encoders are those
\* of one call with all the samples.  With nothing before it, a run does not
\* depend on the samples after it.
LEMMA RunsOn ==
    ASSUME NEW enc, NEW whole \in Seq(Sample), NEW part \in Seq(Sample), NEW done \in Nat,
           Continues(part, whole, done)
    PROVE  \A k \in 0 .. Len(part) \div 2 :
              Encoders(Encoders(enc, whole)[done], part)[k] = Encoders(enc, whole)[done + k]
<1> DEFINE E == Encoders(enc, whole)
           P == Encoders(E[done], part)
           n == Len(part) \div 2
           w == Len(whole) \div 2
           bad == {k \in 0 .. n : P[k] # E[done + k]}
<1>1. n \in Nat /\ w \in Nat /\ done + n <= w
  BY DEF Continues
<1>2. P[0] = E[done] /\ \A k \in 1 .. n : P[k] = encode_pair(P[k - 1], part[2 * k - 1], part[2 * k]).enc
  <2> HIDE DEF E
  <2> QED BY EncoderByEncoder
<1>3. \A k \in 1 .. w : E[k] = encode_pair(E[k - 1], whole[2 * k - 1], whole[2 * k]).enc
  BY EncoderByEncoder
<1>4. \A i \in 1 .. 2 * n : part[i] = whole[2 * done + i]
  BY DEF Continues
<1> HIDE DEF E, P, n, w
<1>5. bad = {}
  <2> SUFFICES ASSUME bad # {} PROVE FALSE
    OBVIOUS
  <2>1. PICK m \in Nat : m \in bad /\ \A y \in bad : m <= y
    <3>1. bad \in SUBSET Nat
      BY <1>1
    <3> HIDE DEF bad
    <3> QED BY <3>1, FirstPlace
  <2>2. m \in 1 .. n
    <3>1. m \in 0 .. n /\ P[m] # E[done + m]
      BY <2>1
    <3>2. m = 0 => done + m = done
      OBVIOUS
    <3>3. m # 0
      BY <1>2, <3>1, <3>2
    <3> QED BY <1>1, <3>1, <3>3
  <2>3. PICK before \in Nat : before = m - 1
    BY <2>2
  <2>4. before \notin bad
    <3> HIDE DEF bad
    <3> QED BY <2>1, <2>3
  <2>5. P[before] = E[done + before]
    <3>1. before \in 0 .. n
      BY <1>1, <2>2, <2>3
    <3> QED BY <2>4, <3>1
  <2>6. part[2 * m - 1] = whole[2 * (done + m) - 1] /\ part[2 * m] = whole[2 * (done + m)]
    <3>1. /\ 2 * m - 1 \in 1 .. 2 * n /\ 2 * m \in 1 .. 2 * n
          /\ 2 * done + (2 * m - 1) = 2 * (done + m) - 1 /\ 2 * done + 2 * m = 2 * (done + m)
      BY <1>1, <2>2
    <3> QED BY <1>4, <3>1
  <2>7. P[m] = encode_pair(P[before], part[2 * m - 1], part[2 * m]).enc
    BY <1>2, <2>2, <2>3
  <2>8. E[done + m] = encode_pair(E[done + before], whole[2 * (done + m) - 1], whole[2 * (done + m)]).enc
    <3>1. done + m \in 1 .. w /\ done + m - 1 = done + before
      BY <1>1, <2>2, <2>3
    <3> QED BY <1>3, <3>1
  <2>9. P[m] = E[done + m]
    BY <2>5, <2>6, <2>7, <2>8, Zenon
  <2> QED BY <2>1, <2>9
<1>6. \A k \in 0 .. n : P[k] = E[done + k]
  BY <1>5
<1> QED BY <1>6 DEF E, P, n

\* A byte says which codes its two bands were given, so a decoder whose bands
\* were the encoder's makes them what the encoder made them.
LEMMA LowCode ==
    ASSUME NEW wd, NEW det
    PROVE  QuantLow(wd, det) \in 1 .. 30
<1> DEFINE above == {i \in 1 .. 29 : wd < (Q6[i] * det) \div 4096}
<1>1. QuantLow(wd, det) = IF above = {} THEN 30 ELSE CHOOSE i \in above : \A j \in above : i <= j
  BY DEF QuantLow
<1>2. above \in SUBSET Nat /\ above \in SUBSET (1 .. 29)
  OBVIOUS
<1> HIDE DEF above
<1>3. CASE above = {}
  BY <1>1, <1>3
<1>4. CASE above # {}
  <2>1. \E i \in above : \A j \in above : i <= j
    BY <1>2, <1>4, FirstPlace
  <2>2. QuantLow(wd, det) \in above
    BY <1>1, <1>4, <2>1
  <2>3. QuantLow(wd, det) \in 1 .. 29
    BY <1>2, <2>2, Zenon
  <2>4. \A c \in 1 .. 29 : c \in 1 .. 30
    OBVIOUS
  <2> QED BY <2>3, <2>4, Zenon
<1> QED BY <1>3, <1>4

LEMMA ByteCarriesBoth ==
    ASSUME NEW enc, NEW first, NEW second
    PROVE  LET pair == encode_pair(enc, first, second)
           IN  /\ pair.code \in Nat
               /\ pair.enc.low = AdaptLow(enc.low, pair.code % 64)
               /\ pair.enc.high = AdaptHigh(enc.high, pair.code \div 64)
<1> DEFINE x == Shifted(enc.x, first, second)
           el == saturate((EvenTaps(x) + OddTaps(x)) \div 16384 - enc.low.s)
           eh == saturate((EvenTaps(x) - OddTaps(x)) \div 16384 - enc.high.s)
           level == QuantLow(Magnitude(el), enc.low.det)
           ilow == IF el < 0 THEN ILN(level) ELSE ILP(level)
           large == Magnitude(eh) >= (564 * enc.high.det) \div 4096
           ihigh == (IF large THEN 0 ELSE 1) + (IF eh < 0 THEN 0 ELSE 2)
           pair == encode_pair(enc, first, second)
           after_it == [x |-> x, low |-> AdaptLow(enc.low, ilow), high |-> AdaptHigh(enc.high, ihigh)]
<1>1. pair = [enc |-> after_it, code |-> ihigh * 64 + ilow]
  BY DEF encode_pair
<1>2. level \in 1 .. 30
  <2> HIDE DEF el
  <2> QED BY LowCode
<1> HIDE DEF x, level, pair
<1>3. ilow \in 0 .. 63
  <2>1. ILN(level) \in 0 .. 63 /\ ILP(level) \in 0 .. 63
    BY <1>2 DEF ILN, ILP
  <2> HIDE DEF el
  <2> QED BY <2>1, Zenon
<1>4. ihigh \in 0 .. 3
  <2> HIDE DEF large, eh
  <2> QED OBVIOUS
<1> HIDE DEF ilow, ihigh, large, el, eh
<1>5. PICK a \in 0 .. 63, b \in 0 .. 3 : a = ilow /\ b = ihigh
  BY <1>3, <1>4
<1>6. b * 64 + a \in Nat /\ (b * 64 + a) % 64 = a /\ (b * 64 + a) \div 64 = b
  OBVIOUS
<1>7. pair.code = b * 64 + a
  BY <1>1, <1>5
<1>8. pair.enc.low = AdaptLow(enc.low, a) /\ pair.enc.high = AdaptHigh(enc.high, b)
  <2>1. pair.enc = after_it
    BY <1>1
  <2>2. after_it.low = AdaptLow(enc.low, ilow) /\ after_it.high = AdaptHigh(enc.high, ihigh)
    OBVIOUS
  <2> HIDE DEF after_it
  <2> QED BY <1>5, <2>1, <2>2
<1>9. /\ pair.code \in Nat /\ pair.enc.low = AdaptLow(enc.low, pair.code % 64)
      /\ pair.enc.high = AdaptHigh(enc.high, pair.code \div 64)
  BY <1>6, <1>7, <1>8, Zenon
<1> QED BY <1>9 DEF pair

\* The encoder of one call with every sample so far, pair by pair, and the
\* byte each pair gives.
OneCall == Encoders(NewEncoder, fed)
Pairs == Len(fed) \div 2
CodeOf(k) == encode_pair(OneCall[k - 1], fed[2 * k - 1], fed[2 * k]).code

\* Inductive: the encoder stands where that run ends and holds the sample it
\* has not paired; the bytes under way are the run's last, and the decoder's
\* bands are those of the run before them.
G722Inv ==
    /\ fed \in Seq(Sample) /\ \E S : played \in Seq(S)
    /\ carried = IF Len(fed) % 2 = 1 THEN fed[Len(fed)] ELSE NoSample
    /\ encoder = OneCall[Pairs]
    /\ \E decoded \in 0 .. Pairs :
          /\ Len(played) = 2 * decoded
          /\ codes = [k \in 1 .. Pairs - decoded |-> CodeOf(decoded + k)]
          /\ decoder.low = OneCall[decoded].low /\ decoder.high = OneCall[decoded].high

LEMMA G722InitInv == G722Init => G722Inv
<1> SUFFICES ASSUME G722Init PROVE G722Inv
  OBVIOUS
<1>1. fed = <<>> /\ Len(fed) = 0 /\ fed \in Seq(Sample) /\ played \in Seq({}) /\ Len(played) = 0
  BY DEF G722Init
<1>2. Pairs = 0 /\ Len(fed) % 2 # 1
  BY <1>1 DEF Pairs
<1>3. OneCall[0] = NewEncoder
  BY <1>1, EncoderByEncoder DEF OneCall
<1>4. codes = [k \in 1 .. 0 - 0 |-> CodeOf(0 + k)]
  BY DEF G722Init
<1>5. encoder = OneCall[Pairs] /\ carried = NoSample /\ decoder = OneCall[0]
  BY <1>2, <1>3 DEF G722Init, NewDecoder
<1>6. PICK decoded \in 0 .. Pairs : decoded = 0
  BY <1>2
<1>7. /\ Len(played) = 2 * decoded
      /\ codes = [k \in 1 .. Pairs - decoded |-> CodeOf(decoded + k)]
      /\ decoder.low = OneCall[decoded].low /\ decoder.high = OneCall[decoded].high
  BY <1>1, <1>2, <1>4, <1>5, <1>6
<1> QED BY <1>1, <1>2, <1>5, <1>7 DEF G722Inv

\* The samples of a call, the held one first, are those after the run so far.
LEMMA CallFollows ==
    ASSUME G722Inv, NEW pcm \in Seq(Sample)
    PROVE  /\ Held(pcm) \in Seq(Sample)
           /\ 2 * Pairs + Len(Held(pcm)) = Len(fed \o pcm)
           /\ \A i \in 1 .. Len(Held(pcm)) : Held(pcm)[i] = (fed \o pcm)[2 * Pairs + i]
<1> DEFINE n == Len(fed)
           all == fed \o pcm
<1>1. fed \in Seq(Sample) /\ n \in Nat /\ Len(pcm) \in Nat
  BY DEF G722Inv
<1>2. /\ all \in Seq(Sample) /\ Len(all) = n + Len(pcm)
      /\ \A i \in 1 .. n : all[i] = fed[i]
      /\ \A i \in 1 .. Len(pcm) : all[n + i] = pcm[i]
  BY <1>1
<1>3. CASE n % 2 = 1
  <2>1. carried = fed[n] /\ n \in 1 .. n /\ carried \in Sample /\ carried # NoSample
    <3>1. n \in 1 .. n
      BY <1>1, <1>3
    <3>2. carried = fed[n]
      BY <1>3 DEF G722Inv
    <3>3. fed[n] \in Sample
      BY <1>1, <3>1
    <3> QED BY <3>1, <3>2, <3>3, G722Assumption
  <2> DEFINE samples == <<carried>> \o pcm
  <2>2. Held(pcm) = samples
    BY <2>1 DEF Held
  <2>3. /\ samples \in Seq(Sample) /\ Len(samples) = 1 + Len(pcm) /\ samples[1] = carried
        /\ \A i \in 1 .. Len(pcm) : samples[1 + i] = pcm[i]
    BY <1>1, <2>1
  <2>4. 2 * Pairs = n - 1
    BY <1>1, <1>3 DEF Pairs
  <2> HIDE DEF samples, all
  <2>5. ASSUME NEW i \in 1 .. Len(samples) PROVE samples[i] = all[n - 1 + i]
    <3>1. CASE i = 1
      <4>1. n - 1 + i = n
        BY <1>1, <3>1
      <4> QED BY <1>2, <2>1, <2>3, <3>1, <4>1
    <3>2. CASE i > 1
      <4>1. PICK j \in 1 .. Len(pcm) : j = i - 1
        BY <1>1, <2>3, <3>2
      <4>2. i = 1 + j /\ n - 1 + i = n + j
        BY <1>1, <4>1
      <4> QED BY <1>2, <2>3, <4>2
    <3> QED BY <1>1, <2>3, <3>1, <3>2
  <2>6. 2 * Pairs + Len(samples) = Len(all)
    BY <1>1, <1>2, <2>3, <2>4
  <2> QED BY <2>2, <2>3, <2>4, <2>5, <2>6 DEF all
<1>4. CASE n % 2 # 1
  <2>1. Held(pcm) = pcm
    BY <1>4 DEF Held, G722Inv
  <2>2. 2 * Pairs = n
    BY <1>1, <1>4 DEF Pairs
  <2> QED BY <1>1, <1>2, <2>1, <2>2
<1> QED BY <1>3, <1>4

LEMMA EncodeKeeps ==
    ASSUME G722Inv, NEW pcm \in Calls, encode(pcm)
    PROVE  G722Inv'
<1> DEFINE samples == Held(pcm)
           n == Len(samples) \div 2
           E == Encoders(encoder, samples)
           R == Encoders(NewEncoder, fed')
           Code(k) == encode_pair(R[k - 1], fed'[2 * k - 1], fed'[2 * k]).code
<1>1. pcm \in Seq(Sample) /\ fed \in Seq(Sample) /\ fed' = fed \o pcm /\ fed' \in Seq(Sample)
  BY G722Assumption DEF encode, G722Inv
<1>2. /\ samples \in Seq(Sample) /\ 2 * Pairs + Len(samples) = Len(fed')
      /\ \A i \in 1 .. Len(samples) : samples[i] = fed'[2 * Pairs + i]
  BY <1>1, CallFollows
<1>3. Pairs \in Nat /\ n \in Nat /\ Len(samples) \in Nat /\ Len(fed') \in Nat
  BY <1>1, <1>2 DEF Pairs
<1>4. Pairs' = Pairs + n /\ 2 * n <= Len(samples) /\ Len(fed') \div 2 = Pairs + n
  BY <1>2, <1>3 DEF Pairs
<1> HIDE DEF samples
<1>5. \A k \in 0 .. Pairs : OneCall[k] = R[k]
  <2>1. PICK none \in Nat : none = 0
    OBVIOUS
  <2>2. /\ none + (Len(fed) \div 2) <= Len(fed') \div 2
        /\ \A i \in 1 .. 2 * (Len(fed) \div 2) : fed[i] = fed'[2 * none + i]
    <3>1. Len(fed) \in Nat /\ 2 * (Len(fed) \div 2) <= Len(fed) /\ Pairs = Len(fed) \div 2
      BY <1>1 DEF Pairs
    <3>2. \A i \in 1 .. Len(fed) : fed'[i] = fed[i]
      BY <1>1
    <3>3. \A i \in 1 .. 2 * (Len(fed) \div 2) : 2 * none + i = i /\ i \in 1 .. Len(fed)
      BY <2>1, <3>1
    <3> QED BY <1>3, <1>4, <2>1, <3>1, <3>2, <3>3
  <2>3. R[none] = NewEncoder
    BY <1>1, <2>1, EncoderByEncoder
  <2>4. \A k \in 0 .. Len(fed) \div 2 : Encoders(R[none], fed)[k] = R[none + k]
    <3>1. PICK whole \in Seq(Sample), piece \in Seq(Sample) : whole = fed' /\ piece = fed
      BY <1>1
    <3>2. Continues(piece, whole, none)
      BY <2>2, <3>1 DEF Continues
    <3>3. \A k \in 0 .. Len(piece) \div 2 :
             Encoders(Encoders(NewEncoder, whole)[none], piece)[k]
               = Encoders(NewEncoder, whole)[none + k]
      BY ONLY <2>1, <3>1, <3>2, RunsOn
    <3> QED BY <3>1, <3>3
  <2>5. \A k \in 0 .. Pairs : none + k = k
    BY <1>3, <2>1
  <2> HIDE DEF R
  <2> QED BY <2>3, <2>4, <2>5 DEF OneCall, Pairs
<1>6. \A k \in 0 .. n : E[k] = R[Pairs + k]
  <2>1. /\ Pairs + (Len(samples) \div 2) <= Len(fed') \div 2
        /\ \A i \in 1 .. 2 * (Len(samples) \div 2) : samples[i] = fed'[2 * Pairs + i]
    BY <1>2, <1>3, <1>4
  <2>2. encoder = R[Pairs]
    BY <1>3, <1>5 DEF G722Inv
  <2>3. \A k \in 0 .. Len(samples) \div 2 : Encoders(R[Pairs], samples)[k] = R[Pairs + k]
    <3>1. PICK done \in Nat : done = Pairs
      BY <1>3
    <3>2. PICK whole \in Seq(Sample), piece \in Seq(Sample) : whole = fed' /\ piece = samples
      BY <1>1, <1>2
    <3>3. Continues(piece, whole, done)
      BY <2>1, <3>1, <3>2 DEF Continues
    <3>4. \A k \in 0 .. Len(piece) \div 2 :
             Encoders(Encoders(NewEncoder, whole)[done], piece)[k]
               = Encoders(NewEncoder, whole)[done + k]
      BY <3>1, <3>2, <3>3, RunsOn
    <3> QED BY <3>1, <3>2, <3>4
  <2> HIDE DEF R
  <2> QED BY <2>2, <2>3
<1>7. /\ encoder' = E[n]
      /\ codes' = codes \o [k \in 1 .. n |-> encode_pair(E[k - 1], samples[2 * k - 1], samples[2 * k]).code]
      /\ carried' = IF Len(samples) % 2 = 1 THEN samples[Len(samples)] ELSE NoSample
      /\ decoder' = decoder /\ played' = played
  BY DEF encode, Encoded, samples
<1> HIDE DEF E, R, n
<1>8. OneCall' = R
  BY DEF OneCall, R
<1>9. encoder' = OneCall'[Pairs']
  BY <1>3, <1>4, <1>6, <1>7, <1>8
<1>10. carried' = IF Len(fed') % 2 = 1 THEN fed'[Len(fed')] ELSE NoSample
  <2>1. (Len(samples) % 2 = 1) <=> (Len(fed') % 2 = 1)
    <3>1. PICK a \in Nat, b \in Nat : a = Pairs /\ b = Len(samples)
      BY <1>3
    <3>2. (2 * a + b) % 2 = b % 2
      OBVIOUS
    <3> QED BY <1>2, <3>1, <3>2
  <2>2. CASE Len(samples) % 2 = 1
    <3>1. Len(samples) \in 1 .. Len(samples)
      BY <1>3, <2>2
    <3> QED BY <1>2, <1>7, <2>1, <2>2, <3>1
  <2>3. CASE Len(samples) % 2 # 1
    BY <1>7, <2>1, <2>3
  <2> QED BY <2>2, <2>3
<1>11. ASSUME NEW k \in 1 .. Pairs PROVE CodeOf(k) = Code(k)
  <2>1. OneCall[k - 1] = R[k - 1]
    BY <1>3, <1>5
  <2>2. 2 * k - 1 \in 1 .. Len(fed) /\ 2 * k \in 1 .. Len(fed)
    BY <1>1 DEF Pairs
  <2>3. fed'[2 * k - 1] = fed[2 * k - 1] /\ fed'[2 * k] = fed[2 * k]
    BY <1>1, <2>2
  <2> QED BY <2>1, <2>3, Zenon DEF CodeOf
<1>12. ASSUME NEW k \in 1 .. n
       PROVE  encode_pair(E[k - 1], samples[2 * k - 1], samples[2 * k]).code = Code(Pairs + k)
  <2>1. k - 1 \in 0 .. n /\ Pairs + (k - 1) = (Pairs + k) - 1
    BY <1>3
  <2>2. E[k - 1] = R[(Pairs + k) - 1]
    BY <1>6, <2>1
  <2>3. /\ 2 * k - 1 \in 1 .. Len(samples) /\ 2 * k \in 1 .. Len(samples)
        /\ 2 * Pairs + (2 * k - 1) = 2 * (Pairs + k) - 1 /\ 2 * Pairs + 2 * k = 2 * (Pairs + k)
    BY <1>3, <1>4
  <2>4. samples[2 * k - 1] = fed'[2 * (Pairs + k) - 1] /\ samples[2 * k] = fed'[2 * (Pairs + k)]
    BY <1>2, <2>3
  <2>5. PICK e, a, b : e = R[(Pairs + k) - 1] /\ a = fed'[2 * (Pairs + k) - 1] /\ b = fed'[2 * (Pairs + k)]
    OBVIOUS
  <2>6. encode_pair(E[k - 1], samples[2 * k - 1], samples[2 * k]).code = encode_pair(e, a, b).code
    BY <2>2, <2>4, <2>5, Zenon
  <2>7. Code(Pairs + k) = encode_pair(e, a, b).code
    BY <2>5, Zenon
  <2> QED BY <2>6, <2>7, Zenon
<1>13. PICK decoded \in 0 .. Pairs :
          /\ Len(played) = 2 * decoded
          /\ codes = [k \in 1 .. Pairs - decoded |-> CodeOf(decoded + k)]
          /\ decoder.low = OneCall[decoded].low /\ decoder.high = OneCall[decoded].high
  BY DEF G722Inv
<1>14. codes' = [k \in 1 .. (Pairs + n) - decoded |-> Code(decoded + k)]
  <2> DEFINE s == [k \in 1 .. Pairs - decoded |-> Code(decoded + k)]
             t == [k \in 1 .. n |-> Code(Pairs + k)]
             u == [k \in 1 .. (Pairs + n) - decoded |-> Code(decoded + k)]
  <2>1. codes = s
    <3>1. \A k \in 1 .. Pairs - decoded : decoded + k \in 1 .. Pairs
      BY <1>3
    <3>2. \A k \in 1 .. Pairs - decoded : CodeOf(decoded + k) = Code(decoded + k)
      BY <1>11, <3>1
    <3> HIDE DEF Code
    <3> QED BY <1>13, <3>2
  <2>2. [k \in 1 .. n |-> encode_pair(E[k - 1], samples[2 * k - 1], samples[2 * k]).code] = t
    <3> HIDE DEF Code
    <3> QED BY <1>12
  <2>3. codes' = s \o t
    BY <1>7, <2>1, <2>2, Zenon
  <2> HIDE DEF Code
  <2> QED BY <1>3, <2>3
<1>15. decoded \in 0 .. Pairs' /\ decoder'.low = R[decoded].low /\ decoder'.high = R[decoded].high
  <2>1. decoded \in 0 .. Pairs'
    BY <1>3, <1>4
  <2>2. R[decoded] = OneCall[decoded]
    BY <1>5
  <2> QED BY <1>7, <1>13, <2>1, <2>2, Zenon
<1>16. \E S : played' \in Seq(S)
  BY <1>7 DEF G722Inv
<1>17. codes' = [k \in 1 .. Pairs' - decoded |-> CodeOf(decoded + k)']
  <2>1. (Pairs + n) - decoded = Pairs' - decoded
    BY <1>4, Zenon
  <2>2. \A k \in 1 .. Pairs' - decoded : CodeOf(decoded + k)' = Code(decoded + k)
    BY <1>8, Zenon DEF CodeOf
  <2> HIDE DEF Code
  <2> QED BY <1>14, <2>1, <2>2, Zenon
<1> QED BY <1>1, <1>7, <1>8, <1>9, <1>10, <1>13, <1>15, <1>16, <1>17, Zenon DEF G722Inv

LEMMA DecodeKeeps ==
    ASSUME G722Inv, decode
    PROVE  G722Inv'
<1> DEFINE result == decode_byte(decoder, Head(codes))
<1>1. /\ codes # <<>> /\ codes' = Tail(codes) /\ decoder' = result.dec
      /\ played' = played \o result.pcm /\ encoder' = encoder /\ carried' = carried /\ fed' = fed
  BY DEF decode
<1>2. PICK decoded \in 0 .. Pairs :
         /\ Len(played) = 2 * decoded
         /\ codes = [k \in 1 .. Pairs - decoded |-> CodeOf(decoded + k)]
         /\ decoder.low = OneCall[decoded].low /\ decoder.high = OneCall[decoded].high
  BY DEF G722Inv
<1>3. fed \in Seq(Sample) /\ Pairs \in Nat
  BY DEF G722Inv, Pairs
<1>4. PICK left \in Nat : left = Pairs - decoded
  BY <1>3
<1>5. left > 0
  BY <1>1, <1>2, <1>4
<1>6. PICK next_one \in 1 .. Pairs : next_one = decoded + 1
  BY <1>3, <1>4, <1>5
<1>7. Head(codes) = CodeOf(next_one)
  BY <1>2, <1>4, <1>5, <1>6
<1>8. /\ OneCall[next_one].low = AdaptLow(OneCall[decoded].low, CodeOf(next_one) % 64)
      /\ OneCall[next_one].high = AdaptHigh(OneCall[decoded].high, CodeOf(next_one) \div 64)
  <2> DEFINE e == OneCall[next_one - 1]
             a == fed[2 * next_one - 1]
             b == fed[2 * next_one]
  <2>1. OneCall[next_one] = encode_pair(e, a, b).enc
    <3>1. next_one \in 1 .. Len(fed) \div 2
      BY <1>6 DEF Pairs
    <3> QED BY <1>3, <3>1, EncoderByEncoder DEF OneCall
  <2>2. CodeOf(next_one) = encode_pair(e, a, b).code
    BY DEF CodeOf
  <2>3. e = OneCall[decoded]
    BY <1>6
  <2> HIDE DEF e, a, b
  <2>4. /\ encode_pair(e, a, b).enc.low = AdaptLow(e.low, encode_pair(e, a, b).code % 64)
        /\ encode_pair(e, a, b).enc.high = AdaptHigh(e.high, encode_pair(e, a, b).code \div 64)
    BY ByteCarriesBoth
  <2> QED BY <2>1, <2>2, <2>3, <2>4, Zenon
<1>9. /\ decoder'.low = OneCall[next_one].low
      /\ decoder'.high = OneCall[next_one].high
  <2>1. /\ result.dec.low = AdaptLow(decoder.low, Head(codes) % 64)
        /\ result.dec.high = AdaptHigh(decoder.high, Head(codes) \div 64)
    BY DEF decode_byte
  <2> HIDE DEF result
  <2> QED BY <1>1, <1>2, <1>7, <1>8, <2>1, Zenon
<1>10. (\E S : played' \in Seq(S)) /\ Len(played') = 2 * next_one
  <2>1. PICK S : played \in Seq(S)
    BY DEF G722Inv
  <2>2. PICK x, y : result.pcm = <<x, y>>
    BY DEF decode_byte
  <2> HIDE DEF result
  <2>3. played' = played \o <<x, y>>
    BY <1>1, <2>2
  <2>4. played \in Seq(S \cup {x, y}) /\ <<x, y>> \in Seq(S \cup {x, y})
    BY <2>1
  <2>5. played' \in Seq(S \cup {x, y}) /\ Len(played') = Len(played) + 2
    BY <2>3, <2>4
  <2>6. 2 * decoded + 2 = 2 * next_one
    BY <1>3, <1>6
  <2> QED BY <1>2, <2>5, <2>6
<1>11. codes' = [k \in 1 .. Pairs - next_one |-> CodeOf(next_one + k)]
  <2>1. codes = [k \in 1 .. left |-> CodeOf(decoded + k)] /\ left \in Nat \ {0}
    BY <1>2, <1>4, <1>5
  <2>2. Tail(codes) = [k \in 1 .. left - 1 |-> CodeOf(decoded + (k + 1))]
    BY <2>1
  <2>3. Pairs - next_one = left - 1 /\ \A k \in 1 .. left - 1 : decoded + (k + 1) = next_one + k
    BY <1>3, <1>4, <1>6
  <2> QED BY <1>1, <2>2, <2>3
<1>12. OneCall' = OneCall /\ Pairs' = Pairs /\ \A k : CodeOf(k)' = CodeOf(k)
  BY <1>1, Zenon DEF OneCall, Pairs, CodeOf
<1>13. PICK d \in 0 .. Pairs : d = next_one
  BY <1>3, <1>6
<1>14. /\ Len(played') = 2 * d
       /\ codes' = [k \in 1 .. Pairs' - d |-> CodeOf(d + k)']
       /\ decoder'.low = OneCall'[d].low /\ decoder'.high = OneCall'[d].high
  BY <1>9, <1>10, <1>11, <1>12, <1>13, Zenon
<1>15. /\ fed' \in Seq(Sample) /\ encoder' = OneCall'[Pairs']
       /\ carried' = IF Len(fed') % 2 = 1 THEN fed'[Len(fed')] ELSE NoSample
  BY <1>1, <1>12, Zenon DEF G722Inv
<1> QED BY <1>10, <1>12, <1>13, <1>14, <1>15, Zenon DEF G722Inv

LEMMA G722NextInv == G722Inv /\ [G722Next]_g722Vars => G722Inv'
<1> SUFFICES ASSUME G722Inv, [G722Next]_g722Vars PROVE G722Inv'
  OBVIOUS
<1>1. CASE UNCHANGED g722Vars
  BY <1>1, Zenon DEF g722Vars, G722Inv, OneCall, Pairs, CodeOf
<1> QED BY <1>1, EncodeKeeps, DecodeKeeps DEF G722Next

\* However encode's caller cuts the samples, an odd one held over at the end
\* of a call, the decoder's two predictors never part from those of an encoder
\* given everything at once, and each pair of samples is played.
THEOREM DecoderInStep == G722Spec => []InStep
<1>1. G722Inv => InStep
  <2> SUFFICES ASSUME G722Inv, codes = <<>>
               PROVE  /\ decoder.low = Encoded(NewEncoder, fed).enc.low
                      /\ decoder.high = Encoded(NewEncoder, fed).enc.high
                      /\ Len(played) = 2 * (Len(fed) \div 2)
    BY Zenon DEF InStep
  <2>1. PICK decoded \in 0 .. Pairs :
           /\ Len(played) = 2 * decoded
           /\ codes = [k \in 1 .. Pairs - decoded |-> CodeOf(decoded + k)]
           /\ decoder.low = OneCall[decoded].low /\ decoder.high = OneCall[decoded].high
    BY DEF G722Inv
  <2>2. Pairs \in Nat
    BY DEF G722Inv, Pairs
  <2>3. decoded = Pairs
    BY <2>1, <2>2
  <2>4. Encoded(NewEncoder, fed).enc = OneCall[Pairs]
    BY DEF Encoded, OneCall, Pairs
  <2> QED BY <2>1, <2>3, <2>4, Zenon DEF Pairs
<1> QED BY <1>1, G722InitInv, G722NextInv, PTL DEF G722Spec

-----------------------------------------------------------------------------
(* Resampling *)

\* One resampler, on its own.
ResampleSpec == ResampleInit /\ [][ResampleNext]_resampleVars

\* Products.
LEMMA Smaller ==
    ASSUME NEW n \in Nat \ {0}, NEW x \in Int, NEW y \in Int, n * x < n * y
    PROVE  x < y
  BY SMT

LEMMA Larger ==
    ASSUME NEW n \in Nat, NEW x \in Int, NEW y \in Int, x <= y
    PROVE  n * x <= n * y
  BY SMT

LEMMA DivBounds ==
    ASSUME NEW x \in Nat, NEW n \in Nat \ {0}
    PROVE  /\ x \div n \in Nat /\ n * (x \div n) <= x
           /\ x < n * (x \div n) + n
  BY SMT

LEMMA CeilBounds ==
    ASSUME NEW x \in Nat, NEW n \in Nat \ {0}
    PROVE  /\ CeilDiv(x, n) \in Nat /\ x <= n * CeilDiv(x, n)
           /\ n * CeilDiv(x, n) < x + n
<1>1. PICK y \in Nat : y = x + n - 1
  OBVIOUS
<1>2. y \div n \in Nat /\ n * (y \div n) <= y /\ y < n * (y \div n) + n
  BY DivBounds
<1>3. CeilDiv(x, n) = y \div n
  BY <1>1 DEF CeilDiv
<1>4. PICK c \in Nat : c = y \div n
  BY <1>2
<1>5. PICK m \in Int : m = n * c
  OBVIOUS
<1>6. m <= y /\ y < m + n
  BY <1>2, <1>4, <1>5
<1>7. x <= m /\ m < x + n
  BY <1>1, <1>6
<1> QED BY <1>3, <1>4, <1>5, <1>7

\* Resampling from rate p to rate q, output sample j starts from input sample
\* Place(p, q, j), and before input sample t there are Due(p, q, t) of them.
Place(p, q, j) == (j * p) \div q
Due(p, q, t) == CeilDiv(t * q, p)
Stride(p, q) == CeilDiv(p, q)

LEMMA PlaceBounds ==
    ASSUME NEW p \in Nat \ {0}, NEW q \in Nat \ {0}, NEW j \in Nat
    PROVE  /\ Place(p, q, j) \in Nat /\ q * Place(p, q, j) <= j * p
           /\ j * p < q * Place(p, q, j) + q
<1>1. PICK x \in Nat : x = j * p
  OBVIOUS
<1> QED BY <1>1, DivBounds DEF Place

LEMMA DueBounds ==
    ASSUME NEW p \in Nat \ {0}, NEW q \in Nat \ {0}, NEW t \in Nat
    PROVE  /\ Due(p, q, t) \in Nat /\ t * q <= p * Due(p, q, t)
           /\ p * Due(p, q, t) < t * q + p
<1>1. PICK x \in Nat : x = t * q
  OBVIOUS
<1> QED BY <1>1, CeilBounds DEF Due

LEMMA StrideBounds ==
    ASSUME NEW p \in Nat \ {0}, NEW q \in Nat \ {0}
    PROVE  Stride(p, q) \in Nat \ {0} /\ p <= q * Stride(p, q)
<1>1. PICK c \in Nat : c = Stride(p, q) /\ p <= q * c
  BY CeilBounds DEF Stride
<1>2. c # 0
  BY <1>1
<1> QED BY <1>1, <1>2

\* One output sample on is at most a stride of input on.
LEMMA PlaceNext ==
    ASSUME NEW p \in Nat \ {0}, NEW q \in Nat \ {0}, NEW j \in Nat
    PROVE  Place(p, q, j + 1) - Place(p, q, j) \in 0 .. Stride(p, q)
<1>1. PICK a \in Nat : a = Place(p, q, j) /\ q * a <= j * p /\ j * p < q * a + q
  BY PlaceBounds
<1>2. PICK b \in Nat : b = Place(p, q, j + 1) /\ q * b <= (j + 1) * p /\ (j + 1) * p < q * b + q
  <2>1. PICK k \in Nat : k = j + 1
    OBVIOUS
  <2> QED BY <2>1, PlaceBounds
<1>3. PICK c \in Nat : c = Stride(p, q) /\ p <= q * c
  BY StrideBounds
<1>4. (j + 1) * p = j * p + p
  OBVIOUS
<1>5. PICK x \in Int, y \in Int, z \in Int, w \in Int : x = q * a /\ y = q * b /\ z = j * p /\ w = q * c
  OBVIOUS
<1>6. x <= z /\ z < x + q /\ y <= z + p /\ z + p < y + q /\ p <= w
  BY <1>1, <1>2, <1>3, <1>4, <1>5
<1>7. x < y + q /\ y < x + q + w
  BY <1>6
<1>8. q * a < q * (b + 1) /\ q * b < q * (a + 1 + c)
  <2>1. q * (b + 1) = y + q /\ q * (a + 1 + c) = x + q + w
    BY <1>5
  <2> QED BY <1>5, <1>7, <2>1
<1>9. a < b + 1 /\ b < a + 1 + c
  BY <1>8, Smaller
<1> QED BY <1>1, <1>2, <1>3, <1>9

\* Places do not go back.
LEMMA PlaceOrder ==
    ASSUME NEW p \in Nat \ {0}, NEW q \in Nat \ {0}, NEW j \in Nat, NEW k \in Nat, j <= k
    PROVE  Place(p, q, j) <= Place(p, q, k)
<1>1. PICK a \in Nat : a = Place(p, q, j) /\ q * a <= j * p
  BY PlaceBounds
<1>2. PICK b \in Nat : b = Place(p, q, k) /\ k * p < q * b + q
  BY PlaceBounds
<1>3. j * p <= k * p
  <2>1. p * j <= p * k
    BY Larger
  <2> QED BY <2>1
<1>4. q * a < q * (b + 1)
  <2>1. q * (b + 1) = q * b + q
    OBVIOUS
  <2>2. PICK x \in Int, y \in Int, z \in Int, w \in Int : x = q * a /\ y = q * b /\ z = j * p /\ w = k * p
    OBVIOUS
  <2>3. x <= z /\ z <= w /\ w < y + q
    BY <1>1, <1>2, <1>3, <2>2
  <2> QED BY <2>1, <2>2, <2>3
<1>5. a < b + 1
  BY <1>4, Smaller
<1> QED BY <1>1, <1>2, <1>5

\* The outputs due before t are those that start before it.
LEMMA DueStarts ==
    ASSUME NEW p \in Nat \ {0}, NEW q \in Nat \ {0}, NEW t \in Nat
    PROVE  /\ Place(p, q, Due(p, q, t)) >= t
           /\ Place(p, q, Due(p, q, t)) <= t + Stride(p, q) - 1
           /\ Due(p, q, t) > 0 => Place(p, q, Due(p, q, t) - 1) \in (t - Stride(p, q)) .. (t - 1)
<1>1. PICK e \in Nat : e = Due(p, q, t) /\ t * q <= p * e /\ p * e < t * q + p
  BY DueBounds
<1>2. PICK c \in Nat \ {0} : c = Stride(p, q)
  BY StrideBounds
<1>3. PICK a \in Nat : a = Place(p, q, e) /\ e * p < q * a + q
  BY PlaceBounds
<1>4. t <= a
  <2>1. q * t < q * (a + 1)
    <3>1. q * (a + 1) = q * a + q /\ q * t = t * q /\ e * p = p * e
      OBVIOUS
    <3>2. PICK x \in Int, y \in Int, z \in Int : x = q * a /\ y = t * q /\ z = p * e
      OBVIOUS
    <3>3. y <= z /\ z < x + q
      BY <1>1, <1>3, <3>1, <3>2
    <3> QED BY <3>1, <3>2, <3>3
  <2>2. t < a + 1
    BY <2>1, Smaller
  <2> QED BY <2>2
<1>5. CASE e = 0
  <2>1. t = 0
    BY <1>1, <1>5
  <2>2. a = 0
    BY <1>3, <1>5 DEF Place
  <2> QED BY <1>1, <1>2, <1>3, <1>4, <1>5, <2>1, <2>2
<1>6. CASE e > 0
  <2>1. PICK f \in Nat : f = e - 1 /\ e = f + 1
    BY <1>6
  <2>2. PICK b \in Nat : b = Place(p, q, f) /\ q * b <= f * p
    BY PlaceBounds
  <2>3. b < t
    <3>1. q * b < q * t
      <4>1. q * t = t * q /\ p * (f + 1) = f * p + p
        OBVIOUS
      <4>2. PICK x \in Int, y \in Int, z \in Int : x = q * b /\ y = t * q /\ z = f * p
        OBVIOUS
      <4>3. x <= z /\ z + p < y + p
        BY <1>1, <2>1, <2>2, <4>1, <4>2
      <4> QED BY <4>1, <4>2, <4>3
    <3> QED BY <3>1, Smaller
  <2>4. a - b \in 0 .. c
    BY <1>2, <1>3, <2>1, <2>2, PlaceNext
  <2>5. a <= t + c - 1 /\ b \in (t - c) .. (t - 1)
    BY <1>2, <1>4, <2>3, <2>4
  <2> QED BY <1>1, <1>2, <1>3, <1>4, <2>1, <2>2, <2>5
<1> QED BY <1>5, <1>6

\* Something is due of a chunk, and of anything that rubato does not carry on.
LEMMA DueGrows ==
    ASSUME NEW p \in Nat \ {0}, NEW q \in Nat \ {0}, NEW t \in Nat, NEW n \in Nat, p <= n * q
    PROVE  Due(p, q, t) < Due(p, q, t + n)
<1>1. PICK e \in Nat : e = Due(p, q, t) /\ p * e < t * q + p
  BY DueBounds
<1>2. PICK f \in Nat : f = Due(p, q, t + n) /\ (t + n) * q <= p * f
  <2>1. PICK u \in Nat : u = t + n
    OBVIOUS
  <2> QED BY <2>1, DueBounds
<1>3. p * e < p * f
  <2>1. (t + n) * q = t * q + n * q
    OBVIOUS
  <2>2. PICK x \in Int, y \in Int, z \in Int, w \in Int : x = p * e /\ y = p * f /\ z = t * q /\ w = n * q
    OBVIOUS
  <2>3. x < z + p /\ z + w <= y /\ p <= w
    BY <1>1, <1>2, <2>1, <2>2
  <2> QED BY <2>2, <2>3
<1>4. e < f
  BY <1>3, Smaller
<1> QED BY <1>1, <1>2, <1>4

LEMMA DueFromNothing ==
    ASSUME NEW p \in Nat \ {0}, NEW q \in Nat \ {0}, NEW n \in Nat
    PROVE  Due(p, q, 0) = 0 /\ (n > 0 => Due(p, q, n) > 0)
<1>1. Due(p, q, 0) = 0
  <2>1. PICK t \in Nat : t = 0
    OBVIOUS
  <2>2. PICK e \in Nat : e = Due(p, q, t) /\ p * e < t * q + p
    BY DueBounds
  <2>3. p * e < p * 1
    BY <2>1, <2>2
  <2>4. e < 1
    BY <2>3, Smaller
  <2> QED BY <2>1, <2>2, <2>4
<1>2. ASSUME n > 0 PROVE Due(p, q, n) > 0
  <2>1. PICK e \in Nat : e = Due(p, q, n) /\ n * q <= p * e
    BY DueBounds
  <2>2. n * q > 0
    BY <1>2
  <2>3. e # 0
    BY <2>1, <2>2
  <2> QED BY <2>1, <2>3
<1> QED BY <1>1, <1>2

\* What n input samples after the first s give, to a resampler that has taken
\* b before them.
Piece(p, q, s, b, n) ==
    [i \in 1 .. Due(p, q, b + n) - Due(p, q, b) |->
        s + 1 + (Place(p, q, Due(p, q, b) + (i - 1)) - b)]

\* m samples, the first and the last within a stride of the two ends of the
\* input, no two further apart than that.
Shaped(piece, m, s, b, n, c) ==
    /\ piece \in Seq(Int) /\ Len(piece) = m /\ m \in Nat \ {0}
    /\ piece[1] \in s + 1 .. s + c /\ (b = 0 => piece[1] = s + 1)
    /\ piece[m] \in (s + n + 1) - c .. s + n
    /\ \A i \in 1 .. m - 1 : piece[i + 1] - piece[i] \in 0 .. c

LEMMA PieceShape ==
    ASSUME NEW p \in Nat \ {0}, NEW q \in Nat \ {0}, NEW s \in Nat, NEW b \in Nat, NEW n \in Nat,
           Due(p, q, b) < Due(p, q, b + n)
    PROVE  /\ Shaped(Piece(p, q, s, b, n), Due(p, q, b + n) - Due(p, q, b), s, b, n, Stride(p, q))
           /\ \A i \in 1 .. Due(p, q, b + n) - Due(p, q, b) :
                 Place(p, q, Due(p, q, b) + (i - 1)) - b \in 0 .. n - 1
<1> DEFINE piece == Piece(p, q, s, b, n)
           m == Due(p, q, b + n) - Due(p, q, b)
           c == Stride(p, q)
<1>1. PICK d \in Nat, e \in Nat :
         /\ d = Due(p, q, b) /\ e = Due(p, q, b + n)
         /\ c \in Nat \ {0} /\ m \in Nat \ {0} /\ m = e - d
  <2>1. Due(p, q, b) \in Nat /\ Due(p, q, b + n) \in Nat /\ Stride(p, q) \in Nat \ {0}
    <3>1. PICK u \in Nat : u = b + n
      OBVIOUS
    <3> QED BY <3>1, DueBounds, StrideBounds
  <2> QED BY <2>1
<1> HIDE DEF piece, m, c
<1>2. /\ Place(p, q, d) >= b /\ Place(p, q, d) <= b + c - 1
      /\ Place(p, q, e - 1) \in (b + n) - c .. (b + n) - 1
  <2>1. PICK u \in Nat : u = b + n
    OBVIOUS
  <2>2. Place(p, q, e - 1) \in (u - c) .. (u - 1)
    BY <1>1, <2>1, DueStarts DEF c
  <2> QED BY <1>1, <2>1, <2>2, DueStarts DEF c
<1>3. \A j \in Nat : Place(p, q, j) \in Nat
  BY PlaceBounds
<1>4. piece = [i \in 1 .. m |-> s + 1 + (Place(p, q, d + (i - 1)) - b)]
  BY <1>1, Zenon DEF Piece, piece, m
<1>5. piece \in Seq(Int) /\ Len(piece) = m
  <2>1. ASSUME NEW i \in 1 .. m PROVE s + 1 + (Place(p, q, d + (i - 1)) - b) \in Int
    <3>1. d + (i - 1) \in Nat
      BY <1>1
    <3>2. Place(p, q, d + (i - 1)) \in Nat
      BY <1>3, <3>1
    <3> QED BY <3>2
  <2>2. piece \in [1 .. m -> Int]
    BY <1>4, <2>1, Zenon
  <2>3. m \in Nat
    BY <1>1
  <2> QED BY ONLY <2>2, <2>3
<1>6. piece[1] = s + 1 + (Place(p, q, d) - b) /\ piece[m] = s + 1 + (Place(p, q, e - 1) - b)
  <2>1. d + (1 - 1) = d /\ d + (m - 1) = e - 1 /\ 1 \in 1 .. m /\ m \in 1 .. m
    BY <1>1
  <2> QED BY <1>4, <2>1
<1>7. piece[1] \in s + 1 .. s + c /\ piece[m] \in (s + n + 1) - c .. s + n
  <2>1. PICK x \in Nat, y \in Nat : x = Place(p, q, d) /\ y = Place(p, q, e - 1)
    BY <1>1, <1>3
  <2>2. x - b \in 0 .. c - 1 /\ y - b \in (n - c) .. (n - 1)
    BY <1>1, <1>2, <2>1
  <2> QED BY <1>1, <1>6, <2>1, <2>2
<1>8. ASSUME b = 0 PROVE piece[1] = s + 1
  <2>1. d = 0
    BY <1>1, <1>8, DueFromNothing
  <2>2. Place(p, q, 0) = 0
    BY DEF Place
  <2> QED BY <1>6, <1>8, <2>1, <2>2
<1>9. ASSUME NEW i \in 1 .. m - 1 PROVE piece[i + 1] - piece[i] \in 0 .. c
  <2>1. PICK j \in Nat : j = d + (i - 1)
    BY <1>1
  <2>2. d + ((i + 1) - 1) = j + 1 /\ i \in 1 .. m /\ i + 1 \in 1 .. m
    BY <1>1, <2>1
  <2>3. Place(p, q, j + 1) - Place(p, q, j) \in 0 .. c
    BY <1>1, <2>1, PlaceNext DEF c
  <2>4. piece[i] = s + 1 + (Place(p, q, j) - b) /\ piece[i + 1] = s + 1 + (Place(p, q, j + 1) - b)
    BY <1>4, <2>1, <2>2
  <2>5. PICK x \in Nat, y \in Nat : x = Place(p, q, j) /\ y = Place(p, q, j + 1)
    BY <1>3, <2>1
  <2> QED BY <2>3, <2>4, <2>5
<1>10. ASSUME NEW i \in 1 .. m PROVE Place(p, q, d + (i - 1)) - b \in 0 .. n - 1
  <2>1. PICK j \in Nat : j = d + (i - 1) /\ j <= e - 1 /\ d <= j
    BY <1>1
  <2>2. PICK f \in Nat : f = e - 1
    BY <1>1
  <2>3. Place(p, q, d) <= Place(p, q, j) /\ Place(p, q, j) <= Place(p, q, f)
    BY <2>1, <2>2, PlaceOrder
  <2>4. PICK x \in Nat, y \in Nat, z \in Nat : x = Place(p, q, d) /\ y = Place(p, q, j) /\ z = Place(p, q, f)
    BY <1>3, <2>1, <2>2
  <2> QED BY <1>2, <2>1, <2>2, <2>3, <2>4
<1>11. Shaped(piece, m, s, b, n, c)
  BY <1>1, <1>5, <1>7, <1>8, <1>9 DEF Shaped
<1> QED BY <1>1, <1>10, <1>11 DEF piece, m, c

LEMMA Joined ==
    ASSUME NEW u \in Seq(Int), NEW v \in Seq(Int)
    PROVE  /\ u \o v \in Seq(Int) /\ Len(u \o v) = Len(u) + Len(v)
           /\ \A i \in 1 .. Len(u) : (u \o v)[i] = u[i]
           /\ \A i \in 1 .. Len(v) : (u \o v)[Len(u) + i] = v[i]
  OBVIOUS

\* The output follows the first t samples of the input: it is in order, no two
\* neighbours further apart than limit, and the last less than c before t.
Follows(sofar, t, c, limit) ==
    /\ sofar \in Seq(Int)
    /\ IF t = 0 THEN sofar = <<>> ELSE sofar # <<>> /\ t - sofar[Len(sofar)] \in 0 .. c - 1
    /\ \A i \in 1 .. Len(sofar) - 1 : sofar[i + 1] - sofar[i] \in 0 .. limit

LEMMA FollowsOn ==
    ASSUME NEW p \in Nat \ {0}, NEW q \in Nat \ {0}, NEW t \in Nat, NEW b \in Nat, NEW n \in Nat \ {0},
           Due(p, q, b) < Due(p, q, b + n), NEW sofar, NEW limit \in Nat,
           Follows(sofar, t, Stride(p, q), limit), Stride(p, q) <= limit,
           b = 0 \/ 2 * Stride(p, q) - 1 <= limit
    PROVE  Follows(sofar \o Piece(p, q, t, b, n), t + n, Stride(p, q), limit)
<1>1. PICK c \in Nat \ {0} : c = Stride(p, q)
  BY StrideBounds
<1>2. PICK piece, m : piece = Piece(p, q, t, b, n) /\ m = Due(p, q, b + n) - Due(p, q, b)
  OBVIOUS
<1>3. /\ piece \in Seq(Int) /\ Len(piece) = m /\ m \in Nat \ {0}
      /\ piece[1] \in t + 1 .. t + c /\ (b = 0 => piece[1] = t + 1)
      /\ piece[m] \in (t + n + 1) - c .. t + n
      /\ \A i \in 1 .. m - 1 : piece[i + 1] - piece[i] \in 0 .. c
  <2>1. Shaped(piece, m, t, b, n, c)
    BY <1>1, <1>2, PieceShape, Zenon
  <2> QED BY <2>1, Zenon DEF Shaped
<1> DEFINE all == sofar \o piece
           k == Len(sofar)
<1>4. sofar \in Seq(Int) /\ k \in Nat /\ piece \in Seq(Int) /\ Len(piece) = m /\ m \in Nat \ {0}
  BY <1>3 DEF Follows
<1>5. /\ all \in Seq(Int) /\ Len(all) = k + m
      /\ \A i \in 1 .. k : all[i] = sofar[i]
      /\ \A i \in 1 .. m : all[k + i] = piece[i]
  <2>1. /\ all \in Seq(Int) /\ Len(all) = k + Len(piece)
        /\ \A i \in 1 .. k : all[i] = sofar[i]
        /\ \A i \in 1 .. Len(piece) : all[k + i] = piece[i]
    BY <1>4, Joined
  <2> HIDE DEF all, k
  <2> QED BY <1>4, <2>1
<1> HIDE DEF all
<1>6. all[k + m] = piece[m] /\ all[k + 1] = piece[1]
  <2>1. m \in 1 .. m /\ 1 \in 1 .. m
    BY <1>4
  <2> QED BY <1>5, <2>1
<1>7. all # <<>> /\ (t + n) - all[Len(all)] \in 0 .. c - 1
  <2>1. PICK y \in Int : y = piece[m] /\ y \in (t + n + 1) - c .. t + n
    BY <1>3
  <2>2. all[Len(all)] = y
    BY <1>5, <1>6, <2>1
  <2>3. (t + n) - y \in 0 .. c - 1
    BY <1>1, <2>1
  <2>4. all # <<>>
    BY <1>4, <1>5
  <2> QED BY <2>2, <2>3, <2>4
<1>8. ASSUME NEW i \in 1 .. Len(all) - 1 PROVE all[i + 1] - all[i] \in 0 .. limit
  <2>1. i \in 1 .. (k + m) - 1
    BY <1>4, <1>5
  <2>2. CASE i < k
    <3>1. i \in 1 .. Len(sofar) - 1 /\ i \in 1 .. k /\ i + 1 \in 1 .. k
      BY <1>4, <2>1, <2>2
    <3>2. sofar[i + 1] - sofar[i] \in 0 .. limit
      BY <3>1 DEF Follows
    <3> QED BY <1>5, <3>1, <3>2
  <2>3. CASE i = k
    <3>1. k \in 1 .. k /\ sofar # <<>>
      BY <1>4, <2>1, <2>3
    <3>2. t > 0 /\ t - sofar[k] \in 0 .. c - 1 /\ sofar[k] \in Int
      BY <1>1, <1>4, <3>1 DEF Follows
    <3>3. all[i] = sofar[k] /\ all[i + 1] = piece[1]
      BY <1>5, <1>6, <2>3, <3>1
    <3>4. PICK x \in Int, y \in Int :
             /\ x = sofar[k] /\ y = piece[1] /\ t - x \in 0 .. c - 1
             /\ y \in t + 1 .. t + c /\ (b = 0 => y = t + 1)
      <4>1. piece[1] \in t + 1 .. t + c /\ (b = 0 => piece[1] = t + 1)
        BY <1>3
      <4>2. piece[1] \in Int
        BY <1>1, <4>1
      <4> QED BY <3>2, <4>1, <4>2
    <3>5. y - x \in 0 .. limit
      <4>1. c <= limit /\ c \in Nat /\ (b = 0 \/ 2 * c - 1 <= limit)
        BY <1>1
      <4>2. x <= t /\ t <= x + c - 1 /\ t + 1 <= y /\ y <= t + c
        BY ONLY <3>4, <4>1, t \in Nat, x \in Int, y \in Int
      <4>3. CASE b = 0
        <5>1. y = t + 1
          BY <3>4, <4>3
        <5> QED BY <4>1, <4>2, <5>1
      <4>4. CASE 2 * c - 1 <= limit
        BY <4>1, <4>2, <4>4
      <4> QED BY <4>1, <4>3, <4>4
    <3> QED BY <3>3, <3>4, <3>5
  <2>4. CASE i > k
    <3>1. PICK j \in 1 .. m - 1 : j = i - k
      <4>1. i - k \in 1 .. m - 1
        <5> HIDE DEF k
        <5> QED BY <1>4, <2>1, <2>4
      <4> QED BY <4>1
    <3>2. i = k + j /\ i + 1 = k + (j + 1) /\ j \in 1 .. m /\ j + 1 \in 1 .. m
      BY <1>4, <3>1
    <3>3. all[i] = piece[j] /\ all[i + 1] = piece[j + 1]
      BY <1>5, <3>2
    <3>4. piece[j + 1] - piece[j] \in 0 .. c
      BY <1>3, <3>1
    <3> QED BY <1>1, <3>3, <3>4
  <2> QED BY <1>4, <2>1, <2>2, <2>3, <2>4
<1>9. t + n # 0
  OBVIOUS
<1>10. Follows(all, t + n, c, limit)
  BY <1>5, <1>7, <1>8, <1>9 DEF Follows
<1> QED BY <1>1, <1>2, <1>10 DEF all

\* Every output sample due before t, each from its own instant.
InTime(p, q, sofar, t) == sofar = [i \in 1 .. Due(p, q, t) |-> Place(p, q, i - 1) + 1]

LEMMA InTimeFollows ==
    ASSUME NEW p \in Nat \ {0}, NEW q \in Nat \ {0}, NEW t \in Nat, NEW sofar, InTime(p, q, sofar, t)
    PROVE  Follows(sofar, t, Stride(p, q), Stride(p, q))
<1>1. PICK c \in Nat \ {0}, m \in Nat : c = Stride(p, q) /\ m = Due(p, q, t)
  BY StrideBounds, DueBounds
<1>2. sofar = [i \in 1 .. m |-> Place(p, q, i - 1) + 1]
  BY <1>1, Zenon DEF InTime
<1>3. \A j \in Nat : Place(p, q, j) \in Nat
  BY PlaceBounds
<1>4. sofar \in Seq(Int) /\ Len(sofar) = m
  <2>1. ASSUME NEW i \in 1 .. m PROVE Place(p, q, i - 1) + 1 \in Int
    <3>1. i - 1 \in Nat
      BY <1>1
    <3>2. Place(p, q, i - 1) \in Nat
      BY <1>3, <3>1
    <3> QED BY <3>2
  <2>2. sofar \in [1 .. m -> Int]
    BY <1>2, <2>1, Zenon
  <2> QED BY <1>1, <2>2
<1>5. ASSUME NEW i \in 1 .. m - 1 PROVE sofar[i + 1] - sofar[i] \in 0 .. c
  <2>1. PICK j \in Nat : j = i - 1
    BY <1>1
  <2>2. (i + 1) - 1 = j + 1 /\ i \in 1 .. m /\ i + 1 \in 1 .. m
    BY <1>1, <2>1
  <2>3. Place(p, q, j + 1) - Place(p, q, j) \in 0 .. c
    BY <1>1, PlaceNext
  <2>4. sofar[i] = Place(p, q, j) + 1 /\ sofar[i + 1] = Place(p, q, j + 1) + 1
    BY <1>2, <2>1, <2>2
  <2>5. PICK x \in Nat, y \in Nat : x = Place(p, q, j) /\ y = Place(p, q, j + 1)
    BY <1>3, <2>1
  <2> QED BY <2>3, <2>4, <2>5
<1>6. CASE t = 0
  <2>1. m = 0
    BY <1>1, <1>6, DueFromNothing
  <2>2. sofar = <<>>
    BY <1>4, <2>1
  <2> QED BY <1>1, <1>4, <1>5, <1>6, <2>2 DEF Follows
<1>7. CASE t # 0
  <2>1. m > 0
    BY <1>1, <1>7, DueFromNothing
  <2>2. PICK y \in Nat : y = Place(p, q, m - 1) /\ y \in (t - c) .. (t - 1)
    <3>1. Place(p, q, m - 1) \in (t - c) .. (t - 1)
      BY <1>1, <2>1, DueStarts
    <3>2. m - 1 \in Nat
      BY <1>1, <2>1
    <3> QED BY <1>3, <3>1, <3>2
  <2>3. sofar[m] = y + 1
    <3>1. m \in 1 .. m
      BY <1>1, <2>1
    <3> QED BY <1>2, <2>2, <3>1
  <2>4. sofar # <<>> /\ t - sofar[Len(sofar)] \in 0 .. c - 1
    BY <1>1, <1>4, <2>1, <2>2, <2>3
  <2> QED BY <1>1, <1>4, <1>5, <1>7, <2>4 DEF Follows
<1> QED BY <1>6, <1>7

LEMMA InTimeOn ==
    ASSUME NEW p \in Nat \ {0}, NEW q \in Nat \ {0}, NEW t \in Nat, NEW n \in Nat \ {0},
           Due(p, q, t) < Due(p, q, t + n), NEW sofar, InTime(p, q, sofar, t)
    PROVE  InTime(p, q, sofar \o Piece(p, q, t, t, n), t + n)
<1>1. PICK d \in Nat, e \in Nat : d = Due(p, q, t) /\ e = Due(p, q, t + n)
  <2>1. PICK u \in Nat : u = t + n
    OBVIOUS
  <2>2. Due(p, q, t) \in Nat /\ Due(p, q, u) \in Nat
    BY DueBounds
  <2> QED BY <2>1, <2>2
<1>2. \A j \in Nat : Place(p, q, j) \in Nat
  BY PlaceBounds
<1> DEFINE piece == [i \in 1 .. e - d |-> t + 1 + (Place(p, q, d + (i - 1)) - t)]
           whole == [i \in 1 .. e |-> Place(p, q, i - 1) + 1]
<1>3. Piece(p, q, t, t, n) = piece /\ sofar = [i \in 1 .. d |-> Place(p, q, i - 1) + 1]
  BY <1>1, Zenon DEF Piece, InTime
<1>4. \A i \in 1 .. e : Place(p, q, i - 1) + 1 \in Int
  <2> SUFFICES ASSUME NEW i \in 1 .. e PROVE Place(p, q, i - 1) + 1 \in Int
    OBVIOUS
  <2>1. i - 1 \in Nat
    BY <1>1
  <2>2. Place(p, q, i - 1) \in Nat
    BY <1>2, <2>1
  <2> QED BY <2>2
<1>5. sofar \in Seq(Int) /\ Len(sofar) = d /\ \A i \in 1 .. d : sofar[i] = whole[i]
  <2>1. \A i \in 1 .. d : i \in 1 .. e
    BY <1>1
  <2>2. sofar \in [1 .. d -> Int]
    BY <1>3, <1>4, <2>1, Zenon
  <2>3. \A i \in 1 .. d : sofar[i] = whole[i]
    BY <1>3, <2>1, Zenon
  <2>4. sofar \in Seq(Int) /\ Len(sofar) = d
    BY <1>1, <2>2
  <2> QED BY <2>3, <2>4
<1>6. piece \in Seq(Int) /\ Len(piece) = e - d /\ \A i \in 1 .. e - d : piece[i] = whole[d + i]
  <2>1. ASSUME NEW i \in 1 .. e - d
        PROVE  /\ d + i \in 1 .. e /\ (d + i) - 1 = d + (i - 1)
               /\ t + 1 + (Place(p, q, d + (i - 1)) - t) = Place(p, q, d + (i - 1)) + 1
               /\ t + 1 + (Place(p, q, d + (i - 1)) - t) \in Int
    <3>1. PICK j \in Nat : j = d + (i - 1)
      BY <1>1
    <3>2. PICK x \in Nat : x = Place(p, q, j)
      BY <1>2, <3>1
    <3> QED BY <1>1, <3>1, <3>2
  <2>2. piece \in [1 .. e - d -> Int]
    BY <2>1, Zenon
  <2>3. \A i \in 1 .. e - d : piece[i] = whole[d + i]
    BY <2>1, Zenon
  <2>4. e - d \in Nat
    BY <1>1
  <2> HIDE DEF piece, whole
  <2>5. piece \in Seq(Int) /\ Len(piece) = e - d
    <3>1. PICK m \in Nat : m = e - d
      BY <2>4
    <3>2. piece \in [1 .. m -> Int]
      BY <2>2, <3>1
    <3> QED BY <3>1, <3>2
  <2> QED BY <2>3, <2>5
<1> DEFINE all == sofar \o piece
<1>7. /\ all \in Seq(Int) /\ Len(all) = Len(sofar) + Len(piece)
      /\ \A i \in 1 .. Len(sofar) : all[i] = sofar[i]
      /\ \A i \in 1 .. Len(piece) : all[Len(sofar) + i] = piece[i]
  <2> HIDE DEF piece
  <2> QED BY <1>5, <1>6, Joined
<1>8. whole \in Seq(Int) /\ Len(whole) = e
  <2>1. whole \in [1 .. e -> Int]
    BY <1>4, Zenon
  <2> HIDE DEF whole
  <2> QED BY <1>1, <2>1
<1> HIDE DEF all, piece, whole
<1>9. Len(all) = e
  BY <1>1, <1>5, <1>6, <1>7
<1>10. ASSUME NEW i \in 1 .. e PROVE all[i] = whole[i]
  <2>1. CASE i <= d
    BY <1>1, <1>5, <1>7, <2>1
  <2>2. CASE i > d
    <3>1. PICK j \in 1 .. e - d : i = d + j
      <4>1. i - d \in 1 .. e - d /\ i = d + (i - d)
        BY <1>1, <2>2
      <4> QED BY <4>1
    <3> QED BY <1>5, <1>6, <1>7, <3>1
  <2> QED BY <1>1, <2>1, <2>2
<1>11. all = whole
  <2>1. all \in [1 .. e -> Int] /\ whole \in [1 .. e -> Int]
    BY <1>7, <1>8, <1>9
  <2> QED BY <1>10, <2>1
<1> QED BY <1>1, <1>3, <1>11, Zenon DEF all, whole, InTime

\* The n samples after the first s.
Consecutive(s, n) == [i \in 1 .. n |-> s + i]

\* What process_chunk and resample_linear_simple give is such a piece, and they
\* read no sample outside what they are given.
LEMMA ChunkPiece ==
    ASSUME NEW p \in Nat \ {0}, NEW q \in Nat \ {0}, rates[1] = p, rates[2] = q,
           NEW s \in Nat, NEW b \in Nat, NEW n \in Nat, Due(p, q, b) < Due(p, q, b + n),
           NEW chunk, chunk = Consecutive(s, n)
    PROVE  process_chunk(chunk, b) = Piece(p, q, s, b, n)
<1> USE DEF Consecutive
<1> DEFINE first == Due(p, q, b)
           end == Due(p, q, b + n)
<1>1. Len(chunk) = n
  OBVIOUS
<1> DEFINE Read(x, y, m) ==
             [i \in 1 .. Due(x, y, b + m) - Due(x, y, b) |->
                chunk[(Place(x, y, Due(x, y, b) + (i - 1)) - b) + 1]]
<1>2. process_chunk(chunk, b)
        = [i \in 1 .. end - first |-> chunk[(Place(p, q, first + (i - 1)) - b) + 1]]
  <2>1. process_chunk(chunk, b) = Read(rates[1], rates[2], Len(chunk))
    BY DEF process_chunk, Due, Place
  <2>2. Read(rates[1], rates[2], Len(chunk)) = Read(p, q, n)
    <3> HIDE DEF Read
    <3> QED BY <1>1
  <2> QED BY <2>1, <2>2
<1>3. \A i \in 1 .. end - first : Place(p, q, first + (i - 1)) - b \in 0 .. n - 1
  BY PieceShape
<1> HIDE DEF first, end
<1>4. ASSUME NEW i \in 1 .. end - first
      PROVE  chunk[(Place(p, q, first + (i - 1)) - b) + 1] = s + 1 + (Place(p, q, first + (i - 1)) - b)
  <2>1. PICK x \in 0 .. n - 1 : x = Place(p, q, first + (i - 1)) - b
    BY <1>3
  <2>2. x + 1 \in 1 .. n /\ s + (x + 1) = s + 1 + x
    OBVIOUS
  <2>3. chunk[x + 1] = s + (x + 1)
    BY <2>2
  <2> QED BY <2>1, <2>2, <2>3, Zenon
<1>5. Piece(p, q, s, b, n)
        = [i \in 1 .. end - first |-> s + 1 + (Place(p, q, first + (i - 1)) - b)]
  BY Zenon DEF Piece, first, end
<1> DEFINE A(i) == chunk[(Place(p, q, first + (i - 1)) - b) + 1]
           B(i) == s + 1 + (Place(p, q, first + (i - 1)) - b)
<1>6. \A i \in 1 .. end - first : A(i) = B(i)
  BY <1>4
<1>7. process_chunk(chunk, b) = [i \in 1 .. end - first |-> A(i)]
  BY <1>2
<1>8. Piece(p, q, s, b, n) = [i \in 1 .. end - first |-> B(i)]
  BY <1>5
<1> HIDE DEF A, B
<1> QED BY <1>6, <1>7, <1>8

LEMMA LinearPiece ==
    ASSUME NEW p \in Nat \ {0}, NEW q \in Nat \ {0}, rates[1] = p, rates[2] = q,
           NEW s \in Nat, NEW n \in Nat \ {0}, NEW samples, samples = Consecutive(s, n)
    PROVE  resample_linear_simple(samples) = Piece(p, q, s, 0, n)
<1>1. Len(samples) = n
  BY DEF Consecutive
<1>2. Due(p, q, 0) = 0 /\ Due(p, q, n) > 0 /\ Due(p, q, n) \in Nat
  <2>1. 0 \in Nat /\ n \in Nat
    OBVIOUS
  <2>2. Due(p, q, 0) = 0 /\ Due(p, q, n) > 0
    BY <2>1, DueFromNothing
  <2> QED BY <2>1, <2>2, DueBounds
<1>3. PICK none \in Nat : none = 0 /\ none + n = n
  OBVIOUS
<1>4. process_chunk(samples, none) = Piece(p, q, s, none, n)
  <2>1. Due(p, q, none) < Due(p, q, none + n)
    BY <1>2, <1>3
  <2> QED BY <2>1, ChunkPiece
<1> DEFINE Read(x, y, b, m) ==
             [i \in 1 .. Due(x, y, b + m) - Due(x, y, b) |->
                samples[(Place(x, y, Due(x, y, b) + (i - 1)) - b) + 1]]
           Drawn(x, y, m) == [i \in 1 .. Due(x, y, m) |-> samples[Place(x, y, i - 1) + 1]]
<1>5. process_chunk(samples, none) = Read(p, q, none, n)
  <2>1. process_chunk(samples, none) = Read(rates[1], rates[2], none, Len(samples))
    BY DEF process_chunk, Due, Place
  <2> HIDE DEF Read
  <2> QED BY <1>1, <2>1
<1>6. resample_linear_simple(samples) = Drawn(p, q, n)
  <2>1. resample_linear_simple(samples) = Drawn(rates[1], rates[2], Len(samples))
    BY DEF resample_linear_simple, Due, Place
  <2> HIDE DEF Drawn
  <2> QED BY <1>1, <2>1
<1>7. PICK e \in Nat : e = Due(p, q, n)
  BY <1>2
<1> DEFINE A(i) == samples[(Place(p, q, Due(p, q, none) + (i - 1)) - none) + 1]
           B(i) == samples[Place(p, q, i - 1) + 1]
<1>8. ASSUME NEW i \in 1 .. e PROVE A(i) = B(i)
  <2>1. 0 + (i - 1) = i - 1 /\ i - 1 \in Nat
    BY <1>7
  <2>2. PICK x \in Nat : x = Place(p, q, i - 1)
    BY <2>1, PlaceBounds
  <2>3. Due(p, q, none) + (i - 1) = i - 1
    BY <1>2, <1>3, <2>1
  <2>4. (x - none) + 1 = x + 1
    BY <1>3
  <2>5. A(i) = samples[(Place(p, q, i - 1) - none) + 1]
    BY <2>3, Zenon
  <2> QED BY <2>2, <2>4, <2>5, Zenon
<1>9. process_chunk(samples, none) = resample_linear_simple(samples)
  <2>1. Due(p, q, none + n) - Due(p, q, none) = e
    BY <1>2, <1>3, <1>7
  <2>2. process_chunk(samples, none) = [i \in 1 .. Due(p, q, none + n) - Due(p, q, none) |-> A(i)]
    BY <1>5
  <2>3. resample_linear_simple(samples) = [i \in 1 .. e |-> B(i)]
    BY <1>6, <1>7
  <2> HIDE DEF A, B
  <2> QED BY <1>8, <2>1, <2>2, <2>3
<1> QED BY <1>3, <1>4, <1>9

\* Each of a call's results adds that of one more chunk.
LEMMA ChunkByChunk ==
    ASSUME NEW samples, Len(samples) \in Nat, NEW bad
    PROVE  /\ Processed(samples, bad)[0] = <<>>
           /\ \A k \in 1 .. Len(samples) \div Chunk :
                 Processed(samples, bad)[k]
                   = Processed(samples, bad)[k - 1]
                       \o (IF k \in bad THEN resample_linear_simple(Cut(samples, k))
                           ELSE process_chunk(Cut(samples, k), Taken(k - 1, bad)))
<1> DEFINE Next1(k) == IF k \in bad THEN resample_linear_simple(Cut(samples, k))
                       ELSE process_chunk(Cut(samples, k), Taken(k - 1, bad))
           F(f, n) == f = [k \in 0 .. n |-> IF k = 0 THEN <<>> ELSE f[k - 1] \o Next1(k)]
           none == {n \in Nat : \A f : ~F(f, n)}
           chunks == Len(samples) \div Chunk
<1> HIDE DEF Next1
<1>1. none = {}
  <2> SUFFICES ASSUME none # {} PROVE FALSE
    OBVIOUS
  <2>1. PICK m \in Nat : m \in none /\ \A y \in none : m <= y
    <3>1. none \in SUBSET Nat
      OBVIOUS
    <3> HIDE DEF none
    <3> QED BY <3>1, FirstPlace
  <2>2. CASE m = 0
    <3> DEFINE f == [k \in 0 .. 0 |-> <<>>]
    <3>1. F(f, 0)
      OBVIOUS
    <3> QED BY <2>1, <2>2, <3>1
  <2>3. CASE m > 0
    <3>1. PICK before \in Nat : before = m - 1
      BY <2>3
    <3>2. before \notin none
      <4> HIDE DEF none
      <4> QED BY <2>1, <3>1
    <3>3. PICK f : F(f, before)
      BY <3>2
    <3> DEFINE g == [k \in 0 .. m |-> IF k = m THEN f[m - 1] \o Next1(m) ELSE f[k]]
    <3>4. ASSUME NEW k \in 0 .. m
          PROVE  g[k] = IF k = 0 THEN <<>> ELSE g[k - 1] \o Next1(k)
      <4>1. CASE k = 0
        BY <2>3, <3>1, <3>3, <4>1
      <4>2. CASE k > 0 /\ k < m
        <5>1. k \in 0 .. before /\ k - 1 \in 0 .. before /\ k - 1 \in 0 .. m /\ k - 1 # m /\ k # m /\ k # 0
          BY <3>1, <4>2
        <5>2. g[k] = f[k] /\ g[k - 1] = f[k - 1]
          BY <5>1
        <5>3. f[k] = f[k - 1] \o Next1(k)
          BY <3>3, <5>1
        <5> QED BY <5>1, <5>2, <5>3
      <4>3. CASE k > 0 /\ k = m
        <5>1. m - 1 \in 0 .. m /\ m - 1 # m
          BY <4>3
        <5>2. g[m - 1] = f[m - 1]
          BY <5>1
        <5>3. m \in 0 .. m
          OBVIOUS
        <5>4. g[m] = f[m - 1] \o Next1(m)
          BY <5>3
        <5> HIDE DEF g
        <5> QED BY <4>3, <5>2, <5>4
      <4> QED BY <4>1, <4>2, <4>3
    <3>5. F(g, m)
      BY <3>4
    <3> QED BY <2>1, <3>5
  <2> QED BY <2>2, <2>3
<1>2. chunks \in Nat
  BY ResamplerAssumption
<1>3. \E f : F(f, chunks)
  BY <1>1, <1>2
<1>4. Processed(samples, bad) = CHOOSE f : F(f, chunks)
  BY DEF Processed, Next1
<1>5. F(Processed(samples, bad), chunks)
  BY <1>3, <1>4
<1>6. /\ Processed(samples, bad)[0] = <<>>
      /\ \A k \in 1 .. chunks :
            Processed(samples, bad)[k] = Processed(samples, bad)[k - 1] \o Next1(k)
  <2>1. PICK P : P = Processed(samples, bad) /\ F(P, chunks)
    BY <1>5
  <2>2. PICK m \in Nat : m = chunks
    BY <1>2
  <2>3. P[0] = <<>>
    BY <2>1, <2>2
  <2>4. ASSUME NEW k \in 1 .. m PROVE P[k] = P[k - 1] \o Next1(k)
    <3>1. k \in 0 .. m /\ k # 0
      OBVIOUS
    <3>2. P = [j \in 0 .. m |-> IF j = 0 THEN <<>> ELSE P[j - 1] \o Next1(j)]
      BY <2>1, <2>2
    <3> QED BY <3>1, <3>2
  <2> QED BY <2>1, <2>2, <2>3, <2>4
<1> QED BY <1>6 DEF Next1

\* A chunk on which rubato fails does not move its position.
LEMMA TakenNext ==
    ASSUME NEW k \in Nat \ {0}, NEW bad, consumed \in Nat
    PROVE  /\ Taken(0, bad) = consumed /\ Taken(k - 1, bad) \in Nat
           /\ Taken(k, bad) = IF k \in bad THEN Taken(k - 1, bad) ELSE Taken(k - 1, bad) + Chunk
<1> DEFINE S == (1 .. k - 1) \ bad
           T == (1 .. k) \ bad
<1>1. IsFiniteSet(S) /\ Cardinality(S) \in Nat
  <2>1. PICK m \in Nat : m = k - 1
    OBVIOUS
  <2>2. IsFiniteSet(1 .. m)
    BY FS_Interval
  <2>3. IsFiniteSet((1 .. m) \ bad)
    BY <2>2, FS_Subset
  <2> QED BY <2>1, <2>3, FS_CardinalityType
<1>2. Taken(0, bad) = consumed
  <2>1. (1 .. 0) \ bad = {}
    OBVIOUS
  <2>2. Cardinality((1 .. 0) \ bad) = 0
    BY <2>1, FS_EmptySet
  <2> QED BY <2>2, ResamplerAssumption DEF Taken
<1>3. CASE k \in bad
  <2>1. T = S
    BY <1>3
  <2>2. PICK m \in Nat : m = Cardinality(S)
    BY <1>1
  <2>3. Chunk * m \in Nat
    BY ResamplerAssumption
  <2>4. Taken(k, bad) = consumed + Chunk * m /\ Taken(k - 1, bad) = consumed + Chunk * m
    BY <2>1, <2>2, Zenon DEF Taken
  <2> QED BY <1>2, <1>3, <2>3, <2>4
<1>4. CASE k \notin bad
  <2>1. T = S \cup {k} /\ k \notin S
    BY <1>4
  <2>2. Cardinality(T) = Cardinality(S) + 1
    BY <1>1, <2>1, FS_AddElement
  <2>3. PICK m \in Nat : m = Cardinality(S)
    BY <1>1
  <2>4. Chunk * (m + 1) = Chunk * m + Chunk /\ Chunk * m \in Nat
    BY ResamplerAssumption
  <2>5. Taken(k, bad) = consumed + Chunk * (m + 1) /\ Taken(k - 1, bad) = consumed + Chunk * m
    BY <2>2, <2>3, Zenon DEF Taken
  <2> QED BY <1>2, <1>4, <2>4, <2>5, ResamplerAssumption
<1> QED BY <1>3, <1>4

LEMMA JoinedThrice ==
    ASSUME NEW u \in Seq(Int), NEW v \in Seq(Int), NEW w \in Seq(Int)
    PROVE  (u \o v) \o w = u \o (v \o w)
  OBVIOUS

\* A chunk of consecutive samples is consecutive samples.
LEMMA CutShape ==
    ASSUME NEW t \in Nat, NEW n \in Nat, NEW samples, samples = Consecutive(t, n),
           NEW k \in 1 .. n \div Chunk
    PROVE  /\ t + (k - 1) * Chunk \in Nat
           /\ Cut(samples, k) = Consecutive(t + (k - 1) * Chunk, Chunk)
<1>1. PICK c \in Nat \ {0}, m \in Nat : c = Chunk /\ m = n \div c /\ c * m <= n
  BY ResamplerAssumption, DivBounds
<1>2. PICK a \in Nat : a = (k - 1) * c /\ k * c = a + c /\ a + c <= n
  <2>1. k \in Nat \ {0} /\ k <= m
    BY <1>1
  <2>2. PICK j \in Nat : j = k - 1 /\ k = j + 1
    BY <2>1
  <2>3. c * k <= c * m
    BY <1>1, <2>1, Larger
  <2>4. (j + 1) * c = j * c + c /\ j * c \in Nat /\ c * k = k * c
    BY <2>1, <2>2
  <2>5. k * c <= n
    <3>1. PICK l \in Nat : l = k
      BY <2>1
    <3>2. PICK x \in Int, y \in Int : x = c * l /\ y = c * m
      BY <1>1
    <3>3. x <= y /\ y <= n
      BY <1>1, <2>3, <3>1, <3>2
    <3>4. k * c = x
      BY <2>4, <3>1, <3>2
    <3> QED BY <3>3, <3>4
  <2> QED BY <2>2, <2>4, <2>5
<1>3. Cut(samples, k) = SubSeq(samples, a + 1, a + c)
  BY <1>1, <1>2, Zenon DEF Cut
<1>4. samples \in Seq(Int) /\ Len(samples) = n /\ \A i \in 1 .. n : samples[i] = t + i
  BY DEF Consecutive
<1>5. SubSeq(samples, a + 1, a + c) = Consecutive(t + a, c)
  <2>1. PICK cut : cut = SubSeq(samples, a + 1, a + c)
    OBVIOUS
  <2>2. cut \in Seq(Int) /\ Len(cut) = c /\ \A i \in 1 .. c : cut[i] = samples[a + i]
    <3>1. PICK from \in Nat \ {0}, to \in Nat : from = a + 1 /\ to = a + c /\ from <= to /\ to <= n
      BY <1>1, <1>2
    <3>2. cut = SubSeq(samples, from, to)
      BY <2>1, <3>1
    <3>3. /\ cut \in Seq(Int) /\ Len(cut) = to - from + 1
          /\ \A i \in 1 .. to - from + 1 : cut[i] = samples[from + i - 1]
      BY <1>4, <3>1, <3>2
    <3>4. to - from + 1 = c /\ \A i \in 1 .. c : from + i - 1 = a + i
      BY <1>1, <1>2, <3>1
    <3> QED BY <3>3, <3>4
  <2>3. ASSUME NEW i \in 1 .. c PROVE cut[i] = (t + a) + i
    <3>1. a + i \in 1 .. n
      BY <1>1, <1>2
    <3>2. samples[a + i] = t + (a + i)
      BY <1>4, <3>1
    <3> QED BY <1>1, <1>2, <2>2, <3>2
  <2>4. cut \in [1 .. c -> Int]
    BY <1>1, <2>2
  <2> QED BY <2>1, <2>3, <2>4 DEF Consecutive
<1> QED BY <1>1, <1>2, <1>3, <1>5

\* A call of the resampler between p and q on the samples after the first t.
Called(p, q, t, n, samples) ==
    /\ p \in Nat \ {0} /\ q \in Nat \ {0} /\ rates[1] = p /\ rates[2] = q /\ p <= Chunk * q
    /\ consumed \in Nat /\ t \in Nat /\ n \in Nat /\ samples = Consecutive(t, n)

\* The k-th chunk adds the piece that is due after s samples, of which rubato
\* has taken b.
Added(p, q, t, samples, bad, k, b, s) ==
    /\ b = (IF k \in bad THEN 0 ELSE Taken(k - 1, bad)) /\ s = t + (k - 1) * Chunk
    /\ Due(p, q, b) < Due(p, q, b + Chunk)
    /\ Piece(p, q, s, b, Chunk) \in Seq(Int)
    /\ Processed(samples, bad)[k] = Processed(samples, bad)[k - 1] \o Piece(p, q, s, b, Chunk)

\* Each chunk adds the piece it is due.
LEMMA ChunkAdds ==
    ASSUME NEW p, NEW q, NEW t, NEW n, NEW samples, Called(p, q, t, n, samples),
           NEW bad, NEW k \in 1 .. n \div Chunk
    PROVE  \E b \in Nat, s \in Nat : Added(p, q, t, samples, bad, k, b, s)
<1>1. /\ p \in Nat \ {0} /\ q \in Nat \ {0} /\ rates[1] = p /\ rates[2] = q /\ p <= Chunk * q
      /\ consumed \in Nat /\ t \in Nat /\ n \in Nat /\ samples = Consecutive(t, n)
      /\ Chunk \in Nat \ {0}
  BY ResamplerAssumption DEF Called
<1>2. PICK s \in Nat : s = t + (k - 1) * Chunk
  BY <1>1, CutShape
<1>3. PICK cut : cut = Cut(samples, k) /\ cut = Consecutive(s, Chunk)
  BY <1>1, <1>2, CutShape
<1>4. PICK b \in Nat : b = IF k \in bad THEN 0 ELSE Taken(k - 1, bad)
  <2>1. k \in Nat \ {0}
    BY <1>1, ResamplerAssumption
  <2>2. Taken(k - 1, bad) \in Nat
    BY <1>1, <2>1, TakenNext
  <2> QED BY <2>2
<1>5. Due(p, q, b) < Due(p, q, b + Chunk)
  BY <1>1, DueGrows
<1>6. PICK piece : piece = Piece(p, q, s, b, Chunk) /\ piece \in Seq(Int)
  <2>1. Shaped(Piece(p, q, s, b, Chunk), Due(p, q, b + Chunk) - Due(p, q, b), s, b, Chunk, Stride(p, q))
    BY <1>1, <1>5, PieceShape
  <2> QED BY <2>1 DEF Shaped
<1>7. Processed(samples, bad)[k]
        = Processed(samples, bad)[k - 1]
            \o (IF k \in bad THEN resample_linear_simple(Cut(samples, k))
                ELSE process_chunk(Cut(samples, k), Taken(k - 1, bad)))
  <2>1. Len(samples) = n
    BY <1>1 DEF Consecutive
  <2>2. Len(samples) \in Nat /\ k \in 1 .. Len(samples) \div Chunk
    BY <1>1, <2>1
  <2> QED BY <2>2, ChunkByChunk
<1>8. CASE k \in bad
  <2>1. resample_linear_simple(cut) = Piece(p, q, s, 0, Chunk)
    BY <1>1, <1>3, LinearPiece
  <2>2. b = 0
    BY <1>4, <1>8
  <2>3. resample_linear_simple(cut) = piece
    BY <1>6, <2>1, <2>2
  <2>4. Processed(samples, bad)[k] = Processed(samples, bad)[k - 1] \o resample_linear_simple(cut)
    BY <1>3, <1>8, <1>7
  <2> QED BY <1>2, <1>4, <1>5, <1>6, <2>3, <2>4 DEF Added
<1>9. CASE k \notin bad
  <2>1. process_chunk(cut, b) = piece
    BY <1>1, <1>3, <1>5, <1>6, ChunkPiece
  <2>2. b = Taken(k - 1, bad)
    BY <1>4, <1>9
  <2>3. Processed(samples, bad)[k] = Processed(samples, bad)[k - 1] \o process_chunk(cut, b)
    BY <1>3, <1>9, <1>7, <2>2
  <2> QED BY <1>2, <1>4, <1>5, <1>6, <2>1, <2>3 DEF Added
<1> QED BY <1>8, <1>9

\* Whatever chunks fail, the output goes on following the input.
LEMMA ChunksFollow ==
    ASSUME NEW p, NEW q, NEW t, NEW n, NEW samples, Called(p, q, t, n, samples), NEW bad, NEW sofar,
           Follows(sofar, t, Stride(p, q), 2 * Stride(p, q) - 1)
    PROVE  \A k \in 0 .. n \div Chunk :
              Follows(sofar \o Processed(samples, bad)[k], t + k * Chunk,
                      Stride(p, q), 2 * Stride(p, q) - 1)
<1>1. /\ p \in Nat \ {0} /\ q \in Nat \ {0} /\ Chunk \in Nat \ {0} /\ t \in Nat /\ n \in Nat
      /\ samples = Consecutive(t, n)
  BY ResamplerAssumption DEF Called
<1>2. PICK c \in Nat \ {0}, limit \in Nat : c = Stride(p, q) /\ limit = 2 * c - 1 /\ c <= limit
  BY <1>1, StrideBounds
<1>3. PICK A : A = Processed(samples, bad)
  OBVIOUS
<1>4. PICK chunks \in Nat : chunks = n \div Chunk
  BY <1>1
<1> DEFINE Good(k) == A[k] \in Seq(Int) /\ Follows(sofar \o A[k], t + k * Chunk, c, limit)
           wrong == {k \in 0 .. chunks : ~Good(k)}
<1>5. sofar \in Seq(Int) /\ Follows(sofar, t, c, limit)
  BY <1>2 DEF Follows
<1>6. Good(0)
  <2>1. A[0] = <<>>
    <3>1. Len(samples) \in Nat
      BY <1>1 DEF Consecutive
    <3> QED BY <1>3, <3>1, ChunkByChunk
  <2>2. sofar \o <<>> = sofar /\ t + 0 * Chunk = t
    BY <1>1, <1>5
  <2> QED BY <1>5, <2>1, <2>2
<1>7. ASSUME NEW k \in 1 .. chunks, Good(k - 1) PROVE Good(k)
  <2>1. PICK b \in Nat, s \in Nat :
          /\ s = t + (k - 1) * Chunk
          /\ Due(p, q, b) < Due(p, q, b + Chunk)
          /\ Piece(p, q, s, b, Chunk) \in Seq(Int)
          /\ A[k] = A[k - 1] \o Piece(p, q, s, b, Chunk)
    <3>1. k \in 1 .. n \div Chunk
      BY <1>4
    <3>2. \E b \in Nat, s \in Nat : Added(p, q, t, samples, bad, k, b, s)
      BY <3>1, ChunkAdds
    <3> QED BY <1>3, <3>2, Zenon DEF Added
  <2>2. PICK piece : piece = Piece(p, q, s, b, Chunk) /\ piece \in Seq(Int) /\ A[k] = A[k - 1] \o piece
    BY <2>1
  <2>3. PICK past : past = A[k - 1] /\ past \in Seq(Int) /\ Follows(sofar \o past, s, c, limit)
    BY <1>7, <2>1
  <2>4. Follows((sofar \o past) \o piece, s + Chunk, c, limit)
    <3>1. 2 * Stride(p, q) - 1 <= limit
      BY <1>2
    <3> QED BY <1>1, <1>2, <2>1, <2>2, <2>3, <3>1, FollowsOn
  <2>5. (sofar \o past) \o piece = sofar \o (past \o piece) /\ past \o piece \in Seq(Int)
    <3>1. past \o piece \in Seq(Int)
      BY <2>2, <2>3
    <3>2. sofar \in Seq(Int) /\ past \in Seq(Int) /\ piece \in Seq(Int)
      BY <1>5, <2>2, <2>3
    <3>3. (sofar \o past) \o piece = sofar \o (past \o piece)
      BY ONLY <3>2, JoinedThrice
    <3> QED BY <3>1, <3>3
  <2>6. s + Chunk = t + k * Chunk
    <3>1. PICK j \in Nat : j = k - 1 /\ k = j + 1
      BY <1>4
    <3>2. (j + 1) * Chunk = j * Chunk + Chunk /\ j * Chunk \in Nat
      BY <1>1
    <3> QED BY <1>1, <2>1, <3>1, <3>2
  <2> QED BY <2>2, <2>3, <2>4, <2>5, <2>6
<1> HIDE DEF Good
<1>8. wrong = {}
  <2> SUFFICES ASSUME wrong # {} PROVE FALSE
    OBVIOUS
  <2>1. PICK m \in Nat : m \in wrong /\ \A y \in wrong : m <= y
    <3>1. wrong \in SUBSET Nat
      OBVIOUS
    <3> HIDE DEF wrong
    <3> QED BY <3>1, FirstPlace
  <2>2. m # 0 /\ m \in 1 .. chunks /\ m - 1 \in 0 .. chunks
    BY <1>4, <1>6, <2>1
  <2>3. m - 1 \notin wrong
    <3> HIDE DEF wrong
    <3> QED BY <2>1, <2>2
  <2> QED BY <1>7, <2>1, <2>2, <2>3
<1>9. \A k \in 0 .. chunks : Good(k)
  BY <1>8
<1> QED BY <1>2, <1>3, <1>4, <1>9 DEF Good

\* While none fails every output sample is in time.
LEMMA ChunksInTime ==
    ASSUME NEW p, NEW q, NEW t, NEW n, NEW samples, Called(p, q, t, n, samples), NEW sofar,
           InTime(p, q, sofar, t), consumed = t
    PROVE  \A k \in 0 .. n \div Chunk :
              /\ InTime(p, q, sofar \o Processed(samples, {})[k], t + k * Chunk)
              /\ Taken(k, {}) = t + k * Chunk
<1>1. /\ p \in Nat \ {0} /\ q \in Nat \ {0} /\ Chunk \in Nat \ {0} /\ t \in Nat /\ n \in Nat
      /\ samples = Consecutive(t, n) /\ consumed \in Nat
  BY ResamplerAssumption DEF Called
<1>2. PICK A, none : A = Processed(samples, none) /\ none = {}
  OBVIOUS
<1>3. PICK chunks \in Nat : chunks = n \div Chunk
  BY <1>1
<1> DEFINE Good(k) == /\ A[k] \in Seq(Int) /\ InTime(p, q, sofar \o A[k], t + k * Chunk)
                      /\ Taken(k, none) = t + k * Chunk
           wrong == {k \in 0 .. chunks : ~Good(k)}
<1>4. sofar \in Seq(Int)
  <2>1. Follows(sofar, t, Stride(p, q), Stride(p, q))
    BY <1>1, InTimeFollows
  <2> QED BY <2>1 DEF Follows
<1>5. Good(0)
  <2>1. A[0] = <<>>
    <3>1. Len(samples) \in Nat
      BY <1>1 DEF Consecutive
    <3> QED BY <1>2, <3>1, ChunkByChunk
  <2>2. sofar \o <<>> = sofar /\ t + 0 * Chunk = t
    BY <1>1, <1>4
  <2>3. Taken(0, none) = consumed
    <3>1. 1 \in Nat \ {0}
      OBVIOUS
    <3> QED BY <1>1, <3>1, TakenNext
  <2> QED BY <2>1, <2>2, <2>3
<1>6. ASSUME NEW k \in 1 .. chunks, Good(k - 1) PROVE Good(k)
  <2>1. PICK b \in Nat, s \in Nat :
          /\ b = (IF k \in none THEN 0 ELSE Taken(k - 1, none)) /\ s = t + (k - 1) * Chunk
          /\ Due(p, q, b) < Due(p, q, b + Chunk)
          /\ Piece(p, q, s, b, Chunk) \in Seq(Int)
          /\ A[k] = A[k - 1] \o Piece(p, q, s, b, Chunk)
    <3>1. k \in 1 .. n \div Chunk
      BY <1>3
    <3>2. \E b \in Nat, s \in Nat : Added(p, q, t, samples, none, k, b, s)
      BY <3>1, ChunkAdds
    <3> QED BY <1>2, <3>2, Zenon DEF Added
  <2>2. b = s
    BY <1>2, <1>6, <2>1
  <2>3. PICK piece : piece = Piece(p, q, s, s, Chunk) /\ piece \in Seq(Int) /\ A[k] = A[k - 1] \o piece
    BY <2>1, <2>2
  <2>4. PICK past : past = A[k - 1] /\ past \in Seq(Int) /\ InTime(p, q, sofar \o past, s)
    BY <1>6, <2>1
  <2>5. InTime(p, q, (sofar \o past) \o piece, s + Chunk)
    BY <1>1, <2>1, <2>2, <2>3, <2>4, InTimeOn
  <2>6. (sofar \o past) \o piece = sofar \o (past \o piece) /\ past \o piece \in Seq(Int)
    <3>1. past \o piece \in Seq(Int)
      BY <2>3, <2>4
    <3>2. sofar \in Seq(Int) /\ past \in Seq(Int) /\ piece \in Seq(Int)
      BY <1>4, <2>3, <2>4
    <3>3. (sofar \o past) \o piece = sofar \o (past \o piece)
      BY ONLY <3>2, JoinedThrice
    <3> QED BY <3>1, <3>3
  <2>7. s + Chunk = t + k * Chunk
    <3>1. PICK j \in Nat : j = k - 1 /\ k = j + 1
      BY <1>3
    <3>2. (j + 1) * Chunk = j * Chunk + Chunk /\ j * Chunk \in Nat
      BY <1>1
    <3> QED BY <1>1, <2>1, <3>1, <3>2
  <2>8. Taken(k, none) = s + Chunk
    <3>1. k \in Nat \ {0} /\ k \notin none
      BY <1>2, <1>3
    <3>2. Taken(k, none) = Taken(k - 1, none) + Chunk
      BY <1>1, <3>1, TakenNext
    <3> QED BY <2>1, <2>2, <3>1, <3>2
  <2> QED BY <2>3, <2>4, <2>5, <2>6, <2>7, <2>8
<1> HIDE DEF Good
<1>7. wrong = {}
  <2> SUFFICES ASSUME wrong # {} PROVE FALSE
    OBVIOUS
  <2>1. PICK m \in Nat : m \in wrong /\ \A y \in wrong : m <= y
    <3>1. wrong \in SUBSET Nat
      OBVIOUS
    <3> HIDE DEF wrong
    <3> QED BY <3>1, FirstPlace
  <2>2. m # 0 /\ m \in 1 .. chunks /\ m - 1 \in 0 .. chunks
    BY <1>3, <1>5, <2>1
  <2>3. m - 1 \notin wrong
    <3> HIDE DEF wrong
    <3> QED BY <2>1, <2>2
  <2> QED BY <1>6, <2>1, <2>2, <2>3
<1>8. \A k \in 0 .. chunks : Good(k)
  BY <1>7
<1> QED BY <1>2, <1>3, <1>8 DEF Good


\* Runs of consecutive samples join and are cut at any place.
LEMMA RunsJoin ==
    ASSUME NEW t \in Nat, NEW a \in Nat, NEW b \in Nat
    PROVE  Consecutive(t, a) \o Consecutive(t + a, b) = Consecutive(t, a + b)
<1>1. PICK u, v : u = Consecutive(t, a) /\ v = Consecutive(t + a, b)
  OBVIOUS
<1>2. /\ u \in Seq(Int) /\ Len(u) = a /\ \A i \in 1 .. a : u[i] = t + i
      /\ v \in Seq(Int) /\ Len(v) = b /\ \A i \in 1 .. b : v[i] = (t + a) + i
  BY <1>1 DEF Consecutive
<1>3. PICK w : w = u \o v
  OBVIOUS
<1>4. /\ w \in Seq(Int) /\ Len(w) = a + b
      /\ \A i \in 1 .. a : w[i] = u[i]
      /\ \A i \in 1 .. b : w[a + i] = v[i]
  BY <1>2, <1>3, Joined
<1>5. ASSUME NEW i \in 1 .. a + b PROVE w[i] = t + i
  <2>1. CASE i <= a
    BY <1>2, <1>4, <2>1
  <2>2. CASE i > a
    <3>1. PICK j \in 1 .. b : i = a + j
      <4>1. i - a \in 1 .. b /\ i = a + (i - a)
        BY <2>2
      <4> QED BY <4>1
    <3>2. w[i] = (t + a) + j
      BY <1>2, <1>4, <3>1
    <3> QED BY <3>1, <3>2
  <2> QED BY <2>1, <2>2
<1>6. w \in [1 .. a + b -> Int]
  BY <1>4
<1>7. w = Consecutive(t, a + b)
  BY <1>5, <1>6 DEF Consecutive
<1> QED BY <1>1, <1>3, <1>7

LEMMA RunsCut ==
    ASSUME NEW t \in Nat, NEW n \in Nat, NEW a \in 0 .. n
    PROVE  SubSeq(Consecutive(t, n), a + 1, n) = Consecutive(t + a, n - a)
<1>1. PICK u : u = Consecutive(t, n)
  OBVIOUS
<1>2. u \in Seq(Int) /\ Len(u) = n /\ \A i \in 1 .. n : u[i] = t + i
  BY <1>1 DEF Consecutive
<1>3. PICK cut : cut = SubSeq(u, a + 1, n)
  OBVIOUS
<1>4. PICK m \in Nat : m = n - a
  OBVIOUS
<1>5. cut \in Seq(Int) /\ Len(cut) = m /\ \A i \in 1 .. m : cut[i] = u[a + i]
  <2>1. PICK from \in Nat \ {0} : from = a + 1
    OBVIOUS
  <2>2. /\ cut \in Seq(Int) /\ Len(cut) = n - from + 1
        /\ \A i \in 1 .. n - from + 1 : cut[i] = u[from + i - 1]
    BY <1>2, <1>3, <2>1
  <2>3. n - from + 1 = m /\ \A i \in 1 .. m : from + i - 1 = a + i
    BY <1>4, <2>1
  <2> QED BY <2>2, <2>3
<1>6. ASSUME NEW i \in 1 .. m PROVE cut[i] = (t + a) + i
  <2>1. a + i \in 1 .. n
    BY <1>4
  <2>2. u[a + i] = t + (a + i)
    BY <1>2, <2>1
  <2> QED BY <1>5, <2>2
<1>7. cut \in [1 .. m -> Int]
  BY <1>4, <1>5
<1>8. cut = Consecutive(t + a, m)
  BY <1>6, <1>7 DEF Consecutive
<1> QED BY <1>1, <1>3, <1>4, <1>8

\* Between equal rates the output is the input.
LEMMA SameRate ==
    ASSUME NEW p \in Nat \ {0}, NEW t \in Nat, NEW n \in Nat
    PROVE  Due(p, p, t) = t /\ Piece(p, p, t, t, n) = Consecutive(t, n)
<1>1. \A j \in Nat : Due(p, p, j) = j /\ Place(p, p, j) = j
  <2> SUFFICES ASSUME NEW j \in Nat PROVE Due(p, p, j) = j /\ Place(p, p, j) = j
    OBVIOUS
  <2>1. Place(p, p, j) = j
    <3>1. PICK x \in Nat : x = Place(p, p, j) /\ p * x <= j * p /\ j * p < p * x + p
      BY PlaceBounds
    <3>2. p * (x + 1) = p * x + p /\ p * j = j * p /\ p * (j + 1) = p * j + p
      OBVIOUS
    <3>3. PICK y \in Int, z \in Int : y = p * x /\ z = p * j
      OBVIOUS
    <3>4. p * j < p * (x + 1) /\ p * x < p * (j + 1)
      BY <3>1, <3>2, <3>3
    <3>5. j < x + 1 /\ x < j + 1
      BY <3>4, Smaller
    <3> QED BY <3>1, <3>5
  <2>2. Due(p, p, j) = j
    <3>1. PICK x \in Nat : x = Due(p, p, j) /\ j * p <= p * x /\ p * x < j * p + p
      BY DueBounds
    <3>2. p * (x + 1) = p * x + p /\ p * j = j * p /\ p * (j + 1) = p * j + p
      OBVIOUS
    <3>3. PICK y \in Int, z \in Int : y = p * x /\ z = p * j
      OBVIOUS
    <3>4. p * j < p * (x + 1) /\ p * x < p * (j + 1)
      BY <3>1, <3>2, <3>3
    <3>5. j < x + 1 /\ x < j + 1
      BY <3>4, Smaller
    <3> QED BY <3>1, <3>5
  <2> QED BY <2>1, <2>2
<1>2. PICK u \in Nat : u = t + n
  OBVIOUS
<1> DEFINE A(i) == t + 1 + (Place(p, p, Due(p, p, t) + (i - 1)) - t)
<1>3. Due(p, p, t + n) - Due(p, p, t) = n
  BY <1>1, <1>2
<1>4. ASSUME NEW i \in 1 .. n PROVE A(i) = t + i
  <2>1. PICK j \in Nat : j = t + (i - 1)
    OBVIOUS
  <2>2. Due(p, p, t) + (i - 1) = j /\ Place(p, p, j) = j
    BY <1>1, <2>1
  <2>3. t + 1 + (j - t) = t + i
    BY <2>1
  <2> QED BY <2>2, <2>3, Zenon
<1>5. Piece(p, p, t, t, n) = [i \in 1 .. Due(p, p, t + n) - Due(p, p, t) |-> A(i)]
  BY Zenon DEF Piece
<1> HIDE DEF A
<1> QED BY <1>1, <1>3, <1>4, <1>5 DEF Consecutive

\* The output that follows closely follows loosely.
LEMMA FollowsLoosely ==
    ASSUME NEW sofar, NEW t, NEW c \in Nat, NEW limit \in Nat, c <= limit, Follows(sofar, t, c, c)
    PROVE  Follows(sofar, t, c, limit)
  BY DEF Follows

\* The inductive invariant: of the input, the first t samples are heard and the
\* rest waits.  The output follows them, closely unless a chunk failed, and in
\* time until then; rubato has taken all of them.
Resampled(p, q, t) ==
    /\ given \in Nat /\ consumed \in Nat /\ failed \in BOOLEAN /\ flushed \in BOOLEAN
    /\ given - t \in 0 .. Chunk - 1 /\ rest = Consecutive(t, given - t)
    /\ Follows(output, t, Stride(p, q), 2 * Stride(p, q) - 1)
    /\ ~failed => Follows(output, t, Stride(p, q), Stride(p, q))
    /\ ~failed /\ ~flushed => InTime(p, q, output, t) /\ (p # q => consumed = t)
    /\ p = q => given = t /\ ~failed
    /\ flushed => given = t

ResampleInv ==
    IF rates = <<>>
    THEN /\ rest = <<>> /\ given = 0 /\ consumed = 0 /\ output = <<>>
         /\ failed = FALSE /\ flushed = FALSE
    ELSE rates \in Ratios /\ \E t \in Nat : Resampled(rates[1], rates[2], t)

\* The rates of a resampler.
LEMMA RatesOk ==
    ASSUME NEW pair \in Ratios
    PROVE  \E p \in Nat \ {0}, q \in Nat \ {0} : pair[1] = p /\ pair[2] = q /\ p <= Chunk * q /\ pair # <<>>
  BY ResamplerAssumption

LEMMA ResampleInvImplies == ResampleInv => ResampledInTime
<1> SUFFICES ASSUME ResampleInv, rates # <<>> PROVE ResampledInTime
  BY DEF ResampledInTime
<1>1. rates \in Ratios
  BY DEF ResampleInv
<1>2. PICK p \in Nat \ {0}, q \in Nat \ {0} : rates[1] = p /\ rates[2] = q
  BY <1>1, RatesOk
<1>3. PICK t \in Nat : Resampled(p, q, t)
  BY <1>2 DEF ResampleInv
<1>4. PICK c \in Nat \ {0} : c = Stride(p, q) /\ c = CeilDiv(rates[1], rates[2])
  BY <1>2, StrideBounds DEF Stride
<1>5. /\ given \in Nat /\ failed \in BOOLEAN /\ flushed \in BOOLEAN
      /\ given - t \in 0 .. Chunk - 1 /\ rest = Consecutive(t, given - t)
      /\ Follows(output, t, c, 2 * c - 1)
      /\ ~failed => Follows(output, t, c, c)
      /\ ~failed /\ ~flushed => InTime(p, q, output, t)
      /\ flushed => given = t
  BY <1>3, <1>4, Zenon DEF Resampled
<1>6. Len(rest) < Chunk
  BY <1>5, ResamplerAssumption DEF Consecutive
<1>7. \A i \in 1 .. Len(output) - 1 :
         output[i + 1] - output[i] \in 0 .. (IF failed THEN 2 * c - 1 ELSE c)
  <2>1. CASE failed
    BY <1>5, <2>1 DEF Follows
  <2>2. CASE ~failed
    BY <1>5, <2>2 DEF Follows
  <2> QED BY <2>1, <2>2
<1>8. ASSUME ~failed, ~flushed
      PROVE  \A i \in DOMAIN output : output[i] = ((i - 1) * rates[1]) \div rates[2] + 1
  <2>1. output = [i \in 1 .. Due(p, q, t) |-> Place(p, q, i - 1) + 1]
    BY <1>5, <1>8 DEF InTime
  <2>2. \A i \in DOMAIN output : output[i] = Place(p, q, i - 1) + 1
    BY <2>1
  <2> QED BY <1>2, <2>2, Zenon DEF Place
<1>9. ASSUME flushed, given > 0 PROVE output # <<>> /\ given - output[Len(output)] < c
  <2>1. t = given /\ t # 0
    BY <1>5, <1>9
  <2>2. output # <<>> /\ t - output[Len(output)] \in 0 .. c - 1
    BY <1>5, <2>1 DEF Follows
  <2> QED BY <2>1, <2>2
<1> QED BY <1>4, <1>6, <1>7, <1>8, <1>9, Zenon DEF ResampledInTime


LEMMA NewKeeps ==
    ASSUME ResampleInv, NEW pair \in Ratios, New(pair)
    PROVE  ResampleInv'
<1>1. PICK p \in Nat \ {0}, q \in Nat \ {0} : pair[1] = p /\ pair[2] = q /\ pair # <<>>
  BY RatesOk
<1>2. PICK t \in Nat : t = 0
  OBVIOUS
<1>3. /\ given' = t /\ consumed' = t /\ output' = <<>> /\ rest' = <<>>
      /\ failed' = FALSE /\ flushed' = FALSE /\ rates' = pair
  BY <1>2 DEF New, ResampleInv
<1>4. PICK none : none = <<>> /\ output' = none /\ InTime(p, q, none, t)
  <2>1. Due(p, q, t) = 0
    BY <1>2, DueFromNothing
  <2>2. <<>> = [i \in 1 .. 0 |-> Place(p, q, i - 1) + 1]
    OBVIOUS
  <2>3. InTime(p, q, <<>>, t)
    BY <2>1, <2>2 DEF InTime
  <2> QED BY <1>3, <2>3
<1>5. PICK c \in Nat \ {0}, limit \in Nat : c = Stride(p, q) /\ limit = 2 * c - 1 /\ c <= limit
  BY StrideBounds
<1>6. Follows(none, t, c, c) /\ Follows(none, t, c, limit)
  <2>1. Follows(none, t, c, c)
    BY <1>4, <1>5, InTimeFollows
  <2> QED BY <1>5, <2>1, FollowsLoosely
<1>7. rest' = Consecutive(t, 0) /\ given' - t = 0 /\ 0 \in 0 .. Chunk - 1
  BY <1>2, <1>3, ResamplerAssumption DEF Consecutive
<1>8. Resampled(p, q, t)'
  BY <1>2, <1>3, <1>4, <1>5, <1>6, <1>7 DEF Resampled
<1>9. rates' # <<>> /\ rates' \in Ratios /\ rates'[1] = p /\ rates'[2] = q
  BY <1>1, <1>3
<1> QED BY <1>8, <1>9 DEF ResampleInv

\* Between equal rates resample passes its input on.
LEMMA PassedOn ==
    ASSUME NEW p \in Nat \ {0}, NEW t \in Nat, Resampled(p, p, t), NEW n \in Nat,
           ~flushed, flushed' = flushed, given' = given + n, output' = output \o Consecutive(given, n),
           UNCHANGED <<rest, consumed, failed>>
    PROVE  \E u \in Nat : Resampled(p, p, u)'
<1>1. /\ given \in Nat /\ given = t /\ ~failed /\ flushed \in BOOLEAN /\ consumed \in Nat
      /\ rest = Consecutive(t, given - t) /\ InTime(p, p, output, t)
  BY DEF Resampled
<1>2. PICK u \in Nat : u = t + n /\ u = given'
  BY <1>1
<1>3. InTime(p, p, output', u)
  <2>1. CASE n = 0
    <3>1. output' = output
      <4>1. Consecutive(given, n) = <<>>
        BY <2>1 DEF Consecutive
      <4>2. output \in Seq(Int)
        <5>1. Follows(output, t, Stride(p, p), Stride(p, p))
          BY <1>1, InTimeFollows
        <5> QED BY <5>1 DEF Follows
      <4> QED BY <4>1, <4>2
    <3>2. u = t
      BY <1>2, <2>1
    <3> QED BY <1>1, <3>1, <3>2
  <2>2. CASE n # 0
    <3>1. Piece(p, p, t, t, n) = Consecutive(t, n) /\ Due(p, p, t) = t /\ Due(p, p, u) = u
      BY <1>2, SameRate
    <3>2. Due(p, p, t) < Due(p, p, t + n)
      BY <1>2, <2>2, <3>1
    <3>3. InTime(p, p, output \o Piece(p, p, t, t, n), t + n)
      BY <1>1, <2>2, <3>2, InTimeOn
    <3> QED BY <1>1, <1>2, <3>1, <3>3
  <2> QED BY <2>1, <2>2
<1>4. PICK c \in Nat \ {0}, limit \in Nat : c = Stride(p, p) /\ limit = 2 * c - 1 /\ c <= limit
  <2>1. PICK c \in Nat \ {0} : c = Stride(p, p)
    BY StrideBounds
  <2>2. 2 * c - 1 \in Nat /\ c <= 2 * c - 1
    BY ONLY <2>1
  <2> QED BY <2>1, <2>2
<1>5. PICK now : now = output'
  OBVIOUS
<1>6. Follows(now, u, c, c) /\ Follows(now, u, c, limit)
  <2>1. Follows(now, u, c, c)
    BY <1>3, <1>4, <1>5, InTimeFollows
  <2> QED BY <1>4, <2>1, FollowsLoosely
<1>7. rest' = Consecutive(u, 0) /\ given' - u = 0 /\ 0 \in 0 .. Chunk - 1
  BY <1>1, <1>2, ResamplerAssumption DEF Consecutive
<1>8. Resampled(p, p, u)'
  BY <1>1, <1>2, <1>3, <1>4, <1>5, <1>6, <1>7 DEF Resampled
<1> QED BY <1>8

\* Between others it cuts its input into chunks, whichever of them fail.
LEMMA ChunksPassedOn ==
    ASSUME NEW p \in Nat \ {0}, NEW q \in Nat \ {0}, p # q, rates[1] = p, rates[2] = q, p <= Chunk * q,
           NEW t \in Nat, Resampled(p, q, t), NEW n \in Nat, NEW bad,
           NEW samples, samples = rest \o Consecutive(given, n), NEW chunks, chunks = Len(samples) \div Chunk,
           ~flushed, flushed' = flushed, given' = given + n,
           output' = output \o Processed(samples, bad)[chunks],
           rest' = SubSeq(samples, chunks * Chunk + 1, Len(samples)),
           consumed' = Taken(chunks, bad), failed' = (failed \/ bad # {})
    PROVE  \E u \in Nat : Resampled(p, q, u)'
<1>1. /\ given \in Nat /\ consumed \in Nat /\ failed \in BOOLEAN /\ flushed \in BOOLEAN
      /\ given - t \in 0 .. Chunk - 1 /\ rest = Consecutive(t, given - t)
      /\ Follows(output, t, Stride(p, q), 2 * Stride(p, q) - 1)
      /\ ~failed => InTime(p, q, output, t) /\ consumed = t
      /\ Chunk \in Nat \ {0}
  BY ResamplerAssumption DEF Resampled
<1>2. PICK w \in Nat, m \in Nat : w = given - t /\ given = t + w /\ m = w + n
  BY <1>1
<1>3. samples = Consecutive(t, m) /\ Len(samples) = m
  <2>1. samples = Consecutive(t, m)
    <3>1. Consecutive(t, w) \o Consecutive(t + w, n) = Consecutive(t, w + n)
      <4>1. t \in Nat /\ w \in Nat /\ n \in Nat
        OBVIOUS
      <4> QED BY ONLY <4>1, RunsJoin
    <3> QED BY <1>1, <1>2, <3>1, Zenon
  <2>2. Len(Consecutive(t, m)) = m
    BY ONLY <1>2 DEF Consecutive
  <2> QED BY <2>1, <2>2, Zenon
<1>4. PICK a \in Nat : a = chunks * Chunk /\ m - a \in 0 .. Chunk - 1 /\ a \in 0 .. m /\ chunks \in Nat
  <2>1. chunks = m \div Chunk /\ chunks \in Nat /\ Chunk * chunks <= m /\ m < Chunk * chunks + Chunk
    BY <1>1, <1>3, DivBounds
  <2>2. PICK l \in Nat : l = chunks
    BY <2>1
  <2>3. PICK a \in Nat : a = Chunk * l /\ a = l * Chunk
    BY <1>1
  <2>4. a <= m /\ m < a + Chunk
    BY <2>1, <2>2, <2>3
  <2>5. m - a \in 0 .. Chunk - 1 /\ a \in 0 .. m
    BY ONLY <1>1, <1>2, <2>3, <2>4
  <2> QED BY <2>1, <2>2, <2>3, <2>5
<1>5. PICK u \in Nat : u = t + a
  OBVIOUS
<1>6. Called(p, q, t, m, samples)
  BY <1>1, <1>3 DEF Called
<1>7. chunks \in 0 .. m \div Chunk
  <2>1. PICK l \in Nat : l = chunks /\ l = m \div Chunk
    BY <1>3, <1>4
  <2>2. l \in 0 .. l
    OBVIOUS
  <2> QED BY <2>1, <2>2
<1>8. Follows(output', u, Stride(p, q), 2 * Stride(p, q) - 1)
  <2>1. PICK before : before = output
    OBVIOUS
  <2>2. \A k \in 0 .. m \div Chunk :
           Follows(before \o Processed(samples, bad)[k], t + k * Chunk,
                   Stride(p, q), 2 * Stride(p, q) - 1)
    BY <1>1, <1>6, <2>1, ChunksFollow
  <2> QED BY <1>4, <1>5, <1>7, <2>1, <2>2
<1>9. consumed' \in Nat
  <2>1. PICK k \in Nat \ {0} : k = chunks + 1 /\ chunks = k - 1
    BY ONLY <1>4
  <2>2. Taken(k - 1, bad) \in Nat
    BY <1>1, TakenNext
  <2> QED BY <2>1, <2>2
<1>10. ASSUME ~failed'
       PROVE  /\ InTime(p, q, output', u) /\ consumed' = u
              /\ Follows(output', u, Stride(p, q), Stride(p, q))
  <2>1. ~failed /\ bad = {}
    BY <1>1, <1>10
  <2>2. PICK before : before = output /\ InTime(p, q, before, t) /\ consumed = t
    BY <1>1, <2>1
  <2>3. \A k \in 0 .. m \div Chunk :
           /\ InTime(p, q, before \o Processed(samples, {})[k], t + k * Chunk)
           /\ Taken(k, {}) = t + k * Chunk
    BY <1>6, <2>2, ChunksInTime
  <2>4. PICK now : now = output' /\ InTime(p, q, now, u) /\ consumed' = u
    BY <1>4, <1>5, <1>7, <2>1, <2>2, <2>3
  <2>5. Follows(now, u, Stride(p, q), Stride(p, q))
    BY <2>4, InTimeFollows
  <2> QED BY <2>4, <2>5
<1>11. rest' = Consecutive(u, given' - u) /\ given' \in Nat /\ given' - u \in 0 .. Chunk - 1
  <2>1. given' - u = m - a /\ given' \in Nat
    BY <1>1, <1>2, <1>4, <1>5
  <2>2. rest' = SubSeq(Consecutive(t, m), a + 1, m)
    BY <1>3, <1>4
  <2>3. SubSeq(Consecutive(t, m), a + 1, m) = Consecutive(t + a, m - a)
    <3>1. t \in Nat /\ m \in Nat /\ a \in 0 .. m
      BY <1>4
    <3> QED BY ONLY <3>1, RunsCut
  <2> QED BY <1>4, <1>5, <2>1, <2>2, <2>3
<1>12. failed' \in BOOLEAN /\ flushed' \in BOOLEAN /\ ~flushed'
  BY <1>1
<1>13. Resampled(p, q, u)'
  BY <1>8, <1>9, <1>10, <1>11, <1>12 DEF Resampled
<1> QED BY <1>13

LEMMA ResampleKeeps ==
    ASSUME ResampleInv, NEW n \in Inputs, NEW bad, resample(n, bad)
    PROVE  ResampleInv'
<1>1. rates # <<>> /\ rates \in Ratios /\ rates' = rates /\ ~flushed /\ flushed' = flushed /\ given' = given + n
  BY DEF resample, ResampleInv
<1>2. PICK p \in Nat \ {0}, q \in Nat \ {0} : rates[1] = p /\ rates[2] = q /\ p <= Chunk * q
  BY <1>1, RatesOk
<1>3. PICK t \in Nat : Resampled(p, q, t)
  BY <1>1, <1>2 DEF ResampleInv
<1>4. n \in Nat
  BY ResamplerAssumption
<1>5. \E u \in Nat : Resampled(p, q, u)'
  <2>1. CASE p = q
    <3>1. output' = output \o Consecutive(given, n) /\ UNCHANGED <<rest, consumed, failed>>
      BY <1>2, <2>1, Zenon DEF resample, Consecutive
    <3>2. \E u \in Nat : Resampled(p, p, u)'
      BY <1>1, <1>3, <1>4, <2>1, <3>1, PassedOn
    <3> QED BY <2>1, <3>2
  <2>2. CASE p # q
    <3>1. PICK samples : samples = rest \o Consecutive(given, n)
      OBVIOUS
    <3>2. PICK chunks : chunks = Len(samples) \div Chunk
      OBVIOUS
    <3>3. /\ output' = output \o Processed(samples, bad)[chunks]
          /\ rest' = SubSeq(samples, chunks * Chunk + 1, Len(samples))
          /\ consumed' = Taken(chunks, bad)
          /\ failed' = (failed \/ bad # {})
      BY <1>2, <2>2, <3>1, <3>2, Zenon DEF resample, Remainder, Consecutive
    <3> QED BY <1>1, <1>2, <1>3, <1>4, <2>2, <3>1, <3>2, <3>3, ChunksPassedOn
  <2> QED BY <2>1, <2>2
<1> QED BY <1>1, <1>2, <1>5 DEF ResampleInv

LEMMA FlushKeeps ==
    ASSUME ResampleInv, flush
    PROVE  ResampleInv'
<1>1. /\ rates # <<>> /\ rates \in Ratios /\ rates' = rates /\ ~flushed /\ flushed' = TRUE /\ rest' = <<>>
      /\ output' = output \o resample_linear_simple(rest) /\ UNCHANGED <<given, consumed, failed>>
  BY DEF flush, ResampleInv
<1>2. PICK p \in Nat \ {0}, q \in Nat \ {0} : rates[1] = p /\ rates[2] = q /\ p <= Chunk * q
  BY <1>1, RatesOk
<1>3. PICK t \in Nat : Resampled(p, q, t)
  BY <1>1, <1>2 DEF ResampleInv
<1>4. PICK c \in Nat \ {0}, limit \in Nat : c = Stride(p, q) /\ limit = 2 * c - 1 /\ c <= limit
  BY StrideBounds
<1>5. /\ given \in Nat /\ consumed \in Nat /\ failed \in BOOLEAN
      /\ given - t \in 0 .. Chunk - 1 /\ rest = Consecutive(t, given - t)
      /\ Follows(output, t, c, limit) /\ (~failed => Follows(output, t, c, c))
      /\ p = q => given = t /\ ~failed
  BY <1>3, <1>4, Zenon DEF Resampled
<1>6. PICK w \in Nat, u \in Nat : w = given - t /\ given = t + w /\ u = given
  BY <1>5, ResamplerAssumption
<1>7. Follows(output', u, c, limit) /\ (~failed => Follows(output', u, c, c))
  <2>1. CASE w = 0
    <3>1. rest = <<>> /\ given = t
      BY <1>5, <1>6, <2>1 DEF Consecutive
    <3>2. resample_linear_simple(rest) = <<>>
      <4>1. PICK e \in Nat : e = Due(p, q, 0) /\ e = 0
        BY DueFromNothing
      <4>2. CeilDiv(Len(rest) * rates[2], rates[1]) = 0
        <5>1. Len(rest) = 0
          BY <3>1
        <5> QED BY <1>2, <4>1, <5>1, Zenon DEF Due
      <4> QED BY <4>2 DEF resample_linear_simple
    <3>3. output \in Seq(Int)
      BY <1>5 DEF Follows
    <3>4. output' = output
      BY <1>1, <3>2, <3>3
    <3> QED BY <1>5, <1>6, <3>1, <3>4
  <2>2. CASE w # 0
    <3>1. resample_linear_simple(rest) = Piece(p, q, t, 0, w)
      BY <1>2, <1>5, <1>6, <2>2, LinearPiece
    <3>2. PICK none \in Nat : none = 0 /\ none + w = w
      BY <1>6
    <3>3. Due(p, q, none) < Due(p, q, none + w)
      BY <1>6, <2>2, <3>2, DueFromNothing
    <3>4. PICK before : before = output
      OBVIOUS
    <3>5. Follows(before \o Piece(p, q, t, none, w), t + w, c, limit)
      BY <1>4, <1>5, <1>6, <2>2, <3>2, <3>3, <3>4, FollowsOn
    <3>6. ASSUME ~failed PROVE Follows(before \o Piece(p, q, t, none, w), t + w, c, c)
      <4>1. Follows(before, t, c, c) /\ c \in Nat /\ c <= c /\ w \in Nat \ {0}
        BY <1>4, <1>5, <1>6, <2>2, <3>4, <3>6
      <4> QED BY <1>4, <3>2, <3>3, <4>1, FollowsOn
    <3> QED BY <1>1, <1>6, <3>1, <3>2, <3>4, <3>5, <3>6
  <2> QED BY <2>1, <2>2
<1>8. rest' = Consecutive(u, 0) /\ 0 \in 0 .. Chunk - 1 /\ given' = u /\ given' - u = 0
  BY <1>1, <1>5, <1>6, ResamplerAssumption DEF Consecutive
<1>9. Resampled(p, q, u)'
  <2>1. rest' = Consecutive(u, given' - u) /\ given' - u \in 0 .. Chunk - 1
    BY <1>8
  <2>2. 2 * Stride(p, q) - 1 = limit /\ Stride(p, q) = c
    BY <1>4
  <2>3. failed' = failed /\ consumed' = consumed /\ flushed' = TRUE /\ given' = u /\ u \in Nat
    BY <1>1, <1>6
  <2>4. p = q => ~failed
    BY <1>5
  <2> QED BY <1>5, <1>7, <2>1, <2>2, <2>3, <2>4 DEF Resampled
<1> QED BY <1>1, <1>2, <1>9 DEF ResampleInv


\* However the input is cut into calls and whichever chunks rubato fails on, the
\* output of StreamResampler is in order and in time, for every pair of rates
\* whose chunk holds an output sample and every size of chunk and call.
THEOREM ResampledAlwaysInTime == ResampleSpec => []ResampledInTime
<1>1. ResampleInit => ResampleInv
  BY DEF ResampleInit, ResampleInv
<1>2. ResampleInv /\ [ResampleNext]_resampleVars => ResampleInv'
  <2> SUFFICES ASSUME ResampleInv, [ResampleNext]_resampleVars PROVE ResampleInv'
    OBVIOUS
  <2>1. CASE UNCHANGED resampleVars
    BY <2>1 DEF resampleVars, ResampleInv, Resampled
  <2>2. ASSUME NEW pair \in Ratios, New(pair) PROVE ResampleInv'
    BY <2>2, NewKeeps
  <2>3. ASSUME NEW n \in Inputs, NEW bad \in SUBSET (1 .. (Chunk - 1 + n) \div Chunk), resample(n, bad)
        PROVE  ResampleInv'
    BY <2>3, ResampleKeeps
  <2>4. CASE flush
    BY <2>4, FlushKeeps
  <2> QED BY <2>1, <2>2, <2>3, <2>4, Zenon DEF ResampleNext
<1> QED BY <1>1, <1>2, ResampleInvImplies, PTL DEF ResampleSpec
=============================================================================
