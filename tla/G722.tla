-------------------------------- MODULE G722 --------------------------------
(***************************************************************************)
(* The G.722 encoder and decoder of src/codec/g722.rs, in integers.        *)
(*                                                                         *)
(* Each side keeps a QMF delay line and the two bands' adaptive predictors *)
(* (Band).  The encoder adapts from the codes it sends and the decoder     *)
(* from the codes it gets, by the same block, so that the decoder needs no *)
(* side information.  Samples reach the encoder in calls of any length.    *)
(*                                                                         *)
(* The arrays of a Band are kept from index 1: index 0 and ap, bp and sp   *)
(* are scratch within predict.  A right shift is a floor division.         *)
(***************************************************************************)
EXTENDS Integers, Sequences

CONSTANTS
    Calls,       \* the PCM a call of encode may be given
    MaxSamples,  \* bound: samples encoded
    NoSample     \* no sample is carried

\* An i16.
Sample == -32768 .. 32767

ASSUME G722Assumption == Calls \subseteq Seq(Sample) /\ MaxSamples \in Nat /\ NoSample \notin Sample

QMF == <<3, -11, 12, 32, -210, 951, 3876, -805, 362, -156, 53, -11>>
Q6 == <<35, 72, 110, 150, 190, 233, 276, 323, 370, 422, 473, 530, 587, 650,
        714, 786, 858, 940, 1023, 1121, 1219, 1339, 1458, 1612, 1765, 1980,
        2195, 2557, 2919>>
ILN(i) == IF i <= 2 THEN 64 - i ELSE 34 - i
ILP(i) == 62 - i
WL == <<-60, -30, 58, 172, 334, 538, 1198, 3042>>
RL42(code) == IF code \in {0, 15} THEN 0 ELSE IF code < 8 THEN 8 - code ELSE 15 - code
ILB == <<2048, 2093, 2139, 2186, 2233, 2282, 2332, 2383, 2435, 2489, 2543,
         2599, 2656, 2714, 2774, 2834, 2896, 2960, 3025, 3091, 3158, 3228,
         3298, 3371, 3444, 3520, 3597, 3676, 3756, 3838, 3922, 4008>>
QM4 == <<0, -20456, -12896, -8968, -6288, -4240, -2584, -1200, 20456, 12896,
         8968, 6288, 4240, 2584, 1200, 0>>
QM6 == <<-136, -136, -136, -136, -24808, -21904, -19008, -16704, -14984,
         -13512, -12280, -11192, -10232, -9360, -8576, -7856, -7192, -6576,
         -6000, -5456, -4944, -4464, -4008, -3576, -3168, -2776, -2400, -2032,
         -1688, -1360, -1040, -728, 24808, 21904, 19008, 16704, 14984, 13512,
         12280, 11192, 10232, 9360, 8576, 7856, 7192, 6576, 6000, 5456, 4944,
         4464, 4008, 3576, 3168, 2776, 2400, 2032, 1688, 1360, 1040, 728, 432,
         136, -432, -136>>
QM2 == <<-7408, -1616, 7408, 1616>>
WH == [small |-> -214, large |-> 798]

-----------------------------------------------------------------------------
(* One band *)

Limited(x, low, high) == IF x < low THEN low ELSE IF x > high THEN high ELSE x
saturate(x) == Limited(x, -32768, 32767)

SumTo(n, term(_)) ==
    LET sum[i \in 0 .. n] == IF i = 0 THEN 0 ELSE sum[i - 1] + term(i)
    IN  sum[n]

NewBand(det) ==
    [s |-> 0, sz |-> 0, nb |-> 0, det |-> det, r |-> <<0, 0>>, p |-> <<0, 0>>,
     a |-> <<0, 0>>, b |-> [i \in 1 .. 6 |-> 0], d |-> [i \in 1 .. 6 |-> 0]]

\* Blocks 3L and 3H: the log scale factor leaks, moves by w, and gives det.
scale(band, w, max_nb, shift) ==
    LET nb    == Limited((band.nb * 127) \div 128 + w, 0, max_nb)
        ilb   == ILB[((nb \div 64) % 32) + 1]
        right == shift - nb \div 2048
        det   == IF right < 0 THEN ilb * 2^(-right) ELSE ilb \div 2^right
    IN  [band EXCEPT !.nb = nb, !.det = det * 4]

\* Block 4: from the quantized difference d, the next predictor and estimate.
predict(band, d) ==
    LET p0     == saturate(band.sz + d)
        Same(x, y) == (x < 0) = (y < 0)
        Towards(yes, step) == IF yes THEN step ELSE -step
        pole   == Towards(~Same(p0, band.p[1]), saturate(band.a[1] * 4))
        a2     == Limited((IF pole > 32767 THEN 32767 ELSE pole) \div 128
                              + Towards(Same(p0, band.p[2]), 128)
                              + (band.a[2] * 32512) \div 32768,
                          -12288, 12288)
        limit  == saturate(15360 - a2)
        a1     == Limited(saturate(Towards(Same(p0, band.p[1]), 192)
                                       + (band.a[1] * 32640) \div 32768),
                          -limit, limit)
        step   == IF d = 0 THEN 0 ELSE 128
        b      == [i \in 1 .. 6 |->
                      saturate(Towards(Same(band.d[i], d), step)
                                   + (band.b[i] * 32640) \div 32768)]
        ds     == [i \in 1 .. 6 |-> IF i = 1 THEN d ELSE band.d[i - 1]]
        r      == <<saturate(band.s + d), band.r[1]>>
        Tap(coefficient, x) == (coefficient * saturate(x + x)) \div 32768
        sz     == saturate(SumTo(6, LAMBDA i : Tap(b[i], ds[i])))
    IN  [band EXCEPT !.a = <<a1, a2>>, !.b = b, !.d = ds, !.r = r,
                     !.p = <<p0, band.p[1]>>, !.sz = sz,
                     !.s = saturate(saturate(Tap(a1, r[1]) + Tap(a2, r[2])) + sz)]

\* What either side does with the low and the high code of a byte.
LowDifference(band, ilow) == (band.det * QM4[ilow \div 4 + 1]) \div 32768
AdaptLow(band, ilow) ==
    predict(scale(band, WL[RL42(ilow \div 4) + 1], 18432, 8), LowDifference(band, ilow))

HighDifference(band, ihigh) == (band.det * QM2[ihigh + 1]) \div 32768
AdaptHigh(band, ihigh) ==
    predict(scale(band, IF ihigh \in {0, 2} THEN WH.large ELSE WH.small, 22528, 10),
            HighDifference(band, ihigh))

-----------------------------------------------------------------------------
(* The encoder *)

NewEncoder == [x |-> [i \in 1 .. 24 |-> 0], low |-> NewBand(32), high |-> NewBand(8)]

Shifted(x, first, second) == SubSeq(x, 3, 24) \o <<first, second>>
OddTaps(x) == SumTo(12, LAMBDA i : x[2 * i - 1] * QMF[i])
EvenTaps(x) == SumTo(12, LAMBDA i : x[2 * i] * QMF[13 - i])

Magnitude(e) == IF e >= 0 THEN e ELSE -(e + 1)

\* The interval a low difference falls in, 1 to 30.
QuantLow(wd, det) ==
    LET above == {i \in 1 .. 29 : wd < (Q6[i] * det) \div 4096}
    IN  IF above = {} THEN 30 ELSE CHOOSE i \in above : \A j \in above : i <= j

encode_pair(enc, first, second) ==
    LET x     == Shifted(enc.x, first, second)
        el    == saturate((EvenTaps(x) + OddTaps(x)) \div 16384 - enc.low.s)
        eh    == saturate((EvenTaps(x) - OddTaps(x)) \div 16384 - enc.high.s)
        level == QuantLow(Magnitude(el), enc.low.det)
        ilow  == IF el < 0 THEN ILN(level) ELSE ILP(level)
        large == Magnitude(eh) >= (564 * enc.high.det) \div 4096
        ihigh == (IF large THEN 0 ELSE 1) + (IF eh < 0 THEN 0 ELSE 2)
    IN  [enc  |-> [x |-> x, low |-> AdaptLow(enc.low, ilow),
                   high |-> AdaptHigh(enc.high, ihigh)],
         code |-> ihigh * 64 + ilow]

\* The encoder after each of the pairs of samples, itself before the first.
Encoders(enc, samples) ==
    LET after[k \in 0 .. Len(samples) \div 2] ==
            IF k = 0 THEN enc
            ELSE encode_pair(after[k - 1], samples[2 * k - 1], samples[2 * k]).enc
    IN  after

\* The encoder after all of them, and the bytes they gave.
Encoded(enc, samples) ==
    LET pairs == Len(samples) \div 2
        after == Encoders(enc, samples)
    IN  [enc   |-> after[pairs],
         codes |-> [k \in 1 .. pairs |->
                       encode_pair(after[k - 1], samples[2 * k - 1], samples[2 * k]).code]]

-----------------------------------------------------------------------------
(* The decoder *)

NewDecoder == NewEncoder

\* The bands after a byte, and the two samples it gives.
decode_byte(dec, code) ==
    LET ilow  == code % 64
        ihigh == code \div 64
        rlow  == Limited(dec.low.s + (dec.low.det * QM6[ilow + 1]) \div 32768, -16384, 16383)
        rhigh == Limited(dec.high.s + HighDifference(dec.high, ihigh), -16384, 16383)
        x     == Shifted(dec.x, rlow + rhigh, rlow - rhigh)
    IN  [dec |-> [x |-> x, low |-> AdaptLow(dec.low, ilow),
                  high |-> AdaptHigh(dec.high, ihigh)],
         pcm |-> <<saturate(EvenTaps(x) \div 2048), saturate(OddTaps(x) \div 2048)>>]

-----------------------------------------------------------------------------
(* A stream of calls *)

VARIABLES
    encoder,  \* the encoder's delay line and bands
    carried,  \* the odd sample it holds, or NoSample
    codes,    \* bytes not decoded yet
    decoder,  \* the decoder's delay line and bands
    fed,      \* history: every sample encode was given
    played    \* history: every sample decode gave

g722Vars == <<encoder, carried, codes, decoder, fed, played>>

G722Init ==
    /\ encoder = NewEncoder
    /\ carried = NoSample
    /\ codes = <<>>
    /\ decoder = NewDecoder
    /\ fed = <<>>
    /\ played = <<>>

\* A mutant: a held sample is dropped when the next call comes.
HeldForgotten(pcm) == pcm

\* The samples a call works on, with the one held from the call before.
Held(pcm) == IF carried = NoSample THEN pcm ELSE <<carried>> \o pcm

\* AudioEncoder::encode: pairs are coded, an odd sample at the end is held.
encode(pcm) ==
    LET samples == Held(pcm)
        result  == Encoded(encoder, samples)
    IN  /\ Len(fed) + Len(pcm) <= MaxSamples
        /\ encoder' = result.enc
        /\ codes' = codes \o result.codes
        /\ carried' = IF Len(samples) % 2 = 1 THEN samples[Len(samples)] ELSE NoSample
        /\ fed' = fed \o pcm
        /\ UNCHANGED <<decoder, played>>

\* AudioDecoder::decode, byte by byte.
decode ==
    /\ codes # <<>>
    /\ LET result == decode_byte(decoder, Head(codes))
       IN  /\ decoder' = result.dec
           /\ played' = played \o result.pcm
    /\ codes' = Tail(codes)
    /\ UNCHANGED <<encoder, carried, fed>>

G722Next == (\E pcm \in Calls : encode(pcm)) \/ decode

-----------------------------------------------------------------------------
(* Properties *)

\* However the samples are cut into calls, once every byte is decoded both of
\* the decoder's adaptive predictors are exactly those of an encoder given the
\* samples in one call, and every sample but an odd last one has been played.
InStep ==
    codes = <<>> =>
        LET whole == Encoded(NewEncoder, fed).enc
        IN  /\ decoder.low = whole.low /\ decoder.high = whole.high
            /\ Len(played) = 2 * (Len(fed) \div 2)
=============================================================================
