------------------------------ MODULE G729Frame -----------------------------
(***************************************************************************)
(* The ten-byte frame of src/codec/g729.rs: what encode_frame packs for    *)
(* its two subframes and what decode_frame reads back.                     *)
(*                                                                         *)
(* The analysis and the synthesis are in floating point and left out: an   *)
(* encoder may find any lag the pitch search can return, any gain indices  *)
(* and any fixed codebook index, and any four LSP deltas.                  *)
(***************************************************************************)
EXTENDS Integers, Sequences

CONSTANTS
    Lags,   \* pitch lags the search may return, PitchMin .. PitchMax
    Gains,  \* pitch gain indices, three bits
    Fixed,  \* fixed codebook indices, thirteen bits
    Codes   \* codebook gain indices and LSP deltas, four bits

PitchMin == 20
PitchMax == 143

LeastOf(x, y) == IF x < y THEN x ELSE y

Subframe == [lag : Lags, gain_p : Gains, fixed : Fixed, gain_c : Codes]

VARIABLES
    sound,    \* what the encoder found: LSP deltas and two subframes
    frame,    \* the bytes of the frame, indexed from 0, or <<>>
    restored  \* the same, as the decoder read it, or <<>>

frameVars == <<sound, frame, restored>>

FrameInit ==
    /\ sound \in [lsp : [1 .. 4 -> Codes], first : Subframe, second : Subframe]
    /\ frame = <<>>
    /\ restored = <<>>

\* The index a lag is coded by.
pitch_idx(lag) == LeastOf(lag - PitchMin, 127)

encode_frame ==
    LET one == sound.first
        two == sound.second
    IN  /\ frame = <<>>
        /\ frame' =
              [i \in 0 .. 9 |->
                  CASE i = 0 -> sound.lsp[2] * 16 + sound.lsp[1]
                    [] i = 1 -> sound.lsp[4] * 16 + sound.lsp[3]
                    [] i = 2 -> pitch_idx(one.lag)
                    [] i = 3 -> one.gain_p * 32 + one.fixed \div 256
                    [] i = 4 -> one.fixed % 256
                    [] i = 5 -> one.gain_c * 16 + pitch_idx(two.lag) \div 16
                    [] i = 6 -> (pitch_idx(two.lag) % 16) * 16 + two.gain_p * 2
                                    + two.fixed \div 4096
                    [] i = 7 -> (two.fixed \div 16) % 256
                    [] i = 8 -> (two.fixed % 16) * 16 + two.gain_c
                    [] i = 9 -> 0]
        /\ UNCHANGED <<sound, restored>>

\* x | y, for y under 64 and x a multiple of 16.
Or(x, y) ==
    LET Bit(n, i) == (n \div 2^i) % 2
        Joined(i) == IF Bit(x, i) = 1 \/ Bit(y, i) = 1 THEN 2^i ELSE 0
    IN  (x \div 64) * 64 + Joined(5) + Joined(4) + (y % 16)

\* The lag of the second subframe: + binds tighter than |, so the offset is
\* added to the low nibble before the high one is joined to it.
second_lag == Or((frame[5] % 16) * 16, frame[6] \div 16 + PitchMin)

decode_frame ==
    /\ frame # <<>> /\ restored = <<>>
    /\ restored' =
          [lsp    |-> <<frame[0] % 16, frame[0] \div 16, frame[1] % 16, frame[1] \div 16>>,
           first  |-> [lag    |-> LeastOf(frame[2] + PitchMin, PitchMax),
                       gain_p |-> frame[3] \div 32,
                       fixed  |-> (frame[3] % 32) * 256 + frame[4],
                       gain_c |-> frame[5] \div 16],
           second |-> [lag    |-> LeastOf(second_lag, PitchMax),
                       gain_p |-> (frame[6] \div 2) % 8,
                       fixed  |-> (frame[6] % 2) * 4096 + frame[7] * 16 + frame[8] \div 16,
                       gain_c |-> frame[8] % 16]]
    /\ UNCHANGED <<sound, frame>>

FrameNext == encode_frame \/ decode_frame

FrameSpec == FrameInit /\ [][FrameNext]_frameVars

-----------------------------------------------------------------------------
(* Properties *)

\* The decoder works on what the encoder found, "the pitch lag directly": no
\* field of the frame is lost or changed between encode_frame and
\* decode_frame.
FrameSurvives == restored # <<>> => restored = sound
=============================================================================
