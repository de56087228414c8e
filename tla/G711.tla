-------------------------------- MODULE G711 --------------------------------
(***************************************************************************)
(* The two companding laws of src/codec/g711.rs, and the hops of a call.   *)
(*                                                                         *)
(* A sample is coded to a byte and expanded again; in a conference or a    *)
(* bridge the expanded sample is coded once more, by either law, any       *)
(* number of times.  Shifts and masks are written as divisions; a byte's   *)
(* complement is 255 - b.  The sign of A-law is bit 7, and the 0x55 that   *)
(* inverts the even bits of the others is Inverted.                        *)
(***************************************************************************)
EXTENDS Integers

CONSTANT Spoken  \* the 16-bit samples a speaker may say

ASSUME SpokenAssumption == Spoken \subseteq -32768 .. 32767

Abs16(sample) ==
    IF sample = -32768 THEN 32767 ELSE IF sample < 0 THEN -sample ELSE sample

-----------------------------------------------------------------------------
(* mu-law *)

Bias == 132

linear_to_ulaw(sample) ==
    LET sum      == Abs16(sample) + Bias
        pcm      == IF sum > 32767 THEN 32767 ELSE sum
        exponent == CHOOSE e \in 0 .. 7 :
                        /\ e = 0 \/ pcm >= 2^(e + 7)
                        /\ e = 7 \/ pcm < 2^(e + 8)
        mantissa == (pcm \div 2^(exponent + 3)) % 16
    IN  255 - ((IF sample < 0 THEN 128 ELSE 0) + exponent * 16 + mantissa)

\* A mutant: the bias is not taken off again.
BiasKept(byte) ==
    LET ulaw   == 255 - byte
        sample == ((ulaw % 16) * 8 + Bias) * 2^((ulaw \div 16) % 8)
    IN  IF ulaw >= 128 THEN -sample ELSE sample

ulaw_to_linear(byte) ==
    LET ulaw     == 255 - byte
        exponent == (ulaw \div 16) % 8
        sample   == ((ulaw % 16) * 8 + Bias) * 2^exponent - Bias
    IN  IF ulaw >= 128 THEN -sample ELSE sample

-----------------------------------------------------------------------------
(* A-law *)

\* The last value of each segment, 0x1F to 0xFFF.
SegEnd(seg) == 2^(seg + 5) - 1

\* x XOR 0x55 on the seven bits below the sign.
Inverted ==
    [x \in 0 .. 127 |->
        LET Flip(i) == IF i % 2 = (x \div 2^i) % 2 THEN 1 ELSE 0
        IN  Flip(0) + 2 * Flip(1) + 4 * Flip(2) + 8 * Flip(3)
                + 16 * Flip(4) + 32 * Flip(5) + 64 * Flip(6)]

linear_to_alaw(sample) ==
    LET pcm  == Abs16(sample) \div 8
        seg  == CHOOSE s \in 0 .. 7 : pcm <= SegEnd(s) /\ (s = 0 \/ pcm > SegEnd(s - 1))
        aval == IF seg < 2 THEN pcm \div 2 ELSE seg * 16 + ((pcm \div 2^seg) % 16)
    IN  Inverted[aval] + (IF sample >= 0 THEN 128 ELSE 0)

alaw_to_linear(byte) ==
    LET alaw   == Inverted[byte % 128]
        seg    == alaw \div 16
        value  == (alaw % 16) * 2 + 1
        sample == IF seg = 0 THEN value * 8 ELSE (value + 32) * 2^(seg + 2)
    IN  IF byte >= 128 THEN sample ELSE -sample

-----------------------------------------------------------------------------
(* The hops of one sample *)

Companded(law, sample) ==
    IF law = "PCMU" THEN ulaw_to_linear(linear_to_ulaw(sample))
                    ELSE alaw_to_linear(linear_to_alaw(sample))

VARIABLES
    spoken,  \* the sample the speaker said
    heard,   \* the sample after the last hop
    law      \* the law of the last hop, or "none"

g711Vars == <<spoken, heard, law>>

G711Init == spoken = 0 /\ heard = 0 /\ law = "none"

Speak ==
    /\ law = "none" /\ spoken = 0
    /\ spoken' \in Spoken
    /\ heard' = spoken'
    /\ UNCHANGED law

\* encode by one end and decode by the other.
Hop(next) ==
    /\ law' = next
    /\ heard' = Companded(next, heard)
    /\ UNCHANGED spoken

G711Next ==
    \/ Speak
    \/ \E next \in {"PCMU", "PCMA"} : Hop(next)

-----------------------------------------------------------------------------
(* Properties *)

Distance(x, y) == IF x < y THEN y - x ELSE x - y

\* However often a sample is coded and expanded, by the two laws in any order,
\* it stays within a sixteenth of its size (and 16) of what was spoken, and a
\* second hop by the same law changes nothing: the errors of hops do not add
\* up.
TandemStable ==
    /\ 16 * Distance(heard, spoken) <= Abs16(spoken) + 256
    /\ law # "none" => Companded(law, heard) = heard
=============================================================================
