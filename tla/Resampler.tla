------------------------------ MODULE Resampler -----------------------------
(***************************************************************************)
(* StreamResampler of src/resample.rs: input in calls of any length is cut *)
(* into chunks, the rest waits for the next call.                          *)
(*                                                                         *)
(* Input samples are numbered from 1 and an output sample is the number of *)
(* the input sample it starts to interpolate from, so that order and time  *)
(* can be told.  The polynomial resampler (rubato) is external: it carries *)
(* its position from chunk to chunk and gives the samples that fall into   *)
(* each; it may also fail, and the chunk then goes through                 *)
(* resample_linear_simple.                                                 *)
(***************************************************************************)
EXTENDS Integers, Sequences, FiniteSets

CONSTANTS
    Ratios,       \* <<from_rate, to_rate>>
    Chunk,        \* chunk_size
    Inputs,       \* lengths a call may have
    MaxResampled  \* bound: input samples

\* A chunk (20 ms) is no shorter than the input of one output sample.
ASSUME ResamplerAssumption ==
    /\ Ratios \subseteq (Nat \ {0}) \X (Nat \ {0})
    /\ Chunk \in Nat \ {0} /\ Inputs \subseteq Nat
    /\ \A pair \in Ratios : pair[1] <= Chunk * pair[2]

CeilDiv(x, y) == (x + y - 1) \div y

VARIABLES
    rates,     \* from_rate and to_rate, or <<>>
    rest,      \* remainder
    given,     \* input samples so far
    consumed,  \* of those, the ones rubato has taken
    output,    \* everything returned so far
    failed,    \* history: some chunk went through the fallback
    flushed    \* flush has been called

resampleVars == <<rates, rest, given, consumed, output, failed, flushed>>

ResampleInit ==
    /\ rates = <<>> /\ rest = <<>> /\ given = 0 /\ consumed = 0 /\ output = <<>>
    /\ failed = FALSE /\ flushed = FALSE

\* StreamResampler::new.
New(pair) ==
    /\ rates = <<>>
    /\ rates' = pair
    /\ UNCHANGED <<rest, given, consumed, output, failed, flushed>>

\* resample_linear_simple: from the start of what it is given.
resample_linear_simple(samples) ==
    [i \in 1 .. CeilDiv(Len(samples) * rates[2], rates[1]) |->
        samples[((i - 1) * rates[1]) \div rates[2] + 1]]

\* process_chunk: rubato's position is that of all it took before (external).
process_chunk(chunk, before) ==
    LET first == CeilDiv(before * rates[2], rates[1])
        end   == CeilDiv((before + Len(chunk)) * rates[2], rates[1])
    IN  [i \in 1 .. end - first |->
            chunk[((first + i - 1) * rates[1]) \div rates[2] - before + 1]]

\* A mutant: what is left of a call is dropped when the next one comes.
RestForgotten(input) == input

\* What the last call left comes before its input.
Remainder(input) == rest \o input

\* The k-th chunk of a call, and what rubato has taken by its end: it fails
\* on the chunks in bad.
Cut(samples, k) == SubSeq(samples, (k - 1) * Chunk + 1, k * Chunk)
Taken(k, bad) == consumed + Chunk * Cardinality((1 .. k) \ bad)

\* What a call has returned after each of its chunks, in order.
Processed(samples, bad) ==
    LET all[k \in 0 .. Len(samples) \div Chunk] ==
            IF k = 0 THEN <<>>
            ELSE all[k - 1] \o (IF k \in bad THEN resample_linear_simple(Cut(samples, k))
                                ELSE process_chunk(Cut(samples, k), Taken(k - 1, bad)))
    IN  all

resample(n, bad) ==
    LET input   == [i \in 1 .. n |-> given + i]
        samples == Remainder(input)
        chunks  == Len(samples) \div Chunk
    IN  /\ rates # <<>> /\ ~flushed /\ given + n <= MaxResampled
        /\ given' = given + n
        /\ IF rates[1] = rates[2]
           THEN output' = output \o input /\ UNCHANGED <<rest, consumed, failed>>
           ELSE /\ bad \subseteq 1 .. chunks
                /\ output' = output \o Processed(samples, bad)[chunks]
                /\ rest' = SubSeq(samples, chunks * Chunk + 1, Len(samples))
                /\ consumed' = Taken(chunks, bad)
                /\ failed' = (failed \/ bad # {})
        /\ UNCHANGED <<rates, flushed>>

flush ==
    /\ rates # <<>> /\ ~flushed
    /\ flushed' = TRUE
    /\ rest' = <<>>
    /\ output' = output \o resample_linear_simple(rest)
    /\ UNCHANGED <<rates, given, consumed, failed>>

ResampleNext ==
    \/ \E pair \in Ratios : New(pair)
    \/ \E n \in Inputs : \E bad \in SUBSET (1 .. (Chunk - 1 + n) \div Chunk) : resample(n, bad)
    \/ flush

-----------------------------------------------------------------------------
(* Properties *)

\* However the input is cut into calls, the output is in order and in time: no
\* two neighbours are further apart than the rates allow (after a chunk that
\* failed, than nearly twice that: rubato's position has no part of it),
\* without a failed chunk every output sample stands for the input of its own
\* instant, less than a chunk of input waits, and a flush leaves nothing
\* unheard.
ResampledInTime ==
    rates # <<>> =>
        LET stride == CeilDiv(rates[1], rates[2])
        IN  /\ Len(rest) < Chunk
            /\ \A i \in 1 .. Len(output) - 1 :
                  output[i + 1] - output[i] \in 0 .. (IF failed THEN 2 * stride - 1 ELSE stride)
            /\ ~failed /\ ~flushed =>
                  \A i \in DOMAIN output : output[i] = ((i - 1) * rates[1]) \div rates[2] + 1
            /\ flushed /\ given > 0 =>
                  output # <<>> /\ given - output[Len(output)] < stride
=============================================================================
