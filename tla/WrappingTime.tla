---------------------------- MODULE WrappingTime ----------------------------
(***************************************************************************)
(* RTP timestamps wrap; src/stream.rs orders two event timestamps by the   *)
(* sign of their wrapping 32-bit difference.                               *)
(***************************************************************************)
EXTENDS Integers

CONSTANT TsSpace  \* number of timestamps, 2^32

\* A mutant: timestamps are compared as plain numbers.
AfterPlain(ts, last) == ts > last

\* The difference ts - last, read as a signed number, is positive.
After(ts, last) == (ts - last) % TsSpace \in 1 .. (TsSpace \div 2) - 1
=============================================================================
