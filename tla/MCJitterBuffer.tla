--------------------------- MODULE MCJitterBuffer ---------------------------
(* Model checking of JitterBuffer with arbitrary pushes.                   *)
EXTENDS JitterBuffer
=============================================================================
