-------------------------- MODULE MCStreamReceive ---------------------------
(* Model checking of StreamReceive.                                        *)
EXTENDS StreamReceive
=============================================================================
