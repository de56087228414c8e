---------------------------- MODULE MCSessionTx -----------------------------
(* Model checking of SessionTx.                                            *)
EXTENDS SessionTx
=============================================================================
