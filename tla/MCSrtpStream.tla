---------------------------- MODULE MCSrtpStream ----------------------------
(* Model checking of SrtpStream.                                           *)
EXTENDS SrtpStream
=============================================================================
