--------------------------- MODULE MCSessionSend ---------------------------
(* SessionSend for TLC: the constants have their values in the cfg files.  *)
EXTENDS SessionSend
=============================================================================
