------------------------------ MODULE MCClient ------------------------------
(* Client for TLC: the constants have their values in the cfg files.       *)
EXTENDS Client
=============================================================================
