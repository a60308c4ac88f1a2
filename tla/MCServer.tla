------------------------------ MODULE MCServer ------------------------------
(* Server for TLC: the constants have their values in the cfg file.        *)
EXTENDS Server
=============================================================================
