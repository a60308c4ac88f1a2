--------------------------- MODULE MCLogicSystem ---------------------------
(* LogicSystem with two clients, for TLC.                                  *)
EXTENDS LogicSystem, TLC

CONSTANTS s1, s2

(* The clients are interchangeable: they differ by nothing but their name. *)
Symmetry == Permutations({s1, s2})
=============================================================================
