--------------------------- MODULE MCSessionRead ---------------------------
(* SessionRead for TLC.                                                    *)
EXTENDS SessionRead

CONSTANT Longest  (* lengths reach one beyond MaxLength                    *)

(* An empty body, one byte, exactly MaxLength, one too many; a negative    *)
(* length (header of a frame of 32 KiB and more), and the one for which    *)
(* RecvNode has a buffer all the same, of no bytes.                        *)
MCLens == {-2, -1, 0, 1, Longest - 1, Longest}
=============================================================================
