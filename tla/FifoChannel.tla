---------------------------- MODULE FifoChannel ----------------------------
(***************************************************************************)
(* What each queue of the YFTP server promises: whatever enters comes out  *)
(* at most once, in the order it entered, and never changed.  The request  *)
(* queue of LogicSystem, and Session's sending and receiving, implement it.*)
(***************************************************************************)
EXTENDS Naturals, Sequences

CONSTANT Items  (* what may travel through the channel                     *)

VARIABLES entered,  (* everything that entered, oldest first               *)
          left      (* everything that came out, oldest first              *)

channel == <<entered, left>>

Init == entered = <<>> /\ left = <<>>

Enter == \E x \in Items : entered' = Append(entered, x) /\ UNCHANGED left

(* The next item out is the oldest one still inside.                       *)
Leave ==
    /\ Len(left) < Len(entered)
    /\ left' = Append(left, entered[Len(left) + 1])
    /\ UNCHANGED entered

Next == Enter \/ Leave

Spec == Init /\ [][Next]_channel
=============================================================================
