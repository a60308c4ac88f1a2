------------------------------- MODULE Codec -------------------------------
(***************************************************************************)
(* What becomes of the length of a message on its way (MsgNode.hpp and     *)
(* MsgNode.cpp, the same on the client): SendNode takes it for a short,    *)
(* adds the header in a short, allocates and copies.  The caller passes    *)
(* msg.length(), of any size; the receiver reads a short back.             *)
(***************************************************************************)
EXTENDS Integers

HeadTotalLen == 4     (* HEAD_TOTAL_LEN                                    *)
MaxLength    == 2048  (* MAX_LENGTH                                        *)

(* The value of n in a 16-bit signed integer.                              *)
Short(n) == ((n + 32768) % 65536) - 32768

(* SendNode's max_len, and the total_len_ of its MsgNode.                  *)
BodyLen(n)  == Short(n)
TotalLen(n) == Short(BodyLen(n) + HeadTotalLen)

(* Slip: MsgNode keeps its length in an int.                               *)
ThrowsNever(n) == FALSE

(* new char[total_len_ + 1] of a negative size throws.                     *)
Throws(n) == TotalLen(n) + 1 < 0

(* A node is allocated but the body is copied with a negative length, which*)
(* memcpy takes for nearly 2^64.                                           *)
Crashes(n) == ~Throws(n) /\ BodyLen(n) < 0

Sends(n) == ~Throws(n) /\ BodyLen(n) >= 0

(* Only the first BodyLen(n) bytes of the message leave.                   *)
Cut(n) == Sends(n) /\ BodyLen(n) # n

(* Session::handleRead on a header that announces len: its test, and the   *)
(* allocation in RecvNode.                                                 *)
Refused(len)    == len > MaxLength
RecvThrows(len) == len + 1 < 0
=============================================================================
