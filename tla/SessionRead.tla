---------------------------- MODULE SessionRead ----------------------------
(***************************************************************************)
(* The receiving half of a Session (server/src/Session.cpp) and of a       *)
(* ClientSession (client/include/ClientSession.hpp): handleRead() cuts the *)
(* byte stream of one connection, which TCP delivers in chunks of any size,*)
(* into frames of a header (id, length) and a body, and passes each        *)
(* complete one on ("posts" it: to LogicSystem, or to processMessage).     *)
(* One step is one iteration of its while loop: it posts at most one frame,*)
(* which is all another thread sees of it.                                 *)
(*                                                                         *)
(* A byte is <<f, j>>: the j-th byte of the f-th frame the peer sent.  Its *)
(* value does not matter except in a header, where it is what the peer's   *)
(* SendNode wrote if the bytes are those of one header, and anything if    *)
(* the reader has lost its place in the stream.                            *)
(***************************************************************************)
EXTENDS Integers, Sequences

CONSTANTS HeadLen,    (* HEAD_TOTAL_LEN                                    *)
          MaxLength,  (* MAX_LENGTH: the size of data_ and of a body       *)
          Lens,       (* the lengths a header may announce (a short)       *)
          MaxFrames   (* bound: frames the peer sends                      *)

ASSUME HeadLenAssumption == HeadLen \in Nat \ {0}
ASSUME MaxLengthAssumption == MaxLength \in Nat \ {0}
ASSUME LensAssumption == Lens \subseteq Int
ASSUME MaxFramesAssumption == MaxFrames \in Nat

VARIABLES
  side,          (* whose handleRead this is: constant                     *)
  sent,          (* history: the frames the peer sent                      *)
  pipe,          (* the bytes on their way                                 *)
  reader,        (* what the session's io thread does with the stream      *)
  data,          (* data_ from copy_len on: the bytes handleRead still has *)
  b_head_parse,  (* Session::b_head_parse_: a header is complete           *)
  head,          (* recv_head_node_ up to its cur_len_                     *)
  msg,           (* recv_msg_node_                                         *)
  posted         (* history: what went to LogicSystem::postMsgToQue        *)

vars == <<side, sent, pipe, reader, data, b_head_parse, head, msg, posted>>

-----------------------------------------------------------------------------
(* An id is invalid when it exceeds MAX_LENGTH.                            *)
Frame == [id : {"valid", "invalid"}, len : Lens]

BodyLen(f) == IF f.len < 0 THEN 0 ELSE f.len

Bytes == (1..MaxFrames) \X Nat

(* The bytes of the i-th frame, and of its body alone.                     *)
FrameBytes(i, f) == [j \in 1..(HeadLen + BodyLen(f)) |-> <<i, j>>]
BodyBytes(i, f) == [j \in 1..BodyLen(f) |-> <<i, HeadLen + j>>]

(* The server's handleRead tests the id and the length, the client's takes *)
(* any; a negative length passes both tests.  RecvNode then allocates len+1*)
(* bytes, which is an error for a length below -1, and none at all for -1. *)
Rejected(f) == side = "server" /\ (f.id = "invalid" \/ f.len > MaxLength)
Allocated(f) == ~Rejected(f) /\ f.len >= -1
Valid(f) == ~Rejected(f) /\ f.len >= 0

(* bytes_transferred < len, where bytes_transferred is a size_t: a negative*)
(* len becomes larger than any count.                                      *)
Fewer(n, len) == len < 0 \/ n < len

(* The bound: the largest cur_len_ (a short), which only a body longer than*)
(* its buffer can exceed.                                                  *)
MaxCurLen == 32767

(* What the id and the length read from HeadLen bytes may be.              *)
Decoded(h) ==
  {f \in Frame : \A i \in DOMAIN sent :
                   h = SubSeq(FrameBytes(i, sent[i]), 1, HeadLen) => f = sent[i]}

(* How the reader ended: a read failed and the session was closed and      *)
(* cleared; a header was rejected and the session cleared; an exception    *)
(* was caught and nothing done; the process died.                          *)
Ended == {"closed", "cleared", "stalled", "crashed"}

TypeOK ==
  /\ side \in {"server", "client"}
  /\ sent \in Seq(Frame) /\ Len(sent) <= MaxFrames
  /\ pipe \in Seq(Bytes)
  /\ reader \in {"armed", "running"} \cup Ended
  /\ data \in Seq(Bytes)
  /\ b_head_parse \in BOOLEAN
  /\ head \in Seq(Bytes)
  /\ msg \in [len : Lens \cup {0}, body : Seq(Bytes)]
  /\ posted \in Seq(Seq(Bytes))

(* start(): the first read is armed, nothing parsed.                       *)
Init ==
  /\ side \in {"server", "client"}
  /\ sent = <<>>
  /\ pipe = <<>>
  /\ reader = "armed"
  /\ data = <<>>
  /\ b_head_parse = FALSE
  /\ head = <<>>
  /\ msg = [len |-> 0, body |-> <<>>]
  /\ posted = <<>>

-----------------------------------------------------------------------------
(* Take(q, n) and Drop(q, n) split q after its n-th byte.                  *)
Take(q, n) == SubSeq(q, 1, n)
Drop(q, n) == SubSeq(q, n + 1, Len(q))

(* The peer sends a frame.                                                 *)
PeerSends(f) ==
  /\ Len(sent) < MaxFrames
  /\ sent' = Append(sent, f)
  /\ pipe' = pipe \o FrameBytes(Len(sent'), f)
  /\ UNCHANGED <<side, reader, data, b_head_parse, head, msg, posted>>

(* async_read_some ends with n bytes: handleRead starts.                   *)
ReadSome(n) ==
  /\ reader = "armed"
  /\ reader' = "running"
  /\ data' = Take(pipe, n)
  /\ pipe' = Drop(pipe, n)
  /\ UNCHANGED <<side, sent, b_head_parse, head, msg, posted>>

(* async_read_some ends with an error: close() and clearSession.           *)
ReadError ==
  /\ reader = "armed"
  /\ reader' = "closed"
  /\ UNCHANGED <<side, sent, pipe, data, b_head_parse, head, msg, posted>>

-----------------------------------------------------------------------------
(* handleRead returns having consumed what it was given, a read armed, or  *)
(* goes round its loop with what is left.                                  *)
ReadOn(rest) ==
  /\ data' = rest
  /\ reader' = IF rest = <<>> THEN "armed" ELSE "running"

(* The rest of the chunk is not enough for a header.                       *)
HeadPartial ==
  /\ reader = "running"
  /\ ~b_head_parse
  /\ Len(head) + Len(data) < HeadLen
  /\ head' = head \o data
  /\ ReadOn(<<>>)
  /\ UNCHANGED <<side, sent, pipe, b_head_parse, msg, posted>>

(* The header is completed: its bytes, what follows them, what it says.    *)
HeadRemain == HeadLen - Len(head)
HeadComplete == reader = "running" /\ ~b_head_parse /\ Len(data) >= HeadRemain
Header == Decoded(head \o Take(data, HeadRemain))
AfterHead == Drop(data, HeadRemain)

(* An invalid id or a length beyond MAX_LENGTH: clearSession, no read is   *)
(* armed, the socket stays open until the session is destroyed.            *)
HeadRejected ==
  /\ HeadComplete
  /\ \E f \in Header : Rejected(f)
  /\ reader' = "cleared"
  /\ data' = <<>>
  /\ UNCHANGED <<side, sent, pipe, b_head_parse, head, msg, posted>>

(* Slip: no try block, the exception leaves the io thread.                 *)
HeadThrowsUncaught ==
  /\ HeadComplete
  /\ \E f \in Header : ~Rejected(f) /\ ~Allocated(f)
  /\ reader' = "terminated"
  /\ data' = <<>>
  /\ UNCHANGED <<side, sent, pipe, b_head_parse, head, msg, posted>>

(* A length below -1: RecvNode's new[] throws, handleRead catches, and     *)
(* neither arms a read nor clears the session.                             *)
HeadThrows ==
  /\ HeadComplete
  /\ \E f \in Header : ~Rejected(f) /\ ~Allocated(f)
  /\ reader' = "stalled"
  /\ data' = <<>>
  /\ UNCHANGED <<side, sent, pipe, b_head_parse, head, msg, posted>>

(* The chunk ends inside the body (or right before it), or the length is -1*)
(* and all that follows is taken for the body, in a buffer of 0 bytes.     *)
BodyBegins ==
  /\ HeadComplete
  /\ \E f \in Header :
       /\ Allocated(f)
       /\ Fewer(Len(AfterHead), f.len)
       /\ msg' = [len |-> f.len, body |-> AfterHead]
  /\ b_head_parse' = TRUE
  /\ ReadOn(<<>>)
  /\ UNCHANGED <<side, sent, pipe, head, posted>>

(* Slip: the next header is expected where the last one was completed, the *)
(* bytes kept in recv_head_node_ not cleared.                              *)
PostKeepingHead(m, rest) ==
  /\ msg' = m
  /\ posted' = Append(posted, m.body)
  /\ b_head_parse' = FALSE
  /\ UNCHANGED head
  /\ ReadOn(rest)

(* Slip: the handler returns after a frame and drops the rest of the chunk.*)
PostDroppingRest(m, rest) ==
  /\ msg' = m
  /\ posted' = Append(posted, m.body)
  /\ b_head_parse' = FALSE
  /\ head' = <<>>
  /\ ReadOn(<<>>)

(* Slip: the handler returns after a frame and arms no read.               *)
PostWithoutRearm(m, rest) ==
  /\ msg' = m
  /\ posted' = Append(posted, m.body)
  /\ b_head_parse' = FALSE
  /\ head' = <<>>
  /\ data' = rest
  /\ reader' = "running"

(* A body is complete: post the frame and start the next one.              *)
PostFrame(m, rest) ==
  /\ msg' = m
  /\ posted' = Append(posted, m.body)
  /\ b_head_parse' = FALSE
  /\ head' = <<>>
  /\ ReadOn(rest)

(* The chunk holds the whole body.                                         *)
BodyWhole ==
  /\ HeadComplete
  /\ \E f \in Header :
       /\ Allocated(f)
       /\ ~Fewer(Len(AfterHead), f.len)
       /\ PostFrame([len |-> f.len, body |-> Take(AfterHead, f.len)],
                    Drop(AfterHead, f.len))
  /\ UNCHANGED <<side, sent, pipe>>

BodyRemain == msg.len - Len(msg.body)
InBody == reader = "running" /\ b_head_parse

(* Slip: the chunk is compared with the whole body, not with what is left. *)
BodyPartialUnadjusted ==
  /\ InBody
  /\ Fewer(Len(data), msg.len)
  /\ msg' = [msg EXCEPT !.body = @ \o data]
  /\ ReadOn(<<>>)
  /\ UNCHANGED <<side, sent, pipe, b_head_parse, head, posted>>

(* The chunk ends inside a body begun in an earlier one.  What is left of a*)
(* body of length -1 is negative, and never ends.                          *)
BodyPartial ==
  /\ InBody
  /\ Fewer(Len(data), BodyRemain)
  /\ Len(msg.body) + Len(data) <= MaxCurLen
  /\ msg' = [msg EXCEPT !.body = @ \o data]
  /\ ReadOn(<<>>)
  /\ UNCHANGED <<side, sent, pipe, b_head_parse, head, posted>>

(* Slip: the last chunk is taken for the whole body.                       *)
BodyEndsUnadjusted ==
  /\ InBody
  /\ ~Fewer(Len(data), msg.len)
  /\ PostFrame([msg EXCEPT !.body = @ \o Take(data, msg.len)], Drop(data, msg.len))
  /\ UNCHANGED <<side, sent, pipe>>

(* The chunk completes the body.                                           *)
BodyEnds ==
  /\ InBody
  /\ ~Fewer(Len(data), BodyRemain)
  /\ PostFrame([msg EXCEPT !.body = @ \o Take(data, BodyRemain)], Drop(data, BodyRemain))
  /\ UNCHANGED <<side, sent, pipe>>

(* A RecvNode of length -1 has a buffer of 0 bytes, and its constructor and*)
(* every chunk write outside it.  That is undefined: the process may die of*)
(* it at any later moment, or go on taking what arrives for the body.      *)
Crashes ==
  /\ reader \in {"armed", "running"}
  /\ msg.len < 0
  /\ reader' = "crashed"
  /\ data' = <<>>
  /\ UNCHANGED <<side, sent, pipe, b_head_parse, head, msg, posted>>

-----------------------------------------------------------------------------
(* while (bytes_transferred > 0)                                           *)
HandleRead ==
  /\ data # <<>>
  /\ \/ HeadPartial \/ HeadRejected \/ HeadThrows
     \/ BodyBegins \/ BodyWhole \/ BodyPartial \/ BodyEnds

Kernel == \E n \in 1..MaxLength : n <= Len(pipe) /\ ReadSome(n)

Next ==
  \/ \E f \in Frame : PeerSends(f)
  \/ Kernel
  \/ ReadError
  \/ HandleRead
  \/ Crashes

(* A handler that has started runs to its end; bytes that have arrived     *)
(* complete an armed read.                                                 *)
Fairness == WF_vars(HandleRead) /\ WF_vars(Kernel)

SafetySpec == Init /\ [][Next]_vars

Spec == SafetySpec /\ Fairness

-----------------------------------------------------------------------------
(* Properties.                                                             *)

(* However the stream was cut into chunks, the frames posted are the first *)
(* frames sent, each with exactly its own body: the reader never loses its *)
(* place, not even across an empty body or a header split between reads.   *)
PostedAreSent ==
  /\ Len(posted) <= Len(sent)
  /\ \A i \in DOMAIN posted : Valid(sent[i]) /\ posted[i] = BodyBytes(i, sent[i])

(* The frame after the posted ones: the one a reader that is given up, or  *)
(* is inside a body, has come to.                                          *)
Awaited == sent[Len(posted) + 1]

(* The only memcpy of handleRead that leaves its buffer is that of a body  *)
(* whose header the peer sent with a length of -1; then the reader is      *)
(* inside that body.  Otherwise recv_head_node_ holds less than a header   *)
(* between iterations, an unfinished recv_msg_node_ less than its          *)
(* total_len_, data_ at most a chunk.                                      *)
OverrunExplained ==
  /\ Len(head) < HeadLen
  /\ Len(data) <= MaxLength
  /\ b_head_parse /\ msg.len >= 0 => Len(msg.body) < msg.len
  /\ Len(msg.body) > msg.len =>
       /\ b_head_parse
       /\ Len(posted) < Len(sent)
       /\ ~Rejected(Awaited) /\ Awaited.len = -1

(* A session is dropped or stalls, or the process dies of it, only for a   *)
(* header the peer sent, that of the frame after the posted ones, and which*)
(* of the three it is the header decides.                                  *)
DroppedForACause ==
  reader \in {"cleared", "stalled", "crashed"} =>
    /\ Len(posted) < Len(sent)
    /\ reader = "cleared" <=> Rejected(Awaited)
    /\ reader = "stalled" <=> ~Rejected(Awaited) /\ ~Allocated(Awaited)
    /\ reader = "crashed" <=> Allocated(Awaited) /\ ~Valid(Awaited)

(* The framing implements the channel that delivers at most once, in order *)
(* and unchanged: entered are the bodies sent, left those posted.          *)
Bodies == {BodyBytes(i, f) : i \in 1..MaxFrames, f \in Frame}
Channel == INSTANCE FifoChannel
  WITH Items <- Bodies,
       entered <- [i \in DOMAIN sent |-> BodyBytes(i, sent[i])],
       left <- posted
FramesInOrder == Channel!Spec

(* Every valid frame that follows only valid ones is eventually posted,    *)
(* unless a read fails.                                                    *)
EveryFramePosted ==
  \A i \in 1..MaxFrames :
    (Len(sent) >= i /\ \A k \in 1..i : k \in DOMAIN sent /\ Valid(sent[k]))
      ~> (Len(posted) >= i \/ reader = "closed")
=============================================================================
