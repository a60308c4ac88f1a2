---------------------------- MODULE SessionSend ----------------------------
(***************************************************************************)
(* The sending half of a Session (server/src/Session.cpp): send(), called  *)
(* by the LogicSystem worker with every reply; the asynchronous writes it  *)
(* starts; handleWrite(), run by the session's io thread when one ends;    *)
(* close(), called by either thread.  The client's ClientSession::send and *)
(* handleWrite (client/include/ClientSession.hpp) have the same control,   *)
(* but for clearSession: there is no server to clear the session from.     *)
(*                                                                         *)
(* A frame is the number of the send() call that made it.  The bytes of a  *)
(* frame go out in Parts pieces, so that a torn or interleaved frame shows *)
(* on the wire.                                                            *)
(***************************************************************************)
EXTENDS Naturals, Sequences, FiniteSets

CONSTANTS MaxSendQue,  (* MAX_SENDQUE                                      *)
          Parts,       (* pieces the socket takes a frame in               *)
          MaxSends     (* bound: calls of send()                           *)

ASSUME MaxSendQueAssumption == MaxSendQue \in Nat
ASSUME PartsAssumption == Parts \in Nat \ {0}
ASSUME MaxSendsAssumption == MaxSends \in Nat

VARIABLES
  send_que,  (* Session::send_que_                                         *)
  writes,    (* the async_write operations whose handler has not run       *)
  socket,    (* socket_: "open" or "closed"                                *)
  cleared,   (* server_->clearSession(uuid_) was called by handleWrite     *)
  peer,      (* the connection: "up" or "gone"                             *)
  io,        (* the session's io thread: "running" or "stopped"            *)
  sends,     (* calls of send() so far                                     *)
  accepted,  (* history: the frames send() queued                          *)
  wire       (* history: the pieces the socket took, <<frame, piece>>      *)

vars == <<send_que, writes, socket, cleared, peer, io, sends, accepted, wire>>

-----------------------------------------------------------------------------
Frames == 1..MaxSends

(* An asynchronous write: how much of its frame is out, and whether its    *)
(* handler is due.                                                         *)
Write == [frame : Frames, sent : 0..Parts, status : {"writing", "ok", "error"}]

TypeOK ==
  /\ send_que \in Seq(Frames)
  /\ Len(send_que) <= MaxSendQue + 1
  /\ writes \in SUBSET Write
  /\ socket \in {"open", "closed"}
  /\ cleared \in BOOLEAN
  /\ peer \in {"up", "gone"}
  /\ io \in {"running", "stopped"}
  /\ sends \in 0..MaxSends
  /\ accepted \in Seq(Frames)
  /\ wire \in Seq(Frames \X (1..Parts))

Init ==
  /\ send_que = <<>>
  /\ writes = {}
  /\ socket = "open"
  /\ cleared = FALSE
  /\ peer = "up"
  /\ io = "running"
  /\ sends = 0
  /\ accepted = <<>>
  /\ wire = <<>>

-----------------------------------------------------------------------------
(* boost::asio::async_write of the frame at the front of a queue.          *)
WriteOfFront(q) == [frame |-> Head(q), sent |-> 0, status |-> "writing"]

(* Slip: the limit is never tested.                                        *)
NeverFull == FALSE

(* The reply is dropped, with a warning, when the queue is over its limit. *)
QueueFull == Len(send_que) > MaxSendQue

(* Slip: every send starts a write, of the frame it has just queued.       *)
StartAlways(q) == {[frame |-> q[Len(q)], sent |-> 0, status |-> "writing"]}

(* Slip: the size is tested after the push, with the bound for before it.  *)
StartNever(q) == IF Len(q) > 0 THEN {} ELSE {WriteOfFront(q)}

(* send() starts a write only when the queue was empty before the push.    *)
StartIfAlone(q) == IF Len(q) > 1 THEN {} ELSE {WriteOfFront(q)}

(* send(), all of it under send_lock_.                                     *)
Send ==
  /\ sends < MaxSends
  /\ sends' = sends + 1
  /\ IF QueueFull
       THEN UNCHANGED <<send_que, accepted, writes>>
       ELSE /\ send_que' = Append(send_que, sends + 1)
            /\ accepted' = Append(accepted, sends + 1)
            /\ writes' = writes \cup StartIfAlone(send_que')
  /\ UNCHANGED <<socket, cleared, peer, io, wire>>

(* The socket takes some of what is left of a frame.  The first attempt is *)
(* made by the thread that calls async_write, the others by the io thread. *)
WriteSome(w) ==
  /\ w.status = "writing"
  /\ socket = "open"
  /\ peer = "up"
  /\ io = "running" \/ w.sent = 0
  /\ \E k \in (w.sent + 1)..Parts :
       /\ wire' = wire \o [i \in 1..(k - w.sent) |-> <<w.frame, w.sent + i>>]
       /\ writes' = (writes \ {w}) \cup
            {[w EXCEPT !.sent = k, !.status = IF k = Parts THEN "ok" ELSE "writing"]}
  /\ UNCHANGED <<send_que, socket, cleared, peer, io, sends, accepted>>

(* A write on a closed socket or a dead connection ends with an error.     *)
WriteFails(w) ==
  /\ w.status = "writing"
  /\ socket = "closed" \/ peer = "gone"
  /\ writes' = (writes \ {w}) \cup {[w EXCEPT !.status = "error"]}
  /\ UNCHANGED <<send_que, socket, cleared, peer, io, sends, accepted, wire>>

(* Slip: the next write takes the newest frame, not the front.             *)
ContinueWithNewest(q) ==
  IF q = <<>> THEN {} ELSE {[frame |-> q[Len(q)], sent |-> 0, status |-> "writing"]}

(* Slip: the frame is popped and the next write left to the next send().   *)
ContinueNever(q) == {}

(* After the pop the front, if there is one, is written next.              *)
Continue(q) == IF q = <<>> THEN {} ELSE {WriteOfFront(q)}

(* handleWrite without an error, under send_lock_.                         *)
WriteDone(w) ==
  /\ io = "running"
  /\ w.status = "ok"
  /\ send_que' = Tail(send_que)
  /\ writes' = (writes \ {w}) \cup Continue(send_que')
  /\ UNCHANGED <<socket, cleared, peer, io, sends, accepted, wire>>

(* Slip: a failed write closes the socket and does not clear the session.  *)
WriteErrorNotCleared(w) ==
  /\ io = "running"
  /\ w.status = "error"
  /\ writes' = writes \ {w}
  /\ socket' = "closed"
  /\ UNCHANGED <<send_que, cleared, peer, io, sends, accepted, wire>>

(* handleWrite with an error: close() and clearSession.  The frame stays   *)
(* at the front of the queue.                                              *)
WriteError(w) ==
  /\ io = "running"
  /\ w.status = "error"
  /\ writes' = writes \ {w}
  /\ socket' = "closed"
  /\ cleared' = TRUE
  /\ UNCHANGED <<send_que, peer, io, sends, accepted, wire>>

(* close(), from handleRead on the io thread when a read fails or from the *)
(* worker on MSG_EXIT.                                                     *)
Close ==
  /\ socket = "open"
  /\ socket' = "closed"
  /\ UNCHANGED <<send_que, writes, cleared, peer, io, sends, accepted, wire>>

(* The peer goes away.                                                     *)
PeerGone ==
  /\ peer = "up"
  /\ peer' = "gone"
  /\ UNCHANGED <<send_que, writes, socket, cleared, io, sends, accepted, wire>>

(* AsioIOServicePool::stop: no handler runs any more; the worker, draining *)
(* its queue, still sends.                                                 *)
IoStop ==
  /\ io = "running"
  /\ io' = "stopped"
  /\ UNCHANGED <<send_que, writes, socket, cleared, peer, sends, accepted, wire>>

-----------------------------------------------------------------------------
IoThread == \E w \in writes : WriteSome(w) \/ WriteFails(w) \/ WriteDone(w) \/ WriteError(w)

Next == Send \/ IoThread \/ Close \/ PeerGone \/ IoStop

(* The kernel takes bytes from a connected socket and reports a dead one,  *)
(* and the io thread runs the handlers that are due.                       *)
Fairness == WF_vars(IoThread)

SafetySpec == Init /\ [][Next]_vars

Spec == SafetySpec /\ Fairness

-----------------------------------------------------------------------------
(* Properties.                                                             *)

(* At most one asynchronous write is outstanding, over send() on the       *)
(* worker and handleWrite() on the io thread, and its buffer is that of    *)
(* the front of the queue: the node is not freed, and the pop in           *)
(* handleWrite removes the frame that was written.                         *)
OneWriteOfFront ==
  \A w \in writes : writes = {w} /\ send_que # <<>> /\ w.frame = Head(send_que)

(* What the peer receives is accepted frame after accepted frame, each     *)
(* whole before the next begins, up to where the connection ended.         *)
WireIsAcceptedFrames ==
  \A i \in DOMAIN wire :
    /\ ((i - 1) \div Parts) + 1 \in DOMAIN accepted
    /\ wire[i] = <<accepted[((i - 1) \div Parts) + 1], ((i - 1) % Parts) + 1>>

(* Replies do not get stuck: whenever frames are queued a write is under   *)
(* way, unless a write has failed and the session was closed and cleared.  *)
NoStall == send_que # <<>> /\ writes = {} => socket = "closed" /\ cleared

(* The send queue implements the channel that delivers at most once and in *)
(* order: entered are the accepted frames, left those wholly written.      *)
Written == [i \in 1..(Len(wire) \div Parts) |-> wire[i * Parts][1]]
Channel == INSTANCE FifoChannel WITH Items <- Frames, entered <- accepted, left <- Written
SentInOrder == Channel!Spec

(* Every accepted reply is eventually written whole, unless the connection *)
(* ends, on either side, or the server shuts down.                         *)
EveryFrameWritten ==
  \A i \in Frames :
    Len(accepted) >= i ~>
      (Len(wire) >= i * Parts \/ socket = "closed" \/ peer = "gone" \/ io = "stopped")

(* A session with replies for a client that is gone is closed and cleared: *)
(* the write's error is its only notice when no read fails.                *)
DeadPeerCleared ==
  (send_que # <<>> /\ peer = "gone") ~> (cleared \/ io = "stopped" \/ send_que = <<>>)
=============================================================================
