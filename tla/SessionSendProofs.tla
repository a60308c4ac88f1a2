------------------------- MODULE SessionSendProofs -------------------------
(***************************************************************************)
(* Proofs about SessionSend, for any queue limit, any number of pieces a   *)
(* frame goes out in and any bound on the sends.  The writes are always    *)
(* none or the one of the front frame; that, with the types and NoStall,   *)
(* is inductive.  From it follows what is on the wire: whole accepted      *)
(* frames, one after the other, so that it implements FifoChannel.         *)
(***************************************************************************)
EXTENDS SessionSend, SequenceTheorems, TLAPS

Inv ==
  /\ TypeOK
  /\ OneWriteOfFront
  /\ NoStall

USE MaxSendQueAssumption, PartsAssumption, MaxSendsAssumption

-----------------------------------------------------------------------------
(* The writes are none, or the one of the front.                           *)
LEMMA WritesShape ==
  ASSUME Inv, NEW w \in writes
  PROVE  /\ writes = {w}
         /\ send_que # <<>> /\ send_que \in Seq(Frames)
         /\ w.frame = Head(send_que)
         /\ w \in Write
BY DEF Inv, OneWriteOfFront, TypeOK

(* A write started on a non-empty queue is a write of its front.           *)
LEMMA FrontWrite ==
  ASSUME NEW q \in Seq(Frames), q # <<>>
  PROVE  WriteOfFront(q) \in Write /\ WriteOfFront(q).frame = Head(q)
<1>1. Head(q) \in Frames
  OBVIOUS
<1> QED
  BY <1>1 DEF WriteOfFront, Write

LEMMA InitInv == Init => Inv
<1> SUFFICES ASSUME Init PROVE Inv
  OBVIOUS
<1>1. TypeOK
  <2>1. send_que \in Seq(Frames) /\ accepted \in Seq(Frames) /\ Len(send_que) = 0
    BY DEF Init
  <2>2. wire \in Seq(Frames \X (1..Parts))
    BY DEF Init
  <2>3. writes \in SUBSET Write /\ sends \in 0..MaxSends
    BY DEF Init
  <2>4. Len(send_que) <= MaxSendQue + 1
    BY <2>1
  <2>5. cleared \in BOOLEAN /\ socket \in {"open", "closed"} /\ peer \in {"up", "gone"}
        /\ io \in {"running", "stopped"}
    BY DEF Init
  <2> QED
    BY <2>1, <2>2, <2>3, <2>4, <2>5 DEF TypeOK
<1>2. OneWriteOfFront /\ NoStall
  BY DEF Init, OneWriteOfFront, NoStall
<1> QED
  BY <1>1, <1>2 DEF Inv

-----------------------------------------------------------------------------
(* send() appends below the limit, and starts a write exactly when there   *)
(* was nothing to write, hence no write outstanding.                       *)
LEMMA SendInv == ASSUME Inv, Send PROVE Inv'
<1>1. CASE QueueFull
  <2>1. UNCHANGED <<send_que, accepted, writes, socket, cleared, peer, io, wire>>
    BY <1>1 DEF Send
  <2>2. TypeOK'
    BY <2>1 DEF Inv, TypeOK, Send
  <2> QED
    BY <2>1, <2>2 DEF Inv, OneWriteOfFront, NoStall
<1>2. CASE ~QueueFull
  <2> DEFINE n == sends + 1
  <2>1. /\ n \in Frames
        /\ send_que' = Append(send_que, n)
        /\ accepted' = Append(accepted, n)
        /\ writes' = writes \cup StartIfAlone(send_que')
    BY <1>2 DEF Send, Inv, TypeOK, Frames
  <2>2. /\ send_que \in Seq(Frames) /\ accepted \in Seq(Frames)
        /\ Len(send_que) <= MaxSendQue
    BY <1>2 DEF QueueFull, Inv, TypeOK
  <2> HIDE DEF n
  <2>3. /\ send_que' \in Seq(Frames) /\ accepted' \in Seq(Frames)
        /\ Len(send_que') = Len(send_que) + 1
        /\ send_que' # <<>>
    BY <2>1, <2>2
  <2>4. CASE send_que = <<>>
    <3>1. writes = {}
      BY <2>4 DEF Inv, OneWriteOfFront
    <3>2. writes' = {WriteOfFront(send_que')}
      BY <2>4, <2>1, <2>3, <3>1 DEF StartIfAlone
    <3>3. WriteOfFront(send_que') \in Write /\ WriteOfFront(send_que').frame = Head(send_que')
      BY <2>3, FrontWrite
    <3>4. TypeOK'
      BY <2>2, <2>3, <3>2, <3>3 DEF Inv, TypeOK, Send
    <3> QED
      BY <2>3, <3>2, <3>3, <3>4 DEF Inv, OneWriteOfFront, NoStall
  <2>5. CASE send_que # <<>>
    <3>1. writes' = writes /\ Head(send_que') = Head(send_que)
      BY <2>5, <2>1, <2>2, <2>3 DEF StartIfAlone
    <3>2. TypeOK'
      BY <2>2, <2>3, <3>1 DEF Inv, TypeOK, Send
    <3>3. OneWriteOfFront'
      BY <2>3, <3>1 DEF Inv, OneWriteOfFront
    <3>4. NoStall'
      BY <2>5, <3>1 DEF Inv, NoStall, Send
    <3> QED
      BY <3>2, <3>3, <3>4 DEF Inv
  <2> QED
    BY <2>4, <2>5
<1> QED
  BY <1>1, <1>2

(* The pieces a WriteSome puts on the wire.                                *)
LEMMA SomePieces ==
  ASSUME NEW w \in Write, NEW k \in (w.sent + 1)..Parts
  PROVE  [i \in 1..(k - w.sent) |-> <<w.frame, w.sent + i>>] \in Seq(Frames \X (1..Parts))
<1>1. w.sent \in 0..Parts /\ w.frame \in Frames /\ k - w.sent \in Nat
  BY DEF Write
<1>2. \A i \in 1..(k - w.sent) : <<w.frame, w.sent + i>> \in Frames \X (1..Parts)
  BY <1>1
<1> QED
  BY <1>1, <1>2

(* A write that goes on, or fails, is still the write of the front.        *)
LEMMA ProgressInv ==
  ASSUME Inv, NEW w \in writes, WriteSome(w) \/ WriteFails(w)
  PROVE  Inv'
<1>1. /\ writes = {w}
      /\ send_que # <<>> /\ send_que \in Seq(Frames)
      /\ w.frame = Head(send_que)
      /\ w \in Write
  BY WritesShape
<1>2. CASE WriteSome(w)
  <2>1. PICK k \in (w.sent + 1)..Parts :
          /\ wire' = wire \o [i \in 1..(k - w.sent) |-> <<w.frame, w.sent + i>>]
          /\ writes' = (writes \ {w}) \cup
               {[w EXCEPT !.sent = k, !.status = IF k = Parts THEN "ok" ELSE "writing"]}
    BY <1>2 DEF WriteSome
  <2> DEFINE v == [w EXCEPT !.sent = k, !.status = IF k = Parts THEN "ok" ELSE "writing"]
  <2>2. writes' = {v}
    BY <1>1, <2>1
  <2>3. v \in Write /\ v.frame = w.frame
    <3>1. k \in 0..Parts
      BY <1>1 DEF Write
    <3> QED
      BY <1>1, <3>1 DEF Write
  <2>4. wire' \in Seq(Frames \X (1..Parts))
    <3> DEFINE pieces == [i \in 1..(k - w.sent) |-> <<w.frame, w.sent + i>>]
    <3>1. pieces \in Seq(Frames \X (1..Parts))
      BY <1>1, SomePieces
    <3>2. wire \in Seq(Frames \X (1..Parts)) /\ wire' = wire \o pieces
      BY <2>1 DEF Inv, TypeOK
    <3> HIDE DEF pieces
    <3> QED
      BY <3>1, <3>2
  <2> HIDE DEF v
  <2>5. TypeOK'
    BY <1>2, <2>2, <2>3, <2>4 DEF Inv, TypeOK, WriteSome
  <2>6. OneWriteOfFront' /\ NoStall'
    BY <1>1, <1>2, <2>2, <2>3 DEF OneWriteOfFront, NoStall, WriteSome
  <2> QED
    BY <2>5, <2>6 DEF Inv
<1>3. CASE WriteFails(w)
  <2> DEFINE v == [w EXCEPT !.status = "error"]
  <2>1. writes' = {v}
    BY <1>1, <1>3 DEF WriteFails
  <2>2. v \in Write /\ v.frame = w.frame
    BY <1>1 DEF Write
  <2> HIDE DEF v
  <2>3. TypeOK'
    BY <1>3, <2>1, <2>2 DEF Inv, TypeOK, WriteFails
  <2>4. OneWriteOfFront' /\ NoStall'
    BY <1>1, <1>3, <2>1, <2>2 DEF OneWriteOfFront, NoStall, WriteFails
  <2> QED
    BY <2>3, <2>4 DEF Inv
<1> QED
  BY <1>2, <1>3

(* handleWrite pops the frame that was written and starts the next front.  *)
LEMMA WriteDoneInv ==
  ASSUME Inv, NEW w \in writes, WriteDone(w)
  PROVE  Inv'
<1>1. /\ writes = {w}
      /\ send_que # <<>> /\ send_que \in Seq(Frames)
  BY WritesShape
<1>2. /\ send_que' = Tail(send_que)
      /\ writes' = Continue(send_que')
  BY <1>1 DEF WriteDone
<1>3. send_que' \in Seq(Frames) /\ Len(send_que') <= MaxSendQue + 1
  BY <1>1, <1>2 DEF Inv, TypeOK
<1>4. CASE send_que' = <<>>
  <2>1. writes' = {}
    BY <1>2, <1>4 DEF Continue
  <2>2. TypeOK'
    BY <1>3, <2>1 DEF Inv, TypeOK, WriteDone
  <2> QED
    BY <1>4, <2>1, <2>2 DEF Inv, OneWriteOfFront, NoStall
<1>5. CASE send_que' # <<>>
  <2>1. writes' = {WriteOfFront(send_que')}
    BY <1>2, <1>5 DEF Continue
  <2>2. WriteOfFront(send_que') \in Write /\ WriteOfFront(send_que').frame = Head(send_que')
    BY <1>3, <1>5, FrontWrite
  <2>3. TypeOK'
    BY <1>3, <2>1, <2>2 DEF Inv, TypeOK, WriteDone
  <2> QED
    BY <1>5, <2>1, <2>2, <2>3 DEF Inv, OneWriteOfFront, NoStall
<1> QED
  BY <1>4, <1>5

(* After a failed write nothing is outstanding, and the session is closed. *)
LEMMA WriteErrorInv ==
  ASSUME Inv, NEW w \in writes, WriteError(w)
  PROVE  Inv'
<1>1. writes' = {} /\ socket' = "closed" /\ cleared'
  BY WritesShape DEF WriteError
<1>2. TypeOK'
  BY <1>1 DEF Inv, TypeOK, WriteError
<1> QED
  BY <1>1, <1>2 DEF Inv, OneWriteOfFront, NoStall

LEMMA EnvironmentInv ==
  ASSUME Inv, Close \/ PeerGone \/ IoStop
  PROVE  Inv'
<1>1. TypeOK'
  BY DEF Inv, TypeOK, Close, PeerGone, IoStop
<1>2. /\ UNCHANGED <<send_que, writes, cleared>>
      /\ socket = "closed" => socket' = "closed"
  BY DEF Close, PeerGone, IoStop
<1> QED
  BY <1>1, <1>2 DEF Inv, OneWriteOfFront, NoStall

LEMMA NextInv == Inv /\ [Next]_vars => Inv'
<1> SUFFICES ASSUME Inv, [Next]_vars PROVE Inv'
  OBVIOUS
<1>1. CASE Send
  BY <1>1, SendInv
<1>2. CASE \E w \in writes : WriteSome(w) \/ WriteFails(w)
  BY <1>2, ProgressInv
<1>3. CASE \E w \in writes : WriteDone(w)
  BY <1>3, WriteDoneInv
<1>4. CASE \E w \in writes : WriteError(w)
  BY <1>4, WriteErrorInv
<1>5. CASE Close \/ PeerGone \/ IoStop
  BY <1>5, EnvironmentInv
<1>6. CASE UNCHANGED vars
  BY <1>6 DEF vars, Inv, TypeOK, OneWriteOfFront, NoStall
<1> QED
  BY <1>1, <1>2, <1>3, <1>4, <1>5, <1>6 DEF Next, IoThread

(* Inv is an invariant of the sending half of a session.                   *)
THEOREM Invariance == SafetySpec => []Inv
<1> QED
  BY InitInv, NextInv, PTL DEF SafetySpec

(* The types, and with them the bound on the queue: send() never lets it   *)
(* grow beyond MAX_SENDQUE + 1 frames.                                     *)
THEOREM TypeCorrect == SafetySpec => []TypeOK
<1>1. Inv => TypeOK
  BY DEF Inv
<1> QED
  BY <1>1, Invariance, PTL

(* The worker's send() and the io thread's handleWrite() never have two    *)
(* writes outstanding, and the one there is uses a buffer that is queued.  *)
THEOREM SingleWrite == SafetySpec => []OneWriteOfFront
<1>1. Inv => OneWriteOfFront
  BY DEF Inv
<1> QED
  BY <1>1, Invariance, PTL

(* Queued frames always have a write under way until a write fails.        *)
THEOREM NeverStalls == SafetySpec => []NoStall
<1>1. Inv => NoStall
  BY DEF Inv
<1> QED
  BY <1>1, Invariance, PTL

-----------------------------------------------------------------------------
(* The wire.  The invariant counts: Done frames have left the queue, the   *)
(* wire holds their pieces and p pieces of the next one.  It speaks of     *)
(* frame d and piece j instead of dividing positions by Parts; the lemmas  *)
(* about products connect the two.                                         *)
Done == Len(accepted) - Len(send_que)

(* send_que is the end of accepted.                                        *)
QueueIsRest ==
  /\ Done \in Nat
  /\ \A i \in 1..Len(send_que) : send_que[i] = accepted[Done + i]

(* p pieces of the frame after the first Done ones are out.  Only a write  *)
(* under way adds pieces; without one p is 0 or the session is closed.     *)
WireLength ==
  \E p \in 0..Parts :
    /\ Len(wire) = Done * Parts + p
    /\ \A w \in writes : w.sent = p /\ (w.status = "ok" <=> p = Parts)
    /\ send_que = <<>> => p = 0

(* Piece j of frame d + 1.                                                 *)
WirePieces ==
  \A d \in 0..(Len(accepted) - 1), j \in 1..Parts :
    d * Parts + j <= Len(wire) => wire[d * Parts + j] = <<accepted[d + 1], j>>

WireInv == QueueIsRest /\ WireLength /\ WirePieces

-----------------------------------------------------------------------------
LEMMA Divide ==
  ASSUME NEW n \in Nat
  PROVE  /\ n \div Parts \in Nat
         /\ n % Parts \in 0..(Parts - 1)
         /\ n = (n \div Parts) * Parts + (n % Parts)
  OBVIOUS

LEMMA Quotient ==
  ASSUME NEW a \in Nat, NEW r \in 0..(Parts - 1)
  PROVE  (a * Parts + r) \div Parts = a
  OBVIOUS

(* Positions of pieces are ordered as the frames they belong to.           *)
LEMMA PositionOrder ==
  ASSUME NEW a \in Nat, NEW b \in Nat, NEW j \in 1..Parts, NEW l \in 1..Parts,
         a * Parts + j <= b * Parts + l
  PROVE  a <= b
<1> SUFFICES ASSUME b + 1 <= a PROVE FALSE
  OBVIOUS
<1>1. (b + 1) * Parts <= a * Parts
  OBVIOUS
<1>2. (b + 1) * Parts = b * Parts + Parts
  OBVIOUS
<1> QED
  BY <1>1, <1>2

LEMMA PositionUnique ==
  ASSUME NEW a \in Nat, NEW b \in Nat, NEW j \in 1..Parts, NEW l \in 1..Parts,
         a * Parts + j = b * Parts + l
  PROVE  a = b /\ j = l
<1>1. a <= b /\ b <= a
  BY PositionOrder
<1> QED
  BY <1>1

LEMMA Concatenation ==
  ASSUME NEW S, NEW p \in Seq(S), NEW q \in Seq(S)
  PROVE  /\ Len(p \o q) = Len(p) + Len(q) /\ Len(p) \in Nat
         /\ \A i \in 1..Len(p) : (p \o q)[i] = p[i]
         /\ \A x \in 1..Len(q) : (p \o q)[Len(p) + x] = q[x]
  OBVIOUS

LEMMA NextMultiple ==
  ASSUME NEW a \in Nat
  PROVE  a * Parts \in Nat /\ (a + 1) * Parts = a * Parts + Parts
  OBVIOUS

-----------------------------------------------------------------------------
(* The wire holds no more than the pieces of the accepted frames.          *)
LEMMA WireWithinAccepted ==
  ASSUME Inv, WireInv
  PROVE  /\ Len(wire) <= Len(accepted) * Parts
         /\ send_que # <<>> => Done < Len(accepted) /\ Head(send_que) = accepted[Done + 1]
<1>1. /\ send_que \in Seq(Frames) /\ accepted \in Seq(Frames)
      /\ Done \in Nat /\ Len(accepted) = Done + Len(send_que)
  BY DEF Inv, TypeOK, WireInv, QueueIsRest, Done
<1> HIDE DEF Done
<1>2. PICK p \in 0..Parts : Len(wire) = Done * Parts + p /\ (send_que = <<>> => p = 0)
  BY DEF WireInv, WireLength
<1>3. CASE send_que = <<>>
  BY <1>1, <1>2, <1>3
<1>4. CASE send_que # <<>>
  <2>1. Done + 1 <= Len(accepted) /\ Len(send_que) >= 1
    BY <1>1, <1>4
  <2>2. (Done + 1) * Parts <= Len(accepted) * Parts
    BY <1>1, <2>1
  <2>3. Head(send_que) = accepted[Done + 1]
    BY <1>1, <1>4, <2>1 DEF WireInv, QueueIsRest
  <2> QED
    BY <1>1, <1>2, <2>1, <2>2, <2>3, NextMultiple
<1> QED
  BY <1>3, <1>4

LEMMA InitWire == Init => WireInv
<1> SUFFICES ASSUME Init PROVE WireInv
  OBVIOUS
<1>1. Done = 0 /\ Len(wire) = 0 /\ Len(send_que) = 0 /\ Len(accepted) = 0
  BY DEF Init, Done
<1>2. QueueIsRest /\ WirePieces
  BY <1>1 DEF QueueIsRest, WirePieces
<1>3. WireLength
  <2>1. 0 \in 0..Parts /\ Len(wire) = Done * Parts + 0
    BY <1>1
  <2> QED
    BY <2>1 DEF WireLength, Init
<1> QED
  BY <1>2, <1>3 DEF WireInv

-----------------------------------------------------------------------------
(* send() adds a frame to the end of the queue and of accepted.            *)
LEMMA SendWire == ASSUME Inv, WireInv, Send PROVE WireInv'
<1>1. CASE QueueFull
  BY <1>1 DEF Send, WireInv, QueueIsRest, WireLength, WirePieces, Done
<1>2. CASE ~QueueFull
  <2> DEFINE n == sends + 1
  <2>1. /\ n \in Frames
        /\ send_que' = Append(send_que, n)
        /\ accepted' = Append(accepted, n)
        /\ writes' = writes \cup StartIfAlone(send_que')
        /\ wire' = wire
    BY <1>2 DEF Send, Inv, TypeOK, Frames
  <2>2. /\ send_que \in Seq(Frames) /\ accepted \in Seq(Frames)
        /\ wire \in Seq(Frames \X (1..Parts))
    BY DEF Inv, TypeOK
  <2> HIDE DEF n
  <2>3. /\ Len(send_que') = Len(send_que) + 1 /\ Len(accepted') = Len(accepted) + 1
        /\ Done' = Done /\ Done \in Nat
        /\ Len(accepted) = Done + Len(send_que)
    BY <2>1, <2>2 DEF Done, WireInv, QueueIsRest
  <2>4. QueueIsRest'
    <3> SUFFICES ASSUME NEW i \in 1..Len(send_que')
                 PROVE  send_que'[i] = accepted'[Done + i]
      BY <2>3 DEF QueueIsRest
    <3>1. CASE i <= Len(send_que)
      BY <3>1, <2>1, <2>2, <2>3 DEF WireInv, QueueIsRest
    <3>2. CASE i = Len(send_que) + 1
      BY <3>2, <2>1, <2>2, <2>3
    <3> QED
      BY <3>1, <3>2, <2>2, <2>3
  <2>5. WireLength'
    <3>1. PICK p \in 0..Parts :
            /\ Len(wire) = Done * Parts + p
            /\ \A w \in writes : w.sent = p /\ (w.status = "ok" <=> p = Parts)
            /\ send_que = <<>> => p = 0
      BY DEF WireInv, WireLength
    <3>2. \A w \in writes' : w.sent = p /\ (w.status = "ok" <=> p = Parts)
      <4>1. CASE send_que = <<>>
        <5>1. writes = {}
          BY <4>1 DEF Inv, OneWriteOfFront
        <5>2. writes' = {WriteOfFront(send_que')}
          BY <4>1, <5>1, <2>1, <2>2, <2>3 DEF StartIfAlone
        <5> QED
          BY <4>1, <5>2, <3>1 DEF WriteOfFront
      <4>2. CASE send_que # <<>>
        <5>1. writes' = writes
          BY <4>2, <2>1, <2>2, <2>3 DEF StartIfAlone
        <5> QED
          BY <5>1, <3>1
      <4> QED
        BY <4>1, <4>2
    <3>3. send_que' # <<>>
      BY <2>1, <2>2
    <3>4. Len(wire') = Done' * Parts + p
      BY <2>1, <2>3, <3>1
    <3> QED
      BY <3>2, <3>3, <3>4 DEF WireLength
  <2>6. WirePieces'
    <3>0. Len(accepted') - 1 = Len(accepted)
      BY <2>2, <2>3
    <3> SUFFICES ASSUME NEW d \in 0..Len(accepted), NEW j \in 1..Parts,
                        d * Parts + j <= Len(wire)
                 PROVE  wire[d * Parts + j] = <<accepted'[d + 1], j>>
      BY <2>1, <3>0 DEF WirePieces
    <3>1. d # Len(accepted)
      <4> SUFFICES ASSUME d = Len(accepted) PROVE FALSE
        OBVIOUS
      <4>1. Len(wire) <= d * Parts /\ Len(wire) \in Nat /\ d * Parts \in Nat
        BY WireWithinAccepted, NextMultiple, <2>2
      <4> QED
        BY <4>1
    <3>2. d \in 0..(Len(accepted) - 1) /\ accepted'[d + 1] = accepted[d + 1]
      BY <3>1, <2>1, <2>2
    <3> QED
      BY <3>2 DEF WireInv, WirePieces
  <2> QED
    BY <2>4, <2>5, <2>6 DEF WireInv
<1> QED
  BY <1>1, <1>2

(* The socket takes the next pieces of the front frame.                    *)
LEMMA WriteSomeWire ==
  ASSUME Inv, WireInv, NEW w \in writes, WriteSome(w)
  PROVE  WireInv'
<1>1. writes = {w} /\ send_que # <<>> /\ w.frame = Head(send_que) /\ w \in Write
  BY WritesShape
<1>2. PICK k \in (w.sent + 1)..Parts :
        /\ wire' = wire \o [i \in 1..(k - w.sent) |-> <<w.frame, w.sent + i>>]
        /\ writes' = (writes \ {w}) \cup
             {[w EXCEPT !.sent = k, !.status = IF k = Parts THEN "ok" ELSE "writing"]}
  BY DEF WriteSome
<1> DEFINE pieces == [i \in 1..(k - w.sent) |-> <<w.frame, w.sent + i>>]
<1>20. w.sent \in 0..Parts /\ k \in 1..Parts /\ k - w.sent \in Nat
  BY <1>1 DEF Write
<1>21. pieces \in Seq(Frames \X (1..Parts))
  BY <1>1, SomePieces
<1>22. Len(pieces) = k - w.sent
  BY <1>20
<1>23. \A x \in 1..(k - w.sent) : pieces[x] = <<w.frame, w.sent + x>>
  OBVIOUS
<1>24. wire \in Seq(Frames \X (1..Parts)) /\ wire' = wire \o pieces
  BY <1>2 DEF Inv, TypeOK
<1> HIDE DEF pieces
<1>3. /\ Len(wire') = Len(wire) + (k - w.sent) /\ Len(wire) \in Nat
      /\ \A i \in 1..Len(wire) : wire'[i] = wire[i]
      /\ \A x \in 1..(k - w.sent) : wire'[Len(wire) + x] = <<w.frame, w.sent + x>>
  BY <1>21, <1>22, <1>23, <1>24, Concatenation, SMTT(40)
<1>4. /\ Len(wire) = Done * Parts + w.sent
      /\ Done \in Nat /\ Done * Parts \in Nat
      /\ Done < Len(accepted) /\ w.frame = accepted[Done + 1]
  BY <1>1, WireWithinAccepted, NextMultiple DEF WireInv, WireLength, QueueIsRest
<1>5. UNCHANGED <<send_que, accepted>> /\ Done' = Done
  BY DEF WriteSome, Done
<1>6. Len(wire') = Done * Parts + k
  BY <1>20, <1>3, <1>4, SMTT(40)
<1>7. QueueIsRest'
  BY <1>5 DEF WireInv, QueueIsRest
<1>8. WireLength'
  <2> DEFINE v == [w EXCEPT !.sent = k, !.status = IF k = Parts THEN "ok" ELSE "writing"]
  <2>1. writes' = {v} /\ v.sent = k /\ (v.status = "ok" <=> k = Parts)
    BY <1>1, <1>2 DEF Write
  <2>2. k \in 0..Parts
    BY <1>20
  <2> HIDE DEF v
  <2> QED
    BY <1>1, <1>5, <1>6, <2>1, <2>2 DEF WireLength
<1>9. WirePieces'
  <2> SUFFICES ASSUME NEW d \in 0..(Len(accepted) - 1), NEW j \in 1..Parts,
                      d * Parts + j <= Len(wire')
               PROVE  wire'[d * Parts + j] = <<accepted[d + 1], j>>
    BY <1>5 DEF WirePieces
  <2> DEFINE at == d * Parts + j
  <2>1. d \in Nat /\ d * Parts \in Nat /\ at \in Nat \ {0}
    BY NextMultiple
  <2>2. CASE at <= Len(wire)
    <3>1. wire'[at] = wire[at]
      BY <1>3, <2>1, <2>2
    <3> QED
      BY <2>2, <3>1 DEF WireInv, WirePieces
  <2>3. CASE at > Len(wire)
    <3> DEFINE x == at - Len(wire)
    <3>1. at = Len(wire) + x /\ x \in 1..(k - w.sent)
      BY <1>20, <1>3, <2>1, <2>3, SMTT(40)
    <3> HIDE DEF x
    <3>2. w.sent + x \in 1..Parts
      BY <1>20, <3>1, SMTT(40)
    <3>5. d * Parts + j = Done * Parts + (w.sent + x)
      BY <1>20, <1>4, <2>1, <3>1, SMTT(40)
    <3> HIDE DEF at
    <3>3. d = Done /\ j = w.sent + x
      <4> DEFINE y == w.sent + x
      <4>1. y \in 1..Parts /\ d * Parts + j = Done * Parts + y
        BY <3>2, <3>5
      <4>2. d \in Nat /\ Done \in Nat
        BY <1>4, <2>1
      <4> HIDE DEF y, Done
      <4>3. d = Done /\ j = y
        BY <4>1, <4>2, PositionUnique
      <4> QED
        BY <4>3 DEF y
    <3>4. wire'[at] = <<w.frame, w.sent + x>>
      BY <1>3, <3>1
    <3> QED
      BY <1>4, <3>3, <3>4 DEF at
  <2> QED
    BY <2>1, <2>2, <2>3, <1>3, SMTT(40)
<1> QED
  BY <1>7, <1>8, <1>9 DEF WireInv

(* handleWrite: the frame that leaves the queue is whole on the wire.      *)
LEMMA WriteDoneWire ==
  ASSUME Inv, WireInv, NEW w \in writes, WriteDone(w)
  PROVE  WireInv'
<1>1. writes = {w} /\ send_que # <<>> /\ w \in Write
  BY WritesShape
<1>2. /\ send_que' = Tail(send_que) /\ writes' = Continue(send_que')
      /\ UNCHANGED <<accepted, wire>>
  BY <1>1 DEF WriteDone
<1>3. send_que \in Seq(Frames) /\ accepted \in Seq(Frames) /\ Done \in Nat
  BY DEF Inv, TypeOK, WireInv, QueueIsRest
<1>4. Len(send_que') = Len(send_que) - 1 /\ Done' = Done + 1
  BY <1>1, <1>2, <1>3 DEF Done
<1>5. Len(wire) = Done * Parts + Parts
  BY <1>1 DEF WireInv, WireLength, WriteDone
<1>6. QueueIsRest'
  <2>1. \A i \in 1..Len(send_que') : send_que'[i] = send_que[i + 1]
    BY <1>1, <1>2, <1>3
  <2> QED
    BY <2>1, <1>2, <1>3, <1>4 DEF WireInv, QueueIsRest
<1>7. WireLength'
  <2>1. Len(wire') = Done' * Parts + 0
    BY <1>2, <1>3, <1>4, <1>5, NextMultiple
  <2>2. \A v \in writes' : v.sent = 0 /\ v.status # "ok"
    BY <1>2 DEF Continue, WriteOfFront
  <2>3. 0 \in 0..Parts /\ 0 # Parts
    OBVIOUS
  <2> QED
    BY <2>1, <2>2, <2>3 DEF WireLength
<1>8. WirePieces'
  BY <1>2 DEF WireInv, WirePieces
<1> QED
  BY <1>6, <1>7, <1>8 DEF WireInv

LEMMA NextWire == Inv /\ WireInv /\ [Next]_vars => WireInv'
<1> SUFFICES ASSUME Inv, WireInv, [Next]_vars PROVE WireInv'
  OBVIOUS
<1>1. CASE Send
  BY <1>1, SendWire
<1>2. CASE \E w \in writes : WriteSome(w)
  BY <1>2, WriteSomeWire
<1>3. CASE \E w \in writes : WriteDone(w)
  BY <1>3, WriteDoneWire
<1>4. CASE \E w \in writes : WriteFails(w)
  <2>1. PICK w \in writes : WriteFails(w)
    BY <1>4
  <2>2. UNCHANGED <<send_que, accepted, wire>> /\ Done' = Done
    BY <2>1 DEF WriteFails, Done
  <2>3. writes' = {[w EXCEPT !.status = "error"]} /\ w \in Write
    BY <2>1, WritesShape DEF WriteFails
  <2>4. WireLength'
    BY <2>1, <2>2, <2>3 DEF WireInv, WireLength, Write, WriteFails
  <2> QED
    BY <2>2, <2>4 DEF WireInv, QueueIsRest, WirePieces
<1>5. CASE \E w \in writes : WriteError(w)
  <2>1. writes' \subseteq writes /\ UNCHANGED <<send_que, accepted, wire>> /\ Done' = Done
    BY <1>5 DEF WriteError, Done
  <2> QED
    BY <2>1 DEF WireInv, QueueIsRest, WireLength, WirePieces
<1>6. CASE Close \/ PeerGone \/ IoStop \/ UNCHANGED vars
  <2>1. UNCHANGED <<send_que, writes, accepted, wire>> /\ Done' = Done
    BY <1>6 DEF Close, PeerGone, IoStop, vars, Done
  <2> QED
    BY <2>1 DEF WireInv, QueueIsRest, WireLength, WirePieces
<1> QED
  BY <1>1, <1>2, <1>3, <1>4, <1>5, <1>6 DEF Next, IoThread

(* The counting invariant holds throughout.                                *)
THEOREM WireInvariance == SafetySpec => [](Inv /\ WireInv)
<1> QED
  BY InitInv, NextInv, InitWire, NextWire, PTL DEF SafetySpec

-----------------------------------------------------------------------------
(* A position on the wire is a piece of an accepted frame.                 *)
LEMMA PieceOfAccepted ==
  ASSUME Inv, WireInv, NEW d \in Nat, NEW j \in 1..Parts, d * Parts + j <= Len(wire)
  PROVE  /\ d \in 0..(Len(accepted) - 1)
         /\ wire[d * Parts + j] = <<accepted[d + 1], j>>
<1>1. Len(accepted) \in Nat /\ Len(wire) \in Nat /\ d * Parts \in Nat
  BY NextMultiple DEF Inv, TypeOK
<1>2. Len(wire) <= Len(accepted) * Parts
  BY WireWithinAccepted
<1>3. Len(accepted) # 0
  BY <1>1, <1>2
<1> DEFINE b == Len(accepted) - 1
<1>4. b \in Nat /\ Len(accepted) * Parts = b * Parts + Parts
  BY <1>1, <1>3, NextMultiple
<1> HIDE DEF b
<1>5. d * Parts + j <= b * Parts + Parts
  <2>1. b * Parts \in Nat
    BY <1>4, NextMultiple
  <2> QED
    BY <1>1, <1>2, <1>4, <2>1
<1>6. d <= b
  BY <1>4, <1>5, PositionOrder
<1>7. d \in 0..(Len(accepted) - 1)
  BY <1>4, <1>6 DEF b
<1> QED
  BY <1>7 DEF WireInv, WirePieces

(* The peer receives accepted frames, whole, in the order of acceptance.   *)
THEOREM WireCorrect == SafetySpec => []WireIsAcceptedFrames
<1>1. Inv /\ WireInv => WireIsAcceptedFrames
  <2> SUFFICES ASSUME Inv, WireInv, NEW i \in DOMAIN wire
               PROVE  /\ ((i - 1) \div Parts) + 1 \in DOMAIN accepted
                      /\ wire[i] = <<accepted[((i - 1) \div Parts) + 1], ((i - 1) % Parts) + 1>>
    BY DEF WireIsAcceptedFrames
  <2> DEFINE d == (i - 1) \div Parts
             r == (i - 1) % Parts
  <2>1. /\ accepted \in Seq(Frames) /\ wire \in Seq(Frames \X (1..Parts))
        /\ i \in 1..Len(wire) /\ i - 1 \in Nat
    BY DEF Inv, TypeOK
  <2>2. d \in Nat /\ r \in 0..(Parts - 1) /\ i - 1 = d * Parts + r
    BY <2>1, Divide
  <2> HIDE DEF d, r
  <2>3. r + 1 \in 1..Parts /\ i = d * Parts + (r + 1)
    BY <2>1, <2>2, NextMultiple
  <2>4. d \in 0..(Len(accepted) - 1) /\ wire[i] = <<accepted[d + 1], r + 1>>
    <3> DEFINE j == r + 1
    <3>1. j \in 1..Parts /\ i = d * Parts + j /\ d * Parts + j <= Len(wire)
      BY <2>1, <2>3
    <3> HIDE DEF j
    <3>2. d \in 0..(Len(accepted) - 1) /\ wire[d * Parts + j] = <<accepted[d + 1], j>>
      BY <2>2, <3>1, PieceOfAccepted
    <3> QED
      BY <3>1, <3>2 DEF j
  <2>5. d + 1 \in DOMAIN accepted
    BY <2>1, <2>4
  <2> QED
    BY <2>4, <2>5 DEF d, r
<1> QED
  BY <1>1, WireInvariance, PTL

-----------------------------------------------------------------------------
(* The frames wholly written are the first accepted ones.                  *)
LEMMA WrittenIsPrefix ==
  ASSUME Inv, WireInv
  PROVE  /\ Len(wire) \div Parts \in Nat
         /\ Written = [i \in 1..(Len(wire) \div Parts) |-> accepted[i]]
<1>1. Len(wire) \in Nat /\ wire \in Seq(Frames \X (1..Parts))
  BY DEF Inv, TypeOK
<1> DEFINE q == Len(wire) \div Parts
<1> DEFINE r == Len(wire) % Parts
<1>4. q \in Nat /\ r \in 0..(Parts - 1) /\ Len(wire) = q * Parts + r
  BY <1>1, Divide
<1> HIDE DEF q, r
<1>5. q * Parts \in Nat
  BY <1>4, NextMultiple
<1>2. q \in Nat /\ q * Parts <= Len(wire)
  BY <1>4, <1>5
<1>3. ASSUME NEW i \in 1..q
      PROVE  wire[i * Parts][1] = accepted[i]
  <2> DEFINE d == i - 1
  <2>1. d \in Nat /\ i = d + 1
    BY <1>2
  <2> HIDE DEF d
  <2>2. i * Parts = d * Parts + Parts
    BY <2>1, NextMultiple
  <2>3. i * Parts <= q * Parts /\ i * Parts \in Nat /\ q * Parts \in Nat
    BY <1>2, <1>3, NextMultiple
  <2>4. d * Parts + Parts <= Len(wire)
    <3> DEFINE x == i * Parts
    <3>1. x \in Nat /\ x <= q * Parts /\ x = d * Parts + Parts
      BY <2>2, <2>3
    <3> HIDE DEF x
    <3> QED
      BY <1>1, <1>2, <2>3, <3>1
  <2>5. wire[d * Parts + Parts] = <<accepted[d + 1], Parts>>
    <3> DEFINE l == Parts
    <3>1. l \in 1..Parts /\ d * Parts + l <= Len(wire)
      BY <2>4
    <3> HIDE DEF l
    <3>2. wire[d * Parts + l] = <<accepted[d + 1], l>>
      BY <2>1, <3>1, PieceOfAccepted
    <3> QED
      BY <3>2 DEF l
  <2> QED
    BY <2>1, <2>2, <2>5
<1> QED
  BY <1>2, <1>3 DEF Written, q

(* A step puts at most the last piece of one frame on the wire.            *)
LEMMA StepRefines ==
  Inv /\ WireInv /\ Inv' /\ WireInv' /\ [Next]_vars => [Channel!Next]_(Channel!channel)
<1> SUFFICES ASSUME Inv, WireInv, Inv', WireInv', [Next]_vars
             PROVE  [Channel!Next]_(Channel!channel)
  OBVIOUS
<1> USE DEF Channel!channel
<1>1. CASE UNCHANGED <<wire, accepted>>
  BY <1>1 DEF Written
<1>2. CASE Send
  <2>1. UNCHANGED wire
    BY <1>2 DEF Send
  <2>2. CASE QueueFull
    BY <1>2, <2>1, <2>2, <1>1 DEF Send
  <2>3. CASE ~QueueFull
    <3>1. sends + 1 \in Frames /\ accepted' = Append(accepted, sends + 1)
      BY <1>2, <2>3 DEF Send, Inv, TypeOK, Frames
    <3> QED
      BY <2>1, <3>1 DEF Channel!Next, Channel!Enter, Written
  <2> QED
    BY <2>2, <2>3
<1>3. CASE \E w \in writes : WriteSome(w)
  <2>1. PICK w \in writes : WriteSome(w)
    BY <1>3
  <2>2. /\ writes = {w} /\ send_que # <<>> /\ w \in Write
    BY <2>1, WritesShape
  <2>3. PICK k \in (w.sent + 1)..Parts :
          writes' = {[w EXCEPT !.sent = k, !.status = IF k = Parts THEN "ok" ELSE "writing"]}
    BY <2>1, <2>2 DEF WriteSome
  <2>4. UNCHANGED <<accepted, send_que>> /\ Done' = Done /\ Done \in Nat
    BY <2>1 DEF WriteSome, Done, WireInv, QueueIsRest
  <2>5. w.sent \in 0..(Parts - 1) /\ k \in 1..Parts
    BY <2>2 DEF Write
  <2>6. Len(wire) = Done * Parts + w.sent
    BY <2>2 DEF WireInv, WireLength
  <2>7. Len(wire') = Done * Parts + k
    <3> DEFINE v == [w EXCEPT !.sent = k, !.status = IF k = Parts THEN "ok" ELSE "writing"]
    <3>1. v.sent = k /\ v \in writes'
      BY <2>2, <2>3 DEF Write
    <3> HIDE DEF v
    <3> QED
      BY <2>4, <3>1 DEF WireInv, WireLength
  <2>8. Len(wire) \div Parts = Done
    BY <2>4, <2>5, <2>6, Quotient
  <2>9. Written = [i \in 1..Done |-> accepted[i]]
    BY <2>8, WrittenIsPrefix
  <2>10. Written' = [i \in 1..(Len(wire') \div Parts) |-> accepted[i]]
    <3>1. (Inv /\ WireInv => Written = [i \in 1..(Len(wire) \div Parts) |-> accepted[i]])'
      BY WrittenIsPrefix, PTL
    <3> QED
      BY <2>4, <3>1
  <2>11. CASE k < Parts
    <3>1. Len(wire') \div Parts = Done
      BY <2>4, <2>5, <2>7, <2>11, Quotient
    <3> QED
      BY <2>4, <2>9, <2>10, <3>1
  <2>12. CASE k = Parts
    <3>1. Len(wire') = (Done + 1) * Parts + 0
      BY <2>4, <2>7, <2>12, NextMultiple
    <3>2. Len(wire') \div Parts = Done + 1
      BY <2>4, <3>1, Quotient
    <3>3. Done < Len(accepted) /\ accepted \in Seq(Frames)
      BY <2>2, WireWithinAccepted DEF Inv, TypeOK
    <3>4. Len(Written) = Done /\ Written' = Append(Written, accepted[Done + 1])
      BY <2>4, <2>9, <2>10, <3>2, <3>3
    <3> QED
      BY <2>4, <3>3, <3>4 DEF Channel!Next, Channel!Leave
  <2> QED
    BY <2>5, <2>11, <2>12
<1>4. CASE \E w \in writes : WriteFails(w) \/ WriteDone(w) \/ WriteError(w)
  BY <1>4, <1>1 DEF WriteFails, WriteDone, WriteError
<1>5. CASE Close \/ PeerGone \/ IoStop \/ UNCHANGED vars
  BY <1>5, <1>1 DEF Close, PeerGone, IoStop, vars
<1> QED
  BY <1>2, <1>3, <1>4, <1>5 DEF Next, IoThread

(* The sending half of a session implements the abstract channel: replies  *)
(* arrive at most once, unchanged, in the order send() accepted them.      *)
THEOREM Refinement == SafetySpec => SentInOrder
<1>1. Init => Channel!Init
  <2> SUFFICES ASSUME Init PROVE accepted = <<>> /\ Written = <<>>
    BY DEF Channel!Init
  <2>1. Len(wire) \div Parts = 0
    <3>1. Len(wire) = 0 * Parts + 0
      BY DEF Init
    <3> QED
      BY <3>1, Quotient
  <2> QED
    BY <2>1 DEF Init, Written
<1> QED
  BY <1>1, WireInvariance, StepRefines, PTL DEF SafetySpec, SentInOrder, Channel!Spec
=============================================================================
