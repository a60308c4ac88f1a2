------------------------- MODULE SessionReadProofs -------------------------
(***************************************************************************)
(* Proofs about the framing of SessionRead, for any header length, any     *)
(* MAX_LENGTH, any lengths and any number of frames, and however the stream*)
(* is cut: handleRead never loses its place.                               *)
(*                                                                         *)
(* The invariant lays the frames sent along the bytes not yet consumed:    *)
(* frame i begins after position off[i] of them, which is negative for what*)
(* has been consumed.  The frame being read is Current, and Consumed of its*)
(* bytes are.  Consuming n bytes moves every frame back by n.              *)
(***************************************************************************)
EXTENDS SessionRead, SequenceTheorems, TLAPS

Current == Len(posted) + 1

Consumed == IF b_head_parse THEN HeadLen + Len(msg.body) ELSE Len(head)

Rest == data \o pipe

Size(i) == HeadLen + BodyLen(sent[i])

Sizes == [i \in 1..Len(sent) |-> Size(i)]

(* N frames of sizes sz, one after the other, are the l bytes of r, whatever*)
(* was consumed before them left out, and end where r ends.                *)
Laid(off, N, sz, r, l) ==
  /\ off \in [1..(N + 1) -> Int]
  /\ off[N + 1] = l
  /\ \A i \in 1..N : off[i + 1] = off[i] + sz[i]
  /\ \A i \in 1..(N + 1) : off[i] <= l
  /\ \A i \in 1..N : \A j \in 1..sz[i] : off[i] + j >= 1 => r[off[i] + j] = <<i, j>>

Placed(off) ==
  /\ Laid(off, Len(sent), Sizes, Rest, Len(Rest))
  /\ off[Current] + Consumed = 0

(* A session that was dropped or has stalled reads no more.  A body of     *)
(* length -1 has a place too, that of its frame: it consumes the bytes of  *)
(* the frames after it, and is never posted.                               *)
InPlace == reader \notin {"cleared", "stalled", "crashed"} => \E off : Placed(off)

(* What has been kept of the current frame are its first bytes.            *)
HeadBegun ==
  ~b_head_parse => \A x \in 1..Len(head) : head[x] = <<Current, x>>

BodyBegun ==
  b_head_parse =>
    /\ Current \in 1..Len(sent)
    /\ Allocated(sent[Current]) /\ msg.len = sent[Current].len
    /\ msg.len >= 0 =>
         \A x \in 1..Len(msg.body) : msg.body[x] = <<Current, HeadLen + x>>

(* data_ holds bytes only while a handler runs.                            *)
DataWhileRunning == reader \in {"armed", "closed"} => data = <<>>

Inv ==
  /\ TypeOK
  /\ InPlace
  /\ HeadBegun
  /\ BodyBegun
  /\ DataWhileRunning
  /\ PostedAreSent
  /\ OverrunExplained
  /\ DroppedForACause

USE HeadLenAssumption, MaxLengthAssumption, LensAssumption, MaxFramesAssumption

-----------------------------------------------------------------------------
(* Sequences.                                                              *)

LEMMA Concatenation ==
  ASSUME NEW S, NEW p \in Seq(S), NEW q \in Seq(S)
  PROVE  /\ p \o q \in Seq(S)
         /\ Len(p \o q) = Len(p) + Len(q) /\ Len(p) \in Nat /\ Len(q) \in Nat
         /\ \A x \in 1..Len(p) : (p \o q)[x] = p[x]
         /\ \A x \in 1..Len(q) : (p \o q)[Len(p) + x] = q[x]
OBVIOUS

LEMMA Split ==
  ASSUME NEW S, NEW q \in Seq(S), NEW n \in 0..Len(q)
  PROVE  /\ Take(q, n) \in Seq(S) /\ Len(Take(q, n)) = n
         /\ \A x \in 1..n : Take(q, n)[x] = q[x]
         /\ Drop(q, n) \in Seq(S) /\ Len(Drop(q, n)) = Len(q) - n
         /\ \A x \in 1..(Len(q) - n) : Drop(q, n)[x] = q[n + x]
<1>1. /\ Take(q, n) \in Seq(S) /\ Len(Take(q, n)) = n
      /\ \A x \in 1..n : Take(q, n)[x] = q[x]
  BY DEF Take
<1>2. /\ Drop(q, n) \in Seq(S) /\ Len(Drop(q, n)) = Len(q) - n
      /\ \A x \in 1..(Len(q) - n) : Drop(q, n)[x] = q[n + x]
  BY DEF Drop
<1> QED
  BY <1>1, <1>2

LEMMA Rejoin ==
  ASSUME NEW S, NEW q \in Seq(S), NEW n \in 0..Len(q)
  PROVE  Take(q, n) \o Drop(q, n) = q
<1>1. /\ Take(q, n) \in Seq(S) /\ Len(Take(q, n)) = n
      /\ \A x \in 1..n : Take(q, n)[x] = q[x]
      /\ Drop(q, n) \in Seq(S) /\ Len(Drop(q, n)) = Len(q) - n
      /\ \A x \in 1..(Len(q) - n) : Drop(q, n)[x] = q[n + x]
  BY Split
<1> DEFINE r == Take(q, n) \o Drop(q, n)
<1>0. /\ r \in Seq(S) /\ Len(r) = n + (Len(q) - n)
      /\ \A x \in 1..n : r[x] = Take(q, n)[x]
      /\ \A x \in 1..(Len(q) - n) : r[n + x] = Drop(q, n)[x]
  <2>1. Take(q, n) \in Seq(S) /\ Drop(q, n) \in Seq(S)
    BY <1>1
  <2>2. /\ r \in Seq(S) /\ Len(r) = Len(Take(q, n)) + Len(Drop(q, n))
        /\ \A x \in 1..Len(Take(q, n)) : r[x] = Take(q, n)[x]
        /\ \A x \in 1..Len(Drop(q, n)) : r[Len(Take(q, n)) + x] = Drop(q, n)[x]
    BY <2>1, Concatenation
  <2> HIDE DEF r
  <2> QED
    BY <1>1, <2>2
<1> HIDE DEF r
<1>2. r \in Seq(S) /\ Len(r) = Len(q)
  BY <1>0
<1>3. \A x \in 1..Len(q) : r[x] = q[x]
  <2> SUFFICES ASSUME NEW x \in 1..Len(q) PROVE r[x] = q[x]
    OBVIOUS
  <2>1. CASE x <= n
    BY <1>0, <1>1, <2>1
  <2>2. CASE x > n
    <3>1. PICK y \in 1..(Len(q) - n) : x = n + y
      BY <2>2
    <3> QED
      BY <1>0, <1>1, <3>1
  <2> QED
    BY <2>1, <2>2
<1>4. r = q
  BY <1>2, <1>3, SeqEqual
<1> QED
  BY <1>4 DEF r

-----------------------------------------------------------------------------
(* The bytes of a frame.                                                   *)

LEMMA FrameShape ==
  ASSUME NEW i \in Nat, NEW f \in Frame
  PROVE  /\ BodyLen(f) \in Nat
         /\ f.len \in Int /\ (f.len >= 0 => BodyLen(f) = f.len)
         /\ Len(FrameBytes(i, f)) = HeadLen + BodyLen(f)
         /\ \A j \in 1..(HeadLen + BodyLen(f)) : FrameBytes(i, f)[j] = <<i, j>>
         /\ i \in 1..MaxFrames => FrameBytes(i, f) \in Seq(Bytes)
<1>1. f.len \in Int
  BY DEF Frame
<1>2. BodyLen(f) \in Nat /\ (f.len >= 0 => BodyLen(f) = f.len)
  BY <1>1 DEF BodyLen
<1>3. /\ Len(FrameBytes(i, f)) = HeadLen + BodyLen(f)
      /\ \A j \in 1..(HeadLen + BodyLen(f)) : FrameBytes(i, f)[j] = <<i, j>>
  BY <1>2 DEF FrameBytes
<1>4. i \in 1..MaxFrames => FrameBytes(i, f) \in Seq(Bytes)
  BY <1>2 DEF FrameBytes, Bytes
<1> QED
  BY <1>1, <1>2, <1>3, <1>4

(* A length that is allocated is valid, or it is -1.                       *)
LEMMA Lengths ==
  ASSUME NEW f \in Frame
  PROVE  /\ f.len \in Int
         /\ Valid(f) <=> Allocated(f) /\ f.len >= 0
         /\ Allocated(f) /\ ~Valid(f) <=> ~Rejected(f) /\ f.len = -1
<1>1. f.len \in Int
  BY DEF Frame
<1> QED
  BY <1>1 DEF Allocated, Valid

(* A sequence that holds the body of a frame byte by byte is its body.     *)
LEMMA BodyIs ==
  ASSUME NEW i \in 1..MaxFrames, NEW f \in Frame, NEW b \in Seq(Bytes), Len(b) = BodyLen(f),
         \A x \in 1..Len(b) : b[x] = <<i, HeadLen + x>>
  PROVE  b = BodyBytes(i, f)
<1>1. BodyLen(f) \in Nat
  BY FrameShape
<1>2. /\ BodyBytes(i, f) \in Seq(Bytes) /\ Len(BodyBytes(i, f)) = BodyLen(f)
      /\ \A x \in 1..BodyLen(f) : BodyBytes(i, f)[x] = <<i, HeadLen + x>>
  <2>1. \A x \in 1..BodyLen(f) : <<i, HeadLen + x>> \in Bytes
    BY <1>1 DEF Bytes
  <2> DEFINE n == BodyLen(f)
             e(j) == <<i, HeadLen + j>>
  <2>2. BodyBytes(i, f) = [j \in 1..n |-> e(j)]
    BY DEF BodyBytes
  <2>3. n \in Nat /\ \A j \in 1..n : e(j) \in Bytes
    BY <1>1, <2>1
  <2> HIDE DEF n, e
  <2>4. /\ [j \in 1..n |-> e(j)] \in Seq(Bytes) /\ Len([j \in 1..n |-> e(j)]) = n
        /\ \A x \in 1..n : [j \in 1..n |-> e(j)][x] = e(x)
    BY <2>3
  <2> QED
    BY <2>2, <2>4 DEF n, e
<1> QED
  BY <1>1, <1>2, SeqEqual

(* A header that holds the first bytes of a sent frame says what that frame*)
(* says, and nothing else.                                                 *)
LEMMA HeaderIs ==
  ASSUME sent \in Seq(Frame), NEW i \in 1..Len(sent), NEW h \in Seq(Bytes), Len(h) = HeadLen,
         i \in 1..MaxFrames,
         \A x \in 1..HeadLen : h[x] = <<i, x>>, NEW f \in Decoded(h)
  PROVE  f = sent[i]
<1>1. sent[i] \in Frame /\ i \in Nat
  OBVIOUS
<1>2. /\ FrameBytes(i, sent[i]) \in Seq(Bytes) /\ BodyLen(sent[i]) \in Nat
      /\ Len(FrameBytes(i, sent[i])) = HeadLen + BodyLen(sent[i])
      /\ \A j \in 1..(HeadLen + BodyLen(sent[i])) : FrameBytes(i, sent[i])[j] = <<i, j>>
  BY <1>1, FrameShape
<1> DEFINE g == FrameBytes(i, sent[i])
           s == SubSeq(g, 1, HeadLen)
<1> HIDE DEF g
<1>3. s \in Seq(Bytes) /\ Len(s) = HeadLen /\ \A x \in 1..HeadLen : s[x] = <<i, x>>
  BY <1>2 DEF g
<1> HIDE DEF s
<1>4. h = s
  BY <1>3, SeqEqual
<1> QED
  BY <1>4 DEF Decoded, s, g

-----------------------------------------------------------------------------
(* The place in the stream.                                                *)

LEMMA Shapes ==
  ASSUME Inv
  PROVE  /\ sent \in Seq(Frame) /\ Len(sent) \in Nat /\ Len(sent) <= MaxFrames
         /\ posted \in Seq(Seq(Bytes)) /\ Current \in 1..(Len(sent) + 1)
         /\ data \in Seq(Bytes) /\ pipe \in Seq(Bytes) /\ Rest \in Seq(Bytes)
         /\ head \in Seq(Bytes) /\ Len(head) < HeadLen
         /\ msg \in [len : Lens \cup {0}, body : Seq(Bytes)] /\ msg.len \in Int
         /\ Len(msg.body) \in Nat
         /\ Consumed \in Nat
         /\ \A i \in 1..Len(sent) : Size(i) \in Nat /\ Size(i) >= HeadLen /\ sent[i] \in Frame
<1>1. /\ sent \in Seq(Frame) /\ Len(sent) \in Nat /\ Len(sent) <= MaxFrames
      /\ posted \in Seq(Seq(Bytes)) /\ Len(posted) \in Nat /\ Len(posted) <= Len(sent)
      /\ data \in Seq(Bytes) /\ pipe \in Seq(Bytes)
      /\ head \in Seq(Bytes) /\ Len(head) \in Nat /\ Len(head) < HeadLen
      /\ msg \in [len : Lens \cup {0}, body : Seq(Bytes)]
  BY DEF Inv, TypeOK, PostedAreSent, OverrunExplained
<1>2. msg.len \in Int /\ msg.body \in Seq(Bytes) /\ Len(msg.body) \in Nat
  <2>1. msg.len \in Lens \cup {0} /\ msg.body \in Seq(Bytes)
    BY <1>1
  <2>2. Len(msg.body) \in Nat
    BY <2>1, LenProperties
  <2>3. \A l \in Lens \cup {0} : l \in Int
    OBVIOUS
  <2> QED
    BY <2>1, <2>2, <2>3
<1>3. Current \in 1..(Len(sent) + 1)
  BY <1>1 DEF Current
<1>4. Rest \in Seq(Bytes)
  BY <1>1, Concatenation DEF Rest
<1>5. Consumed \in Nat
  BY <1>1, <1>2 DEF Consumed
<1>6. ASSUME NEW i \in 1..Len(sent)
      PROVE  Size(i) \in Nat /\ Size(i) >= HeadLen /\ sent[i] \in Frame
  <2>1. sent[i] \in Frame
    BY <1>1
  <2>2. BodyLen(sent[i]) \in Nat
    BY <1>1, <2>1, FrameShape
  <2> QED
    BY <2>1, <2>2 DEF Size
<1> QED
  BY <1>1, <1>2, <1>3, <1>4, <1>5, <1>6 DEF Inv, OverrunExplained

(* A handler that has bytes has a frame they belong to, and what it has up *)
(* to the end of that frame continues it.                                  *)
LEMMA DataContinues ==
  ASSUME Inv, reader = "running", data # <<>>
  PROVE  /\ Current \in 1..Len(sent)
         /\ \A x \in 1..Len(data) :
              Consumed + x <= Size(Current) => data[x] = <<Current, Consumed + x>>
<1>1. PICK off : Placed(off)
  BY DEF Inv, InPlace
<1>2. /\ Len(sent) \in Nat /\ Current \in 1..(Len(sent) + 1) /\ Consumed \in Nat
      /\ data \in Seq(Bytes) /\ pipe \in Seq(Bytes)
  BY Shapes
<1>3. /\ Len(data) \in Nat \ {0} /\ Len(Rest) = Len(data) + Len(pipe) /\ Len(pipe) \in Nat
      /\ \A x \in 1..Len(data) : Rest[x] = data[x]
  BY <1>2, Concatenation DEF Rest
<1>4. /\ off \in [1..(Len(sent) + 1) -> Int]
      /\ off[Len(sent) + 1] = Len(Rest)
      /\ off[Current] + Consumed = 0
  BY <1>1 DEF Placed, Laid
<1>5. Current \in 1..Len(sent)
  BY <1>2, <1>3, <1>4
<1>6. /\ Size(Current) \in Nat /\ off[Current] \in Int
      /\ \A k \in 1..Size(Current) :
           off[Current] + k >= 1 => Rest[off[Current] + k] = <<Current, k>>
  <2>1. \A i \in 1..Len(sent) : \A k \in 1..Sizes[i] :
          off[i] + k >= 1 => Rest[off[i] + k] = <<i, k>>
    BY <1>1 DEF Placed, Laid
  <2>2. Sizes[Current] = Size(Current)
    BY <1>5 DEF Sizes
  <2>3. Size(Current) \in Nat /\ off[Current] \in Int
    BY <1>2, <1>4, <1>5, Shapes
  <2> QED
    BY <1>5, <2>1, <2>2, <2>3
<1>7. ASSUME NEW x \in 1..Len(data), Consumed + x <= Size(Current)
      PROVE  data[x] = <<Current, Consumed + x>>
  <2> DEFINE o == off[Current]
             k == Consumed
             s == Size(Current)
             j == k + x
  <2>0. x \in Nat \ {0} /\ k \in Nat /\ s \in Nat /\ k + x <= s /\ o \in Int /\ o + k = 0
    BY <1>2, <1>3, <1>4, <1>6, <1>7
  <2> HIDE DEF k, s, o
  <2>1. j \in 1..s /\ o + j = x /\ x >= 1
    BY <2>0
  <2> USE DEF k, s, o
  <2>2. o + j >= 1 => Rest[o + j] = <<Current, j>>
    BY <1>6, <2>1
  <2> HIDE DEF o, j
  <2>3. Rest[x] = <<Current, j>>
    BY <2>1, <2>2
  <2> QED
    BY <1>3, <2>3 DEF j, k
<1> QED
  BY <1>5, <1>7

LEMMA WithinWhatIsLeft ==
  ASSUME NEW o \in Int, NEW w \in Int, NEW s \in Nat, NEW j \in 1..s, NEW l \in Nat, NEW n \in Nat,
         o + s <= l, w = o - n, w + j >= 1
  PROVE  w + j \in 1..(l - n) /\ o + j = n + (w + j) /\ o + j >= 1
OBVIOUS

(* Moving the frames back by n places lays them along what is left when n  *)
(* of the bytes are consumed.                                              *)
Follows(q, r, n, l) == n \in 0..l /\ \A x \in 1..(l - n) : q[x] = r[n + x]

Back(off, N, n) == [i \in 1..(N + 1) |-> off[i] - n]

LEMMA MovedBack ==
  ASSUME NEW N \in Nat, NEW sz \in [1..N -> Nat], NEW lr \in Nat, NEW r, NEW off,
         Laid(off, N, sz, r, lr), NEW q, NEW n, Follows(q, r, n, lr)
  PROVE  Laid(Back(off, N, n), N, sz, q, lr - n)
<1> DEFINE new == Back(off, N, n)
           lq == lr - n
<1>1. /\ off \in [1..(N + 1) -> Int]
      /\ off[N + 1] = lr
      /\ \A i \in 1..N : off[i + 1] = off[i] + sz[i]
      /\ \A i \in 1..(N + 1) : off[i] <= lr
  BY DEF Laid
<1>2. \A i \in 1..N : \A j \in 1..sz[i] : off[i] + j >= 1 => r[off[i] + j] = <<i, j>>
  BY DEF Laid
<1>3. n \in Nat /\ n <= lr /\ lq \in Nat /\ lq = lr - n
  BY DEF Follows
<1>4. \A x \in 1..lq : q[x] = r[n + x]
  BY DEF Follows
<1>5. new = [i \in 1..(N + 1) |-> off[i] - n]
  BY DEF Back
<1> HIDE DEF new, lq
<1>6. /\ new \in [1..(N + 1) -> Int]
      /\ \A i \in 1..(N + 1) : new[i] = off[i] - n /\ off[i] \in Int
  BY <1>1, <1>3, <1>5
<1>7. new[N + 1] = lq
  BY <1>1, <1>3, <1>6
<1>8. \A i \in 1..N : new[i + 1] = new[i] + sz[i]
  <2> SUFFICES ASSUME NEW i \in 1..N PROVE new[i + 1] = new[i] + sz[i]
    OBVIOUS
  <2>1. i \in 1..(N + 1) /\ i + 1 \in 1..(N + 1) /\ sz[i] \in Nat
    OBVIOUS
  <2> QED
    BY <1>1, <1>3, <1>6, <2>1
<1>9. \A i \in 1..(N + 1) : new[i] <= lq
  BY <1>1, <1>3, <1>6
<1>10. ASSUME NEW i \in 1..N, NEW j \in 1..sz[i], new[i] + j >= 1
       PROVE  q[new[i] + j] = <<i, j>>
  <2>1. i \in 1..(N + 1) /\ i + 1 \in 1..(N + 1) /\ sz[i] \in Nat
    OBVIOUS
  <2>2. /\ off[i] \in Int /\ off[i] + sz[i] <= lr
        /\ new[i] \in Int /\ new[i] = off[i] - n
    BY <1>1, <1>6, <2>1
  <2> DEFINE o == off[i]
             w == new[i]
             s == sz[i]
  <2>3. /\ o \in Int /\ w \in Int /\ s \in Nat /\ j \in 1..s
        /\ o + s <= lr /\ w = o - n /\ w + j >= 1
    BY <1>10, <2>1, <2>2
  <2> HIDE DEF o, w, s
  <2>4. w + j \in 1..(lr - n) /\ o + j = n + (w + j) /\ o + j >= 1
    BY <1>3, <2>3, WithinWhatIsLeft
  <2> DEFINE x == w + j
             y == o + j
  <2>5. x \in 1..lq /\ y = n + x /\ y >= 1
    BY <1>3, <2>4
  <2>6. y >= 1 => r[y] = <<i, j>>
    BY <1>2 DEF o
  <2> HIDE DEF x, y
  <2>7. q[x] = <<i, j>>
    BY <1>4, <2>5, <2>6
  <2> QED
    BY <2>7 DEF x, w
<1> QED
  BY <1>1, <1>6, <1>7, <1>8, <1>9, <1>10 DEF Laid, new, lq

(* What follows the first n bytes of p, then q.                            *)
LEMMA DropFirst ==
  ASSUME NEW S, NEW p \in Seq(S), NEW q \in Seq(S), NEW n \in 0..Len(p)
  PROVE  /\ Drop(p, n) \in Seq(S) /\ Drop(p, n) \o q \in Seq(S)
         /\ Len(Drop(p, n) \o q) = Len(p \o q) - n
         /\ \A x \in 1..(Len(p \o q) - n) : (Drop(p, n) \o q)[x] = (p \o q)[n + x]
<1> DEFINE d == Drop(p, n)
           dq == d \o q
           pq == p \o q
<1>1. /\ d \in Seq(S) /\ Len(d) = Len(p) - n
      /\ \A x \in 1..(Len(p) - n) : d[x] = p[n + x]
  BY Split
<1> HIDE DEF d
<1>2. /\ dq \in Seq(S)
      /\ Len(dq) = (Len(p) - n) + Len(q)
      /\ \A x \in 1..(Len(p) - n) : dq[x] = d[x]
      /\ \A x \in 1..Len(q) : dq[(Len(p) - n) + x] = q[x]
  <2>1. /\ dq \in Seq(S) /\ Len(dq) = Len(d) + Len(q)
        /\ \A x \in 1..Len(d) : dq[x] = d[x]
        /\ \A x \in 1..Len(q) : dq[Len(d) + x] = q[x]
    <3>1. d \in Seq(S)
      BY <1>1
    <3> QED
      BY <3>1, Concatenation
  <2> HIDE DEF dq
  <2> QED
    BY <1>1, <2>1
<1>3. /\ Len(pq) = Len(p) + Len(q) /\ Len(p) \in Nat /\ Len(q) \in Nat
      /\ \A x \in 1..Len(p) : pq[x] = p[x]
      /\ \A x \in 1..Len(q) : pq[Len(p) + x] = q[x]
  BY Concatenation
<1> HIDE DEF dq, pq
<1>4. Len(dq) = Len(pq) - n
  BY <1>2, <1>3
<1>5. \A x \in 1..(Len(pq) - n) : dq[x] = pq[n + x]
  <2> SUFFICES ASSUME NEW x \in 1..(Len(pq) - n) PROVE dq[x] = pq[n + x]
    OBVIOUS
  <2>1. CASE x <= Len(p) - n
    <3>1. n + x \in 1..Len(p) /\ x \in 1..(Len(p) - n)
      BY <1>3, <2>1
    <3> QED
      BY <1>1, <1>2, <1>3, <3>1
  <2>2. CASE x > Len(p) - n
    <3>1. x - (Len(p) - n) \in 1..Len(q)
      BY <1>3, <2>2
    <3>2. PICK y \in 1..Len(q) : y = x - (Len(p) - n)
      BY <3>1
    <3>3. x = (Len(p) - n) + y /\ n + x = Len(p) + y
      BY <1>3, <3>2
    <3> QED
      BY <1>2, <1>3, <3>3
  <2> QED
    BY <1>3, <2>1, <2>2
<1> QED
  BY <1>1, <1>2, <1>4, <1>5 DEF d, dq, pq

(* Consuming n bytes of the current frame, up to its end or not, keeps the *)
(* place.                                                                  *)
LEMMA Advance ==
  ASSUME Inv, reader = "running", NEW n \in 1..Len(data),
         data' = Drop(data, n), UNCHANGED <<pipe, sent>>,
         \/ Current' = Current /\ Consumed' = Consumed + n
         \/ Current' = Current + 1 /\ Consumed' = 0 /\ Consumed + n = Size(Current)
  PROVE  \E off : Placed(off)'
<1>1. PICK off : Placed(off)
  BY DEF Inv, InPlace
<1>2. /\ Len(sent) \in Nat /\ Current \in 1..(Len(sent) + 1) /\ Consumed \in Nat
      /\ data \in Seq(Bytes) /\ pipe \in Seq(Bytes) /\ Rest \in Seq(Bytes)
      /\ \A i \in 1..Len(sent) : Size(i) \in Nat
  BY Shapes
<1>3. /\ Len(data) \in Nat /\ Len(Rest) \in Nat /\ n \in 0..Len(data) /\ n \in Nat
      /\ Len(Rest) = Len(data) + Len(pipe) /\ Len(pipe) \in Nat
  BY <1>2, LenProperties, Concatenation DEF Rest
<1>4. Current \in 1..Len(sent)
  BY <1>2, <1>3, DataContinues
<1>5. Len(Rest') = Len(Rest) - n /\ Follows(Rest', Rest, n, Len(Rest))
  <2>1. Rest' = Drop(data, n) \o pipe
    BY DEF Rest
  <2>2. /\ Len(Drop(data, n) \o pipe) = Len(data \o pipe) - n
        /\ \A x \in 1..(Len(data \o pipe) - n) : (Drop(data, n) \o pipe)[x] = (data \o pipe)[n + x]
    <3>1. data \in Seq(Bytes) /\ pipe \in Seq(Bytes) /\ n \in 0..Len(data)
      BY <1>2, <1>3
    <3> QED
      BY <3>1, DropFirst, SMTT(40)
  <2>3. /\ Len(Rest') = Len(Rest) - n
        /\ \A x \in 1..(Len(Rest) - n) : Rest'[x] = Rest[n + x]
    BY <2>1, <2>2, Zenon DEF Rest
  <2>4. n \in 0..Len(Rest)
    BY <1>3
  <2> QED
    BY <2>3, <2>4 DEF Follows
<1>0. PICK new : new = Back(off, Len(sent), n)
  OBVIOUS
<1>6. Sizes \in [1..Len(sent) -> Nat]
  BY <1>2 DEF Sizes
<1>7. Laid(off, Len(sent), Sizes, Rest, Len(Rest))
  BY <1>1 DEF Placed
<1>8. Laid(new, Len(sent), Sizes, Rest', Len(Rest'))
  <2>1. Len(sent) \in Nat /\ Len(Rest) \in Nat
    BY <1>2, <1>3
  <2>2. Laid(new, Len(sent), Sizes, Rest', Len(Rest) - n)
    BY <1>0, <1>5, <1>6, <1>7, <2>1, MovedBack
  <2> QED
    BY <1>5, <2>2
<1>9. new[Current'] + Consumed' = 0
  <2> DEFINE c == Current
             k == Consumed
             size == Size(Current)
  <2>1. /\ off \in [1..(Len(sent) + 1) -> Int]
        /\ \A i \in 1..Len(sent) : off[i + 1] = off[i] + Sizes[i]
    BY <1>7 DEF Laid
  <2>2. /\ c \in 1..Len(sent) /\ k \in Nat /\ size \in Nat /\ off[c] + k = 0
    BY <1>1, <1>2, <1>4 DEF Placed
  <2>3. Sizes[c] = size
    BY <2>2 DEF Sizes
  <2>4. \/ Current' = c /\ Consumed' = k + n
        \/ Current' = c + 1 /\ Consumed' = 0 /\ k + n = size
    OBVIOUS
  <2> HIDE DEF c, k, size
  <2>5. c \in 1..(Len(sent) + 1) /\ c + 1 \in 1..(Len(sent) + 1)
    BY <1>2, <2>2
  <2>6. /\ new[c] = off[c] - n /\ new[c + 1] = off[c + 1] - n
        /\ off[c + 1] = off[c] + size /\ off[c] \in Int
    BY <1>0, <2>1, <2>2, <2>3, <2>5 DEF Back
  <2>7. new[c] + (k + n) = 0 /\ (k + n = size => new[c + 1] + 0 = 0)
    BY <1>3, <2>2, <2>6, SMTT(40)
  <2> QED
    BY <2>4, <2>7
<1>10. Placed(new)'
  <2>1. Len(sent') = Len(sent) /\ Sizes' = Sizes
    BY DEF Sizes, Size
  <2> QED
    BY <1>8, <1>9, <2>1 DEF Placed
<1> QED
  BY <1>10
(* A frame added at the end is laid after the others.                      *)
Extends(q, r, N, s, l) ==
  /\ \A x \in 1..l : q[x] = r[x]
  /\ \A j \in 1..s : q[l + j] = <<N + 1, j>>

Beyond(off, N, s, l) == [i \in 1..(N + 2) |-> IF i <= N + 1 THEN off[i] ELSE l + s]

LEMMA FrameAdded ==
  ASSUME NEW N \in Nat, NEW sz \in [1..N -> Nat], NEW lr \in Nat, NEW r, NEW off,
         Laid(off, N, sz, r, lr), NEW s \in Nat, NEW q, Extends(q, r, N, s, lr),
         NEW tz \in [1..(N + 1) -> Nat], tz[N + 1] = s, \A i \in 1..N : tz[i] = sz[i]
  PROVE  Laid(Beyond(off, N, s, lr), N + 1, tz, q, lr + s)
<1> DEFINE new == Beyond(off, N, s, lr)
<1>1. /\ off \in [1..(N + 1) -> Int]
      /\ off[N + 1] = lr
      /\ \A i \in 1..N : off[i + 1] = off[i] + sz[i]
      /\ \A i \in 1..(N + 1) : off[i] <= lr
  BY DEF Laid
<1>2. \A i \in 1..N : \A j \in 1..sz[i] : off[i] + j >= 1 => r[off[i] + j] = <<i, j>>
  BY DEF Laid
<1>3. /\ \A x \in 1..lr : q[x] = r[x]
      /\ \A j \in 1..s : q[lr + j] = <<N + 1, j>>
  BY DEF Extends
<1>4. /\ new \in [1..(N + 2) -> Int]
      /\ \A i \in 1..(N + 1) : new[i] = off[i] /\ new[i] \in Int /\ new[i] <= lr
      /\ new[N + 2] = lr + s
  BY <1>1 DEF Beyond
<1> HIDE DEF new
<1>5. \A i \in 1..(N + 1) : new[i + 1] = new[i] + tz[i]
  <2> SUFFICES ASSUME NEW i \in 1..(N + 1) PROVE new[i + 1] = new[i] + tz[i]
    OBVIOUS
  <2>1. CASE i = N + 1
    BY <1>1, <1>4, <2>1
  <2>2. CASE i # N + 1
    <3>1. i \in 1..N /\ i + 1 \in 1..(N + 1)
      BY <2>2
    <3> QED
      BY <1>1, <1>4, <3>1
  <2> QED
    BY <2>1, <2>2
<1>6. \A i \in 1..(N + 2) : new[i] <= lr + s
  <2> SUFFICES ASSUME NEW i \in 1..(N + 2) PROVE new[i] <= lr + s
    OBVIOUS
  <2>1. CASE i = N + 2
    BY <1>4, <2>1
  <2>2. CASE i # N + 2
    <3>1. i \in 1..(N + 1)
      BY <2>2
    <3> QED
      BY <1>4, <3>1
  <2> QED
    BY <2>1, <2>2
<1>7. ASSUME NEW i \in 1..(N + 1), NEW j \in 1..tz[i], new[i] + j >= 1
      PROVE  q[new[i] + j] = <<i, j>>
  <2>1. CASE i = N + 1
    <3>1. new[i] = lr /\ j \in 1..s
      BY <1>1, <1>4, <2>1
    <3>2. q[lr + j] = <<N + 1, j>>
      BY <1>3, <3>1
    <3> QED
      BY <2>1, <3>1, <3>2
  <2>2. CASE i # N + 1
    <3>1. i \in 1..N /\ i + 1 \in 1..(N + 1) /\ j \in 1..sz[i] /\ sz[i] \in Nat
      BY <2>2
    <3> DEFINE o == off[i]
               n == sz[i]
               x == o + j
    <3>2. o \in Int /\ o + n <= lr /\ n \in Nat /\ j \in 1..n /\ new[i] = o
      BY <1>1, <1>4, <3>1
    <3>3. o + j >= 1
      BY <1>7, <3>2
    <3>4. x >= 1 => r[x] = <<i, j>>
      BY <1>2, <3>1
    <3> HIDE DEF o, n
    <3>5. x \in 1..lr
      BY <3>2, <3>3
    <3> HIDE DEF x
    <3>6. q[x] = <<i, j>>
      BY <1>3, <3>4, <3>5
    <3> QED
      BY <3>2, <3>6 DEF x
  <2> QED
    BY <2>1, <2>2
<1>8. N + 1 + 1 = N + 2
  OBVIOUS
<1> QED
  BY <1>4, <1>5, <1>6, <1>7, <1>8 DEF Laid, new

-----------------------------------------------------------------------------
(* The steps.                                                              *)

LEMMA InitInv == Init => Inv
<1> SUFFICES ASSUME Init PROVE Inv
  OBVIOUS
<1> USE DEF Init
<1>1. TypeOK
  <2>1. <<>> \in Seq(Frame) /\ Len(<<>>) = 0 /\ <<>> \in Seq(Bytes) /\ <<>> \in Seq(Seq(Bytes))
    OBVIOUS
  <2>2. msg \in [len : Lens \cup {0}, body : Seq(Bytes)]
    BY <2>1
  <2>3. /\ sent \in Seq(Frame) /\ Len(sent) <= MaxFrames
        /\ pipe \in Seq(Bytes) /\ data \in Seq(Bytes) /\ head \in Seq(Bytes)
        /\ posted \in Seq(Seq(Bytes))
    BY <2>1
  <2>4. side \in {"server", "client"} /\ reader = "armed" /\ b_head_parse = FALSE
    OBVIOUS
  <2> HIDE DEF Init
  <2> QED
    BY <2>2, <2>3, <2>4 DEF TypeOK
<1>2. InPlace
  <2>1. PICK off : off = [i \in 1..1 |-> 0]
    OBVIOUS
  <2>2. Len(sent) = 0 /\ Current = 1 /\ Consumed = 0
    BY DEF Current, Consumed
  <2>3. Rest = <<>> /\ Len(Rest) = 0
    BY DEF Rest
  <2>4. Laid(off, 0, Sizes, Rest, 0)
    BY <2>1 DEF Laid
  <2>5. off[Current] + Consumed = 0
    BY <2>1, <2>2
  <2>6. Placed(off)
    BY <2>2, <2>3, <2>4, <2>5 DEF Placed
  <2> QED
    BY <2>6 DEF InPlace
<1>3. HeadBegun /\ BodyBegun /\ DataWhileRunning
  BY DEF HeadBegun, BodyBegun, DataWhileRunning
<1>4. PostedAreSent /\ OverrunExplained /\ DroppedForACause
  BY DEF PostedAreSent, OverrunExplained, DroppedForACause
<1> QED
  BY <1>1, <1>2, <1>3, <1>4 DEF Inv

LEMMA PeerSendsInv == ASSUME Inv, NEW f \in Frame, PeerSends(f) PROVE Inv'
<1>1. /\ sent \in Seq(Frame) /\ Len(sent) \in Nat /\ posted \in Seq(Seq(Bytes))
      /\ data \in Seq(Bytes) /\ pipe \in Seq(Bytes) /\ Rest \in Seq(Bytes)
      /\ Current \in 1..(Len(sent) + 1) /\ Consumed \in Nat
      /\ \A i \in 1..Len(sent) : Size(i) \in Nat
  BY Shapes
<1>2. /\ sent' \in Seq(Frame) /\ Len(sent') = Len(sent) + 1 /\ Len(sent') <= MaxFrames
      /\ sent'[Len(sent) + 1] = f
      /\ \A i \in 1..Len(sent) : sent'[i] = sent[i]
  BY <1>1, AppendProperties DEF PeerSends
<1> DEFINE N == Len(sent)
           s == HeadLen + BodyLen(f)
           bytes == FrameBytes(N + 1, f)
<1>3. /\ bytes \in Seq(Bytes) /\ s \in Nat /\ Len(bytes) = s
      /\ \A j \in 1..s : bytes[j] = <<N + 1, j>>
  <2>1. N + 1 \in Nat /\ N + 1 \in 1..MaxFrames
    BY <1>1, <1>2
  <2>2. BodyLen(f) \in Nat
    BY <2>1, FrameShape
  <2> QED
    BY <2>1, <2>2, FrameShape
<1>4. pipe' = pipe \o bytes /\ Rest' = Rest \o bytes
  <2>1. pipe' = pipe \o bytes /\ data' = data
    BY <1>2 DEF PeerSends
  <2> HIDE DEF bytes
  <2>2. data \o (pipe \o bytes) = (data \o pipe) \o bytes
    <3>1. data \in Seq(Bytes) /\ pipe \in Seq(Bytes) /\ bytes \in Seq(Bytes)
      BY <1>1, <1>3
    <3> QED
      BY <3>1, ConcatAssociative, SMTT(40)
  <2> QED
    BY <2>1, <2>2 DEF Rest
<1> HIDE DEF bytes
<1>5. TypeOK'
  <2>1. pipe' \in Seq(Bytes)
    BY <1>1, <1>3, <1>4, Concatenation
  <2> QED
    BY <1>2, <2>1 DEF Inv, TypeOK, PeerSends
<1>6. InPlace'
  <2> SUFFICES ASSUME reader \notin {"cleared", "stalled", "crashed"} PROVE \E off : Placed(off)'
    BY DEF InPlace, PeerSends
  <2>1. PICK off : Placed(off)
    BY DEF Inv, InPlace
  <2>2. PICK new : new = Beyond(off, N, s, Len(Rest))
    OBVIOUS
  <2>3. Len(Rest) \in Nat /\ Len(Rest') = Len(Rest) + s /\ Extends(Rest', Rest, N, s, Len(Rest))
    <3>1. /\ Len(Rest \o bytes) = Len(Rest) + Len(bytes) /\ Len(Rest) \in Nat
          /\ \A x \in 1..Len(Rest) : (Rest \o bytes)[x] = Rest[x]
          /\ \A x \in 1..Len(bytes) : (Rest \o bytes)[Len(Rest) + x] = bytes[x]
      <4>1. Rest \in Seq(Bytes) /\ bytes \in Seq(Bytes)
        BY <1>1, <1>3
      <4> QED
        BY <4>1, Concatenation
    <3>2. /\ Len(Rest') = Len(Rest) + s
          /\ \A x \in 1..Len(Rest) : Rest'[x] = Rest[x]
          /\ \A x \in 1..s : Rest'[Len(Rest) + x] = bytes[x]
      BY <1>3, <1>4, <3>1
    <3> QED
      BY <1>3, <3>1, <3>2 DEF Extends
  <2>4. /\ Sizes \in [1..N -> Nat] /\ Sizes' \in [1..(N + 1) -> Nat]
        /\ Sizes'[N + 1] = s /\ \A i \in 1..N : Sizes'[i] = Sizes[i]
    <3> DEFINE z(i) == HeadLen + BodyLen(sent'[i])
    <3>1. Sizes' = [i \in 1..(N + 1) |-> z(i)] /\ Sizes = [i \in 1..N |-> Size(i)]
      BY <1>2 DEF Sizes, Size
    <3>2. \A i \in 1..N : z(i) = Size(i) /\ Size(i) \in Nat
      BY <1>1, <1>2 DEF Size
    <3>3. z(N + 1) = s
      BY <1>2
    <3> HIDE DEF z, s
    <3>4. N + 1 \in 1..(N + 1) /\ \A i \in 1..N : i \in 1..(N + 1)
      BY <1>1
    <3>5. \A i \in 1..(N + 1) : z(i) \in Nat
      <4> SUFFICES ASSUME NEW i \in 1..(N + 1) PROVE z(i) \in Nat
        OBVIOUS
      <4>1. i \in 1..N \/ i = N + 1
        BY <1>1
      <4> QED
        BY <1>3, <3>2, <3>3, <4>1
    <3> QED
      BY <3>1, <3>2, <3>3, <3>4, <3>5
  <2> HIDE DEF s
  <2>5. Laid(off, N, Sizes, Rest, Len(Rest))
    BY <2>1 DEF Placed
  <2>6. Laid(new, N + 1, Sizes', Rest', Len(Rest) + s)
    BY <1>1, <1>3, <2>2, <2>3, <2>4, <2>5, FrameAdded
  <2>7. new[Current] + Consumed = 0
    <3>1. new[Current] = off[Current]
      BY <1>1, <2>2 DEF Beyond
    <3> QED
      BY <2>1, <3>1 DEF Placed
  <2>8. Current' = Current /\ Consumed' = Consumed /\ Len(sent') = N + 1
    BY <1>2 DEF PeerSends, Current, Consumed
  <2>9. Placed(new)'
    BY <2>3, <2>6, <2>7, <2>8 DEF Placed
  <2> QED
    BY <2>9
<1>7. HeadBegun' /\ DataWhileRunning'
  BY DEF PeerSends, Inv, HeadBegun, DataWhileRunning, Current
<1>8. BodyBegun'
  <2>1. Current \in 1..Len(sent) => Current' \in 1..Len(sent') /\ sent'[Current'] = sent[Current]
    BY <1>1, <1>2 DEF PeerSends, Current
  <2> QED
    BY <2>1 DEF PeerSends, Inv, BodyBegun, Valid, Allocated, Rejected, Current
<1>9. PostedAreSent'
  <2>1. Len(posted) \in Nat /\ Len(posted) <= Len(sent) /\ posted' = posted
    BY <1>1 DEF Inv, PostedAreSent, PeerSends
  <2>2. \A i \in DOMAIN posted : sent'[i] = sent[i]
    <3>1. DOMAIN posted = 1..Len(posted)
      BY <1>1
    <3>2. \A i \in 1..Len(posted) : i \in 1..Len(sent)
      BY <1>1, <2>1
    <3> QED
      BY <1>2, <3>1, <3>2
  <2> QED
    BY <1>1, <1>2, <2>1, <2>2, SMTT(40) DEF Inv, PostedAreSent, PeerSends, Valid, Allocated, Rejected
<1>10. DroppedForACause' /\ OverrunExplained'
  <2>1. Len(posted) \in Nat
    BY <1>1
  <2>2. Len(posted) < Len(sent) => sent'[Len(posted) + 1] = sent[Len(posted) + 1]
    <3>1. Len(posted) < Len(sent) => Len(posted) + 1 \in 1..Len(sent)
      BY <1>1, <2>1
    <3> QED
      BY <1>2, <3>1
  <2>3. Len(posted) < Len(sent) => Len(posted') < Len(sent') /\ Awaited' = Awaited
    BY <1>1, <1>2, <2>1, <2>2 DEF Awaited, PeerSends
  <2>4. \A g : (Rejected(g)' <=> Rejected(g)) /\ (Allocated(g)' <=> Allocated(g)) /\ (Valid(g)' <=> Valid(g))
    BY DEF Rejected, Allocated, Valid, PeerSends
  <2>5. DroppedForACause'
    BY <2>3, <2>4 DEF Inv, DroppedForACause, PeerSends, Rejected, Allocated, Valid
  <2>6. OverrunExplained'
    BY <2>3, <2>4 DEF Inv, OverrunExplained, PeerSends, Rejected
  <2> QED
    BY <2>5, <2>6
<1> QED
  BY <1>5, <1>6, <1>7, <1>8, <1>9, <1>10 DEF Inv

(* Neither a read that ends nor the bytes it brings move anything.         *)
LEMMA ReadSomeInv ==
  ASSUME Inv, NEW n \in 1..MaxLength, n <= Len(pipe), ReadSome(n) PROVE Inv'
<1>1. /\ data \in Seq(Bytes) /\ pipe \in Seq(Bytes) /\ Len(pipe) \in Nat
  BY Shapes, LenProperties
<1>2. data = <<>> /\ n \in 0..Len(pipe)
  BY <1>1 DEF Inv, DataWhileRunning, ReadSome
<1>3. /\ Take(pipe, n) \in Seq(Bytes) /\ Len(Take(pipe, n)) = n
      /\ Drop(pipe, n) \in Seq(Bytes)
      /\ Take(pipe, n) \o Drop(pipe, n) = pipe
  <2>1. pipe \in Seq(Bytes) /\ n \in 0..Len(pipe)
    BY <1>1, <1>2
  <2> QED
    BY <2>1, Split, Rejoin
<1>4. data' = Take(pipe, n) /\ pipe' = Drop(pipe, n)
  BY DEF ReadSome
<1>5. Rest' = Rest
  <2>1. Rest = pipe
    BY <1>1, <1>2, ConcatEmptySeq DEF Rest
  <2>2. Rest' = Take(pipe, n) \o Drop(pipe, n)
    BY <1>4 DEF Rest
  <2> QED
    BY <1>3, <2>1, <2>2
<1>6. TypeOK'
  BY <1>3, <1>4 DEF Inv, TypeOK, ReadSome
<1>7. InPlace'
  <2>1. PICK off : Placed(off)
    BY DEF Inv, InPlace, ReadSome
  <2>2. Current' = Current /\ Consumed' = Consumed /\ Sizes' = Sizes /\ sent' = sent
    BY DEF ReadSome, Current, Consumed, Sizes, Size
  <2>3. Placed(off)'
    BY <1>5, <2>1, <2>2 DEF Placed
  <2> QED
    BY <2>3 DEF InPlace
<1>8. HeadBegun' /\ BodyBegun' /\ DataWhileRunning'
  BY DEF ReadSome, Inv, HeadBegun, BodyBegun, DataWhileRunning, Current, Valid, Allocated, Rejected
<1>9. PostedAreSent' /\ DroppedForACause'
  BY DEF ReadSome, Inv, PostedAreSent, DroppedForACause, Valid, Allocated, Rejected, Awaited
<1>10. OverrunExplained'
  BY <1>3, <1>4 DEF ReadSome, Inv, OverrunExplained, Rejected, Awaited
<1> QED
  BY <1>6, <1>7, <1>8, <1>9, <1>10 DEF Inv

LEMMA ReadErrorInv == ASSUME Inv, ReadError PROVE Inv'
<1>1. TypeOK'
  BY DEF ReadError, Inv, TypeOK, Ended
<1>2. InPlace'
  <2>1. PICK off : Placed(off)
    BY DEF Inv, InPlace, ReadError
  <2>2. /\ Current' = Current /\ Consumed' = Consumed /\ Sizes' = Sizes /\ sent' = sent
        /\ Rest' = Rest
    BY DEF ReadError, Current, Consumed, Sizes, Size, Rest
  <2>3. Placed(off)'
    BY <2>1, <2>2 DEF Placed
  <2> QED
    BY <2>3 DEF InPlace
<1>3. HeadBegun' /\ BodyBegun' /\ DataWhileRunning'
  BY DEF ReadError, Inv, HeadBegun, BodyBegun, DataWhileRunning, Current, Valid, Allocated, Rejected
<1>4. PostedAreSent' /\ OverrunExplained' /\ DroppedForACause'
  BY DEF ReadError, Inv, PostedAreSent, OverrunExplained, DroppedForACause, Valid, Allocated, Rejected, Awaited
<1> QED
  BY <1>1, <1>2, <1>3, <1>4 DEF Inv

LEMMA UnchangedInv == ASSUME Inv, UNCHANGED vars PROVE Inv'
<1> USE DEF vars
<1>1. TypeOK'
  BY DEF Inv, TypeOK
<1>2. InPlace'
  <2>1. /\ Current' = Current /\ Consumed' = Consumed /\ Sizes' = Sizes /\ sent' = sent
        /\ Rest' = Rest
    BY DEF Current, Consumed, Sizes, Size, Rest
  <2>2. ASSUME NEW off, Placed(off) PROVE Placed(off)'
    BY <2>1, <2>2 DEF Placed
  <2> QED
    BY <2>2 DEF Inv, InPlace
<1>3. HeadBegun' /\ BodyBegun' /\ DataWhileRunning'
  BY DEF Inv, HeadBegun, BodyBegun, DataWhileRunning, Current, Valid, Allocated, Rejected
<1>4. PostedAreSent' /\ OverrunExplained' /\ DroppedForACause'
  BY DEF Inv, PostedAreSent, OverrunExplained, DroppedForACause, Valid, Allocated, Rejected, Awaited
<1> QED
  BY <1>1, <1>2, <1>3, <1>4 DEF Inv

-----------------------------------------------------------------------------
(* The iterations of handleRead.                                           *)

LEMMA DropAll ==
  ASSUME NEW S, NEW q \in Seq(S) PROVE Drop(q, Len(q)) = <<>>
<1>1. Len(q) \in Nat /\ Len(q) \in 0..Len(q)
  BY LenProperties
<1>2. Drop(q, Len(q)) \in Seq(S) /\ Len(Drop(q, Len(q))) = Len(q) - Len(q)
  BY <1>1, Split
<1> DEFINE d == Drop(q, Len(q))
<1>3. d \in Seq(S) /\ Len(d) = 0
  BY <1>1, <1>2
<1> HIDE DEF d
<1>4. d = <<>>
  BY <1>3, EmptySeq
<1> QED
  BY <1>4 DEF d

LEMMA DropDrop ==
  ASSUME NEW S, NEW q \in Seq(S), NEW n \in 0..Len(q), NEW k \in 0..(Len(q) - n)
  PROVE  Drop(Drop(q, n), k) = Drop(q, n + k)
<1>0. Len(q) \in Nat
  BY LenProperties
<1> DEFINE d == Drop(q, n)
           e == Drop(d, k)
           g == Drop(q, n + k)
<1>1. d \in Seq(S) /\ Len(d) = Len(q) - n /\ \A x \in 1..(Len(q) - n) : d[x] = q[n + x]
  BY Split
<1> HIDE DEF d
<1>2. k \in 0..Len(d) /\ n + k \in 0..Len(q)
  BY <1>0, <1>1
<1>3. e \in Seq(S) /\ Len(e) = Len(d) - k /\ \A x \in 1..(Len(d) - k) : e[x] = d[k + x]
  BY <1>1, <1>2, Split, ZenonT(60)
<1>4. g \in Seq(S) /\ Len(g) = Len(q) - (n + k)
      /\ \A x \in 1..(Len(q) - (n + k)) : g[x] = q[(n + k) + x]
  BY <1>2, Split, ZenonT(60)
<1> HIDE DEF e, g
<1>5. Len(e) = Len(g)
  BY <1>0, <1>1, <1>3, <1>4
<1>6. ASSUME NEW x \in 1..Len(e) PROVE e[x] = g[x]
  <2>1. x \in 1..(Len(d) - k) /\ k + x \in 1..(Len(q) - n) /\ x \in 1..(Len(q) - (n + k))
    BY <1>0, <1>1, <1>3
  <2>2. n + (k + x) = (n + k) + x
    BY <2>1
  <2> QED
    BY <1>1, <1>3, <1>4, <2>1, <2>2
<1>7. e = g
  BY <1>3, <1>4, <1>5, <1>6, SeqEqual
<1> QED
  BY <1>7 DEF d, e, g

(* The header that a handler completes is the one of the current frame.    *)
LEMMA HeaderOfCurrent ==
  ASSUME Inv, HeadComplete, data # <<>>, NEW f \in Header
  PROVE  /\ Current \in 1..Len(sent) /\ f = sent[Current] /\ f \in Frame
         /\ HeadRemain \in 1..Len(data) /\ Consumed = Len(head)
<1>1. /\ data \in Seq(Bytes) /\ head \in Seq(Bytes) /\ sent \in Seq(Frame)
      /\ Len(sent) \in Nat /\ Len(sent) <= MaxFrames
      /\ Len(data) \in Nat /\ Len(head) \in Nat /\ Len(head) < HeadLen
  BY Shapes, LenProperties
<1>2. /\ Current \in 1..Len(sent) /\ Current \in 1..MaxFrames
      /\ \A x \in 1..Len(data) :
           Consumed + x <= Size(Current) => data[x] = <<Current, Consumed + x>>
  BY <1>1, DataContinues DEF HeadComplete
<1>3. HeadRemain \in 1..Len(data) /\ HeadRemain \in 0..Len(data) /\ Consumed = Len(head)
      /\ Len(head) + HeadRemain = HeadLen
  BY <1>1 DEF HeadRemain, HeadComplete, Consumed
<1>4. Size(Current) \in Nat /\ Size(Current) >= HeadLen /\ sent[Current] \in Frame
  BY <1>2, Shapes
<1> DEFINE t == Take(data, HeadRemain)
           h == head \o t
<1>5. t \in Seq(Bytes) /\ Len(t) = HeadRemain /\ \A x \in 1..HeadRemain : t[x] = data[x]
  BY <1>1, <1>3, Split
<1> HIDE DEF t
<1>6. /\ h \in Seq(Bytes) /\ Len(h) = Len(head) + Len(t)
      /\ \A x \in 1..Len(head) : h[x] = head[x]
      /\ \A x \in 1..Len(t) : h[Len(head) + x] = t[x]
  <2>1. head \in Seq(Bytes) /\ t \in Seq(Bytes)
    BY <1>1, <1>5
  <2> QED
    BY <2>1, Concatenation
<1> HIDE DEF h
<1>7. Len(h) = HeadLen
  BY <1>3, <1>5, <1>6
<1>8. ASSUME NEW x \in 1..HeadLen PROVE h[x] = <<Current, x>>
  <2>1. CASE x <= Len(head)
    <3>1. x \in 1..Len(head)
      BY <1>1, <2>1
    <3> QED
      BY <1>6, <3>1 DEF Inv, HeadBegun, HeadComplete
  <2>2. CASE x > Len(head)
    <3>1. x - Len(head) \in 1..HeadRemain
      BY <1>1, <1>3, <2>2
    <3>2. PICK y \in 1..HeadRemain : y = x - Len(head)
      BY <3>1
    <3>3. Len(head) + y = x /\ y \in 1..Len(data) /\ Consumed + y = x /\ x <= Size(Current)
      BY <1>1, <1>3, <1>4, <3>2
    <3>4. data[y] = <<Current, Consumed + y>>
      BY <1>2, <3>3
    <3>5. h[Len(head) + y] = data[y]
      BY <1>5, <1>6, <3>2
    <3> QED
      BY <3>3, <3>4, <3>5
  <2> QED
    BY <1>1, <2>1, <2>2
<1>9. f \in Decoded(h)
  BY DEF Header, h, t
<1>10. f = sent[Current]
  BY <1>1, <1>2, <1>6, <1>7, <1>8, <1>9, HeaderIs
<1> QED
  BY <1>2, <1>3, <1>4, <1>10

(* A session dropped, or stalled, on the header of the current frame.      *)
LEMMA RefusedInv == ASSUME Inv, data # <<>>, HeadRejected \/ HeadThrows PROVE Inv'
<1>1. PICK f \in Header : IF HeadRejected THEN Rejected(f) ELSE ~Rejected(f) /\ ~Allocated(f)
  BY DEF HeadRejected, HeadThrows
<1>2. HeadComplete
  BY DEF HeadRejected, HeadThrows
<1>3. Current \in 1..Len(sent) /\ f = sent[Current] /\ f \in Frame
  BY <1>1, <1>2, HeaderOfCurrent
<1>4. /\ reader' \in {"cleared", "stalled"} /\ data' = <<>>
      /\ reader' = "cleared" <=> Rejected(f)
      /\ UNCHANGED <<side, sent, pipe, b_head_parse, head, msg, posted>>
  BY <1>1 DEF HeadRejected, HeadThrows
<1>5. ~Allocated(f) /\ ~Valid(f)
  <2>1. ~Allocated(f)
    BY <1>1 DEF Allocated
  <2> QED
    BY <1>3, <2>1, Lengths
<1>6. TypeOK'
  <2>1. <<>> \in Seq(Bytes)
    OBVIOUS
  <2> QED
    BY <1>4, <2>1 DEF Inv, TypeOK, Ended
<1>7. DroppedForACause'
  <2>1. Len(posted) \in Nat /\ Len(sent) \in Nat
    BY Shapes
  <2>2. Len(posted') < Len(sent') /\ Awaited' = f
    BY <1>3, <1>4, <2>1 DEF Current, Awaited
  <2>3. (Rejected(f)' <=> Rejected(f)) /\ ~Allocated(f)' /\ ~Valid(f)'
    BY <1>4, <1>5 DEF Rejected, Allocated, Valid
  <2> QED
    BY <1>4, <2>2, <2>3 DEF DroppedForACause, Rejected, Allocated, Valid
<1>8. InPlace' /\ DataWhileRunning' /\ HeadBegun' /\ BodyBegun'
  BY <1>4 DEF Inv, InPlace, DataWhileRunning, HeadBegun, BodyBegun, Current, Allocated, Rejected
<1>9. PostedAreSent'
  BY <1>4 DEF Inv, PostedAreSent, Valid, Rejected
<1>10. OverrunExplained'
  <2>1. Len(<<>>) = 0
    OBVIOUS
  <2> QED
    BY <1>4, <2>1 DEF Inv, OverrunExplained, Rejected, Awaited
<1> QED
  BY <1>6, <1>7, <1>8, <1>9, <1>10 DEF Inv

(* The process dies inside a body of length -1.                            *)
LEMMA CrashesInv == ASSUME Inv, Crashes PROVE Inv'
<1>1. /\ msg.len < 0 /\ reader' = "crashed" /\ data' = <<>>
      /\ UNCHANGED <<side, sent, pipe, b_head_parse, head, msg, posted>>
  BY DEF Crashes
<1>2. /\ msg.len \in Int /\ Len(msg.body) \in Nat
      /\ \A i \in 1..Len(sent) : sent[i] \in Frame
  BY Shapes
<1>3. Len(posted) < Len(sent) /\ ~Rejected(Awaited) /\ Awaited.len = -1
  <2>1. Len(msg.body) > msg.len
    BY <1>1, <1>2
  <2> QED
    BY <2>1 DEF Inv, OverrunExplained
<1>4. Allocated(Awaited) /\ ~Valid(Awaited)
  BY <1>3 DEF Allocated, Valid
<1>5. DroppedForACause'
  <2>1. Len(posted') < Len(sent') /\ Awaited' = Awaited
    BY <1>1, <1>3 DEF Awaited
  <2>2. ~Rejected(Awaited)' /\ Allocated(Awaited)' /\ ~Valid(Awaited)'
    BY <1>1, <1>3, <1>4, <2>1 DEF Rejected, Allocated, Valid
  <2> QED
    BY <1>1, <2>1, <2>2 DEF DroppedForACause
<1>6. TypeOK'
  <2>1. <<>> \in Seq(Bytes)
    OBVIOUS
  <2> QED
    BY <1>1, <2>1 DEF Inv, TypeOK, Ended
<1>7. InPlace' /\ DataWhileRunning' /\ HeadBegun' /\ BodyBegun'
  BY <1>1 DEF Inv, InPlace, DataWhileRunning, HeadBegun, BodyBegun, Current, Allocated, Rejected
<1>8. PostedAreSent'
  BY <1>1 DEF Inv, PostedAreSent, Valid, Rejected
<1>9. OverrunExplained'
  <2>1. Len(<<>>) = 0
    OBVIOUS
  <2> QED
    BY <1>1, <2>1 DEF Inv, OverrunExplained, Rejected, Awaited
<1> QED
  BY <1>5, <1>6, <1>7, <1>8, <1>9 DEF Inv

(* A chunk that ends inside a header or a body leaves no byte over.        *)
LEMMA AllConsumed ==
  ASSUME Inv, reader = "running", data # <<>>, ReadOn(<<>>), UNCHANGED <<pipe, sent, posted>>,
         Consumed' = Consumed + Len(data)
  PROVE  InPlace' /\ data' = <<>> /\ reader' = "armed"
<1>1. data \in Seq(Bytes) /\ Len(data) \in Nat
  BY Shapes, LenProperties
<1>2. Len(data) \in 1..Len(data)
  BY <1>1, EmptySeq
<1>3. data' = Drop(data, Len(data))
  BY <1>1, DropAll DEF ReadOn
<1>4. Current' = Current
  BY DEF Current
<1>5. PICK n \in 1..Len(data) : n = Len(data)
  BY <1>2
<1>6. \E off : Placed(off)'
  BY <1>3, <1>4, <1>5, Advance
<1> QED
  BY <1>6 DEF InPlace, ReadOn

LEMMA HeadPartialInv == ASSUME Inv, data # <<>>, HeadPartial PROVE Inv'
<1>1. /\ data \in Seq(Bytes) /\ head \in Seq(Bytes) /\ Len(data) \in Nat /\ Len(head) \in Nat
  BY Shapes, LenProperties
<1>2. /\ head' \in Seq(Bytes) /\ Len(head') = Len(head) + Len(data)
      /\ \A x \in 1..Len(head) : head'[x] = head[x]
      /\ \A x \in 1..Len(data) : head'[Len(head) + x] = data[x]
  <2>1. head' = head \o data
    BY DEF HeadPartial
  <2> QED
    BY <1>1, <2>1, Concatenation
<1>3. Consumed = Len(head) /\ Consumed' = Consumed + Len(data)
  BY <1>2 DEF HeadPartial, Consumed
<1>4. InPlace' /\ data' = <<>> /\ reader' = "armed"
  BY <1>3, AllConsumed DEF HeadPartial
<1>5. TypeOK'
  <2>1. <<>> \in Seq(Bytes)
    OBVIOUS
  <2> QED
    BY <1>2, <1>4, <2>1 DEF Inv, TypeOK, HeadPartial
<1>6. HeadBegun'
  <2>1. /\ Current \in 1..Len(sent)
        /\ \A x \in 1..Len(data) :
             Consumed + x <= Size(Current) => data[x] = <<Current, Consumed + x>>
    BY DataContinues DEF HeadPartial
  <2>2. Size(Current) \in Nat /\ Size(Current) >= HeadLen
    BY <2>1, Shapes
  <2>3. Len(head) + Len(data) < HeadLen /\ ~b_head_parse
    BY DEF HeadPartial
  <2> SUFFICES ASSUME NEW x \in 1..Len(head') PROVE head'[x] = <<Current, x>>
    BY DEF HeadBegun, HeadPartial, Current
  <2>4. CASE x <= Len(head)
    <3>1. x \in 1..Len(head)
      BY <1>1, <2>4
    <3> QED
      BY <1>2, <2>3, <3>1 DEF Inv, HeadBegun
  <2>5. CASE x > Len(head)
    <3>1. x - Len(head) \in 1..Len(data)
      BY <1>1, <1>2, <2>5
    <3>2. PICK y \in 1..Len(data) : y = x - Len(head)
      BY <3>1
    <3>3. Len(head) + y = x /\ Consumed + y = x /\ x <= Size(Current)
      BY <1>1, <1>3, <2>2, <2>3, <3>2
    <3> QED
      BY <1>2, <2>1, <3>2, <3>3, ZenonT(60)
  <2> QED
    BY <1>1, <2>4, <2>5
<1>7. OverrunExplained'
  <2>1. Len(<<>>) = 0
    OBVIOUS
  <2> QED
    BY <1>2, <1>4, <2>1 DEF Inv, OverrunExplained, HeadPartial
<1>8. BodyBegun' /\ DataWhileRunning' /\ PostedAreSent' /\ DroppedForACause'
  BY <1>4 DEF HeadPartial, Inv, BodyBegun, DataWhileRunning, PostedAreSent, DroppedForACause,
              Current, Valid, Allocated, Rejected, Awaited
<1> QED
  BY <1>4, <1>5, <1>6, <1>7, <1>8 DEF Inv

LEMMA BodyBeginsInv == ASSUME Inv, data # <<>>, BodyBegins PROVE Inv'
<1>1. PICK f \in Header :
        /\ Allocated(f)
        /\ Fewer(Len(AfterHead), f.len)
        /\ msg' = [len |-> f.len, body |-> AfterHead]
  BY DEF BodyBegins
<1>2. HeadComplete /\ b_head_parse' = TRUE /\ ReadOn(<<>>)
      /\ UNCHANGED <<side, sent, pipe, head, posted>>
  BY DEF BodyBegins
<1>3. /\ Current \in 1..Len(sent) /\ f = sent[Current] /\ f \in Frame
      /\ HeadRemain \in 1..Len(data) /\ Consumed = Len(head)
  BY <1>1, <1>2, HeaderOfCurrent
<1>4. /\ data \in Seq(Bytes) /\ Len(data) \in Nat /\ head \in Seq(Bytes) /\ Len(head) \in Nat
      /\ Len(head) < HeadLen
  BY Shapes, LenProperties
<1>5. /\ AfterHead \in Seq(Bytes) /\ Len(AfterHead) = Len(data) - HeadRemain
      /\ \A x \in 1..(Len(data) - HeadRemain) : AfterHead[x] = data[HeadRemain + x]
  <2>1. HeadRemain \in 0..Len(data)
    BY <1>3
  <2> QED
    BY <1>4, <2>1, Split DEF AfterHead
<1>6. /\ f.len \in Int /\ f.len \in Lens /\ f.len >= -1 /\ ~Rejected(f)
      /\ f.len >= 0 => Len(AfterHead) < f.len /\ Size(Current) = HeadLen + f.len
  <2>1. f.len \in Lens /\ f.len \in Int
    BY <1>3 DEF Frame
  <2>2. f.len >= -1 /\ ~Rejected(f)
    BY <1>1 DEF Allocated
  <2>3. f.len >= 0 => Len(AfterHead) < f.len
    BY <1>1, <2>1 DEF Fewer
  <2>4. f.len >= 0 => Size(Current) = HeadLen + f.len
    BY <1>3, <2>1 DEF Size, BodyLen
  <2> QED
    BY <2>1, <2>2, <2>3, <2>4
<1>7. /\ msg'.len = f.len /\ msg'.body = AfterHead
      /\ msg' \in [len : Lens \cup {0}, body : Seq(Bytes)]
  BY <1>1, <1>5, <1>6
<1>8. Consumed' = Consumed + Len(data)
  <2>1. Consumed' = HeadLen + Len(AfterHead)
    BY <1>2, <1>7 DEF Consumed
  <2> QED
    BY <1>3, <1>4, <1>5, <2>1 DEF HeadRemain
<1>9. InPlace' /\ data' = <<>> /\ reader' = "armed"
  BY <1>2, <1>8, AllConsumed DEF HeadComplete
<1>10. TypeOK'
  <2>1. <<>> \in Seq(Bytes)
    OBVIOUS
  <2> QED
    BY <1>2, <1>7, <1>9, <2>1 DEF Inv, TypeOK
<1>11. BodyBegun'
  <2>1. \A x \in 1..Len(data) :
          Consumed + x <= Size(Current) => data[x] = <<Current, Consumed + x>>
    BY <1>2, DataContinues DEF HeadComplete
  <2>2. ASSUME f.len >= 0, NEW x \in 1..Len(AfterHead)
        PROVE  AfterHead[x] = <<Current, HeadLen + x>>
    <3> DEFINE h == HeadRemain
               y == h + x
    <3>1. /\ x \in 1..(Len(data) - h) /\ h \in 1..Len(data) /\ Consumed + h = HeadLen
          /\ x <= f.len /\ Consumed \in Nat
      BY <1>3, <1>4, <1>5, <1>6, <2>2, SMTT(40) DEF HeadRemain
    <3> HIDE DEF h
    <3>2. y \in 1..Len(data) /\ Consumed + y = HeadLen + x /\ HeadLen + x <= Size(Current)
      BY <1>4, <1>6, <2>2, <3>1
    <3>3. AfterHead[x] = data[y]
      BY <1>5, <3>1 DEF h
    <3> HIDE DEF y
    <3>4. data[y] = <<Current, Consumed + y>>
      BY <2>1, <3>2
    <3> QED
      BY <3>2, <3>3, <3>4
  <2>3. Current' = Current
    BY <1>2 DEF Current
  <2> QED
    BY <1>1, <1>2, <1>3, <1>7, <2>2, <2>3 DEF BodyBegun, Allocated, Rejected
<1>12. OverrunExplained'
  <2>1. Len(<<>>) = 0
    OBVIOUS
  <2>2. msg'.len >= 0 => Len(msg'.body) < msg'.len
    BY <1>6, <1>7
  <2>3. Len(msg'.body) > msg'.len => f.len = -1
    BY <1>4, <1>3, <1>5, <1>6, <1>7, <2>2
  <2>4. Len(head') < HeadLen
    BY <1>2, <1>4
  <2>5. Len(data') <= MaxLength
    BY <1>9, <2>1
  <2>6. Len(posted') < Len(sent') /\ Awaited' = f
    <3>1. Len(posted) \in Nat /\ Len(sent) \in Nat
      BY Shapes
    <3> QED
      BY <1>2, <1>3, <3>1 DEF Current, Awaited
  <2>7. ~Rejected(f)'
    BY <1>2, <1>6 DEF Rejected
  <2> QED
    BY <1>2, <2>2, <2>3, <2>4, <2>5, <2>6, <2>7 DEF OverrunExplained, Rejected
<1>13. HeadBegun' /\ DataWhileRunning' /\ PostedAreSent' /\ DroppedForACause'
  BY <1>2, <1>9 DEF Inv, HeadBegun, DataWhileRunning, PostedAreSent, DroppedForACause,
                    Valid, Allocated, Rejected, Awaited
<1> QED
  BY <1>9, <1>10, <1>11, <1>12, <1>13 DEF Inv

LEMMA BodyPartialInv == ASSUME Inv, data # <<>>, BodyPartial PROVE Inv'
<1>1. /\ reader = "running" /\ b_head_parse /\ Fewer(Len(data), BodyRemain)
      /\ msg' = [msg EXCEPT !.body = @ \o data]
      /\ ReadOn(<<>>)
      /\ UNCHANGED <<side, sent, pipe, b_head_parse, head, posted>>
  BY DEF BodyPartial, InBody
<1>2. /\ data \in Seq(Bytes) /\ Len(data) \in Nat
      /\ msg \in [len : Lens \cup {0}, body : Seq(Bytes)] /\ msg.len \in Int
      /\ Len(msg.body) \in Nat
  BY Shapes, LenProperties
<1>3. msg.body \in Seq(Bytes)
  BY <1>2
<1>4. /\ msg'.len = msg.len /\ msg'.body = msg.body \o data
  BY <1>1, <1>2
<1> DEFINE b == msg'.body
<1>5. /\ b \in Seq(Bytes) /\ Len(b) = Len(msg.body) + Len(data)
      /\ \A x \in 1..Len(msg.body) : b[x] = msg.body[x]
      /\ \A x \in 1..Len(data) : b[Len(msg.body) + x] = data[x]
  BY <1>2, <1>3, <1>4, Concatenation
<1>6. msg' \in [len : Lens \cup {0}, body : Seq(Bytes)]
  BY <1>1, <1>2, <1>4, <1>5
<1> HIDE DEF b
<1>7. Consumed = HeadLen + Len(msg.body) /\ Consumed' = Consumed + Len(data)
  <2>1. Consumed' = HeadLen + Len(b)
    BY <1>1 DEF Consumed, b
  <2>2. Consumed = HeadLen + Len(msg.body)
    BY <1>1 DEF Consumed
  <2> QED
    BY <1>2, <1>5, <2>1, <2>2
<1>8. InPlace' /\ data' = <<>> /\ reader' = "armed"
  BY <1>1, <1>7, AllConsumed
<1>9. TypeOK'
  <2>1. <<>> \in Seq(Bytes)
    OBVIOUS
  <2> QED
    BY <1>1, <1>6, <1>8, <2>1 DEF Inv, TypeOK
<1>10. msg.len >= 0 => Len(b) < msg.len
  <2>1. b_head_parse /\ msg.len >= 0 => Len(msg.body) < msg.len
    BY DEF Inv, OverrunExplained
  <2> QED
    BY <1>1, <1>2, <1>5, <2>1 DEF BodyRemain, Fewer
<1>11. BodyBegun'
  <2>1. /\ Current \in 1..Len(sent) /\ Allocated(sent[Current]) /\ msg.len = sent[Current].len
        /\ msg.len >= 0 => \A x \in 1..Len(msg.body) : msg.body[x] = <<Current, HeadLen + x>>
    BY <1>1 DEF Inv, BodyBegun
  <2>2. \A x \in 1..Len(data) :
          Consumed + x <= Size(Current) => data[x] = <<Current, Consumed + x>>
    BY <1>1, DataContinues
  <2>3. msg.len >= 0 => Size(Current) = HeadLen + msg.len
    BY <1>2, <2>1 DEF Size, BodyLen
  <2>4. ASSUME msg.len >= 0, NEW x \in 1..Len(b) PROVE b[x] = <<Current, HeadLen + x>>
    <3>1. CASE x <= Len(msg.body)
      <4>1. x \in 1..Len(msg.body)
        BY <1>2, <3>1
      <4> QED
        BY <1>5, <2>1, <2>4, <4>1
    <3>2. CASE x > Len(msg.body)
      <4>1. x - Len(msg.body) \in 1..Len(data)
        BY <1>2, <1>5, <3>2
      <4>2. PICK y \in 1..Len(data) : y = x - Len(msg.body)
        BY <4>1
      <4>3. Len(msg.body) + y = x /\ Consumed + y = HeadLen + x /\ HeadLen + x <= Size(Current)
        BY <1>2, <1>5, <1>7, <1>10, <2>3, <2>4, <4>2
      <4> QED
        BY <1>5, <2>2, <4>2, <4>3, ZenonT(60)
    <3> QED
      BY <1>2, <3>1, <3>2
  <2>5. Current' = Current
    BY <1>1 DEF Current
  <2> QED
    BY <1>1, <1>4, <2>1, <2>4, <2>5 DEF BodyBegun, Allocated, Rejected, b
<1>12. OverrunExplained'
  <2>1. Len(<<>>) = 0
    OBVIOUS
  <2>2. Len(b) > msg.len => Len(msg.body) > msg.len
    BY <1>2, <1>5, <1>10
  <2>3. (Rejected(Awaited)' <=> Rejected(Awaited)) /\ Awaited' = Awaited
    BY <1>1 DEF Rejected, Awaited
  <2>4. /\ Len(head) < HeadLen
        /\ Len(msg.body) > msg.len =>
             Len(posted) < Len(sent) /\ ~Rejected(Awaited) /\ Awaited.len = -1
    BY DEF Inv, OverrunExplained
  <2> QED
    BY <1>1, <1>4, <1>8, <1>10, <2>1, <2>2, <2>3, <2>4 DEF OverrunExplained, b
<1>13. HeadBegun' /\ DataWhileRunning' /\ PostedAreSent' /\ DroppedForACause'
  BY <1>1, <1>8 DEF Inv, HeadBegun, DataWhileRunning, PostedAreSent, DroppedForACause,
                    Current, Valid, Rejected
<1> QED
  BY <1>8, <1>9, <1>11, <1>12, <1>13 DEF Inv

(* The n bytes that end the current frame are consumed and its body posted.*)
LEMMA PostInv ==
  ASSUME Inv, reader = "running", Current \in 1..Len(sent), Valid(sent[Current]),
         NEW n \in 1..Len(data), Consumed + n = Size(Current),
         NEW m \in [len : Lens \cup {0}, body : Seq(Bytes)],
         m.len = sent[Current].len, m.body = BodyBytes(Current, sent[Current]),
         Len(m.body) = m.len,
         PostFrame(m, Drop(data, n)), UNCHANGED <<side, sent, pipe>>
  PROVE  Inv'
<1>1. /\ data \in Seq(Bytes) /\ Len(data) \in Nat /\ Len(sent) \in Nat
      /\ posted \in Seq(Seq(Bytes)) /\ Len(posted) \in Nat
  BY Shapes, LenProperties
<1>2. /\ msg' = m /\ posted' = Append(posted, m.body) /\ b_head_parse' = FALSE
      /\ head' = <<>> /\ data' = Drop(data, n) /\ reader' \in {"armed", "running"}
      /\ reader' = "armed" => data' = <<>>
  BY DEF PostFrame, ReadOn
<1>3. m.body \in Seq(Bytes)
  OBVIOUS
<1>4. /\ posted' \in Seq(Seq(Bytes)) /\ Len(posted') = Len(posted) + 1
      /\ \A i \in 1..Len(posted) : posted'[i] = posted[i]
      /\ posted'[Len(posted) + 1] = m.body
  BY <1>1, <1>2, <1>3, AppendProperties
<1>5. data' \in Seq(Bytes) /\ Len(data') <= Len(data)
  <2>1. n \in 0..Len(data) /\ n \in Nat
    BY <1>1
  <2>2. Drop(data, n) \in Seq(Bytes) /\ Len(Drop(data, n)) = Len(data) - n
    BY <1>1, <2>1, Split
  <2> QED
    BY <1>1, <1>2, <2>1, <2>2
<1>6. InPlace'
  <2>1. Len(<<>>) = 0
    OBVIOUS
  <2>2. Current' = Current + 1 /\ Consumed' = 0
    BY <1>1, <1>2, <1>4, <2>1 DEF Current, Consumed
  <2>3. \E off : Placed(off)'
    BY <1>2, <2>2, Advance
  <2> QED
    BY <2>3 DEF InPlace
<1>7. TypeOK'
  <2>1. <<>> \in Seq(Bytes)
    OBVIOUS
  <2> QED
    BY <1>2, <1>4, <1>5, <2>1 DEF Inv, TypeOK
<1>8. HeadBegun' /\ BodyBegun' /\ DataWhileRunning' /\ DroppedForACause'
  <2>1. Len(<<>>) = 0
    OBVIOUS
  <2> QED
    BY <1>2, <2>1 DEF HeadBegun, BodyBegun, DataWhileRunning, DroppedForACause
<1>9. PostedAreSent'
  <2>1. Len(posted') <= Len(sent')
    BY <1>1, <1>4 DEF Current
  <2>2. ASSUME NEW i \in DOMAIN posted'
        PROVE  Valid(sent[i]) /\ posted'[i] = BodyBytes(i, sent[i])
    <3>1. i \in 1..Len(posted) \/ i = Len(posted) + 1
      BY <1>1, <1>4
    <3>2. CASE i \in 1..Len(posted)
      <4>1. DOMAIN posted = 1..Len(posted)
        BY <1>1
      <4> QED
        BY <1>4, <3>2, <4>1 DEF Inv, PostedAreSent
    <3>3. CASE i = Len(posted) + 1
      BY <1>4, <3>3 DEF Current
    <3> QED
      BY <3>1, <3>2, <3>3
  <2> QED
    BY <2>1, <2>2 DEF PostedAreSent, Valid, Allocated, Rejected
<1>10. OverrunExplained'
  <2>1. Len(<<>>) = 0
    OBVIOUS
  <2>2. Len(data') <= MaxLength
    BY <1>1, <1>5 DEF Inv, OverrunExplained
  <2>3. m.len \in Int
    <3>1. sent[Current] \in Frame
      BY Shapes
    <3> QED
      BY <3>1 DEF Frame
  <2> QED
    BY <1>2, <2>1, <2>2, <2>3 DEF OverrunExplained
<1> QED
  BY <1>6, <1>7, <1>8, <1>9, <1>10 DEF Inv

LEMMA BodyWholeInv == ASSUME Inv, data # <<>>, BodyWhole PROVE Inv'
<1>1. PICK f \in Header :
        /\ Allocated(f)
        /\ ~Fewer(Len(AfterHead), f.len)
        /\ PostFrame([len |-> f.len, body |-> Take(AfterHead, f.len)],
                     Drop(AfterHead, f.len))
  BY DEF BodyWhole
<1>2. HeadComplete /\ UNCHANGED <<side, sent, pipe>>
  BY DEF BodyWhole
<1>3. /\ Current \in 1..Len(sent) /\ f = sent[Current] /\ f \in Frame
      /\ HeadRemain \in 1..Len(data) /\ Consumed = Len(head)
  BY <1>1, <1>2, HeaderOfCurrent
<1>4. /\ data \in Seq(Bytes) /\ Len(data) \in Nat /\ Len(head) \in Nat
      /\ Len(sent) \in Nat /\ Len(sent) <= MaxFrames
  BY Shapes, LenProperties
<1> DEFINE h == HeadRemain
           l == f.len
           a == AfterHead
           b == Take(a, l)
           n == h + l
           m == [len |-> l, body |-> b]
<1>5. /\ a \in Seq(Bytes) /\ Len(a) = Len(data) - h
      /\ \A x \in 1..(Len(data) - h) : a[x] = data[h + x]
  <2>1. HeadRemain \in 0..Len(data)
    BY <1>3
  <2> QED
    BY <1>4, <2>1, Split DEF AfterHead
<1>6. l \in Lens /\ l \in Int /\ l >= 0 /\ BodyLen(f) = l /\ Size(Current) = HeadLen + l
  <2>1. f.len \in Lens /\ f.len \in Int /\ f.len >= 0
    <3>1. f.len \in Lens /\ f.len \in Int
      BY <1>3 DEF Frame
    <3>2. ~(f.len < 0)
      BY <1>1 DEF Fewer
    <3> QED
      BY <3>1, <3>2
  <2> QED
    BY <1>3, <2>1 DEF Size, BodyLen
<1>7. h \in 1..Len(data) /\ Consumed + h = HeadLen /\ Consumed \in Nat
  BY <1>3, <1>4 DEF HeadRemain
<1>8. Len(a) >= l /\ PostFrame(m, Drop(a, l)) /\ a = Drop(data, h)
  <2>1. Len(a) >= l
    <3>1. ~(Len(a) < l) /\ Len(a) \in Int
      BY <1>1, <1>3, <1>4, <1>5 DEF Fewer
    <3> QED
      BY <1>6, <3>1
  <2> QED
    BY <1>1, <2>1 DEF AfterHead
<1> HIDE DEF h, l, a
<1>9. l \in 0..Len(a) /\ l \in 0..(Len(data) - h) /\ h \in 0..Len(data)
  BY <1>4, <1>5, <1>6, <1>7, <1>8
<1>10. b \in Seq(Bytes) /\ Len(b) = l /\ \A x \in 1..l : b[x] = a[x]
  BY <1>5, <1>9, Split
<1>11. Drop(a, l) = Drop(data, n)
  BY <1>4, <1>8, <1>9, DropDrop
<1>12. n \in 1..Len(data) /\ Consumed + n = Size(Current)
  BY <1>4, <1>6, <1>7, <1>9
<1> HIDE DEF b, n
<1>13. b = BodyBytes(Current, f)
  <2>1. \A x \in 1..Len(data) :
          Consumed + x <= Size(Current) => data[x] = <<Current, Consumed + x>>
    BY <1>2, DataContinues DEF HeadComplete
  <2>2. ASSUME NEW x \in 1..Len(b) PROVE b[x] = <<Current, HeadLen + x>>
    <3> DEFINE y == h + x
    <3>1. x \in 1..l /\ x \in 1..(Len(data) - h)
      BY <1>4, <1>6, <1>7, <1>9, <1>10
    <3>2. y \in 1..Len(data) /\ Consumed + y = HeadLen + x /\ HeadLen + x <= Size(Current)
      BY <1>4, <1>6, <1>7, <3>1
    <3>3. b[x] = data[y]
      BY <1>5, <1>10, <3>1
    <3> HIDE DEF y
    <3>4. data[y] = <<Current, Consumed + y>>
      BY <2>1, <3>2
    <3> QED
      BY <3>2, <3>3, <3>4
  <2>3. Current \in 1..MaxFrames /\ Len(b) = BodyLen(f)
    BY <1>3, <1>4, <1>6, <1>10
  <2> QED
    BY <1>3, <1>10, <2>2, <2>3, BodyIs
<1>14. /\ m \in [len : Lens \cup {0}, body : Seq(Bytes)]
       /\ m.len = sent[Current].len /\ m.body = BodyBytes(Current, sent[Current])
       /\ Len(m.body) = m.len
  BY <1>3, <1>6, <1>10, <1>13 DEF l
<1>15. PostFrame(m, Drop(data, n)) /\ Valid(sent[Current]) /\ reader = "running"
  <2>1. Valid(f)
    BY <1>1, <1>6 DEF l, Allocated, Valid
  <2> QED
    BY <1>2, <1>3, <1>8, <1>11, <2>1 DEF HeadComplete
<1> HIDE DEF m
<1> QED
  BY <1>2, <1>3, <1>12, <1>14, <1>15, PostInv

LEMMA BodyEndsInv == ASSUME Inv, data # <<>>, BodyEnds PROVE Inv'
<1>1. /\ reader = "running" /\ b_head_parse /\ ~Fewer(Len(data), BodyRemain)
      /\ PostFrame([msg EXCEPT !.body = @ \o Take(data, BodyRemain)], Drop(data, BodyRemain))
      /\ UNCHANGED <<side, sent, pipe>>
  BY DEF BodyEnds, InBody
<1>2. /\ data \in Seq(Bytes) /\ Len(data) \in Nat
      /\ msg \in [len : Lens \cup {0}, body : Seq(Bytes)] /\ msg.len \in Int
      /\ Len(msg.body) \in Nat /\ Len(sent) \in Nat /\ Len(sent) <= MaxFrames
  BY Shapes, LenProperties
<1>0. Len(data) >= BodyRemain /\ BodyRemain >= 0 /\ msg.len >= 0
  BY <1>1, <1>2 DEF Fewer, BodyRemain
<1>3. /\ Current \in 1..Len(sent) /\ Valid(sent[Current]) /\ msg.len = sent[Current].len
      /\ \A x \in 1..Len(msg.body) : msg.body[x] = <<Current, HeadLen + x>>
  BY <1>0, <1>1 DEF Inv, BodyBegun, Allocated, Valid
<1>4. Len(msg.body) < msg.len
  BY <1>0, <1>1 DEF Inv, OverrunExplained
<1>5. Size(Current) = HeadLen + msg.len /\ BodyLen(sent[Current]) = msg.len
  <2>1. msg.len >= 0
    BY <1>3 DEF Valid
  <2> QED
    BY <1>2, <1>3, <2>1 DEF Size, BodyLen
<1>6. Consumed = HeadLen + Len(msg.body)
  BY <1>1 DEF Consumed
<1> DEFINE n == BodyRemain
           k == Len(msg.body)
           t == Take(data, n)
           b == msg.body \o t
           m == [msg EXCEPT !.body = @ \o t]
<1>7. /\ n \in 1..Len(data) /\ k + n = msg.len /\ Consumed + n = Size(Current) /\ k \in Nat
      /\ Consumed = HeadLen + k
  <2> DEFINE l == msg.len
  <2>1. n = l - k /\ Len(data) >= n /\ l \in Int /\ k \in Nat /\ k < l
    BY <1>0, <1>2, <1>4 DEF BodyRemain
  <2>2. Consumed = HeadLen + k /\ Size(Current) = HeadLen + l
    BY <1>5, <1>6
  <2> HIDE DEF l, k, n
  <2>3. n \in 1..Len(data) /\ k + n = l
    BY <1>2, <2>1
  <2>4. Consumed + n = Size(Current)
    BY <2>1, <2>2, <2>3
  <2> QED
    BY <2>1, <2>2, <2>3, <2>4 DEF l
<1>8. msg.body \in Seq(Bytes)
  BY <1>2
<1>9. PostFrame(m, Drop(data, n))
  BY <1>1
<1> HIDE DEF n
<1>10. t \in Seq(Bytes) /\ Len(t) = n /\ \A x \in 1..n : t[x] = data[x]
  <2>1. n \in 0..Len(data)
    BY <1>2, <1>7
  <2> QED
    BY <1>2, <2>1, Split
<1> HIDE DEF t
<1>11. /\ b \in Seq(Bytes) /\ Len(b) = k + Len(t)
       /\ \A x \in 1..k : b[x] = msg.body[x]
       /\ \A x \in 1..Len(t) : b[k + x] = t[x]
  <2>1. msg.body \in Seq(Bytes) /\ t \in Seq(Bytes)
    BY <1>8, <1>10
  <2> QED
    BY <2>1, Concatenation
<1> HIDE DEF b, k
<1>12. Len(b) = msg.len
  BY <1>7, <1>10, <1>11
<1>13. b = BodyBytes(Current, sent[Current])
  <2>1. \A x \in 1..Len(data) :
          Consumed + x <= Size(Current) => data[x] = <<Current, Consumed + x>>
    BY <1>1, DataContinues
  <2>2. ASSUME NEW x \in 1..Len(b) PROVE b[x] = <<Current, HeadLen + x>>
    <3>1. CASE x <= k
      <4>1. x \in 1..k
        BY <1>7, <3>1
      <4> QED
        BY <1>3, <1>11, <4>1 DEF k
    <3>2. CASE x > k
      <4>1. x - k \in 1..n
        BY <1>2, <1>7, <1>12, <3>2
      <4>2. PICK y \in 1..n : y = x - k
        BY <4>1
      <4>3. /\ k + y = x /\ y \in 1..Len(data)
            /\ Consumed + y = HeadLen + x /\ HeadLen + x <= Size(Current)
        BY <1>2, <1>5, <1>7, <1>12, <4>2
      <4> QED
        BY <1>10, <1>11, <2>1, <4>2, <4>3
    <3> QED
      BY <1>7, <3>1, <3>2
  <2>3. Current \in 1..MaxFrames /\ sent[Current] \in Frame
    BY <1>2, <1>3, Shapes
  <2> QED
    BY SMTT(60), <1>5, <1>11, <1>12, <2>2, <2>3, BodyIs
<1>14. /\ m \in [len : Lens \cup {0}, body : Seq(Bytes)]
       /\ m.len = sent[Current].len /\ m.body = BodyBytes(Current, sent[Current])
       /\ Len(m.body) = m.len
  <2>1. m.len = msg.len /\ m.body = b
    BY <1>2 DEF b
  <2>2. m \in [len : Lens \cup {0}, body : Seq(Bytes)]
    BY <1>2, <1>11 DEF b
  <2> HIDE DEF m
  <2> QED
    BY <1>3, <1>12, <1>13, <2>1, <2>2
<1> HIDE DEF m
<1> QED
  BY <1>1, <1>3, <1>7, <1>9, <1>14, PostInv

-----------------------------------------------------------------------------
LEMMA NextInv == Inv /\ [Next]_vars => Inv'
<1> SUFFICES ASSUME Inv, [Next]_vars PROVE Inv'
  OBVIOUS
<1>1. ASSUME NEW f \in Frame, PeerSends(f) PROVE Inv'
  BY <1>1, PeerSendsInv
<1>2. CASE Kernel
  BY <1>2, ReadSomeInv DEF Kernel
<1>3. CASE ReadError
  BY <1>3, ReadErrorInv
<1>4. CASE HandleRead
  BY <1>4, RefusedInv, HeadPartialInv, BodyBeginsInv, BodyWholeInv, BodyPartialInv, BodyEndsInv
  DEF HandleRead
<1>5. CASE Crashes
  BY <1>5, CrashesInv
<1>6. CASE UNCHANGED vars
  BY <1>6, UnchangedInv
<1> QED
  BY <1>1, <1>2, <1>3, <1>4, <1>5, <1>6 DEF Next

(* The inductive invariant: every frame has its place in what is still to  *)
(* be read.                                                                *)
THEOREM Invariance == SafetySpec => []Inv
  BY InitInv, NextInv, PTL DEF SafetySpec

(* Every state handleRead reaches is one of the declared shape.            *)
THEOREM TypeCorrect == SafetySpec => []TypeOK
<1>1. Inv => TypeOK
  BY DEF Inv
<1> QED
  BY <1>1, Invariance, PTL

(* What handleRead posts are the first frames the peer sent, each with its *)
(* own body, wherever the stream is cut: across a header, before a body, in*)
(* it, and around empty bodies.                                            *)
THEOREM FramesPosted == SafetySpec => []PostedAreSent
<1>1. Inv => PostedAreSent
  BY DEF Inv
<1> QED
  BY <1>1, Invariance, PTL

(* The only memcpy of handleRead that writes past recv_head_node_,         *)
(* recv_msg_node_ or data_ is that of a body whose header its peer sent    *)
(* with a length of -1.                                                    *)
THEOREM Overruns == SafetySpec => []OverrunExplained
<1>1. Inv => OverrunExplained
  BY DEF Inv
<1> QED
  BY <1>1, Invariance, PTL

(* handleRead gives a session up, or the process dies, only for a header   *)
(* its peer really sent, and the header decides which.                     *)
THEOREM DroppedForCause == SafetySpec => []DroppedForACause
<1>1. Inv => DroppedForACause
  BY DEF Inv
<1> QED
  BY <1>1, Invariance, PTL

-----------------------------------------------------------------------------
Entered == [i \in DOMAIN sent |-> BodyBytes(i, sent[i])]

LEMMA EnteredIs ==
  ASSUME sent \in Seq(Frame), Len(sent) <= MaxFrames
  PROVE  /\ Entered \in Seq(Bodies) /\ Len(Entered) = Len(sent)
         /\ \A i \in 1..Len(sent) : Entered[i] = BodyBytes(i, sent[i])
<1> DEFINE N == Len(sent)
           b(i) == BodyBytes(i, sent[i])
<1>1. N \in Nat /\ DOMAIN sent = 1..N /\ \A i \in 1..N : sent[i] \in Frame /\ i \in 1..MaxFrames
  OBVIOUS
<1>2. \A i \in 1..N : b(i) \in Bodies
  BY <1>1 DEF Bodies
<1>3. Entered = [i \in 1..N |-> b(i)]
  BY <1>1 DEF Entered
<1> HIDE DEF b, N
<1>4. /\ Entered \in Seq(Bodies) /\ Len(Entered) = N
      /\ \A i \in 1..N : Entered[i] = b(i)
  BY <1>1, <1>2, <1>3
<1> QED
  BY <1>4 DEF b, N

(* A step of handleRead or of the peer is a step of the channel or leaves  *)
(* it alone.                                                               *)
LEMMA StepRefines == Inv /\ Inv' /\ [Next]_vars => [Channel!Next]_(Channel!channel)
<1> SUFFICES ASSUME Inv, Inv', [Next]_vars PROVE [Channel!Next]_(Channel!channel)
  OBVIOUS
<1>1. /\ sent \in Seq(Frame) /\ Len(sent) <= MaxFrames /\ Len(sent) \in Nat
      /\ posted \in Seq(Seq(Bytes)) /\ Len(posted) \in Nat
  BY Shapes, LenProperties
<1>2. /\ sent' \in Seq(Frame) /\ Len(sent') <= MaxFrames
      /\ posted' \in Seq(Seq(Bytes))
  BY DEF Inv, TypeOK
<1>3. /\ Entered \in Seq(Bodies) /\ Len(Entered) = Len(sent)
      /\ \A i \in 1..Len(sent) : Entered[i] = BodyBytes(i, sent[i])
  BY <1>1, EnteredIs
<1>4. ASSUME NEW f \in Frame, PeerSends(f)
      PROVE  Channel!Enter
  <2> DEFINE N == Len(sent)
             b == BodyBytes(N + 1, f)
  <2>1. sent' = Append(sent, f) /\ posted' = posted /\ N < MaxFrames
    BY <1>4 DEF PeerSends
  <2>2. /\ Len(sent') = N + 1 /\ sent'[N + 1] = f
        /\ \A i \in 1..N : sent'[i] = sent[i]
    BY <1>1, <2>1, AppendProperties
  <2>3. b \in Bodies
    <3>1. N + 1 \in 1..MaxFrames
      BY <1>1, <2>1
    <3> QED
      BY <3>1 DEF Bodies
  <2>4. /\ Entered' \in Seq(Bodies) /\ Len(Entered') = N + 1
        /\ \A i \in 1..(N + 1) : Entered'[i] = BodyBytes(i, sent'[i])
    <3> DEFINE e == [i \in 1..(N + 1) |-> BodyBytes(i, sent'[i])]
    <3>1. Entered' = e
      BY <1>2, <2>2 DEF Entered
    <3>2. \A i \in 1..(N + 1) : BodyBytes(i, sent'[i]) \in Bodies
      <4> SUFFICES ASSUME NEW i \in 1..(N + 1) PROVE BodyBytes(i, sent'[i]) \in Bodies
        OBVIOUS
      <4>1. i \in 1..MaxFrames /\ sent'[i] \in Frame
        BY <1>1, <1>2, <2>1, <2>2
      <4> QED
        BY <4>1 DEF Bodies
    <3> DEFINE y(i) == BodyBytes(i, sent'[i])
               M == N + 1
    <3>3. e = [i \in 1..M |-> y(i)] /\ M \in Nat /\ \A i \in 1..M : y(i) \in Bodies
      BY <1>1, <3>2
    <3> HIDE DEF e, y, M
    <3>4. e \in Seq(Bodies) /\ Len(e) = M /\ \A i \in 1..M : e[i] = y(i)
      BY <3>3
    <3> QED
      BY <3>1, <3>4 DEF y, M
  <2> DEFINE a == Append(Entered, b)
  <2> HIDE DEF b
  <2>5. /\ a \in Seq(Bodies) /\ Len(a) = Len(Entered) + 1
        /\ \A i \in 1..Len(Entered) : a[i] = Entered[i]
        /\ a[Len(Entered) + 1] = b
    BY <1>3, <2>3, AppendProperties
  <2> HIDE DEF a
  <2>6. \A i \in 1..(N + 1) : Entered'[i] = a[i]
    <3> SUFFICES ASSUME NEW i \in 1..(N + 1) PROVE Entered'[i] = a[i]
      OBVIOUS
    <3>1. CASE i = N + 1
      BY <1>3, <2>2, <2>4, <2>5, <3>1 DEF b
    <3>2. CASE i # N + 1
      <4>1. i \in 1..N
        BY <1>1, <3>2
      <4> QED
        BY <1>3, <2>2, <2>4, <2>5, <4>1
    <3> QED
      BY <3>1, <3>2
  <2>7. Entered' = a
    BY <1>3, <2>4, <2>5, <2>6, SeqEqual
  <2> QED
    BY <2>1, <2>3, <2>7 DEF Channel!Enter, Entered, a
<1>5. ASSUME UNCHANGED sent, NEW e, posted' = Append(posted, e)
      PROVE  Channel!Leave
  <2>1. Len(posted') = Len(posted) + 1 /\ posted'[Len(posted) + 1] = e
    <3> DEFINE S == Seq(Bytes) \cup {e}
    <3>1. posted \in Seq(S) /\ e \in S
      BY <1>1
    <3> HIDE DEF S
    <3> QED
      BY <1>5, <3>1, AppendProperties
  <2>2. /\ Len(posted') <= Len(sent')
        /\ \A i \in DOMAIN posted' : posted'[i] = BodyBytes(i, sent'[i])
    BY DEF Inv, PostedAreSent
  <2>3. Len(posted) + 1 \in 1..Len(sent) /\ Len(posted) + 1 \in DOMAIN posted'
    BY <1>1, <1>2, <1>5, <2>1, <2>2
  <2>4. e = Entered[Len(posted) + 1]
    BY <1>3, <1>5, <2>1, <2>2, <2>3
  <2>5. Len(posted) < Len(Entered)
    BY <1>1, <1>3, <2>3
  <2>6. Entered' = Entered
    BY <1>5 DEF Entered
  <2> QED
    BY <1>5, <2>4, <2>5, <2>6 DEF Channel!Leave, Entered
<1>6. CASE UNCHANGED <<sent, posted>>
  BY <1>6 DEF Channel!channel
<1>7. CASE HandleRead
  <2>1. CASE BodyWhole \/ BodyEnds
    BY <1>5, <2>1 DEF BodyWhole, BodyEnds, PostFrame, Channel!Next
  <2>2. CASE HeadPartial \/ HeadRejected \/ HeadThrows \/ BodyBegins \/ BodyPartial
    BY <1>6, <2>2 DEF HeadPartial, HeadRejected, HeadThrows, BodyBegins, BodyPartial
  <2> QED
    BY <1>7, <2>1, <2>2 DEF HandleRead
<1>8. CASE Kernel \/ ReadError \/ Crashes \/ UNCHANGED vars
  BY <1>6, <1>8 DEF Kernel, ReadSome, ReadError, Crashes, vars
<1> QED
  BY <1>4, <1>7, <1>8 DEF Next, Channel!Next

(* handleRead implements the abstract channel: the bodies the peer sent    *)
(* come out at most once, in order and unchanged.                          *)
THEOREM Refinement == SafetySpec => FramesInOrder
<1>1. Init => Channel!Init
  <2> SUFFICES ASSUME Init PROVE Entered = <<>> /\ posted = <<>>
    BY DEF Channel!Init, Entered
  <2> QED
    BY DEF Init, Entered
<1> QED
  BY <1>1, Invariance, StepRefines, PTL DEF SafetySpec, FramesInOrder, Channel!Spec
=============================================================================
