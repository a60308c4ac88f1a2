--------------------------- MODULE CommandsProofs ---------------------------
(***************************************************************************)
(* Proofs about the command handlers, for any names, contents, lengths and *)
(* number of sessions: what becomes of a message of any length (Codec),    *)
(* what the handlers do to the tree, to the current paths and to the       *)
(* process, and where any path leads from any place (Paths).               *)
(***************************************************************************)
EXTENDS Commands, SequenceTheorems, FiniteSetTheorems,
        WellFoundedInduction, TLAPS

-----------------------------------------------------------------------------
(* Induction over numbers, stated of sets.  The intervals 1..n are finite  *)
(* sets and strict inclusion of finite sets is well-founded, so a set of   *)
(* numbers has a least one: if there were k in 0..n outside G, the least   *)
(* of them would not be 0, and the one before it would be in G.            *)
LEMMA LeastNumber ==
  ASSUME NEW B \in SUBSET Nat, B # {}
  PROVE  \E m \in B : \A k \in B : m <= k
<1> DEFINE R == StrictSubsetOrdering(Nat)
           F == FiniteSubsetsOf(Nat)
           T == {1..n : n \in B}
<1>1. IsWellFoundedOn(R, F)
  BY FS_StrictSubsetOrderingWellFounded
<1>2. T \subseteq F
  <2> SUFFICES ASSUME NEW n \in B PROVE 1..n \in F
    OBVIOUS
  <2>1. IsFiniteSet(1..n)
    BY FS_Interval
  <2> QED
    BY <2>1 DEF FiniteSubsetsOf
<1>3. T # {}
  OBVIOUS
<1> HIDE DEF F, R
<1>4. PICK x \in T : \A y \in T : ~ (<<y, x>> \in R)
  <2> HIDE DEF T
  <2> QED
    BY <1>1, <1>2, <1>3, WFMin
<1>5. PICK m \in B : x = 1..m
  BY <1>4
<1>6. ASSUME NEW k \in B, k < m PROVE FALSE
  <2>1. 1..k \in T
    OBVIOUS
  <2>2. 1..k \subseteq 1..m /\ 1..k # 1..m
    <3>1. m \in 1..m /\ m \notin 1..k
      BY <1>6
    <3> QED
      BY <1>6, <3>1
  <2>3. <<1..k, 1..m>> \in R
    BY <2>2 DEF R, StrictSubsetOrdering
  <2> QED
    BY <1>4, <1>5, <2>1, <2>3
<1> QED
  BY <1>6

LEMMA InductionTo ==
  ASSUME NEW n \in Nat, NEW G, 0 \in G,
         \A k \in 0..(n - 1) : k \in G => k + 1 \in G
  PROVE  0..n \subseteq G
<1> DEFINE B == (0..n) \ G
<1> SUFFICES ASSUME B # {} PROVE FALSE
  OBVIOUS
<1>1. B \in SUBSET Nat
  OBVIOUS
<1> HIDE DEF B
<1>2. PICK m \in B : \A k \in B : m <= k
  BY <1>1, LeastNumber
<1>3. m \in 0..n /\ m \notin G
  BY DEF B
<1>4. m # 0 /\ m - 1 \in 0..(n - 1) /\ m - 1 \in 0..n
  BY <1>3
<1>5. m - 1 \in G
  <2>1. m - 1 \notin B
    BY <1>2, <1>3, <1>4
  <2> QED
    BY <1>4, <2>1 DEF B
<1>6. (m - 1) + 1 \in G
  BY <1>4, <1>5
<1> QED
  BY <1>3, <1>6

-----------------------------------------------------------------------------
(* FoldLeft over a sequence is a recursion over the sets of its positions, *)
(* each time without the greatest.  A function that solves its equation    *)
(* exists, by induction over the positions, and its values for 1..0, 1..1, *)
(* ... are what a loop has computed after 0, 1, ... rounds.                *)
LEMMA MaxIs ==
  ASSUME NEW m \in Nat, NEW s \in SUBSET (1..m), s # {}
  PROVE  Max(s) \in s /\ \A x \in s : x <= Max(s)
<1> DEFINE B == {m - x : x \in s}
<1>1. B \in SUBSET Nat /\ B # {}
  <2>1. \A x \in s : x \in 1..m /\ m - x \in Nat
    OBVIOUS
  <2> QED
    BY <2>1
<1>2. PICK l \in B : \A k \in B : l <= k
  <2> HIDE DEF B
  <2> QED
    BY <1>1, LeastNumber
<1>3. PICK y \in s : l = m - y
  OBVIOUS
<1>4. \A x \in s : x <= y
  <2> SUFFICES ASSUME NEW x \in s PROVE x <= y
    OBVIOUS
  <2>1. l <= m - x
    BY <1>2
  <2> QED
    BY <1>3, <2>1
<1>5. \E z \in s : \A x \in s : z >= x
  BY <1>4
<1> QED
  BY <1>5 DEF Max

LEMMA MaxOfInterval ==
  ASSUME NEW m \in Nat \ {0}
  PROVE  Max(1..m) = m /\ (1..m) \ {m} = 1..(m - 1)
<1>1. m \in Nat /\ 1..m \in SUBSET (1..m) /\ m \in 1..m
  OBVIOUS
<1>2. Max(1..m) \in 1..m /\ \A x \in 1..m : x <= Max(1..m)
  <2>1. 1..m # {}
    BY <1>1
  <2> QED
    BY <1>1, <2>1, MaxIs
<1> QED
  BY <1>1, <1>2

(* The recursion that a fold over 1..n is: g[s] for every set s of rounds. *)
Rounds(g, m, b, step) ==
  \A s \in SUBSET (1..m) :
    g[s] = IF s = {} THEN b ELSE step[g[s \ {Max(s)}], Max(s)]

LEMMA RoundsExist ==
  ASSUME NEW n \in Nat, NEW X, NEW b \in X, NEW step \in [X \X (1..n) -> X]
  PROVE  \E g \in [SUBSET (1..n) -> X] : Rounds(g, n, b, step)
<1> DEFINE G == {m \in 0..n : \E g \in [SUBSET (1..m) -> X] : Rounds(g, m, b, step)}
<1>1. 0 \in G
  <2> DEFINE g == [s \in SUBSET (1..0) |-> b]
  <2>1. \A s \in SUBSET (1..0) : s = {}
    OBVIOUS
  <2>2. g \in [SUBSET (1..0) -> X] /\ Rounds(g, 0, b, step)
    BY <2>1 DEF Rounds
  <2> QED
    BY <2>2
<1>2. ASSUME NEW m \in 0..(n - 1), m \in G PROVE m + 1 \in G
  <2>1. PICK g \in [SUBSET (1..m) -> X] : Rounds(g, m, b, step)
    BY <1>2
  <2> DEFINE h == [s \in SUBSET (1..(m + 1)) |->
                     IF m + 1 \in s THEN step[g[s \ {m + 1}], m + 1] ELSE g[s]]
  <2>2. ASSUME NEW s \in SUBSET (1..(m + 1))
        PROVE  /\ m + 1 \in s => s \ {m + 1} \in SUBSET (1..m)
               /\ m + 1 \notin s => s \in SUBSET (1..m)
    OBVIOUS
  <2>3. h \in [SUBSET (1..(m + 1)) -> X]
    <3> SUFFICES ASSUME NEW s \in SUBSET (1..(m + 1))
                 PROVE  (IF m + 1 \in s THEN step[g[s \ {m + 1}], m + 1] ELSE g[s]) \in X
      OBVIOUS
    <3>1. m + 1 \in 1..n
      OBVIOUS
    <3> QED
      BY <2>1, <2>2, <3>1
  <2>4. ASSUME NEW s \in SUBSET (1..(m + 1))
        PROVE  h[s] = IF s = {} THEN b ELSE step[h[s \ {Max(s)}], Max(s)]
    <3>1. CASE m + 1 \in s
      <4>1. Max(s) \in s /\ \A x \in s : x <= Max(s)
        <5>1. m + 1 \in Nat /\ s # {}
          BY <3>1
        <5> QED
          BY <5>1, MaxIs
      <4>2. Max(s) = m + 1
        <5>1. Max(s) \in 1..(m + 1) /\ m + 1 <= Max(s)
          BY <3>1, <4>1
        <5> QED
          BY <5>1
      <4>3. s \ {m + 1} \in SUBSET (1..m) /\ s \ {m + 1} \in SUBSET (1..(m + 1))
        BY <2>2, <3>1
      <4>4. h[s \ {m + 1}] = g[s \ {m + 1}]
        BY <4>3
      <4> QED
        BY <3>1, <4>2, <4>4
    <3>2. CASE m + 1 \notin s
      <4>1. s \in SUBSET (1..m) /\ h[s] = g[s]
        BY <2>2, <3>2
      <4>2. g[s] = IF s = {} THEN b ELSE step[g[s \ {Max(s)}], Max(s)]
        BY <2>1, <4>1 DEF Rounds
      <4>3. ASSUME s # {} PROVE h[s \ {Max(s)}] = g[s \ {Max(s)}]
        <5> DEFINE t == s \ {Max(s)}
        <5>1. m + 1 \notin t /\ t \in SUBSET (1..(m + 1))
          BY <3>2
        <5> HIDE DEF t
        <5>2. h[t] = g[t]
          BY <5>1
        <5> QED
          BY <5>2 DEF t
      <4> QED
        BY <4>1, <4>2, <4>3
    <3> QED
      BY <3>1, <3>2
  <2> HIDE DEF h
  <2>5. Rounds(h, m + 1, b, step)
    BY <2>4 DEF Rounds
  <2> QED
    BY <2>3, <2>5
<1> HIDE DEF G
<1>3. n \in G
  BY <1>1, <1>2, InductionTo
<1> QED
  BY <1>3 DEF G

(* One round after the other.                                              *)
AreRounds(r, X, n, b, step) ==
  /\ r \in [0..n -> X] /\ r[0] = b
  /\ \A k \in 1..n : r[k] = step[<<r[k - 1], k>>]

LEMMA RoundsInOrder ==
  ASSUME NEW n \in Nat, NEW X, NEW b \in X, NEW step \in [X \X (1..n) -> X],
         NEW r, r = [k \in 0..n |-> r[k]], r[0] = b,
         \A k \in 1..n : r[k - 1] \in X => r[k] = step[<<r[k - 1], k>>]
  PROVE  AreRounds(r, X, n, b, step)
<1>1. \A k \in 0..n : r[k] \in X
  <2> DEFINE G == {k \in 0..n : r[k] \in X}
  <2>1. 0 \in G
    OBVIOUS
  <2>2. ASSUME NEW k \in 0..(n - 1), k \in G PROVE k + 1 \in G
    <3>1. k + 1 \in 1..n /\ k + 1 \in 0..n /\ (k + 1) - 1 = k
      OBVIOUS
    <3>2. r[k] \in X
      BY <2>2
    <3>3. r[k + 1] = step[<<r[k], k + 1>>]
      BY <3>1, <3>2
    <3> QED
      BY <3>1, <3>2, <3>3
  <2> HIDE DEF G
  <2>3. 0..n \subseteq G
    BY <2>1, <2>2, InductionTo
  <2> QED
    BY <2>3 DEF G
<1>2. \A k \in 1..n : k - 1 \in 0..n
  OBVIOUS
<1>3. r \in [0..n -> X]
  BY <1>1, Zenon
<1> QED
  BY <1>1, <1>2, <1>3 DEF AreRounds

(* So the fold of Part over some parts is its last round.                  *)
PartRounds(r, X, b, parts) ==
  /\ r \in [0..Len(parts) -> X]
  /\ r[0] = b
  /\ \A k \in 1..Len(parts) : r[k] = Part(r[k - 1], parts[k])
  /\ FoldLeft(Part, b, parts) = r[Len(parts)]

LEMMA FoldOfPart ==
  ASSUME NEW S, NEW parts \in Seq(S), NEW X, NEW b \in X,
         \A out \in X, part \in S : Part(out, part) \in X
  PROVE  \E r : PartRounds(r, X, b, parts)
<1> DEFINE n == Len(parts)
           step == [p \in X \X (1..n) |-> Part(p[1], parts[p[2]])]
<1>1. n \in Nat /\ DOMAIN parts = 1..n /\ \A k \in 1..n : parts[k] \in S
  OBVIOUS
<1> HIDE DEF n
<1>2. step \in [X \X (1..n) -> X]
  BY <1>1
<1>3. \A x \in X, k \in 1..n : step[<<x, k>>] = Part(x, parts[k])
  OBVIOUS
<1>4. PICK g \in [SUBSET (1..n) -> X] : Rounds(g, n, b, step)
  <2> HIDE DEF step
  <2> QED
    BY <1>1, <1>2, RoundsExist
<1>5. g = [s \in SUBSET (1..n) |->
             IF s = {} THEN b ELSE Part(g[s \ {Max(s)}], parts[Max(s)])]
  <2> SUFFICES ASSUME NEW s \in SUBSET (1..n), s # {}
               PROVE  g[s] = Part(g[s \ {Max(s)}], parts[Max(s)])
    BY <1>4 DEF Rounds
  <2>1. Max(s) \in 1..n
    BY <1>1, MaxIs
  <2>2. s \ {Max(s)} \in SUBSET (1..n)
    OBVIOUS
  <2>3. g[s \ {Max(s)}] \in X
    BY <1>4, <2>2
  <2>4. g[s] = step[<<g[s \ {Max(s)}], Max(s)>>]
    BY <1>4 DEF Rounds
  <2> QED
    BY <1>3, <2>1, <2>3, <2>4
<1> HIDE DEF step
<1>6. PICK it : /\ it = [s \in SUBSET (1..n) |->
                          IF s = {} THEN b ELSE Part(it[s \ {Max(s)}], parts[Max(s)])]
                /\ FoldLeft(Part, b, parts) = it[1..n]
  BY <1>1, <1>5 DEF FoldLeft, MapThenFoldSet
<1>7. it[{}] = b
  BY <1>6
<1>8. \A k \in 1..n : it[1..k] = Part(it[1..(k - 1)], parts[k])
  <2> SUFFICES ASSUME NEW k \in 1..n PROVE it[1..k] = Part(it[1..(k - 1)], parts[k])
    OBVIOUS
  <2>1. Max(1..k) = k /\ (1..k) \ {k} = 1..(k - 1)
    BY <1>1, MaxOfInterval
  <2>2. 1..k \in SUBSET (1..n) /\ 1..k # {}
    <3>1. k \in 1..k /\ \A x \in 1..k : x \in 1..n
      BY <1>1
    <3> QED
      BY <3>1
  <2> QED
    BY <1>6, <2>1, <2>2
<1> DEFINE r == [k \in 0..n |-> it[1..k]]
<1>9. AreRounds(r, X, n, b, step) /\ it[1..n] = r[n]
  <2>1. 1..0 = {} /\ 0 \in 0..n /\ n \in 0..n /\ \A k \in 1..n : k \in 0..n /\ k - 1 \in 0..n
    BY <1>1
  <2>2. r[0] = b /\ it[1..n] = r[n]
    BY <1>7, <2>1
  <2>3. \A k \in 1..n : r[k - 1] \in X => r[k] = step[<<r[k - 1], k>>]
    BY <1>3, <1>8, <2>1
  <2>4. r = [k \in 0..n |-> r[k]]
    OBVIOUS
  <2> HIDE DEF r
  <2> QED
    BY <1>1, <1>2, <2>2, <2>3, <2>4, RoundsInOrder
<1> HIDE DEF r
<1>10. \A k \in 1..n : r[k] = Part(r[k - 1], parts[k])
  <2>1. \A k \in 1..n : k - 1 \in 0..n
    BY <1>1
  <2> QED
    BY <1>3, <1>9, <2>1 DEF AreRounds
<1>11. PartRounds(r, X, b, parts)
  BY <1>6, <1>9, <1>10 DEF n, PartRounds, AreRounds
<1> QED
  BY <1>11

-----------------------------------------------------------------------------
(* The length of a message.                                                *)

(* Division by 65536.                                                      *)
LEMMA Remainder ==
  ASSUME NEW m \in Int
  PROVE  m % 65536 \in Int /\ 0 <= m % 65536 /\ m % 65536 <= 65535
OBVIOUS

LEMMA Quotient ==
  ASSUME NEW m \in Int
  PROVE  \E k \in Int : m = 65536 * k + (m % 65536)
<1>1. m \div 65536 \in Int
  OBVIOUS
<1>2. m = 65536 * (m \div 65536) + (m % 65536)
  OBVIOUS
<1> QED
  BY <1>1, <1>2

(* The values of a short.                                                  *)
Shorts == {i \in Int : 0 <= i + 32768 /\ i <= 32767}

USE DEF Shorts

(* Short lands within 16 bits and drops multiples of 2^16.                 *)
LEMMA ShortRange ==
  ASSUME NEW n \in Int
  PROVE  Short(n) \in Shorts
<1>1. n + 32768 \in Int
  OBVIOUS
<1>2. PICK r \in Int : r = (n + 32768) % 65536 /\ 0 <= r /\ r <= 65535
  BY <1>1, Remainder
<1>3. Short(n) = r - 32768
  BY <1>2 DEF Short
<1> QED
  BY <1>2, <1>3

LEMMA ShortCongruent ==
  ASSUME NEW n \in Int
  PROVE  \E k \in Int : Short(n) = n - 65536 * k
<1>1. n + 32768 \in Int
  OBVIOUS
<1>2. PICK k \in Int : n + 32768 = 65536 * k + ((n + 32768) % 65536)
  BY <1>1, Quotient
<1>3. PICK r \in Int : r = (n + 32768) % 65536
  BY <1>1, Remainder
<1>4. Short(n) = r - 32768
  BY <1>3 DEF Short
<1>5. n + 32768 = 65536 * k + r
  BY <1>2, <1>3
<1> QED
  BY <1>4, <1>5

(* Within 16 bits it changes nothing.                                      *)
LEMMA ShortIdentity ==
  ASSUME NEW n \in Shorts
  PROVE  Short(n) = n
<1>1. PICK k \in Int : Short(n) = n - 65536 * k
  BY ShortCongruent
<1>2. Short(n) \in Shorts
  BY ShortRange
<1> QED
  BY <1>1, <1>2

(* What total_len_ is, by the value of max_len.                            *)
LEMMA TotalValue ==
  ASSUME NEW n \in Nat
  PROVE  /\ BodyLen(n) \in Shorts
         /\ BodyLen(n) <= 32763 => TotalLen(n) = BodyLen(n) + 4
         /\ BodyLen(n) >= 32764 => TotalLen(n) = BodyLen(n) + 4 - 65536
<1>1. BodyLen(n) \in Shorts
  BY ShortRange DEF BodyLen
<1>2. BodyLen(n) <= 32763 => TotalLen(n) = BodyLen(n) + 4
  <2>1. BodyLen(n) <= 32763 => BodyLen(n) + 4 \in Shorts
    BY <1>1
  <2> QED
    BY <2>1, ShortIdentity DEF TotalLen, HeadTotalLen
<1>3. BodyLen(n) >= 32764 => TotalLen(n) = BodyLen(n) + 4 - 65536
  <2>1. PICK m \in Int : m = BodyLen(n) + 4
    BY <1>1
  <2>2. PICK k \in Int : Short(m) = m - 65536 * k
    BY ShortCongruent
  <2>3. Short(m) \in Shorts
    BY ShortRange
  <2>4. BodyLen(n) >= 32764 => k = 1
    BY <1>1, <2>1, <2>2, <2>3
  <2> QED
    BY <1>1, <2>1, <2>2, <2>4 DEF TotalLen, HeadTotalLen
<1> QED
  BY <1>1, <1>2, <1>3

(* What SendNode does, by the value of max_len alone.                      *)
LEMMA OutcomeByBody ==
  ASSUME NEW n \in Nat
  PROVE  /\ BodyLen(n) \in Shorts
         /\ Throws(n) <=> (BodyLen(n) >= 32764 \/ BodyLen(n) + 5 < 0)
         /\ Crashes(n) <=> (0 <= BodyLen(n) + 5 /\ BodyLen(n) < 0)
         /\ Sends(n) <=> (0 <= BodyLen(n) /\ BodyLen(n) <= 32763)
<1>1. /\ BodyLen(n) \in Shorts
      /\ BodyLen(n) <= 32763 => TotalLen(n) = BodyLen(n) + 4
      /\ BodyLen(n) >= 32764 => TotalLen(n) = BodyLen(n) + 4 - 65536
  BY TotalValue
<1>2. Throws(n) <=> (BodyLen(n) >= 32764 \/ BodyLen(n) + 5 < 0)
  BY <1>1 DEF Throws
<1>3. Crashes(n) <=> (0 <= BodyLen(n) + 5 /\ BodyLen(n) < 0)
  BY <1>1 DEF Throws, Crashes
<1>4. Sends(n) <=> (0 <= BodyLen(n) /\ BodyLen(n) <= 32763)
  BY <1>1, <1>2 DEF Sends
<1> QED
  BY <1>1, <1>2, <1>3, <1>4

(* A message leaves whole exactly when it has at most 32763 bytes: what a   *)
(* short holds, less the header.                                           *)
THEOREM WholeUpToLimit ==
  \A n \in Nat : (Sends(n) /\ ~Cut(n)) <=> n <= 32763
<1> SUFFICES ASSUME NEW n \in Nat
             PROVE  (Sends(n) /\ ~Cut(n)) <=> n <= 32763
  OBVIOUS
<1>1. Sends(n) <=> (0 <= BodyLen(n) /\ BodyLen(n) <= 32763)
  BY OutcomeByBody
<1>2. n <= 32763 => BodyLen(n) = n
  <2>1. n <= 32763 => n \in Shorts
    OBVIOUS
  <2> QED
    BY <2>1, ShortIdentity DEF BodyLen
<1>3. (Sends(n) /\ ~Cut(n)) <=> (Sends(n) /\ BodyLen(n) = n)
  BY DEF Cut
<1> QED
  BY <1>1, <1>2, <1>3

(* The copy runs away only with messages of 65531 bytes and more, and only *)
(* messages of 65536 bytes and more leave cut.                             *)
THEOREM HarmBeyondSixteenBits ==
  \A n \in Nat : /\ Crashes(n) => n >= 65531
                 /\ Cut(n) => n >= 65536
<1> SUFFICES ASSUME NEW n \in Nat
             PROVE  (Crashes(n) => n >= 65531) /\ (Cut(n) => n >= 65536)
  OBVIOUS
<1>1. PICK k \in Int : BodyLen(n) = n - 65536 * k
  BY ShortCongruent DEF BodyLen
<1>2. Crashes(n) => n >= 65531
  <2>1. Crashes(n) => 0 <= BodyLen(n) + 5 /\ BodyLen(n) < 0
    BY OutcomeByBody
  <2> QED
    BY <1>1, <2>1
<1>3. Cut(n) => n >= 65536
  <2>1. Sends(n) => (0 <= BodyLen(n) /\ BodyLen(n) <= 32763)
    BY OutcomeByBody
  <2>2. Cut(n) => (0 <= BodyLen(n) /\ BodyLen(n) <= 32763) /\ BodyLen(n) # n
    BY <2>1 DEF Cut
  <2> QED
    BY <1>1, <2>2
<1> QED
  BY <1>2, <1>3

(* Every frame that a SendNode sends announces a length that is not        *)
(* negative: the RecvNode on the other side never throws for it.           *)
THEOREM SentIsReceivable ==
  \A n \in Nat : Sends(n) => BodyLen(n) \in Nat /\ ~RecvThrows(BodyLen(n))
<1> SUFFICES ASSUME NEW n \in Nat, Sends(n)
             PROVE  BodyLen(n) \in Nat /\ ~RecvThrows(BodyLen(n))
  OBVIOUS
<1>1. BodyLen(n) \in Shorts /\ 0 <= BodyLen(n)
  BY OutcomeByBody
<1> QED
  BY <1>1 DEF RecvThrows
LEMMA ModuloSixteenBits ==
  ASSUME NEW n \in Nat, NEW k \in Int, NEW r \in Int, n = 65536 * k + r, 0 <= r, r <= 65535
  PROVE  n % 65536 = r
OBVIOUS

LEMMA OneLess ==
  ASSUME NEW n \in Int, NEW k \in Int, NEW b \in Int, n = 65536 * k + b
  PROVE  n = 65536 * (k - 1) + (b + 65536)
OBVIOUS

LEMMA ThrowingLowBits ==
  ASSUME NEW b \in Int, NEW r \in Int, 0 <= b + 32768, b <= 32767,
         r = IF b >= 0 THEN b ELSE b + 65536, 32764 <= r, r <= 65530
  PROVE  b >= 32764 \/ b + 5 < 0
OBVIOUS

LEMMA CrashingLowBits ==
  ASSUME NEW b \in Int, NEW r \in Int, 0 <= b + 32768, b <= 32767,
         r = IF b >= 0 THEN b ELSE b + 65536, 0 <= b + 5, b < 0
  PROVE  r >= 65531
OBVIOUS

LEMMA BodyByLowBits ==
  ASSUME NEW n \in Nat
  PROVE  \E b \in Int, r \in Int :
           /\ b = BodyLen(n) /\ 0 <= b + 32768 /\ b <= 32767
           /\ r = n % 65536 /\ r = IF b >= 0 THEN b ELSE b + 65536
<1>1. PICK k \in Int : BodyLen(n) = n - 65536 * k
  BY ShortCongruent DEF BodyLen
<1>2. PICK b \in Int : b = BodyLen(n) /\ 0 <= b + 32768 /\ b <= 32767
  BY OutcomeByBody
<1>3. n = 65536 * k + b
  BY <1>1, <1>2
<1>4. CASE b >= 0
  <2>1. n % 65536 = b
    BY <1>2, <1>3, <1>4, ModuloSixteenBits
  <2> QED
    BY <1>2, <1>4, <2>1
<1>5. CASE b < 0
  <2>1. PICK j \in Int, m \in Int : j = k - 1 /\ m = b + 65536 /\ 0 <= m /\ m <= 65535
    BY <1>2, <1>5
  <2>2. n = 65536 * j + m
    BY <1>3, <2>1, OneLess
  <2>3. n % 65536 = m
    BY <2>1, <2>2, ModuloSixteenBits
  <2>4. m = IF b >= 0 THEN b ELSE b + 65536
    BY <1>5, <2>1
  <2> QED
    BY <1>2, <2>1, <2>3, <2>4
<1> QED
  BY <1>2, <1>4, <1>5

(* What SendNode does, by the 16 low bits of the length.                   *)
LEMMA ThrowsByLowBits ==
  ASSUME NEW n \in Nat, Overflows(n)
  PROVE  Throws(n)
<1>1. PICK b \in Int, r \in Int :
           /\ b = BodyLen(n) /\ 0 <= b + 32768 /\ b <= 32767
           /\ r = n % 65536 /\ r = IF b >= 0 THEN b ELSE b + 65536
  BY BodyByLowBits
<1>2. 32764 <= r /\ r <= 65530
  <2>1. r = n % 65536
    BY <1>1
  <2> QED
    BY <2>1 DEF Overflows
<1>3. b >= 32764 \/ b + 5 < 0
  BY <1>1, <1>2, ThrowingLowBits
<1> QED
  BY <1>1, <1>3, OutcomeByBody

LEMMA CrashesByLowBits ==
  ASSUME NEW n \in Nat, Crashes(n)
  PROVE  RunAway(n)
<1>1. PICK b \in Int, r \in Int :
           /\ b = BodyLen(n) /\ 0 <= b + 32768 /\ b <= 32767
           /\ r = n % 65536 /\ r = IF b >= 0 THEN b ELSE b + 65536
  BY BodyByLowBits
<1>2. 0 <= b + 5 /\ b < 0
  BY <1>1, OutcomeByBody
<1>3. r >= 65531
  BY <1>1, <1>2, CrashingLowBits
<1>4. r = n % 65536
  BY <1>1
<1> QED
  BY <1>3, <1>4 DEF RunAway

LEMMA EmptyIsSent == ~Overflows(0)
<1>1. 0 % 65536 = 0
  OBVIOUS
<1> QED
  BY <1>1 DEF Overflows

-----------------------------------------------------------------------------
(* Places and the directories on the way to them.                          *)

USE TreeAssumption, BoundAssumption, LengthAssumption

LEMMA PlaceShape ==
  ASSUME NEW p
  PROVE  p \in Places <=> p \in Seq(Names) /\ Len(p) <= MaxDepth
<1>1. Places = UNION {[1..m -> Names] : m \in 0..MaxDepth}
  BY DEF Places, BoundedSeq, SeqOf
<1>2. ASSUME p \in Places PROVE p \in Seq(Names) /\ Len(p) <= MaxDepth
  <2>1. PICK m \in 0..MaxDepth : p \in [1..m -> Names]
    BY <1>1, <1>2
  <2> QED
    BY <2>1
<1>3. ASSUME p \in Seq(Names), Len(p) <= MaxDepth PROVE p \in Places
  <2>1. p \in [1..Len(p) -> Names] /\ Len(p) \in 0..MaxDepth
    BY <1>3, LenProperties
  <2> QED
    BY <1>1, <2>1
<1> QED
  BY <1>2, <1>3

LEMMA RootIsPlace == <<>> \in Places
<1>1. <<>> \in Seq(Names) /\ Len(<<>>) = 0
  OBVIOUS
<1>2. Len(<<>>) <= MaxDepth
  BY <1>1
<1> QED
  BY <1>1, <1>2, PlaceShape

LEMMA PrefixIs ==
  ASSUME NEW p \in Seq(Names), NEW q \in Seq(Names)
  PROVE  IsPrefix(p, q) <=> Len(p) <= Len(q) /\ \A i \in 1..Len(p) : p[i] = q[i]
<1>0. Len(p) \in Nat /\ Len(q) \in Nat
  OBVIOUS
<1>1. ASSUME Len(p) <= Len(q)
      PROVE  SubSeq(p, 1, Len(p)) = SubSeq(q, 1, Len(p)) <=> \A i \in 1..Len(p) : p[i] = q[i]
  <2> DEFINE a == SubSeq(p, 1, Len(p))
             b == SubSeq(q, 1, Len(p))
  <2>1. /\ a \in Seq(Names) /\ Len(a) = Len(p) /\ \A i \in 1..Len(p) : a[i] = p[i]
        /\ b \in Seq(Names) /\ Len(b) = Len(p) /\ \A i \in 1..Len(p) : b[i] = q[i]
    BY <1>0, <1>1
  <2> HIDE DEF a, b
  <2>2. a = b <=> \A i \in 1..Len(p) : p[i] = q[i]
    BY <2>1, SeqEqual
  <2> QED
    BY <2>2 DEF a, b
<1> QED
  BY <1>1 DEF IsPrefix

LEMMA FrontShape ==
  ASSUME NEW p \in Places, p # <<>>
  PROVE  /\ Front(p) \in Places /\ Front(p) # p
         /\ Len(p) \in Nat \ {0} /\ Len(Front(p)) = Len(p) - 1
         /\ \A i \in 1..(Len(p) - 1) : Front(p)[i] = p[i]
<1>1. p \in Seq(Names) /\ Len(p) <= MaxDepth
  BY PlaceShape
<1>2. Len(p) \in Nat \ {0}
  BY <1>1, EmptySeq
<1>3. /\ Front(p) \in Seq(Names) /\ Len(Front(p)) = Len(p) - 1
      /\ \A i \in 1..(Len(p) - 1) : Front(p)[i] = p[i]
  <2> DEFINE n == Len(p) - 1
             f == SubSeq(p, 1, n)
  <2>1. n \in Nat /\ n <= Len(p)
    BY <1>2
  <2> HIDE DEF n
  <2>2. f \in Seq(Names) /\ Len(f) = n /\ \A i \in 1..n : f[i] = p[i]
    BY <1>1, <1>2, <2>1
  <2> QED
    BY <2>2 DEF Front, n
<1>4. Len(Front(p)) <= MaxDepth /\ Front(p) # p
  BY <1>1, <1>2, <1>3
<1> QED
  BY <1>2, <1>3, <1>4, PlaceShape

LEMMA PrefixOfItself ==
  ASSUME NEW p \in Places PROVE IsPrefix(p, p) /\ IsPrefix(<<>>, p)
<1>1. p \in Seq(Names) /\ <<>> \in Seq(Names) /\ Len(<<>>) = 0 /\ Len(p) \in Nat
  BY PlaceShape
<1>2. IsPrefix(p, p)
  BY <1>1, PrefixIs
<1>3. IsPrefix(<<>>, p)
  <2>1. Len(<<>>) <= Len(p) /\ \A i \in 1..Len(<<>>) : <<>>[i] = p[i]
    BY <1>1
  <2> QED
    BY <1>1, <2>1, PrefixIs
<1> QED
  BY <1>2, <1>3

LEMMA PrefixTransitive ==
  ASSUME NEW p \in Places, NEW q \in Places, NEW r \in Places, IsPrefix(p, q), IsPrefix(q, r)
  PROVE  IsPrefix(p, r)
<1>1. p \in Seq(Names) /\ q \in Seq(Names) /\ r \in Seq(Names)
  BY PlaceShape
<1>2. /\ Len(p) <= Len(q) /\ \A i \in 1..Len(p) : p[i] = q[i]
      /\ Len(q) <= Len(r) /\ \A i \in 1..Len(q) : q[i] = r[i]
  BY <1>1, PrefixIs
<1>3. Len(p) \in Nat /\ Len(q) \in Nat /\ Len(r) \in Nat
  BY <1>1
<1>4. Len(p) <= Len(r) /\ \A i \in 1..Len(p) : p[i] = r[i]
  BY <1>2, <1>3
<1> QED
  BY <1>1, <1>4, PrefixIs

(* The directory a place is in lies on the way to it, and everything else  *)
(* on the way lies on the way to that directory.                           *)
LEMMA FrontOnTheWay ==
  ASSUME NEW q \in Places, q # <<>>
  PROVE  /\ IsPrefix(Front(q), q)
         /\ \A p \in Places : IsPrefix(p, q) => p = q \/ IsPrefix(p, Front(q))
<1>1. /\ q \in Seq(Names) /\ Front(q) \in Places /\ Front(q) \in Seq(Names)
  BY FrontShape, PlaceShape
<1>2. /\ Len(q) \in Nat \ {0} /\ Len(Front(q)) = Len(q) - 1
      /\ \A i \in 1..(Len(q) - 1) : Front(q)[i] = q[i]
  BY FrontShape
<1>3. IsPrefix(Front(q), q)
  <2>1. Len(Front(q)) <= Len(q) /\ \A i \in 1..Len(Front(q)) : Front(q)[i] = q[i]
    BY <1>2
  <2> QED
    BY <1>1, <2>1, PrefixIs
<1>4. ASSUME NEW p \in Places, IsPrefix(p, q), p # q
      PROVE  IsPrefix(p, Front(q))
  <2>1. p \in Seq(Names) /\ Len(p) \in Nat
    BY PlaceShape
  <2>2. Len(p) <= Len(q) /\ \A i \in 1..Len(p) : p[i] = q[i]
    BY <1>1, <1>4, <2>1, PrefixIs
  <2>3. Len(p) # Len(q)
    BY <1>1, <1>4, <2>1, <2>2, SeqEqual
  <2>4. Len(p) <= Len(q) - 1
    BY <1>2, <2>1, <2>2, <2>3
  <2>5. \A i \in 1..Len(p) : i \in 1..(Len(q) - 1)
    BY <1>2, <2>1, <2>4
  <2>6. Len(p) <= Len(Front(q)) /\ \A i \in 1..Len(p) : p[i] = Front(q)[i]
    BY <1>2, <2>2, <2>4, <2>5
  <2> QED
    BY <1>1, <2>1, <2>6, PrefixIs
<1> QED
  BY <1>3, <1>4

LEMMA NothingBeforeRoot ==
  ASSUME NEW p \in Places, IsPrefix(p, <<>>)
  PROVE  p = <<>>
<1>1. p \in Seq(Names) /\ <<>> \in Seq(Names) /\ Len(<<>>) = 0 /\ Len(p) \in Nat
  BY PlaceShape
<1>2. Len(p) <= Len(<<>>)
  BY <1>1, PrefixIs
<1>3. Len(p) = 0
  BY <1>1, <1>2
<1> QED
  BY <1>1, <1>3, EmptySeq

(* There are finitely many places, so every listing has a length.          *)
LEMMA FinitelyManyPlaces == IsFiniteSet(Places)
<1> DEFINE T == SUBSET ((1..MaxDepth) \X Names)
           g(p) == {<<i, p[i]>> : i \in 1..Len(p)}
           G == [p \in Places |-> g(p)]
<1>1. IsFiniteSet(T)
  <2>1. IsFiniteSet(1..MaxDepth)
    BY FS_Interval
  <2>2. IsFiniteSet((1..MaxDepth) \X Names)
    BY <2>1, FS_Product
  <2> QED
    BY <2>2, FS_SUBSET
<1>2. ASSUME NEW p \in Places
      PROVE  /\ p \in Seq(Names) /\ Len(p) \in Nat /\ Len(p) <= MaxDepth
             /\ \A i \in 1..Len(p) : p[i] \in Names
  BY PlaceShape
<1>3. ASSUME NEW p \in Places PROVE g(p) \in T
  <2>1. \A i \in 1..Len(p) : i \in 1..MaxDepth /\ p[i] \in Names
    BY <1>2
  <2> QED
    BY <2>1
<1>4. ASSUME NEW p \in Places, NEW q \in Places, g(p) = g(q) PROVE p = q
  <2>1. \A i \in 1..Len(p) : <<i, p[i]>> \in g(q)
    BY <1>4
  <2>2. \A i \in 1..Len(q) : <<i, q[i]>> \in g(p)
    BY <1>4
  <2>3. \A i \in 1..Len(p) : i \in 1..Len(q) /\ p[i] = q[i]
    BY <2>1
  <2>4. \A i \in 1..Len(q) : i \in 1..Len(p)
    BY <2>2
  <2>5. Len(p) = Len(q)
    <3>1. ASSUME NEW m \in Nat, NEW n \in Nat, \A i \in 1..m : i \in 1..n PROVE m <= n
      <4>1. m # 0 => m \in 1..m
        OBVIOUS
      <4> QED
        BY <3>1, <4>1
    <3>2. Len(p) <= Len(q) /\ Len(q) <= Len(p)
      BY <1>2, <2>3, <2>4, <3>1
    <3> QED
      BY <1>2, <3>2
  <2> QED
    BY <1>2, <2>3, <2>5, SeqEqual
<1> HIDE DEF T, g
<1>5. G \in Injection(Places, T)
  <2>1. G \in [Places -> T]
    BY <1>3
  <2>2. IsInjective(G)
    BY <1>4 DEF IsInjective
  <2> QED
    BY <2>1, <2>2 DEF Injection
<1> HIDE DEF G
<1> QED
  BY <1>1, <1>5, FS_Injection

LEMMA ListingHasLength == \A at : ListLen(at) \in Nat
<1> SUFFICES ASSUME NEW at PROVE ListLen(at) \in Nat
  OBVIOUS
<1>1. Entries(at) \in SUBSET Places
  BY DEF Entries, Existing
<1>2. IsFiniteSet(Entries(at))
  BY <1>1, FinitelyManyPlaces, FS_Subset
<1>3. Cardinality(Entries(at)) \in Nat
  BY <1>2, FS_CardinalityType
<1> DEFINE c == Cardinality(Entries(at))
<1> HIDE DEF c
<1>4. c \in Nat => ListHead + EntryLen * c \in Nat
  OBVIOUS
<1> QED
  BY <1>3, <1>4 DEF ListLen, c

-----------------------------------------------------------------------------
(* What the handlers do to the tree.                                       *)

Good(t) == t \in [Places -> Kinds] /\ WellFormed(t)

LEMMA KindsApart ==
  /\ "none" \notin Contents /\ "dir" \notin Contents
  /\ "none" \in Kinds /\ "dir" \in Kinds /\ Contents \subseteq Kinds
BY DEF Kinds

(* create_directories makes each missing directory in one that is there or *)
(* is made too.                                                            *)
LEMMA MkdirGood ==
  ASSUME Good(tree), NEW at, CanMake(at), NEW t,
         t = [q \in Places |-> IF q \in Missing(at) THEN "dir" ELSE tree[q]]
  PROVE  /\ Good(t)
         /\ \A q \in Places : tree[q] = "dir" => t[q] = "dir"
<1>1. at \in Places /\ tree \in [Places -> Kinds] /\ WellFormed(tree) /\ <<>> \in Places
  BY RootIsPlace DEF CanMake, Good
<1>2. /\ t \in [Places -> Kinds]
      /\ \A q \in Places : t[q] = IF q \in Missing(at) THEN "dir" ELSE tree[q]
  BY <1>1, KindsApart
<1>3. \A q \in Places : tree[q] = "dir" => t[q] = "dir"
  BY <1>2
<1>4. t[<<>>] = "dir"
  BY <1>1, <1>3 DEF WellFormed
<1>5. ASSUME NEW q \in Places \ {<<>>}, t[q] # "none" PROVE t[Front(q)] = "dir"
  <2>1. Front(q) \in Places /\ IsPrefix(Front(q), q)
    BY FrontShape, FrontOnTheWay
  <2>2. CASE q \in Missing(at)
    <3>1. q \in Ancestors(at) /\ IsPrefix(q, at)
      BY <2>2 DEF Missing, Ancestors
    <3>2. Front(q) \in Ancestors(at)
      BY <1>1, <2>1, <3>1, PrefixTransitive DEF Ancestors
    <3>3. tree[Front(q)] \in {"none", "dir"}
      BY <2>1, <3>2 DEF CanMake, At
    <3>4. tree[Front(q)] = "none" => Front(q) \in Missing(at)
      BY <3>2 DEF Missing, Existing
    <3> QED
      BY <1>2, <2>1, <3>3, <3>4
  <2>3. CASE q \notin Missing(at)
    BY <1>1, <1>2, <1>3, <1>5, <2>1, <2>3 DEF WellFormed
  <2> QED
    BY <2>2, <2>3
<1> QED
  BY <1>2, <1>3, <1>4, <1>5 DEF Good, WellFormed

(* A set of entries that is removed with all that is in them.              *)
Uprooted(gone, at) ==
  /\ gone \subseteq Existing(Beneath(at)) /\ <<>> \notin gone
  /\ \A q \in Existing(Places) \ {<<>>} : Front(q) \in gone => q \in gone

LEMMA UnlinkGood ==
  ASSUME Good(tree), NEW at, NEW gone, Uprooted(gone, at), NEW t,
         t = [q \in Places |-> IF q \in gone THEN "none" ELSE tree[q]]
  PROVE  Good(t)
<1>1. tree \in [Places -> Kinds] /\ WellFormed(tree) /\ <<>> \in Places
  BY RootIsPlace DEF Good
<1>2. /\ t \in [Places -> Kinds]
      /\ \A q \in Places : t[q] = IF q \in gone THEN "none" ELSE tree[q]
  BY <1>1, KindsApart
<1>3. t[<<>>] = "dir"
  BY <1>1, <1>2 DEF WellFormed, Uprooted
<1>4. ASSUME NEW q \in Places \ {<<>>}, t[q] # "none" PROVE t[Front(q)] = "dir"
  <2>1. Front(q) \in Places
    BY FrontShape
  <2>2. q \notin gone /\ tree[q] # "none"
    BY <1>2, <1>4
  <2>3. Front(q) \notin gone
    BY <2>2 DEF Uprooted, Existing
  <2> QED
    BY <1>1, <1>2, <2>1, <2>2, <2>3 DEF WellFormed
<1> QED
  BY <1>2, <1>3, <1>4 DEF Good, WellFormed

LEMMA WholeUprooted ==
  ASSUME Good(tree), NEW at \in Places, Stuck(at) = {}
  PROVE  Uprooted(Existing(Beneath(at)), at)
<1>1. <<>> \in Places /\ tree[<<>>] = "dir"
  BY RootIsPlace DEF Good, WellFormed
<1>2. <<>> \notin Existing(Beneath(at))
  BY DEF Stuck
<1>3. ASSUME NEW q \in Existing(Places) \ {<<>>}, Front(q) \in Existing(Beneath(at))
      PROVE  q \in Existing(Beneath(at))
  <2>1. q \in Places /\ tree[q] # "none" /\ Front(q) \in Places /\ IsPrefix(Front(q), q)
    BY FrontShape, FrontOnTheWay DEF Existing
  <2>2. IsPrefix(at, Front(q))
    BY <1>3 DEF Existing, Beneath
  <2>3. IsPrefix(at, q)
    BY <2>1, <2>2, PrefixTransitive
  <2> QED
    BY <2>1, <2>3 DEF Existing, Beneath
<1> QED
  BY <1>2, <1>3 DEF Uprooted

(* A removal that stops half-way has spared what it could not remove.      *)
LEMMA PartUprooted ==
  ASSUME Good(tree), NEW at \in Places, NEW stuck \in Stuck(at),
         NEW gone \in RemovedBefore(stuck, at)
  PROVE  Uprooted(gone, at) /\ gone \cap Stuck(at) = {}
<1> DEFINE beside == {q \in Existing(Beneath(at)) \ Ancestors(stuck) :
                        Front(q) \in Ancestors(stuck)}
           under(tops) == Existing(UNION {Beneath(q) : q \in tops})
<1>1. PICK tops \in SUBSET beside : gone = under(tops)
  BY DEF RemovedBefore
<1>2. gone \cap Stuck(at) = {}
  BY DEF RemovedBefore
<1>3. ASSUME NEW q \in gone
      PROVE  q \in Places /\ tree[q] # "none" /\ \E p \in tops : IsPrefix(p, q) /\ p \in Places /\ IsPrefix(at, p)
  BY <1>1 DEF Existing, Beneath
<1>4. gone \subseteq Existing(Beneath(at))
  BY <1>3, PrefixTransitive DEF Existing, Beneath
<1>5. <<>> \notin gone
  BY <1>2, <1>4 DEF Stuck
<1>6. ASSUME NEW q \in Existing(Places) \ {<<>>}, Front(q) \in gone
      PROVE  q \in gone
  <2>1. q \in Places /\ tree[q] # "none" /\ Front(q) \in Places /\ IsPrefix(Front(q), q)
    BY FrontShape, FrontOnTheWay DEF Existing
  <2>2. PICK p \in tops : IsPrefix(p, Front(q)) /\ p \in Places
    BY <1>3, <1>6
  <2>3. IsPrefix(p, q)
    BY <2>1, <2>2, PrefixTransitive
  <2> QED
    BY <1>1, <2>1, <2>3 DEF Existing, Beneath
<1> QED
  BY <1>2, <1>4, <1>5, <1>6 DEF Uprooted

(* What is written over is no directory, so nothing was in it.             *)
LEMMA WriteGood ==
  ASSUME Good(tree), NEW at, CanWrite(at), NEW c \in Contents
  PROVE  /\ Good([tree EXCEPT ![at] = c]) /\ at \in Places /\ tree[at] # "dir"
<1> DEFINE t == [tree EXCEPT ![at] = c]
<1>1. /\ at \in Places \ {<<>>} /\ tree[Front(at)] = "dir" /\ tree[at] # "dir"
      /\ tree \in [Places -> Kinds] /\ WellFormed(tree) /\ <<>> \in Places
  BY RootIsPlace DEF CanWrite, Good
<1>2. /\ t \in [Places -> Kinds] /\ t[at] = c
      /\ \A q \in Places : q # at => t[q] = tree[q]
  BY <1>1, KindsApart
<1> HIDE DEF t
<1>3. t[<<>>] = "dir"
  BY <1>1, <1>2 DEF WellFormed
<1>4. ASSUME NEW q \in Places \ {<<>>}, t[q] # "none" PROVE t[Front(q)] = "dir"
  <2>1. Front(q) \in Places /\ Front(at) \in Places /\ Front(at) # at
    BY <1>1, FrontShape
  <2>2. CASE q = at
    BY <1>1, <1>2, <2>1, <2>2
  <2>3. CASE q # at
    <3>1. tree[Front(q)] = "dir"
      BY <1>1, <1>2, <1>4, <2>3 DEF WellFormed
    <3> QED
      BY <1>1, <1>2, <2>1, <3>1
  <2> QED
    BY <2>2, <2>3
<1> QED
  BY <1>1, <1>2, <1>3, <1>4 DEF Good, WellFormed, t

-----------------------------------------------------------------------------
(* The handlers.                                                           *)

(* The tree and the paths; the answer and the process.                     *)
TreeOK ==
  /\ Good(tree)
  /\ live \subseteq Sessions /\ stale \subseteq live
  /\ cwd \in [Sessions -> Places]
  /\ CwdExplained

AnswerOK ==
  /\ answer.status \in Statuses /\ answer.len \in Nat
  /\ fate \in {"alive", "crashed", "aborted"}
  /\ HarmOnlyBeyondShort

Inv == TreeOK /\ AnswerOK

(* What UnsuccessfulChangesLittle says of a step.                          *)
Little ==
  answer'.status # "ok" =>
    /\ \A s \in live \cap live' : cwd'[s] = cwd[s]
    /\ \A q \in Places : tree'[q] # tree[q] =>
         answer'.status = "error" /\ tree'[q] = "none" /\ Front(q) \notin Protected

LEMMA ShortAnswer ==
  ASSUME NEW st \in Statuses \ {"cut"}, answer'.status = st, answer'.len = 0, fate' = "alive"
  PROVE  AnswerOK'
<1>1. ~Overflows(answer'.len)
  BY EmptyIsSent
<1>2. answer'.status # "cut" /\ fate' # "aborted" /\ fate' # "crashed"
  OBVIOUS
<1>3. HarmOnlyBeyondShort'
  BY <1>1, <1>2 DEF HarmOnlyBeyondShort
<1> QED
  BY <1>3 DEF AnswerOK

(* A long answer does harm only as its length says.                        *)
LEMMA LongAnswer ==
  ASSUME fate = "alive", NEW n \in Nat, Replies("ok", n)
  PROVE  AnswerOK'
<1>1. answer'.len = n
  BY DEF Replies, Answer
<1>2. \/ Sends(n) /\ answer'.status = (IF Cut(n) THEN "cut" ELSE "ok") /\ fate' = "alive"
      \/ Throws(n) /\ answer'.status = "error" /\ fate' = "alive"
      \/ Crashes(n) /\ answer'.status = "none" /\ fate' = "crashed"
  BY DEF Replies, Answer
<1>3. answer'.status = "cut" => n >= 65536
  BY <1>2, HarmBeyondSixteenBits
<1>4. fate' = "crashed" => RunAway(n)
  BY <1>2, CrashesByLowBits
<1>5. ASSUME Overflows(n) PROVE answer'.status = "error"
  <2>1. Throws(n)
    BY <1>5, ThrowsByLowBits
  <2>2. ~Sends(n) /\ ~Crashes(n)
    BY <2>1 DEF Sends, Crashes
  <2> QED
    BY <1>2, <2>2
<1>6. fate' \in {"alive", "crashed"} /\ answer'.status \in Statuses
  BY <1>2 DEF Statuses
<1>7. HarmOnlyBeyondShort'
  <2>1. (answer'.status = "cut" \/ fate' = "aborted") => answer'.len >= 65536
    BY <1>1, <1>3, <1>6
  <2>2. fate' = "crashed" => RunAway(answer'.len)
    BY <1>1, <1>4
  <2>3. Overflows(answer'.len) => answer'.status = "error"
    BY <1>1, <1>5
  <2> QED
    BY <2>1, <2>2, <2>3 DEF HarmOnlyBeyondShort
<1> QED
  BY <1>1, <1>6, <1>7 DEF AnswerOK

LEMMA TreeAlone ==
  ASSUME TreeOK, UNCHANGED <<tree, live, cwd, stale>>
  PROVE  TreeOK' /\ Little
<1>1. TreeOK'
  BY DEF TreeOK, CwdExplained
<1> QED
  BY <1>1 DEF Little

LEMMA ConnectStep ==
  ASSUME Inv, NEW s \in Sessions, Connect(s)
  PROVE  Inv' /\ Little
<1>1. /\ fate' = "alive" /\ answer'.status = "none" /\ answer'.len = 0
      /\ tree' = tree /\ live' = live \cup {s} /\ s \notin live
      /\ cwd' = [cwd EXCEPT ![s] = Home]
      /\ stale' = IF At(Home) = "dir" THEN stale ELSE stale \cup {s}
  BY DEF Connect, Answer
<1>2. AnswerOK'
  BY <1>1, ShortAnswer DEF Statuses
<1>3. /\ cwd' \in [Sessions -> Places] /\ cwd'[s] = Home
      /\ \A x \in Sessions : x # s => cwd'[x] = cwd[x]
  BY <1>1 DEF Inv, TreeOK
<1>4. CwdExplained'
  <2> SUFFICES ASSUME NEW x \in live' \ stale' PROVE tree[cwd'[x]] = "dir"
    BY <1>1 DEF CwdExplained
  <2>1. CASE x = s
    BY <1>1, <1>3, <2>1 DEF At
  <2>2. CASE x # s
    BY <1>1, <1>3, <2>2 DEF Inv, TreeOK, CwdExplained
  <2> QED
    BY <2>1, <2>2
<1>5. TreeOK'
  BY <1>1, <1>3, <1>4 DEF Inv, TreeOK
<1>6. Little
  BY <1>1, <1>3 DEF Little, Inv, TreeOK
<1> QED
  BY <1>2, <1>5, <1>6 DEF Inv

(* A session leaves nothing behind.                                        *)
LEMMA LeavesStep ==
  ASSUME Inv, NEW s \in Sessions, Leaves(s), tree' = tree
  PROVE  TreeOK' /\ Little
<1>1. /\ live' = live \ {s} /\ stale' = stale \ {s}
      /\ cwd' \in [Sessions -> Places]
      /\ \A x \in Sessions : x # s => cwd'[x] = cwd[x]
  BY DEF Leaves, Inv, TreeOK
<1>2. CwdExplained'
  BY <1>1 DEF Inv, TreeOK, CwdExplained
<1>3. TreeOK'
  BY <1>1, <1>2 DEF Inv, TreeOK
<1>4. Little
  BY <1>1 DEF Little, Inv, TreeOK
<1> QED
  BY <1>3, <1>4

LEMMA EndsStep ==
  ASSUME Inv, NEW s \in Sessions, Ends(s)
  PROVE  Inv' /\ Little
<1>1. AnswerOK'
  BY ShortAnswer DEF Ends, Answer, Serving, Statuses
<1>2. TreeOK' /\ Little
  BY LeavesStep DEF Ends
<1> QED
  BY <1>1, <1>2 DEF Inv

LEMMA HelloOrPwdStep ==
  ASSUME Inv, NEW s \in Sessions, HelloOrPwd(s)
  PROVE  Inv' /\ Little
<1>1. AnswerOK'
  BY ShortAnswer DEF HelloOrPwd, Answer, Serving, Statuses
<1>2. TreeOK' /\ Little
  BY TreeAlone DEF HelloOrPwd, Inv
<1> QED
  BY <1>1, <1>2 DEF Inv

LEMMA ListStep ==
  ASSUME Inv, NEW s \in Sessions, NEW path, List(s, path)
  PROVE  Inv' /\ Little
<1>1. AnswerOK'
  <2>1. ListLen(Named(s, path)) \in Nat /\ fate = "alive"
    BY ListingHasLength DEF List, Serving
  <2>2. \/ Replies("ok", ListLen(Named(s, path)))
        \/ Answer("ok", 0) /\ fate' = fate
    BY DEF List
  <2> QED
    BY <2>1, <2>2, LongAnswer, ShortAnswer DEF Answer, Statuses
<1>2. TreeOK' /\ Little
  BY TreeAlone DEF List, Inv
<1> QED
  BY <1>1, <1>2 DEF Inv

LEMMA ReadFileStep ==
  ASSUME Inv, NEW s \in Sessions, NEW path, NEW Length \in [Contents -> Nat],
         ReadFile(s, path, Length)
  PROVE  Inv' /\ Little
<1>1. AnswerOK'
  <2> DEFINE n == Length[At(Named(s, path))]
  <2>1. \/ n \in Nat /\ Replies("ok", n)
        \/ \E st \in {"ok", "error"} : Answer(st, 0) /\ fate' = fate
    BY DEF ReadFile
  <2>2. fate = "alive"
    BY DEF ReadFile, Serving
  <2> HIDE DEF n
  <2> QED
    BY <2>1, <2>2, LongAnswer, ShortAnswer DEF Answer, Statuses
<1>2. TreeOK' /\ Little
  BY TreeAlone DEF ReadFile, Inv
<1> QED
  BY <1>1, <1>2 DEF Inv

LEMMA MkdirStep ==
  ASSUME Inv, NEW s \in Sessions, NEW path, Mkdir(s, path)
  PROVE  Inv' /\ Little
<1> DEFINE at == Named(s, path)
<1>1. /\ fate' = "alive" /\ UNCHANGED <<live, cwd, stale>>
      /\ \E st \in {"ok", "failed", "error"} : Answer(st, 0) /\ (st # "ok" => tree' = tree)
      /\ \/ tree' = tree
         \/ /\ CanMake(at)
            /\ tree' = [q \in Places |-> IF q \in Missing(at) THEN "dir" ELSE tree[q]]
  BY DEF Mkdir, Serving
<1> HIDE DEF at
<1>2. AnswerOK'
  BY <1>1, ShortAnswer DEF Answer, Statuses
<1>3. Good(tree') /\ \A q \in Places : tree[q] = "dir" => tree'[q] = "dir"
  BY <1>1, MkdirGood DEF Inv, TreeOK
<1>4. TreeOK'
  BY <1>1, <1>3 DEF Inv, TreeOK, CwdExplained, Good
<1>5. Little
  BY <1>1 DEF Little, Answer
<1> QED
  BY <1>2, <1>4, <1>5 DEF Inv

(* Removing entries with all that is in them leaves no session that is not *)
(* marked where there is nothing.                                          *)
LEMMA UnlinkStep ==
  ASSUME Inv, NEW at, NEW gone, Uprooted(gone, at), Unlink(gone), UNCHANGED <<live, cwd>>
  PROVE  TreeOK'
<1>1. /\ tree' = [q \in Places |-> IF q \in gone THEN "none" ELSE tree[q]]
      /\ stale' = stale \cup {x \in live : cwd[x] \in gone}
  BY DEF Unlink
<1>2. Good(tree')
  BY <1>1, UnlinkGood DEF Inv, TreeOK
<1>3. CwdExplained'
  <2> SUFFICES ASSUME NEW x \in live \ stale' PROVE tree'[cwd[x]] = "dir"
    BY DEF CwdExplained
  <2>1. cwd[x] \in Places /\ cwd[x] \notin gone /\ tree[cwd[x]] = "dir"
    BY <1>1 DEF Inv, TreeOK, CwdExplained
  <2> QED
    BY <1>1, <2>1
<1> QED
  BY <1>1, <1>2, <1>3 DEF Inv, TreeOK, Good

LEMMA RmdirStep ==
  ASSUME Inv, NEW s \in Sessions, NEW path, Rmdir(s, path)
  PROVE  Inv' /\ Little
<1> DEFINE at == Named(s, path)
<1>1. fate' = "alive" /\ UNCHANGED <<live, cwd>>
  BY DEF Rmdir, Serving
<1>2. CASE \E st \in {"failed", "error"} : Answer(st, 0) /\ UNCHANGED <<tree, stale>>
  <2>1. AnswerOK'
    BY <1>1, <1>2, ShortAnswer DEF Answer, Statuses
  <2> QED
    BY <1>1, <1>2, <2>1, TreeAlone DEF Inv
<1>3. CASE /\ At(at) # "none" /\ Stuck(at) = {}
           /\ Unlink(Existing(Beneath(at))) /\ Answer("ok", 0)
  <2>1. at \in Places
    BY <1>3 DEF At
  <2> HIDE DEF at
  <2>2. Uprooted(Existing(Beneath(at)), at)
    BY <1>3, <2>1, WholeUprooted DEF Inv, TreeOK
  <2>3. TreeOK'
    BY <1>1, <1>3, <2>2, UnlinkStep
  <2>4. AnswerOK'
    BY <1>1, <1>3, ShortAnswer DEF Answer, Statuses
  <2>5. Little
    BY <1>3 DEF Little, Answer
  <2> QED
    BY <2>3, <2>4, <2>5 DEF Inv
<1>4. CASE /\ At(at) # "none"
           /\ \E stuck \in Stuck(at) : \E gone \in RemovedBefore(stuck, at) : Unlink(gone)
           /\ Answer("error", 0)
  <2>1. at \in Places
    BY <1>4 DEF At
  <2> HIDE DEF at
  <2>2. PICK stuck \in Stuck(at) : \E gone \in RemovedBefore(stuck, at) : Unlink(gone)
    BY <1>4
  <2>3. PICK gone \in RemovedBefore(stuck, at) : Unlink(gone)
    BY <2>2
  <2>4. Uprooted(gone, at) /\ gone \cap Stuck(at) = {}
    BY <2>1, <2>3, PartUprooted DEF Inv, TreeOK
  <2>5. TreeOK'
    BY <1>1, <2>3, <2>4, UnlinkStep
  <2>6. AnswerOK'
    BY <1>1, <1>4, ShortAnswer DEF Answer, Statuses
  <2>7. ASSUME NEW q \in Places, tree'[q] # tree[q]
        PROVE  tree'[q] = "none" /\ Front(q) \notin Protected
    <3>1. q \in gone /\ tree'[q] = "none"
      BY <2>3, <2>7 DEF Unlink
    <3>2. q \notin Stuck(at) /\ q \in Existing(Beneath(at))
      BY <2>4, <3>1 DEF Uprooted
    <3> QED
      BY <3>1, <3>2 DEF Stuck
  <2>8. Little
    BY <1>1, <1>4, <2>7 DEF Little, Answer
  <2> QED
    BY <2>5, <2>6, <2>8 DEF Inv
<1> QED
  BY <1>2, <1>3, <1>4 DEF Rmdir

LEMMA UploadStep ==
  ASSUME Inv, NEW s \in Sessions, NEW path, NEW c \in Contents, Upload(s, path, c)
  PROVE  Inv' /\ Little
<1> DEFINE at == Named(s, path)
           n == UploadLen[c]
<1>1. n \in Nat /\ Sends(n) /\ fate = "alive"
  BY DEF Upload, Serving
<1>2. ~Overflows(n)
  BY <1>1, ThrowsByLowBits DEF Sends
<1>3. CASE Leaves(s) /\ Answer("dropped", n) /\ UNCHANGED <<tree, fate>>
  <2>1. AnswerOK'
    <3>1. answer'.status = "dropped" /\ answer'.len = n /\ fate' = "alive"
      BY <1>1, <1>3 DEF Answer
    <3>2. HarmOnlyBeyondShort'
      BY <1>2, <3>1 DEF HarmOnlyBeyondShort
    <3> QED
      BY <1>1, <3>1, <3>2 DEF AnswerOK, Statuses
  <2> QED
    BY <1>3, <2>1, LeavesStep DEF Inv
<1>4. CASE /\ Cut(n) /\ fate' = "aborted" /\ Answer("none", n)
           /\ UNCHANGED <<tree, live, cwd, stale>>
  <2>1. AnswerOK'
    <3>1. answer'.status = "none" /\ answer'.len = n /\ fate' = "aborted"
      BY <1>4 DEF Answer
    <3>2. n >= 65536
      BY <1>1, <1>4, HarmBeyondSixteenBits
    <3>3. HarmOnlyBeyondShort'
      BY <1>2, <3>1, <3>2 DEF HarmOnlyBeyondShort
    <3> QED
      BY <1>1, <3>1, <3>3 DEF AnswerOK, Statuses
  <2> QED
    BY <1>4, <2>1, TreeAlone DEF Inv
<1>5. CASE /\ tree' = IF CanWrite(at) THEN [tree EXCEPT ![at] = c] ELSE tree
           /\ answer'.status = "ok" /\ answer'.len = 0
           /\ UNCHANGED <<live, cwd, stale, fate>>
  <2> HIDE DEF at
  <2>1. AnswerOK'
    BY <1>1, <1>5, ShortAnswer DEF Statuses
  <2>2. Good(tree') /\ \A q \in Places : tree[q] = "dir" => tree'[q] = "dir"
    <3>1. CASE CanWrite(at)
      <4>1. Good([tree EXCEPT ![at] = c]) /\ at \in Places /\ tree[at] # "dir"
        BY <3>1, WriteGood DEF Inv, TreeOK
      <4>2. tree' = [tree EXCEPT ![at] = c] /\ tree \in [Places -> Kinds]
        BY <1>5, <3>1 DEF Inv, TreeOK, Good
      <4> QED
        BY <4>1, <4>2
    <3>2. CASE ~CanWrite(at)
      BY <1>5, <3>2 DEF Inv, TreeOK
    <3> QED
      BY <3>1, <3>2
  <2>3. TreeOK'
    BY <1>5, <2>2 DEF Inv, TreeOK, CwdExplained
  <2>4. Little
    BY <1>5 DEF Little
  <2> QED
    BY <2>1, <2>3, <2>4 DEF Inv
<1> QED
  BY <1>3, <1>4, <1>5 DEF Upload

LEMMA CdStep ==
  ASSUME Inv, NEW s \in Sessions, NEW path, Cd(s, path)
  PROVE  Inv' /\ Little
<1> DEFINE at == Named(s, path)
<1>1. fate' = "alive" /\ UNCHANGED <<tree, live>>
  BY DEF Cd, Serving
<1>2. CASE /\ At(at) = "dir" /\ cwd' = [cwd EXCEPT ![s] = at]
           /\ stale' = stale \ {s} /\ Answer("ok", 0)
  <2>1. at \in Places /\ tree[at] = "dir"
    BY <1>2 DEF At
  <2> HIDE DEF at
  <2>2. /\ cwd' \in [Sessions -> Places] /\ cwd'[s] = at
        /\ \A x \in Sessions : x # s => cwd'[x] = cwd[x]
    BY <1>2, <2>1 DEF Inv, TreeOK
  <2>3. CwdExplained'
    <3> SUFFICES ASSUME NEW x \in live \ stale' PROVE tree[cwd'[x]] = "dir"
      BY <1>1 DEF CwdExplained
    <3>1. CASE x = s
      BY <2>1, <2>2, <3>1
    <3>2. CASE x # s
      BY <1>2, <2>2, <3>2 DEF Inv, TreeOK, CwdExplained
    <3> QED
      BY <3>1, <3>2
  <2>4. TreeOK'
    BY <1>1, <1>2, <2>2, <2>3 DEF Inv, TreeOK
  <2>5. AnswerOK'
    BY <1>1, <1>2, ShortAnswer DEF Answer, Statuses
  <2>6. Little
    BY <1>2 DEF Little, Answer
  <2> QED
    BY <2>4, <2>5, <2>6 DEF Inv
<1>3. CASE Answer("error", 0) /\ UNCHANGED <<cwd, stale>>
  <2>1. AnswerOK'
    BY <1>1, <1>3, ShortAnswer DEF Answer, Statuses
  <2> QED
    BY <1>1, <1>3, <2>1, TreeAlone DEF Inv
<1> QED
  BY <1>2, <1>3 DEF Cd

LEMMA InitInv == Init => Inv
<1> SUFFICES ASSUME Init PROVE Inv
  OBVIOUS
<1>1. TreeOK
  BY DEF Init, TreeOK, Good, CwdExplained
<1>2. AnswerOK
  <2>1. ~Overflows(0)
    BY EmptyIsSent
  <2>2. answer.status = "none" /\ answer.len = 0 /\ fate = "alive"
    BY DEF Init
  <2>3. HarmOnlyBeyondShort
    BY <2>1, <2>2 DEF HarmOnlyBeyondShort
  <2> QED
    BY <2>2, <2>3 DEF AnswerOK, Statuses
<1> QED
  BY <1>1, <1>2 DEF Inv

LEMMA StepInv == Inv /\ Next => Inv' /\ Little
<1> SUFFICES ASSUME Inv, NEW s \in Sessions,
                    \/ Connect(s) \/ Ends(s) \/ HelloOrPwd(s)
                    \/ \E path \in Asked : Command(s, path)
             PROVE  Inv' /\ Little
  BY DEF Next
<1>1. CASE Connect(s) \/ Ends(s) \/ HelloOrPwd(s)
  BY <1>1, ConnectStep, EndsStep, HelloOrPwdStep
<1>2. CASE \E path \in Asked : Command(s, path)
  <2>1. PICK path \in Asked : Command(s, path)
    BY <1>2
  <2>2. CASE List(s, path) \/ Mkdir(s, path) \/ Rmdir(s, path) \/ Cd(s, path)
    BY <2>2, ListStep, MkdirStep, RmdirStep, CdStep
  <2>3. CASE \E c \in Contents : Upload(s, path, c)
    BY <2>3, UploadStep
  <2>4. CASE Download(s, path) \/ Cat(s, path)
    BY <2>4, ReadFileStep DEF Download, Cat
  <2> QED
    BY <2>1, <2>2, <2>3, <2>4 DEF Command
<1> QED
  BY <1>1, <1>2

LEMMA NextInv == Inv /\ [Next]_vars => Inv'
<1>1. ASSUME Inv, UNCHANGED vars PROVE Inv'
  <2>1. UNCHANGED <<tree, live, cwd, stale>> /\ answer' = answer /\ fate' = fate
    BY <1>1 DEF vars
  <2>2. TreeOK'
    BY <1>1, <2>1, TreeAlone DEF Inv
  <2>3. AnswerOK'
    BY <1>1, <2>1 DEF Inv, AnswerOK, HarmOnlyBeyondShort
  <2> QED
    BY <2>2, <2>3 DEF Inv
<1> QED
  BY <1>1, StepInv

-----------------------------------------------------------------------------
(* The inductive invariant: the tree and the paths, the answer and the     *)
(* process.                                                                *)
THEOREM Invariance == Spec => []Inv
  BY InitInv, NextInv, PTL DEF Spec

(* The tree stays a tree, every open session has a place for its path, and *)
(* every answer is one of those there are.                                 *)
THEOREM TypeCorrect == Spec => []TypeOK
<1>1. Inv => TypeOK
  BY DEF Inv, TreeOK, AnswerOK, Good, TypeOK
<1> QED
  BY <1>1, Invariance, PTL

(* Whatever the other sessions do to the tree, a session is in a directory *)
(* unless that directory has been removed or HOME was never one.           *)
THEOREM PathsExplained == Spec => []CwdExplained
<1>1. Inv => CwdExplained
  BY DEF Inv, TreeOK
<1> QED
  BY <1>1, Invariance, PTL

(* Whatever the lengths of the messages, each does what its 16 low bits    *)
(* allow and no worse.                                                     *)
THEOREM HarmExplained == Spec => []HarmOnlyBeyondShort
<1>1. Inv => HarmOnlyBeyondShort
  BY DEF Inv, AnswerOK
<1> QED
  BY <1>1, Invariance, PTL

(* A command that fails has changed nothing, but for what a removal that   *)
(* stopped half-way has removed.                                           *)
THEOREM FailureChangesLittle == Spec => UnsuccessfulChangesLittle
<1>1. Inv /\ [Next]_vars => [Little]_vars
  BY StepInv
<1> QED
  BY <1>1, Invariance, PTL DEF Spec, UnsuccessfulChangesLittle, Little

-----------------------------------------------------------------------------
(* How a path is resolved.                                                 *)
Parts == Names \cup {".", ".."}

LEMMA NormalIsFold ==
  ASSUME NEW parts
  PROVE  Normal(parts) = FoldLeft(Part, <<>>, parts)
BY DEF Normal, Part, FoldLeft, MapThenFoldSet

LEMMA UnderRoot ==
  ASSUME NEW at \in Seq(Names)
  PROVE  /\ \A name \in Names : Append(<<Root>> \o at, name) = <<Root>> \o Append(at, name)
         /\ <<Root>> \o at # <<>>
         /\ at # <<>> => /\ Front(at) \in Seq(Names)
                         /\ Len(Front(at)) = Len(at) - 1
                         /\ Front(<<Root>> \o at) = <<Root>> \o Front(at)
         /\ PlaceOf(<<Root>> \o at) = at
<1> DEFINE rooted == <<Root>> \o at
<1>1. /\ rooted \in Seq({Root} \cup Names) /\ Len(rooted) = Len(at) + 1
      /\ rooted[1] = Root /\ \A i \in 1..Len(at) : rooted[i + 1] = at[i]
  OBVIOUS
<1>2. \A name \in Names : Append(rooted, name) = <<Root>> \o Append(at, name)
  OBVIOUS
<1>3. rooted # <<>>
  BY <1>1
<1>4. ASSUME at # <<>>
      PROVE  /\ Front(at) \in Seq(Names)
             /\ Len(Front(at)) = Len(at) - 1
             /\ Front(rooted) = <<Root>> \o Front(at)
  <2>1. Len(at) \in Nat /\ Len(at) >= 1
    BY <1>4
  <2>2. Front(at) = [i \in 1..(Len(at) - 1) |-> at[i]]
    BY <2>1 DEF Front
  <2>3. Front(at) \in Seq(Names) /\ Len(Front(at)) = Len(at) - 1
    BY <2>1, <2>2
  <2>4. Front(rooted) = [i \in 1..Len(at) |-> rooted[i]]
    BY <1>1, <2>1 DEF Front
  <2> DEFINE front == Front(at)
             low == <<Root>> \o front
             cut == [i \in 1..Len(at) |-> rooted[i]]
  <2>5. \A i \in 1..(Len(at) - 1) : front[i] = at[i]
    BY <2>2
  <2>6. low \in Seq({Root} \cup Names) /\ Len(low) = Len(at)
    BY <2>1, <2>3
  <2>7. \A i \in 1..Len(at) : low[i] = rooted[i]
    <3> HIDE DEF front
    <3> SUFFICES ASSUME NEW i \in 1..Len(at) PROVE low[i] = rooted[i]
      OBVIOUS
    <3>1. CASE i = 1
      BY <1>1, <2>3, <3>1
    <3>2. CASE i # 1
      <4>1. i - 1 \in 1..(Len(at) - 1) /\ i - 1 \in 1..Len(at) /\ (i - 1) + 1 = i
        BY <2>1, <3>2
      <4>2. low[i] = front[i - 1]
        <5>1. <<Root>> \in Seq({Root} \cup Names) /\ Len(<<Root>>) = 1
          OBVIOUS
        <5>2. front \in Seq({Root} \cup Names) /\ Len(front) = Len(at) - 1
          BY <2>3 DEF front
        <5>3. i \in 1..(Len(<<Root>>) + Len(front)) /\ ~ (i <= Len(<<Root>>))
          BY <2>1, <3>2, <5>1, <5>2
        <5> QED
          BY <5>1, <5>2, <5>3, ConcatProperties
      <4>3. rooted[i] = at[i - 1]
        BY <1>1, <4>1
      <4> QED
        BY <2>5, <4>1, <4>2, <4>3
    <3> QED
      BY <3>1, <3>2
  <2>8. cut \in Seq({Root} \cup Names) /\ Len(cut) = Len(at)
    <3>1. \A i \in 1..Len(at) : rooted[i] \in {Root} \cup Names
      BY <1>1, <2>1
    <3> QED
      BY <2>1, <3>1
  <2>9. low = cut
    <3> HIDE DEF low, rooted
    <3>1. \A i \in 1..Len(low) : low[i] = cut[i]
      BY <2>6, <2>7
    <3> HIDE DEF cut
    <3> QED
      BY <2>6, <2>8, <3>1, SeqEqual
  <2> QED
    BY <2>3, <2>4, <2>9
<1>5. PlaceOf(rooted) = at
  <2>1. Head(rooted) = Root /\ Tail(rooted) = at
    OBVIOUS
  <2> QED
    BY <1>3, <2>1 DEF PlaceOf
<1> QED
  BY <1>2, <1>3, <1>4, <1>5

(* Without the root, whatever is left names nothing or a place under the   *)
(* server's directory.                                                     *)
LEMMA WithoutRoot ==
  ASSUME NEW at \in Seq(Names)
  PROVE  PlaceOf(at) = Nowhere \/ IsPrefix(ServerDir, PlaceOf(at))
<1>1. CASE at = <<>>
  BY <1>1 DEF PlaceOf
<1>2. CASE at # <<>>
  <2>1. Head(at) \in Names
    BY <1>2
  <2>2. PlaceOf(at) = ServerDir \o at
    BY <1>2, <2>1, NamesAssumption DEF PlaceOf
  <2>3. ServerDir \in Seq(Names)
    BY TreeAssumption, PlaceShape
  <2>4. /\ ServerDir \o at \in Seq(Names) /\ Len(ServerDir) <= Len(ServerDir \o at)
        /\ \A i \in 1..Len(ServerDir) : ServerDir[i] = (ServerDir \o at)[i]
    BY <2>3
  <2>5. IsPrefix(ServerDir, ServerDir \o at)
    BY <2>3, <2>4, PrefixIs
  <2> QED
    BY <2>2, <2>5
<1> QED
  BY <1>1, <1>2

(* How many names a path has, up to its k-th part, more than "..".         *)
Ups(parts, k) == {i \in 1..k : parts[i] = ".."}
Downs(parts, k) == {i \in 1..k : parts[i] \notin {".", ".."}}
Height(parts, k) == Cardinality(Downs(parts, k)) - Cardinality(Ups(parts, k))

LEMMA Counting ==
  ASSUME NEW k \in Nat, NEW s \in SUBSET (1..k)
  PROVE  /\ IsFiniteSet(s) /\ Cardinality(s) \in Nat
         /\ Cardinality(s \cup {k + 1}) = Cardinality(s) + 1
<1>1. IsFiniteSet(s)
  <2>1. IsFiniteSet(1..k)
    BY FS_Interval
  <2> QED
    BY <2>1, FS_Subset
<1>2. k + 1 \notin s
  OBVIOUS
<1> QED
  BY <1>1, <1>2, FS_AddElement, FS_CardinalityType

LEMMA HeightIs ==
  ASSUME NEW parts, NEW k \in Nat
  PROVE  /\ Height(parts, k) \in Int
         /\ Height(parts, 0) = 0
         /\ Height(parts, k + 1) =
              CASE parts[k + 1] = "."  -> Height(parts, k)
                [] parts[k + 1] = ".." -> Height(parts, k) - 1
                [] OTHER               -> Height(parts, k) + 1
<1> DEFINE u == Ups(parts, k)
           d == Downs(parts, k)
<1>1. u \in SUBSET (1..k) /\ d \in SUBSET (1..k)
  BY DEF Ups, Downs
<1>2. /\ Ups(parts, k + 1) = IF parts[k + 1] = ".." THEN u \cup {k + 1} ELSE u
      /\ Downs(parts, k + 1) = IF parts[k + 1] \in {".", ".."} THEN d ELSE d \cup {k + 1}
  <2>1. 1..(k + 1) = (1..k) \cup {k + 1}
    OBVIOUS
  <2> QED
    BY <2>1 DEF Ups, Downs
<1>3. /\ Cardinality(u) \in Nat /\ Cardinality(u \cup {k + 1}) = Cardinality(u) + 1
      /\ Cardinality(d) \in Nat /\ Cardinality(d \cup {k + 1}) = Cardinality(d) + 1
  <2> HIDE DEF u, d
  <2> QED
    BY <1>1, Counting
<1>4. Height(parts, 0) = 0
  <2>1. Ups(parts, 0) = {} /\ Downs(parts, 0) = {}
    BY DEF Ups, Downs
  <2>2. Cardinality({}) = 0
    BY FS_EmptySet
  <2>3. Height(parts, 0) = Cardinality(Downs(parts, 0)) - Cardinality(Ups(parts, 0))
    BY DEF Height
  <2> HIDE DEF u, d
  <2> QED
    BY <2>1, <2>2, <2>3
<1>5. Height(parts, k) = Cardinality(d) - Cardinality(u)
  BY DEF Height
<1>6. Height(parts, k + 1) = Cardinality(Downs(parts, k + 1)) - Cardinality(Ups(parts, k + 1))
  BY DEF Height
<1> HIDE DEF u, d
<1>7. CASE parts[k + 1] = "."
  <2>1. Ups(parts, k + 1) = u /\ Downs(parts, k + 1) = d
    BY <1>2, <1>7
  <2> QED
    BY <1>3, <1>4, <1>5, <1>6, <1>7, <2>1
<1>8. CASE parts[k + 1] = ".."
  <2>1. Ups(parts, k + 1) = u \cup {k + 1} /\ Downs(parts, k + 1) = d
    BY <1>2, <1>8
  <2>2. Cardinality(Ups(parts, k + 1)) = Cardinality(u) + 1
    BY <1>3, <2>1, Zenon
  <2>3. Height(parts, k + 1) = Height(parts, k) - 1
    BY <1>3, <1>5, <1>6, <2>1, <2>2
  <2> QED
    BY <1>3, <1>4, <1>5, <1>8, <2>3
<1>9. CASE parts[k + 1] \notin {".", ".."}
  <2>1. Ups(parts, k + 1) = u /\ Downs(parts, k + 1) = d \cup {k + 1}
    BY <1>2, <1>9
  <2>2. Cardinality(Downs(parts, k + 1)) = Cardinality(d) + 1
    BY <1>3, <2>1, Zenon
  <2>3. Height(parts, k + 1) = Height(parts, k) + 1
    BY <1>3, <1>5, <1>6, <2>1, <2>2
  <2> QED
    BY <1>3, <1>4, <1>5, <1>9, <2>3
<1> QED
  BY <1>7, <1>8, <1>9

LEMMA ClimbsWhenLow ==
  ASSUME NEW S, NEW parts \in Seq(S)
  PROVE  ClimbsBeyondRoot(parts) <=> \E k \in DOMAIN parts : Height(parts, k) < 0
<1>1. ASSUME NEW k \in DOMAIN parts
      PROVE  Cardinality(Ups(parts, k)) > Cardinality(Downs(parts, k)) <=> Height(parts, k) < 0
  <2>1. Ups(parts, k) \in SUBSET (1..k) /\ Downs(parts, k) \in SUBSET (1..k)
    BY DEF Ups, Downs
  <2>2. k \in Nat
    OBVIOUS
  <2>3. Cardinality(Ups(parts, k)) \in Nat /\ Cardinality(Downs(parts, k)) \in Nat
    BY <2>1, <2>2, Counting
  <2> QED
    BY <2>3 DEF Height
<1> QED
  BY <1>1 DEF ClimbsBeyondRoot, Ups, Downs

(* Until it climbs, the path is the root and the place of its parts, which *)
(* is as deep as its height.  When it has climbed the root is gone for     *)
(* good.                                                                   *)
LEMMA PathRounds ==
  ASSUME NEW parts \in Seq(Parts)
  PROVE  IF ClimbsBeyondRoot(parts)
         THEN FoldLeft(Part, <<Root>>, parts) \in Seq(Names)
         ELSE /\ Normal(parts) \in Seq(Names)
              /\ FoldLeft(Part, <<Root>>, parts) = <<Root>> \o Normal(parts)
<1> DEFINE n == Len(parts)
           H(k) == Height(parts, k)
<1>1. n \in Nat /\ DOMAIN parts = 1..n /\ \A k \in 1..n : parts[k] \in Parts
  OBVIOUS
<1> HIDE DEF n
<1>2. PICK q \in [0..n -> Seq(Names)] :
        /\ q[0] = <<>>
        /\ \A k \in 1..n : q[k] = Part(q[k - 1], parts[k])
        /\ Normal(parts) = q[n]
  <2> DEFINE X == Seq(Names)
  <2>1. <<>> \in X
    OBVIOUS
  <2>2. ASSUME NEW out \in X, NEW part \in Parts PROVE Part(out, part) \in X
    BY UnderRoot DEF Part, Parts
  <2> HIDE DEF X
  <2>3. \E f : PartRounds(f, X, <<>>, parts)
    BY <2>1, <2>2, FoldOfPart
  <2>4. Normal(parts) = FoldLeft(Part, <<>>, parts)
    BY NormalIsFold
  <2> QED
    BY <2>3, <2>4 DEF X, n, PartRounds
<1>3. PICK r \in [0..n -> Seq(Names \cup {Root})] :
        /\ r[0] = <<Root>>
        /\ \A k \in 1..n : r[k] = Part(r[k - 1], parts[k])
        /\ FoldLeft(Part, <<Root>>, parts) = r[n]
  <2> DEFINE X == Seq(Names \cup {Root})
  <2>1. <<Root>> \in X
    OBVIOUS
  <2>2. ASSUME NEW out \in X, NEW part \in Parts PROVE Part(out, part) \in X
    <3>1. Append(out, part) \in X \/ part \in {".", ".."}
      BY DEF Parts
    <3>2. out # <<>> => Front(out) \in X
      <4> SUFFICES ASSUME out # <<>> PROVE [i \in 1..(Len(out) - 1) |-> out[i]] \in X
        BY DEF Front
      <4>1. Len(out) - 1 \in Nat /\ \A i \in 1..(Len(out) - 1) : out[i] \in Names \cup {Root}
        OBVIOUS
      <4> QED
        BY <4>1
    <3> HIDE DEF X
    <3> QED
      BY <3>1, <3>2 DEF Part
  <2> HIDE DEF X
  <2>3. \E f : PartRounds(f, X, <<Root>>, parts)
    BY <2>1, <2>2, FoldOfPart
  <2> QED
    BY <2>3 DEF X, n, PartRounds
<1>4. /\ \A k \in 0..n : H(k) \in Int
      /\ H(0) = 0
      /\ \A k \in 1..n : H(k) = CASE parts[k] = "."  -> H(k - 1)
                                  [] parts[k] = ".." -> H(k - 1) - 1
                                  [] OTHER           -> H(k - 1) + 1
  <2>1. \A k \in 1..n : k - 1 \in Nat /\ (k - 1) + 1 = k
    BY <1>1
  <2>2. \A k \in 0..n : k \in Nat
    BY <1>1
  <2> HIDE DEF H
  <2>3. ASSUME NEW k \in Nat
        PROVE  /\ H(k) \in Int /\ H(0) = 0
               /\ H(k + 1) = CASE parts[k + 1] = "."  -> H(k)
                               [] parts[k + 1] = ".." -> H(k) - 1
                               [] OTHER               -> H(k) + 1
    BY HeightIs DEF H
  <2>4. ASSUME NEW k \in 1..n
        PROVE  H(k) = CASE parts[k] = "."  -> H(k - 1)
                        [] parts[k] = ".." -> H(k - 1) - 1
                        [] OTHER           -> H(k - 1) + 1
    <3>1. PICK j \in Nat : j = k - 1 /\ j + 1 = k
      BY <2>1
    <3> QED
      BY <2>3, <3>1
  <2> QED
    BY <2>2, <2>3, <2>4
<1>5. ClimbsBeyondRoot(parts) <=> \E k \in 1..n : H(k) < 0
  BY <1>1, ClimbsWhenLow
<1> HIDE DEF H
<1> DEFINE Rooted(k) == Len(q[k]) = H(k) /\ r[k] = <<Root>> \o q[k]
<1>6. ASSUME NEW k \in 1..n, Rooted(k - 1), H(k) >= 0
      PROVE  Rooted(k)
  <2> DEFINE j == k - 1
  <2>1. j \in 0..n
    BY <1>1
  <2>2. q[j] \in Seq(Names) /\ Len(q[j]) = H(j) /\ r[j] = <<Root>> \o q[j]
    BY <1>2, <1>6, <2>1
  <2>3. q[k] = Part(q[j], parts[k]) /\ r[k] = Part(r[j], parts[k])
    BY <1>2, <1>3
  <2>4. H(j) \in Int /\ H(k) = CASE parts[k] = "."  -> H(j)
                                 [] parts[k] = ".." -> H(j) - 1
                                 [] OTHER           -> H(j) + 1
    BY <1>4, <2>1
  <2> HIDE DEF j
  <2>5. CASE parts[k] = "."
    BY <2>2, <2>3, <2>4, <2>5 DEF Part
  <2>6. CASE parts[k] = ".."
    <3>1. H(k) = H(j) - 1
      BY <2>4, <2>6
    <3>2. q[j] # <<>>
      <4>1. Len(q[j]) # 0
        BY <1>6, <2>2, <2>4, <3>1
      <4> QED
        BY <4>1
    <3>3. q[k] = Front(q[j]) /\ r[k] = Front(r[j])
      BY <2>2, <2>3, <2>6, <3>2, UnderRoot DEF Part
    <3> QED
      BY <2>2, <3>1, <3>2, <3>3, UnderRoot
  <2>7. CASE parts[k] \notin {".", ".."}
    <3>1. parts[k] \in Names
      BY <1>1, <2>7 DEF Parts
    <3>2. q[k] = Append(q[j], parts[k]) /\ r[k] = Append(r[j], parts[k])
      BY <2>3, <2>7 DEF Part
    <3>3. H(k) = H(j) + 1
      BY <2>4, <2>7
    <3>4. Len(q[k]) = H(k)
      BY <2>2, <3>1, <3>2, <3>3
    <3>5. r[k] = Append(<<Root>> \o q[j], parts[k])
      BY <2>2, <3>2
    <3>6. Append(<<Root>> \o q[j], parts[k]) = <<Root>> \o Append(q[j], parts[k])
      BY <2>2, <3>1, UnderRoot
    <3>7. r[k] = <<Root>> \o q[k]
      BY <3>2, <3>5, <3>6
    <3> QED
      BY <3>4, <3>7
  <2> QED
    BY <2>5, <2>6, <2>7
<1>7. 0 \in 0..n /\ Rooted(0)
  BY <1>1, <1>2, <1>3, <1>4
<1> DEFINE G == {k \in 0..n : (\A i \in 1..k : H(i) >= 0) => Rooted(k)}
<1>8. 0..n \subseteq G
  <2>1. 0 \in G
    BY <1>7
  <2>2. ASSUME NEW k \in 0..(n - 1), k \in G PROVE k + 1 \in G
    <3>1. k + 1 \in 1..n /\ k + 1 \in 0..n /\ (k + 1) - 1 = k /\ k \in Int
      BY <1>1
    <3> SUFFICES ASSUME \A i \in 1..(k + 1) : H(i) >= 0 PROVE Rooted(k + 1)
      BY <3>1
    <3>2. \A i \in 1..k : i \in 1..(k + 1)
      BY <3>1
    <3>3. k + 1 \in 1..(k + 1)
      BY <3>1
    <3> HIDE DEF Rooted
    <3>4. Rooted(k)
      BY <2>2, <3>2
    <3>5. H(k + 1) >= 0
      BY <3>3
    <3>6. \A i \in 1..n : Rooted(i - 1) /\ H(i) >= 0 => Rooted(i)
      BY <1>6
    <3> QED
      BY <3>1, <3>4, <3>5, <3>6
  <2> HIDE DEF G
  <2> QED
    BY <1>1, <2>1, <2>2, InductionTo
<1>9. CASE ~ClimbsBeyondRoot(parts)
  <2>1. \A k \in 1..n : H(k) >= 0
    <3>1. \A k \in 1..n : H(k) \in Int /\ ~ (H(k) < 0)
      BY <1>1, <1>4, <1>5, <1>9
    <3> QED
      BY <3>1
  <2>2. n \in 0..n
    BY <1>1
  <2>3. Rooted(n)
    BY <1>8, <2>1, <2>2
  <2> QED
    BY <1>2, <1>3, <1>9, <2>2, <2>3
<1>10. CASE ClimbsBeyondRoot(parts)
  <2> DEFINE B == {k \in 1..n : H(k) < 0}
  <2>1. B \in SUBSET Nat /\ B # {}
    <3>1. PICK k \in 1..n : H(k) < 0
      BY <1>5, <1>10
    <3>2. \A i \in 1..n : i \in Nat
      BY <1>1
    <3> QED
      BY <3>1, <3>2
  <2>2. PICK m \in B : \A k \in B : m <= k
    <3> HIDE DEF B
    <3> QED
      BY <2>1, LeastNumber
  <2>3. m \in 1..n /\ H(m) < 0
    OBVIOUS
  <2>4. \A i \in 1..(m - 1) : H(i) >= 0
    <3> SUFFICES ASSUME NEW i \in 1..(m - 1) PROVE H(i) >= 0
      OBVIOUS
    <3>1. i \in 1..n /\ i \in 0..n /\ ~ (m <= i)
      BY <1>1, <2>3
    <3>2. i \notin B
      BY <2>2, <3>1
    <3>3. H(i) \in Int
      BY <1>4, <3>1
    <3> QED
      BY <3>1, <3>2, <3>3
  <2> HIDE DEF B
  <2>5. m - 1 \in 0..n /\ m \in 0..n
    BY <1>1, <2>3
  <2>6. Rooted(m - 1)
    BY <1>8, <2>4, <2>5
  <2>7. r[m] = <<>>
    <3> DEFINE j == m - 1
    <3>1. q[j] \in Seq(Names) /\ Len(q[j]) = H(j) /\ r[j] = <<Root>> \o q[j]
      BY <1>2, <2>5, <2>6
    <3>2. r[m] = Part(r[j], parts[m])
      BY <1>3, <2>3
    <3>3. H(j) \in Int /\ H(m) = CASE parts[m] = "."  -> H(j)
                                   [] parts[m] = ".." -> H(j) - 1
                                   [] OTHER           -> H(j) + 1
      BY <1>4, <2>3, <2>5
    <3> HIDE DEF j
    <3>4. H(j) >= 0
      <4>1. Len(q[j]) >= 0
        BY <3>1
      <4> QED
        BY <3>1, <4>1
    <3>5. parts[m] = ".." /\ H(j) = 0
      <4>1. parts[m] # "."
        BY <2>3, <3>3, <3>4
      <4>2. parts[m] = ".."
        BY <2>3, <3>3, <3>4, <4>1
      <4>3. H(m) = H(j) - 1
        BY <3>3, <4>2
      <4> QED
        BY <2>3, <3>3, <3>4, <4>2, <4>3
    <3>6. q[j] = <<>>
      BY <3>1, <3>5
    <3>7. r[j] = <<Root>>
      BY <3>1, <3>6
    <3>8. r[m] = Front(<<Root>>)
      BY <3>2, <3>5, <3>7 DEF Part
    <3>9. Front(<<Root>>) = <<>>
      BY DEF Front
    <3> QED
      BY <3>8, <3>9
  <2> DEFINE L == {k \in 0..n : k >= m => r[k] \in Seq(Names)}
  <2>8. 0 \in L
    BY <1>7, <2>3
  <2>9. ASSUME NEW k \in 0..(n - 1), k \in L PROVE k + 1 \in L
    <3>1. k + 1 \in 1..n /\ k + 1 \in 0..n /\ (k + 1) - 1 = k /\ k \in Int /\ m \in Int
      BY <1>1, <2>3
    <3> SUFFICES ASSUME k + 1 >= m PROVE r[k + 1] \in Seq(Names)
      BY <3>1
    <3>2. CASE k + 1 = m
      <4>1. <<>> \in Seq(Names)
        OBVIOUS
      <4> QED
        BY <2>7, <3>2, <4>1
    <3>3. CASE k >= m
      <4>1. r[k] \in Seq(Names)
        BY <2>9, <3>3
      <4>2. r[k + 1] = Part(r[k], parts[k + 1]) /\ parts[k + 1] \in Parts
        BY <1>1, <1>3, <3>1
      <4> QED
        BY <4>1, <4>2, UnderRoot DEF Part, Parts
    <3> QED
      BY <3>1, <3>2, <3>3
  <2>10. n \in L
    <3> HIDE DEF L
    <3>1. 0..n \subseteq L
      BY <1>1, <2>8, <2>9, InductionTo
    <3> QED
      BY <1>1, <3>1
  <2>11. r[n] \in Seq(Names)
    BY <1>1, <2>3, <2>10
  <2> QED
    BY <1>3, <1>10, <2>11
<1> QED
  BY <1>9, <1>10

(* Session::resolvePath, from any place and for any relative path however  *)
(* long: it leads where it leads in a shell unless it climbs beyond the    *)
(* root, and then nowhere or beneath the server's directory.               *)
THEOREM EveryPathLikeShell ==
  ASSUME NEW at \in Places, NEW parts \in Seq(Parts)
  PROVE  ResolvesLikeShellFrom(at, parts)
<1> DEFINE whole == at \o parts
           path == [abs |-> FALSE, parts |-> parts]
<1>1. whole \in Seq(Parts)
  <2>1. at \in Seq(Names)
    BY PlaceShape
  <2>2. at \in Seq(Parts)
    BY <2>1 DEF Parts
  <2> QED
    BY <2>2
<1>2. ResolvePath(at, path) = PlaceOf(FoldLeft(Part, <<Root>>, whole))
  BY DEF ResolvePath
<1> HIDE DEF whole
<1>3. CASE ClimbsBeyondRoot(whole)
  <2>1. FoldLeft(Part, <<Root>>, whole) \in Seq(Names)
    BY <1>1, <1>3, PathRounds
  <2> QED
    BY <1>2, <1>3, <2>1, WithoutRoot DEF ResolvesLikeShellFrom, whole
<1>4. CASE ~ClimbsBeyondRoot(whole)
  <2>1. /\ Normal(whole) \in Seq(Names)
        /\ FoldLeft(Part, <<Root>>, whole) = <<Root>> \o Normal(whole)
    BY <1>1, <1>4, PathRounds
  <2>2. ResolvePath(at, path) = Normal(whole)
    BY <1>2, <2>1, UnderRoot
  <2> QED
    BY <1>4, <2>2 DEF ResolvesLikeShellFrom, whole
<1> QED
  BY <1>3, <1>4
=============================================================================
