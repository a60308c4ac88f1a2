------------------------- MODULE MCCommandsProofs --------------------------
(***************************************************************************)
(* Proofs about base64_encode and base64_decode, for any text and any int  *)
(* of 16 bits or more, and about the specification that TLC checks.        *)
(*                                                                         *)
(* The accumulator overflows, but by multiples of 65536: the last two      *)
(* bytes, or the last two characters, stand at its end whatever is above   *)
(* them, and no character or byte of the result is made of more.  That,    *)
(* how many characters there are after n bytes and which they are, is the  *)
(* invariant of each loop; FoldLeft takes it from one round to the next.   *)
(***************************************************************************)
EXTENDS MCCommands, CommandsProofs

-----------------------------------------------------------------------------
(* The rounds of the two loops, as of the loop over the parts of a path: no*)
(* theorem can have the operator of a fold as its parameter.               *)
EncodeRounds(r, X, b, bytes) ==
  /\ r \in [0..Len(bytes) -> X]
  /\ r[0] = b
  /\ \A k \in 1..Len(bytes) : r[k] = EncodeByte(r[k - 1], bytes[k])
  /\ FoldLeft(EncodeByte, b, bytes) = r[Len(bytes)]

LEMMA FoldOfEncodeByte ==
  ASSUME NEW S, NEW bytes \in Seq(S), NEW X, NEW b \in X,
         \A out \in X, byte \in S : EncodeByte(out, byte) \in X
  PROVE  \E r : EncodeRounds(r, X, b, bytes)
<1> DEFINE n == Len(bytes)
           step == [p \in X \X (1..n) |-> EncodeByte(p[1], bytes[p[2]])]
<1>1. n \in Nat /\ DOMAIN bytes = 1..n /\ \A k \in 1..n : bytes[k] \in S
  OBVIOUS
<1> HIDE DEF n
<1>2. step \in [X \X (1..n) -> X]
  BY <1>1
<1>3. \A x \in X, k \in 1..n : step[<<x, k>>] = EncodeByte(x, bytes[k])
  OBVIOUS
<1>4. PICK g \in [SUBSET (1..n) -> X] : Rounds(g, n, b, step)
  <2> HIDE DEF step
  <2> QED
    BY <1>1, <1>2, RoundsExist
<1>5. g = [s \in SUBSET (1..n) |->
             IF s = {} THEN b ELSE EncodeByte(g[s \ {Max(s)}], bytes[Max(s)])]
  <2> SUFFICES ASSUME NEW s \in SUBSET (1..n), s # {}
               PROVE  g[s] = EncodeByte(g[s \ {Max(s)}], bytes[Max(s)])
    BY <1>4 DEF Rounds
  <2>1. Max(s) \in 1..n
    BY <1>1, MaxIs
  <2>2. s \ {Max(s)} \in SUBSET (1..n)
    OBVIOUS
  <2>3. g[s \ {Max(s)}] \in X
    BY <1>4, <2>2
  <2>4. g[s] = step[<<g[s \ {Max(s)}], Max(s)>>]
    BY <1>4 DEF Rounds
  <2> QED
    BY <1>3, <2>1, <2>3, <2>4
<1> HIDE DEF step
<1>6. PICK it : /\ it = [s \in SUBSET (1..n) |->
                          IF s = {} THEN b ELSE EncodeByte(it[s \ {Max(s)}], bytes[Max(s)])]
                /\ FoldLeft(EncodeByte, b, bytes) = it[1..n]
  BY <1>1, <1>5 DEF FoldLeft, MapThenFoldSet
<1>7. it[{}] = b
  BY <1>6
<1>8. \A k \in 1..n : it[1..k] = EncodeByte(it[1..(k - 1)], bytes[k])
  <2> SUFFICES ASSUME NEW k \in 1..n PROVE it[1..k] = EncodeByte(it[1..(k - 1)], bytes[k])
    OBVIOUS
  <2>1. Max(1..k) = k /\ (1..k) \ {k} = 1..(k - 1)
    BY <1>1, MaxOfInterval
  <2>2. 1..k \in SUBSET (1..n) /\ 1..k # {}
    <3>1. k \in 1..k /\ \A x \in 1..k : x \in 1..n
      BY <1>1
    <3> QED
      BY <3>1
  <2> QED
    BY <1>6, <2>1, <2>2
<1> DEFINE r == [k \in 0..n |-> it[1..k]]
<1>9. AreRounds(r, X, n, b, step) /\ it[1..n] = r[n]
  <2>1. 1..0 = {} /\ 0 \in 0..n /\ n \in 0..n /\ \A k \in 1..n : k \in 0..n /\ k - 1 \in 0..n
    BY <1>1
  <2>2. r[0] = b /\ it[1..n] = r[n]
    BY <1>7, <2>1
  <2>3. \A k \in 1..n : r[k - 1] \in X => r[k] = step[<<r[k - 1], k>>]
    BY <1>3, <1>8, <2>1
  <2>4. r = [k \in 0..n |-> r[k]]
    OBVIOUS
  <2> HIDE DEF r
  <2> QED
    BY <1>1, <1>2, <2>2, <2>3, <2>4, RoundsInOrder
<1> HIDE DEF r
<1>10. \A k \in 1..n : r[k] = EncodeByte(r[k - 1], bytes[k])
  <2>1. \A k \in 1..n : k - 1 \in 0..n
    BY <1>1
  <2> QED
    BY <1>3, <1>9, <2>1 DEF AreRounds
<1>11. EncodeRounds(r, X, b, bytes)
  BY <1>6, <1>9, <1>10 DEF n, EncodeRounds, AreRounds
<1> QED
  BY <1>11

DecodeRounds(r, X, b, digits) ==
  /\ r \in [0..Len(digits) -> X]
  /\ r[0] = b
  /\ \A k \in 1..Len(digits) : r[k] = DecodeDigit(r[k - 1], digits[k])
  /\ FoldLeft(DecodeDigit, b, digits) = r[Len(digits)]

LEMMA FoldOfDecodeDigit ==
  ASSUME NEW S, NEW digits \in Seq(S), NEW X, NEW b \in X,
         \A out \in X, digit \in S : DecodeDigit(out, digit) \in X
  PROVE  \E r : DecodeRounds(r, X, b, digits)
<1> DEFINE n == Len(digits)
           step == [p \in X \X (1..n) |-> DecodeDigit(p[1], digits[p[2]])]
<1>1. n \in Nat /\ DOMAIN digits = 1..n /\ \A k \in 1..n : digits[k] \in S
  OBVIOUS
<1> HIDE DEF n
<1>2. step \in [X \X (1..n) -> X]
  BY <1>1
<1>3. \A x \in X, k \in 1..n : step[<<x, k>>] = DecodeDigit(x, digits[k])
  OBVIOUS
<1>4. PICK g \in [SUBSET (1..n) -> X] : Rounds(g, n, b, step)
  <2> HIDE DEF step
  <2> QED
    BY <1>1, <1>2, RoundsExist
<1>5. g = [s \in SUBSET (1..n) |->
             IF s = {} THEN b ELSE DecodeDigit(g[s \ {Max(s)}], digits[Max(s)])]
  <2> SUFFICES ASSUME NEW s \in SUBSET (1..n), s # {}
               PROVE  g[s] = DecodeDigit(g[s \ {Max(s)}], digits[Max(s)])
    BY <1>4 DEF Rounds
  <2>1. Max(s) \in 1..n
    BY <1>1, MaxIs
  <2>2. s \ {Max(s)} \in SUBSET (1..n)
    OBVIOUS
  <2>3. g[s \ {Max(s)}] \in X
    BY <1>4, <2>2
  <2>4. g[s] = step[<<g[s \ {Max(s)}], Max(s)>>]
    BY <1>4 DEF Rounds
  <2> QED
    BY <1>3, <2>1, <2>3, <2>4
<1> HIDE DEF step
<1>6. PICK it : /\ it = [s \in SUBSET (1..n) |->
                          IF s = {} THEN b ELSE DecodeDigit(it[s \ {Max(s)}], digits[Max(s)])]
                /\ FoldLeft(DecodeDigit, b, digits) = it[1..n]
  BY <1>1, <1>5 DEF FoldLeft, MapThenFoldSet
<1>7. it[{}] = b
  BY <1>6
<1>8. \A k \in 1..n : it[1..k] = DecodeDigit(it[1..(k - 1)], digits[k])
  <2> SUFFICES ASSUME NEW k \in 1..n PROVE it[1..k] = DecodeDigit(it[1..(k - 1)], digits[k])
    OBVIOUS
  <2>1. Max(1..k) = k /\ (1..k) \ {k} = 1..(k - 1)
    BY <1>1, MaxOfInterval
  <2>2. 1..k \in SUBSET (1..n) /\ 1..k # {}
    <3>1. k \in 1..k /\ \A x \in 1..k : x \in 1..n
      BY <1>1
    <3> QED
      BY <3>1
  <2> QED
    BY <1>6, <2>1, <2>2
<1> DEFINE r == [k \in 0..n |-> it[1..k]]
<1>9. AreRounds(r, X, n, b, step) /\ it[1..n] = r[n]
  <2>1. 1..0 = {} /\ 0 \in 0..n /\ n \in 0..n /\ \A k \in 1..n : k \in 0..n /\ k - 1 \in 0..n
    BY <1>1
  <2>2. r[0] = b /\ it[1..n] = r[n]
    BY <1>7, <2>1
  <2>3. \A k \in 1..n : r[k - 1] \in X => r[k] = step[<<r[k - 1], k>>]
    BY <1>3, <1>8, <2>1
  <2>4. r = [k \in 0..n |-> r[k]]
    OBVIOUS
  <2> HIDE DEF r
  <2> QED
    BY <1>1, <1>2, <2>2, <2>3, <2>4, RoundsInOrder
<1> HIDE DEF r
<1>10. \A k \in 1..n : r[k] = DecodeDigit(r[k - 1], digits[k])
  <2>1. \A k \in 1..n : k - 1 \in 0..n
    BY <1>1
  <2> QED
    BY <1>3, <1>9, <2>1 DEF AreRounds
<1>11. DecodeRounds(r, X, b, digits)
  BY <1>6, <1>9, <1>10 DEF n, DecodeRounds, AreRounds
<1> QED
  BY <1>11

-----------------------------------------------------------------------------
(* base64_encode.  What overflows is a multiple of 65536, and no character *)
(* shows it.                                                               *)
Congruent(m, n) == \E t \in Int : m = n + 65536 * t

LEMMA WordIs ==
  ASSUME NEW n \in Int
  PROVE  Word(n) \in Int /\ Congruent(Word(n), n)
<1> DEFINE M == WordSize
           h == M \div 2
<1>1. M \in Nat \ {0} /\ h \in Int
  BY WordSizeAssumption
<1>2. PICK k \in Int : M = 65536 * k
  <2>1. M \div 65536 \in Int /\ M = 65536 * (M \div 65536) + (M % 65536)
    BY <1>1
  <2> QED
    BY <2>1, WordSizeAssumption
<1> HIDE DEF M
<1>3. PICK x \in Int : x = n + h
  BY <1>1
<1>4. x \div M \in Int /\ x % M = x - M * (x \div M)
  BY <1>1
<1>5. PICK q \in Int : x % M = x - M * q
  BY <1>4
<1>6. Word(n) = (x % M) - h
  BY <1>3 DEF Word, M
<1> HIDE DEF h
<1>7. PICK y \in Int : y = k * q
  OBVIOUS
<1>8. M * q = 65536 * y
  BY <1>2, <1>7
<1>9. Word(n) = n + 65536 * (-y)
  BY <1>1, <1>3, <1>5, <1>6, <1>8
<1>10. -y \in Int
  BY <1>7
<1> QED
  BY <1>9, <1>10 DEF Congruent

(* Byte i of a text, zero where it ends, and character k of its encoding.  *)
ByteAt(bytes, i) == IF i <= Len(bytes) THEN bytes[i] ELSE 0

Sextet(bytes, k) ==
  LET q == (k - 1) \div 4
      a == ByteAt(bytes, 3 * q + 1)
      b == ByteAt(bytes, 3 * q + 2)
      c == ByteAt(bytes, 3 * q + 3)
  IN  CASE (k - 1) % 4 = 0 -> a \div 4
        [] (k - 1) % 4 = 1 -> (a % 4) * 16 + b \div 16
        [] (k - 1) % 4 = 2 -> (b % 16) * 4 + c \div 64
        [] OTHER           -> c % 64

LEMMA SextetAt ==
  ASSUME NEW bytes, NEW q \in Nat
  PROVE  /\ Sextet(bytes, 4 * q + 1) = ByteAt(bytes, 3 * q + 1) \div 4
         /\ Sextet(bytes, 4 * q + 2) = (ByteAt(bytes, 3 * q + 1) % 4) * 16
                                         + ByteAt(bytes, 3 * q + 2) \div 16
         /\ Sextet(bytes, 4 * q + 3) = (ByteAt(bytes, 3 * q + 2) % 16) * 4
                                         + ByteAt(bytes, 3 * q + 3) \div 64
         /\ Sextet(bytes, 4 * q + 4) = ByteAt(bytes, 3 * q + 3) % 64
<1>1. /\ ((4 * q + 1) - 1) \div 4 = q /\ ((4 * q + 1) - 1) % 4 = 0
      /\ ((4 * q + 2) - 1) \div 4 = q /\ ((4 * q + 2) - 1) % 4 = 1
      /\ ((4 * q + 3) - 1) \div 4 = q /\ ((4 * q + 3) - 1) % 4 = 2
      /\ ((4 * q + 4) - 1) \div 4 = q /\ ((4 * q + 4) - 1) % 4 = 3
  OBVIOUS
<1>2. Sextet(bytes, 4 * q + 1) = ByteAt(bytes, 3 * q + 1) \div 4
  BY <1>1 DEF Sextet
<1>3. Sextet(bytes, 4 * q + 2) = (ByteAt(bytes, 3 * q + 1) % 4) * 16
                                    + ByteAt(bytes, 3 * q + 2) \div 16
  BY <1>1 DEF Sextet
<1>4. Sextet(bytes, 4 * q + 3) = (ByteAt(bytes, 3 * q + 2) % 16) * 4
                                    + ByteAt(bytes, 3 * q + 3) \div 64
  BY <1>1 DEF Sextet
<1>5. Sextet(bytes, 4 * q + 4) = ByteAt(bytes, 3 * q + 3) % 64
  BY <1>1 DEF Sextet
<1> QED
  BY <1>2, <1>3, <1>4, <1>5

Sixes == 0..63

(* The states of the loop, by how many bits are left over.                 *)
EncodeStates == [val : Int, valb : {-6, -4, -2}, out : Seq(Sixes)]

(* The character of the six bits of v above its k lowest.                  *)
Six(v, k) == ShiftRight(v, k) % 64

LEMMA SixIs ==
  ASSUME NEW v \in Int
  PROVE  /\ Six(v, 0) = v % 64 /\ Six(v, 2) = (v \div 4) % 64
         /\ Six(v, 4) = (v \div 16) % 64 /\ Six(v, 6) = (v \div 64) % 64
         /\ Six(v, 0) \in Sixes /\ Six(v, 2) \in Sixes
         /\ Six(v, 4) \in Sixes /\ Six(v, 6) \in Sixes
<1>1. 2^0 = 1 /\ 2^2 = 4 /\ 2^4 = 16 /\ 2^6 = 64
  OBVIOUS
<1>2. /\ Six(v, 0) = v % 64 /\ Six(v, 2) = (v \div 4) % 64
      /\ Six(v, 4) = (v \div 16) % 64 /\ Six(v, 6) = (v \div 64) % 64
  BY <1>1 DEF Six, ShiftRight
<1>3. \A x \in Int : x % 64 \in 0..63
  OBVIOUS
<1>4. v \div 4 \in Int /\ v \div 16 \in Int /\ v \div 64 \in Int
  OBVIOUS
<1> QED
  BY <1>2, <1>3, <1>4 DEF Sixes

LEMMA DigitsAre ==
  ASSUME NEW v
  PROVE  /\ Digits(v, 2) = <<Six(v, 2)>> /\ Digits(v, 4) = <<Six(v, 4)>>
         /\ Digits(v, 6) = <<Six(v, 6), Six(v, 0)>>
<1> DEFINE D(n) == Digits(v, n)
<1>1. 2 \div 6 + 1 = 1 /\ 4 \div 6 + 1 = 1 /\ 6 \div 6 + 1 = 2
  OBVIOUS
<1>2. /\ D(2) = [i \in 1..1 |-> Six(v, 2 - 6 * (i - 1))]
      /\ D(4) = [i \in 1..1 |-> Six(v, 4 - 6 * (i - 1))]
      /\ D(6) = [i \in 1..2 |-> Six(v, 6 - 6 * (i - 1))]
  BY <1>1 DEF Digits, Six
<1>3. /\ 2 - 6 * (1 - 1) = 2 /\ 4 - 6 * (1 - 1) = 4
      /\ 6 - 6 * (1 - 1) = 6 /\ 6 - 6 * (2 - 1) = 0
  OBVIOUS
<1>4. /\ D(2)[1] = Six(v, 2) /\ D(4)[1] = Six(v, 4)
      /\ D(6)[1] = Six(v, 6) /\ D(6)[2] = Six(v, 0)
  BY <1>2, <1>3
<1>5. /\ D(2) = [i \in 1..1 |-> D(2)[i]] /\ D(4) = [i \in 1..1 |-> D(4)[i]]
      /\ D(6) = [i \in 1..2 |-> D(6)[i]]
  BY <1>2, Zenon
<1> HIDE DEF D
<1>6. /\ D(2) = <<D(2)[1]>> /\ D(4) = <<D(4)[1]>> /\ D(6) = <<D(6)[1], D(6)[2]>>
  BY <1>5
<1>7. /\ D(2) = <<Six(v, 2)>> /\ D(4) = <<Six(v, 4)>> /\ D(6) = <<Six(v, 6), Six(v, 0)>>
  BY <1>4, <1>6
<1> QED
  BY <1>7 DEF D

(* What a byte adds: one character, or the two that are due.               *)
Added(valb, w) ==
  CASE valb = -6 -> <<Six(w, 2)>>
    [] valb = -4 -> <<Six(w, 4)>>
    [] OTHER     -> <<Six(w, 6), Six(w, 0)>>

Remaining(valb) == CASE valb = -6 -> -4 [] valb = -4 -> -2 [] OTHER -> -6

LEMMA AddedIs ==
  ASSUME NEW w
  PROVE  /\ Added(-6, w) = <<Six(w, 2)>> /\ Remaining(-6) = -4
         /\ Added(-4, w) = <<Six(w, 4)>> /\ Remaining(-4) = -2
         /\ Added(-2, w) = <<Six(w, 6), Six(w, 0)>> /\ Remaining(-2) = -6
BY DEF Added, Remaining

ByteIn(st, c) == Word(st.val * 256 + c)

LEMMA EncodeByteIs ==
  ASSUME NEW st \in EncodeStates, NEW c
  PROVE  EncodeByte(st, c) =
           LET w == ByteIn(st, c)
           IN  [val |-> w, valb |-> Remaining(st.valb), out |-> st.out \o Added(st.valb, w)]
<1>0. PICK w : w = ByteIn(st, c)
  OBVIOUS
<1> DEFINE digits == Digits(w, st.valb + 8)
<1>1. EncodeByte(st, c) = [val |-> w, valb |-> st.valb + 8 - 6 * Len(digits),
                           out |-> st.out \o digits]
  BY <1>0 DEF EncodeByte, ByteIn
<1>2. st.valb \in {-6, -4, -2}
  BY DEF EncodeStates
<1>3. CASE st.valb = -6
  <2>1. st.valb + 8 = 2
    BY <1>3
  <2>2. digits = <<Six(w, 2)>>
    BY <2>1, DigitsAre
  <2> HIDE DEF digits
  <2>3. st.valb + 8 - 6 * Len(digits) = -4
    BY <1>3, <2>2
  <2>4. Added(st.valb, w) = digits /\ Remaining(st.valb) = -4
    BY <1>3, <2>2 DEF Added, Remaining
  <2> QED
    BY <1>0, <1>1, <2>3, <2>4
<1>4. CASE st.valb = -4
  <2>1. st.valb + 8 = 4
    BY <1>4
  <2>2. digits = <<Six(w, 4)>>
    BY <2>1, DigitsAre
  <2> HIDE DEF digits
  <2>3. st.valb + 8 - 6 * Len(digits) = -2
    BY <1>4, <2>2
  <2>4. Added(st.valb, w) = digits /\ Remaining(st.valb) = -2
    BY <1>4, <2>2 DEF Added, Remaining
  <2> QED
    BY <1>0, <1>1, <2>3, <2>4
<1>5. CASE st.valb = -2
  <2>1. st.valb + 8 = 6
    BY <1>5
  <2>2. digits = <<Six(w, 6), Six(w, 0)>>
    BY <2>1, DigitsAre
  <2> HIDE DEF digits
  <2>3. st.valb + 8 - 6 * Len(digits) = -6
    BY <1>5, <2>2
  <2>4. Added(st.valb, w) = digits /\ Remaining(st.valb) = -6
    BY <1>5, <2>2 DEF Added, Remaining
  <2> QED
    BY <1>0, <1>1, <2>3, <2>4
<1> QED
  BY <1>2, <1>3, <1>4, <1>5

(* A character shows the last byte and the one before, whatever is above.  *)
LowByte(w, c) == \E x \in Int : w = 256 * x + c
LowBytes(w, b, c) == \E y \in Int : w = 65536 * y + 256 * b + c

LEMMA LastByte ==
  ASSUME NEW w, NEW c \in 0..255, LowByte(w, c)
  PROVE  Six(w, 2) = c \div 4 /\ Six(w, 0) = c % 64
<1>0. PICK x \in Int : w = 256 * x + c
  BY DEF LowByte
<1>1. PICK h \in Int, l \in Int : c = 4 * h + l /\ 0 <= l /\ l < 4 /\ h = c \div 4
  OBVIOUS
<1>2. w = 4 * (64 * x + h) + l
  BY <1>0, <1>1
<1>3. w \div 4 = 64 * x + h
  BY <1>1, <1>2
<1>4. 0 <= h /\ h < 64
  BY <1>1
<1>5. (64 * x + h) % 64 = h
  BY <1>4
<1>6. w % 64 = c % 64
  BY <1>0
<1>7. w \in Int
  BY <1>0
<1>8. Six(w, 2) = (w \div 4) % 64 /\ Six(w, 0) = w % 64
  BY <1>7, SixIs
<1>9. Six(w, 2) = h
  BY <1>3, <1>5, <1>8
<1> QED
  BY <1>1, <1>6, <1>8, <1>9

LEMMA LastTwoBytes ==
  ASSUME NEW w, NEW b \in 0..255, NEW c \in 0..255, LowBytes(w, b, c)
  PROVE  /\ Six(w, 4) = (b % 4) * 16 + c \div 16
         /\ Six(w, 6) = (b % 16) * 4 + c \div 64
<1>0. PICK y \in Int : w = 65536 * y + 256 * b + c
  BY DEF LowBytes
<1>1. w \in Int
  BY <1>0
<1>2. w \div 16 = 4096 * y + 16 * b + c \div 16
  BY <1>0
<1>3. (4096 * y + 16 * b + c \div 16) % 64 = (b % 4) * 16 + c \div 16
  <2>1. PICK h \in Int, l \in Int : b = 4 * h + l /\ 0 <= l /\ l < 4 /\ l = b % 4
    <3>1. /\ b = 4 * (b \div 4) + (b % 4) /\ 0 <= b % 4 /\ b % 4 < 4
          /\ b \div 4 \in Int /\ b % 4 \in Int
      OBVIOUS
    <3> QED
      BY <3>1
  <2>2. PICK d \in Int : d = c \div 16 /\ 0 <= d /\ d < 16
    OBVIOUS
  <2>3. 4096 * y + 16 * b + d = 64 * (64 * y + h) + (16 * l + d)
    BY <2>1
  <2>4. 0 <= 16 * l + d /\ 16 * l + d < 64
    BY <2>1, <2>2
  <2>5. (64 * (64 * y + h) + (16 * l + d)) % 64 = 16 * l + d
    BY <2>4
  <2> QED
    BY <2>1, <2>2, <2>3, <2>5
<1>4. w \div 64 = 1024 * y + 4 * b + c \div 64
  BY <1>0
<1>5. (1024 * y + 4 * b + c \div 64) % 64 = (b % 16) * 4 + c \div 64
  <2>1. PICK h \in Int, l \in Int : b = 16 * h + l /\ 0 <= l /\ l < 16 /\ l = b % 16
    <3>1. /\ b = 16 * (b \div 16) + (b % 16) /\ 0 <= b % 16 /\ b % 16 < 16
          /\ b \div 16 \in Int /\ b % 16 \in Int
      OBVIOUS
    <3> QED
      BY <3>1
  <2>2. PICK d \in Int : d = c \div 64 /\ 0 <= d /\ d < 4
    OBVIOUS
  <2>3. 1024 * y + 4 * b + d = 64 * (16 * y + h) + (4 * l + d)
    BY <2>1
  <2>4. 0 <= 4 * l + d /\ 4 * l + d < 64
    BY <2>1, <2>2
  <2>5. (64 * (16 * y + h) + (4 * l + d)) % 64 = 4 * l + d
    BY <2>4
  <2> QED
    BY <2>1, <2>2, <2>3, <2>5
<1>6. Six(w, 4) = (w \div 16) % 64 /\ Six(w, 6) = (w \div 64) % 64
  BY <1>1, SixIs
<1>7. Six(w, 4) = (b % 4) * 16 + c \div 16
  BY <1>1, <1>2, <1>3, <1>6
<1>8. Six(w, 6) = (b % 16) * 4 + c \div 64
  BY <1>1, <1>4, <1>5, <1>6
<1> QED
  BY <1>7, <1>8

LEMMA NextLowByte ==
  ASSUME NEW v \in Int, NEW c \in 0..255, NEW z, z = 256 * v + c, NEW w, Congruent(w, z)
  PROVE  w \in Int /\ LowByte(w, c)
<1>1. PICK t \in Int : w = (256 * v + c) + 65536 * t
  BY DEF Congruent
<1>2. PICK x \in Int : x = v + 256 * t
  OBVIOUS
<1>3. w \in Int /\ w = 256 * x + c
  BY <1>1, <1>2
<1> QED
  BY ZenonT(60), <1>2, <1>3 DEF LowByte

LEMMA NextLowBytes ==
  ASSUME NEW v \in Int, NEW b \in 0..255, LowByte(v, b),
         NEW c \in 0..255, NEW z, z = 256 * v + c, NEW w, Congruent(w, z)
  PROVE  LowBytes(w, b, c)
<1>1. PICK t \in Int : w = (256 * v + c) + 65536 * t
  BY DEF Congruent
<1>2. PICK u \in Int : v = 256 * u + b
  BY DEF LowByte
<1>3. PICK y \in Int : y = u + t
  OBVIOUS
<1>4. w = 65536 * y + 256 * b + c
  BY <1>1, <1>2, <1>3
<1> SUFFICES \E x \in Int : w = 65536 * x + 256 * b + c
  BY DEF LowBytes
<1> WITNESS y \in Int
<1> QED
  BY <1>4

(* After n bytes: what is in val of the last one, how many characters      *)
(* there are and which.                                                    *)
Octets == 0..255
Texts == Seq(Octets)

Characters(bytes, out) ==
  out \in Seq(Sixes) /\ \A i \in 1..Len(out) : out[i] = Sextet(bytes, i)

Encoded(bytes, n, st) ==
  /\ st \in EncodeStates
  /\ n # 0 => LowByte(st.val, bytes[n])
  /\ \E q \in Nat :
       \/ n = 3 * q /\ st.valb = -6 /\ Len(st.out) = 4 * q
       \/ n = 3 * q + 1 /\ st.valb = -4 /\ Len(st.out) = 4 * q + 1
       \/ n = 3 * q + 2 /\ st.valb = -2 /\ Len(st.out) = 4 * q + 2
  /\ Characters(bytes, st.out)

(* One more character.                                                     *)
LEMMA OneMore ==
  ASSUME NEW bytes, NEW out, Characters(bytes, out), NEW k, k = Len(out) + 1,
         NEW d, d \in Sixes, d = Sextet(bytes, k)
  PROVE  Characters(bytes, out \o <<d>>) /\ Len(out \o <<d>>) = k
<1>0. out \in Seq(Sixes) /\ \A i \in 1..Len(out) : out[i] = Sextet(bytes, i)
  BY DEF Characters
<1>1. out \o <<d>> = Append(out, d)
  BY <1>0
<1>2. /\ Append(out, d) \in Seq(Sixes) /\ Len(Append(out, d)) = Len(out) + 1
      /\ Append(out, d)[Len(out) + 1] = d
      /\ \A i \in 1..Len(out) : Append(out, d)[i] = out[i]
  BY <1>0
<1>3. \A i \in 1..(Len(out) + 1) : i \in 1..Len(out) \/ i = Len(out) + 1
  BY <1>0
<1> DEFINE more == Append(out, d)
<1> HIDE DEF more
<1>4. \A i \in 1..Len(more) : more[i] = Sextet(bytes, i)
  BY <1>0, <1>2, <1>3 DEF more
<1> QED
  BY <1>1, <1>2, <1>4 DEF more, Characters

LEMMA OneByOne ==
  ASSUME NEW S, NEW s \in Seq(S), NEW a \in S, NEW b \in S
  PROVE  s \o <<a, b>> = (s \o <<a>>) \o <<b>>
<1>1. <<a>> \in Seq(S) /\ <<b>> \in Seq(S)
  OBVIOUS
<1>2. <<a>> \o <<b>> = <<a, b>>
  <2> DEFINE l == <<a>> \o <<b>>
             r == <<a, b>>
  <2>1. l \in Seq(S) /\ Len(l) = 2 /\ l[1] = a /\ l[2] = b
    BY <1>1, ConcatProperties
  <2>2. r \in Seq(S) /\ Len(r) = 2 /\ r[1] = a /\ r[2] = b
    OBVIOUS
  <2> HIDE DEF l, r
  <2>3. \A i \in 1..2 : i = 1 \/ i = 2
    OBVIOUS
  <2>4. \A i \in 1..Len(l) : l[i] = r[i]
    BY <2>1, <2>2, <2>3
  <2>5. l = r
    BY <2>1, <2>2, <2>4, SeqEqual
  <2> QED
    BY <2>5 DEF l, r
<1>3. (s \o <<a>>) \o <<b>> = s \o (<<a>> \o <<b>>)
  BY <1>1, ConcatAssociative
<1> QED
  BY <1>2, <1>3, Zenon

LEMMA EncodedStart ==
  ASSUME NEW bytes \in Texts
  PROVE  Encoded(bytes, 0, [val |-> 0, valb |-> -6, out |-> <<>>])
<1> DEFINE st == [val |-> 0, valb |-> -6, out |-> <<>>]
<1>1. st \in EncodeStates
  <2>1. <<>> \in Seq(Sixes)
    OBVIOUS
  <2> QED
    BY <2>1 DEF EncodeStates
<1>2. 0 = 3 * 0 /\ Len(<<>>) = 4 * 0 /\ 0 \in Nat /\ 1..0 = {}
  OBVIOUS
<1>3. st.valb = -6 /\ st.out = <<>>
  OBVIOUS
<1>4. Characters(bytes, <<>>)
  BY <1>2 DEF Characters
<1> HIDE DEF st
<1>5. Encoded(bytes, 0, st)
  BY <1>1, <1>2, <1>3, <1>4 DEF Encoded
<1> QED
  BY <1>5 DEF st

LEMMA ByteIs ==
  ASSUME NEW bytes \in Texts, NEW i \in 1..Len(bytes)
  PROVE  bytes[i] \in 0..255 /\ ByteAt(bytes, i) = bytes[i]
<1>1. bytes[i] \in Octets /\ i <= Len(bytes)
  BY DEF Texts
<1>2. ByteAt(bytes, i) = bytes[i]
  BY <1>1 DEF ByteAt
<1> QED
  BY <1>1, <1>2 DEF Octets

LEMMA EncodedStep ==
  ASSUME NEW bytes \in Texts, NEW n \in Nat, n + 1 \in 1..Len(bytes),
         NEW st, Encoded(bytes, n, st)
  PROVE  Encoded(bytes, n + 1, EncodeByte(st, bytes[n + 1]))
<1>0. Len(bytes) \in Nat
  BY DEF Texts
<1>1. PICK c \in 0..255 : c = bytes[n + 1] /\ ByteAt(bytes, n + 1) = c
  BY ZenonT(60), ByteIs
<1>2. /\ st \in EncodeStates /\ st.val \in Int
      /\ Characters(bytes, st.out)
  BY DEF Encoded, EncodeStates
<1>3. PICK next, w : next = EncodeByte(st, c) /\ w = ByteIn(st, c)
  OBVIOUS
<1> SUFFICES Encoded(bytes, n + 1, next)
  BY <1>1, <1>3
<1>4. next = [val |-> w, valb |-> Remaining(st.valb), out |-> st.out \o Added(st.valb, w)]
  BY <1>2, <1>3, EncodeByteIs
<1>5. PICK v \in Int, z \in Int : v = st.val /\ z = 256 * v + c /\ Congruent(w, z)
  <2>1. PICK v \in Int, z \in Int : v = st.val /\ z = v * 256 + c
    BY <1>1, <1>2
  <2>2. w = Word(z) /\ z = 256 * v + c
    BY <1>1, <1>3, <2>1 DEF ByteIn
  <2> QED
    BY SMTT(60), <2>1, <2>2, WordIs
<1>6. w \in Int /\ LowByte(w, c)
  BY <1>1, <1>5, NextLowByte
<1>7. ASSUME n # 0
      PROVE  \E b \in 0..255 : ByteAt(bytes, n) = b /\ LowBytes(w, b, c)
  <2>1. n \in 1..Len(bytes)
    BY <1>0, <1>7
  <2>2. PICK b \in 0..255 : b = bytes[n] /\ ByteAt(bytes, n) = b
    BY ZenonT(60), <2>1, ByteIs
  <2>3. LowByte(v, b)
    BY <1>5, <1>7, <2>2 DEF Encoded
  <2>4. LowBytes(w, b, c)
    BY ZenonT(60), <1>1, <1>5, <2>2, <2>3, NextLowBytes
  <2> QED
    BY <2>2, <2>4
<1>8. PICK q \in Nat :
        \/ n = 3 * q /\ st.valb = -6 /\ Len(st.out) = 4 * q
        \/ n = 3 * q + 1 /\ st.valb = -4 /\ Len(st.out) = 4 * q + 1
        \/ n = 3 * q + 2 /\ st.valb = -2 /\ Len(st.out) = 4 * q + 2
  BY DEF Encoded
<1>9. /\ next.val = w /\ next.valb = Remaining(st.valb)
      /\ next.out = st.out \o Added(st.valb, w)
  BY <1>4
<1>10. ASSUME Characters(bytes, next.out),
              NEW p \in Nat,
              \/ n + 1 = 3 * p /\ next.valb = -6 /\ Len(next.out) = 4 * p
              \/ n + 1 = 3 * p + 1 /\ next.valb = -4 /\ Len(next.out) = 4 * p + 1
              \/ n + 1 = 3 * p + 2 /\ next.valb = -2 /\ Len(next.out) = 4 * p + 2
       PROVE  Encoded(bytes, n + 1, next)
  <2>1. next.valb \in {-6, -4, -2}
    BY <1>10
  <2>2. next = [val |-> w, valb |-> next.valb, out |-> next.out]
    BY <1>4, <1>9
  <2>3. next.out \in Seq(Sixes)
    BY <1>10 DEF Characters
  <2>4. next \in EncodeStates
    BY <1>6, <2>1, <2>2, <2>3 DEF EncodeStates
  <2>5. LowByte(next.val, bytes[n + 1])
    BY <1>1, <1>6, <1>9
  <2> QED
    BY <1>10, <2>4, <2>5 DEF Encoded
<1>11. CASE n = 3 * q /\ st.valb = -6 /\ Len(st.out) = 4 * q
  <2>1. next.out = st.out \o <<Six(w, 2)>> /\ next.valb = -4
    BY <1>9, <1>11, AddedIs
  <2>2. Six(w, 2) = c \div 4 /\ Six(w, 2) \in Sixes
    BY ZenonT(60), <1>6, LastByte, SixIs
  <2>3. n + 1 = 3 * q + 1 /\ 4 * q + 1 = Len(st.out) + 1
    BY <1>11
  <2>4. Sextet(bytes, 4 * q + 1) = c \div 4
    BY SMTT(60), <1>1, <2>3, SextetAt
  <2>5. PICK k : k = 4 * q + 1
    OBVIOUS
  <2>6. Characters(bytes, next.out) /\ Len(next.out) = k
    BY <1>2, <2>1, <2>2, <2>3, <2>4, <2>5, OneMore
  <2> QED
    BY <1>10, <2>1, <2>3, <2>5, <2>6
<1>12. CASE n = 3 * q + 1 /\ st.valb = -4 /\ Len(st.out) = 4 * q + 1
  <2>1. next.out = st.out \o <<Six(w, 4)>> /\ next.valb = -2
    BY <1>9, <1>12, AddedIs
  <2>2. n # 0 /\ n = 3 * q + 1 /\ n + 1 = 3 * q + 2 /\ 4 * q + 2 = Len(st.out) + 1
    BY <1>12
  <2>3. PICK b \in 0..255 : ByteAt(bytes, n) = b /\ LowBytes(w, b, c)
    BY <1>7, <2>2
  <2>4. ByteAt(bytes, 3 * q + 1) = b /\ ByteAt(bytes, 3 * q + 2) = c
    BY <1>1, <2>2, <2>3
  <2>5. Six(w, 4) = (b % 4) * 16 + c \div 16 /\ Six(w, 4) \in Sixes
    <3>1. Six(w, 4) \in Sixes
      BY <1>6, SixIs
    <3> QED
      BY ZenonT(60), <1>1, <2>3, <3>1, LastTwoBytes
  <2>6. Sextet(bytes, 4 * q + 2) = (b % 4) * 16 + c \div 16
    BY <2>4, SextetAt
  <2>7. PICK k : k = 4 * q + 2
    OBVIOUS
  <2>8. Six(w, 4) = Sextet(bytes, k)
    BY <2>5, <2>6, <2>7
  <2>9. Characters(bytes, next.out) /\ Len(next.out) = k
    BY <1>2, <2>1, <2>2, <2>5, <2>7, <2>8, OneMore
  <2> QED
    BY <1>10, <2>1, <2>2, <2>7, <2>9
<1>13. CASE n = 3 * q + 2 /\ st.valb = -2 /\ Len(st.out) = 4 * q + 2
  <2>1. next.out = st.out \o <<Six(w, 6), Six(w, 0)>> /\ next.valb = -6
    BY <1>9, <1>13, AddedIs
  <2>2. n # 0 /\ n = 3 * q + 2 /\ n + 1 = 3 * q + 3 /\ 4 * q + 3 = Len(st.out) + 1
    BY <1>13
  <2>3. PICK b \in 0..255 : ByteAt(bytes, n) = b /\ LowBytes(w, b, c)
    BY <1>7, <2>2
  <2>4. ByteAt(bytes, 3 * q + 2) = b /\ ByteAt(bytes, 3 * q + 3) = c
    BY <1>1, <2>2, <2>3
  <2>5. Six(w, 6) = (b % 16) * 4 + c \div 64 /\ Six(w, 6) \in Sixes
    <3>1. Six(w, 6) \in Sixes
      BY <1>6, SixIs
    <3> QED
      BY ZenonT(60), <1>1, <2>3, <3>1, LastTwoBytes
  <2>6. Six(w, 0) = c % 64 /\ Six(w, 0) \in Sixes
    BY ZenonT(60), <1>1, <1>6, LastByte, SixIs
  <2>7. /\ Sextet(bytes, 4 * q + 3) = (b % 16) * 4 + c \div 64
        /\ Sextet(bytes, 4 * q + 4) = c % 64
    BY SMTT(60), <2>4, SextetAt
  <2>8. PICK k, l : k = 4 * q + 3 /\ l = 4 * q + 4
    OBVIOUS
  <2>9. Six(w, 6) = Sextet(bytes, k) /\ Six(w, 0) = Sextet(bytes, l)
    BY <2>5, <2>6, <2>7, <2>8
  <2>10. PICK one : one = st.out \o <<Six(w, 6)>>
    OBVIOUS
  <2>11. Characters(bytes, one) /\ Len(one) = k
    BY <1>2, <2>2, <2>5, <2>8, <2>9, <2>10, OneMore
  <2>12. next.out = one \o <<Six(w, 0)>>
    <3>1. st.out \in Seq(Sixes) /\ Six(w, 6) \in Sixes /\ Six(w, 0) \in Sixes
      BY <1>2, <2>5, <2>6 DEF Characters
    <3>2. PICK s, x, y : s = st.out /\ x = Six(w, 6) /\ y = Six(w, 0)
      OBVIOUS
    <3>3. s \in Seq(Sixes) /\ x \in Sixes /\ y \in Sixes
      BY <3>1, <3>2
    <3>4. s \o <<x, y>> = (s \o <<x>>) \o <<y>>
      BY <3>3, OneByOne
    <3> QED
      BY <2>1, <2>10, <3>2, <3>4
  <2>13. l = Len(one) + 1
    BY <2>8, <2>11
  <2>14. Characters(bytes, next.out) /\ Len(next.out) = l
    BY <2>6, <2>9, <2>11, <2>12, <2>13, OneMore
  <2>15. PICK p \in Nat : p = q + 1
    OBVIOUS
  <2>16. n + 1 = 3 * p /\ l = 4 * p
    BY <2>2, <2>8, <2>15
  <2> QED
    BY <1>10, <2>1, <2>14, <2>15, <2>16
<1> QED
  BY <1>8, <1>11, <1>12, <1>13

LEMMA EncodeTyped ==
  ASSUME NEW st \in EncodeStates, NEW c \in Octets
  PROVE  EncodeByte(st, c) \in EncodeStates
<1>1. /\ st.val \in Int /\ st.valb \in {-6, -4, -2} /\ st.out \in Seq(Sixes)
  BY DEF EncodeStates
<1>2. PICK w : w = ByteIn(st, c)
  OBVIOUS
<1>3. w \in Int
  <2>1. PICK z \in Int : z = st.val * 256 + c
    BY <1>1 DEF Octets
  <2> QED
    BY <1>2, <2>1, WordIs DEF ByteIn
<1>4. EncodeByte(st, c) = [val |-> w, valb |-> Remaining(st.valb),
                           out |-> st.out \o Added(st.valb, w)]
  BY <1>2, EncodeByteIs
<1>5. Added(st.valb, w) \in Seq(Sixes) /\ Remaining(st.valb) \in {-6, -4, -2}
  <2>1. Six(w, 0) \in Sixes /\ Six(w, 2) \in Sixes /\ Six(w, 4) \in Sixes /\ Six(w, 6) \in Sixes
    BY <1>3, SixIs
  <2>2. CASE st.valb = -6
    <3>1. Added(st.valb, w) = <<Six(w, 2)>> /\ Remaining(st.valb) = -4
      BY <2>2, AddedIs
    <3> QED
      BY <2>1, <3>1
  <2>3. CASE st.valb = -4
    <3>1. Added(st.valb, w) = <<Six(w, 4)>> /\ Remaining(st.valb) = -2
      BY <2>3, AddedIs
    <3> QED
      BY <2>1, <3>1
  <2>4. CASE st.valb = -2
    <3>1. Added(st.valb, w) = <<Six(w, 6), Six(w, 0)>> /\ Remaining(st.valb) = -6
      BY <2>4, AddedIs
    <3> QED
      BY <2>1, <3>1
  <2> QED
    BY <1>1, <2>2, <2>3, <2>4
<1>6. st.out \o Added(st.valb, w) \in Seq(Sixes)
  BY <1>1, <1>5
<1> QED
  BY <1>3, <1>4, <1>5, <1>6 DEF EncodeStates

EncodeStart == [val |-> 0, valb |-> -6, out |-> <<>>]

LEMMA AllEncoded ==
  ASSUME NEW bytes \in Texts
  PROVE  Encoded(bytes, Len(bytes), FoldLeft(EncodeByte, EncodeStart, bytes))
<1>1. EncodeStart \in EncodeStates
  BY EncodedStart DEF Encoded, EncodeStart
<1>2. PICK r : EncodeRounds(r, EncodeStates, EncodeStart, bytes)
  BY <1>1, EncodeTyped, FoldOfEncodeByte DEF Texts
<1>3. Len(bytes) \in Nat
  BY DEF Texts
<1>4. PICK n \in Nat : n = Len(bytes)
  BY <1>3
<1> DEFINE G == {k \in 0..n : Encoded(bytes, k, r[k])}
<1>5. 0 \in G
  BY <1>2, EncodedStart DEF EncodeRounds, EncodeStart
<1>6. ASSUME NEW k \in 0..(n - 1), k \in G PROVE k + 1 \in G
  <2>1. k \in Nat /\ k + 1 \in 1..n /\ k + 1 \in 0..n /\ (k + 1) - 1 = k
    OBVIOUS
  <2>2. Encoded(bytes, k, r[k])
    BY <1>6
  <2>3. r[k + 1] = EncodeByte(r[k], bytes[k + 1])
    BY <1>2, <1>4, <2>1 DEF EncodeRounds
  <2> HIDE DEF G
  <2>4. Encoded(bytes, k + 1, EncodeByte(r[k], bytes[k + 1]))
    BY <1>4, <2>1, <2>2, EncodedStep
  <2>5. Encoded(bytes, k + 1, r[k + 1])
    BY <2>3, <2>4
  <2> QED
    BY <2>1, <2>5 DEF G
<1>7. n \in G
  <2> HIDE DEF G
  <2>1. 0..n \subseteq G
    BY <1>5, <1>6, InductionTo
  <2> QED
    BY <2>1
<1> QED
  BY <1>2, <1>4, <1>7 DEF EncodeRounds

(* The characters of a text of n bytes, and those with the padding.        *)
Sizes(n, q, chars, padded) ==
  \/ n = 3 * q /\ chars = 4 * q /\ padded = 4 * q
  \/ n = 3 * q + 1 /\ chars = 4 * q + 2 /\ padded = 4 * q + 4
  \/ n = 3 * q + 2 /\ chars = 4 * q + 3 /\ padded = 4 * q + 4

LEMMA TailIs ==
  ASSUME NEW bytes \in Texts, NEW st, Encoded(bytes, Len(bytes), st)
  PROVE  /\ Characters(bytes, WithTail(st))
         /\ \E q \in Nat, p \in Nat : Sizes(Len(bytes), q, Len(WithTail(st)), p)
<1>0. PICK n \in Nat : n = Len(bytes)
  BY DEF Texts
<1>1. st \in EncodeStates /\ Characters(bytes, st.out)
  BY DEF Encoded
<1>2. st.valb \in {-6, -4, -2} /\ st.val \in Int /\ st.out \in Seq(Sixes)
  BY <1>1 DEF EncodeStates
<1>3. PICK w : w = Word(st.val * 256)
  OBVIOUS
<1>4. WithTail(st) = IF st.valb > -6 THEN Append(st.out, Six(w, st.valb + 8)) ELSE st.out
  BY <1>3 DEF WithTail, Six
<1>5. w \in Int /\ (n # 0 => \E b \in 0..255 : ByteAt(bytes, n) = b /\ LowBytes(w, b, 0))
  <2>1. PICK v \in Int, z \in Int : v = st.val /\ z = 256 * v + 0 /\ z = v * 256
    BY <1>2
  <2>2. w \in Int /\ Congruent(w, z)
    BY <1>3, <2>1, WordIs
  <2>3. 0 \in 0..255
    OBVIOUS
  <2>4. ASSUME n # 0 PROVE \E b \in 0..255 : ByteAt(bytes, n) = b /\ LowBytes(w, b, 0)
    <3>1. n \in 1..Len(bytes)
      BY <1>0, <2>4
    <3>2. PICK b \in 0..255 : b = bytes[n] /\ ByteAt(bytes, n) = b
      BY ZenonT(60), <3>1, ByteIs
    <3>3. LowByte(v, b)
      BY <1>0, <2>1, <2>4, <3>2 DEF Encoded
    <3>4. LowBytes(w, b, 0)
      BY ZenonT(60), <2>1, <2>2, <2>3, <3>2, <3>3, NextLowBytes
    <3> QED
      BY <3>2, <3>4
  <2> QED
    BY <2>2, <2>4
<1>6. PICK q \in Nat :
        \/ n = 3 * q /\ st.valb = -6 /\ Len(st.out) = 4 * q
        \/ n = 3 * q + 1 /\ st.valb = -4 /\ Len(st.out) = 4 * q + 1
        \/ n = 3 * q + 2 /\ st.valb = -2 /\ Len(st.out) = 4 * q + 2
  BY <1>0 DEF Encoded
<1>7. \A i \in Nat : i > n => ByteAt(bytes, i) = 0
  BY <1>0 DEF ByteAt
<1>8. 0 \in 0..255 /\ 0 \div 16 = 0 /\ 0 \div 64 = 0
  OBVIOUS
<1>9. CASE n = 3 * q /\ st.valb = -6 /\ Len(st.out) = 4 * q
  <2>1. WithTail(st) = st.out
    BY <1>4, <1>9
  <2>2. PICK p \in Nat : p = 4 * q
    OBVIOUS
  <2>3. Sizes(n, q, Len(st.out), p)
    BY <1>9, <2>2 DEF Sizes
  <2> QED
    BY <1>0, <1>1, <2>1, <2>3
<1>10. CASE n = 3 * q + 1 /\ st.valb = -4 /\ Len(st.out) = 4 * q + 1
  <2>1. st.valb > -6 /\ st.valb + 8 = 4
    BY <1>10
  <2>2. Six(w, 4) \in Sixes
    BY <1>5, SixIs
  <2>3. WithTail(st) = st.out \o <<Six(w, 4)>>
    BY <1>2, <1>4, <2>1, <2>2
  <2>4. n # 0 /\ n = 3 * q + 1 /\ 3 * q + 2 > n /\ 3 * q + 2 \in Nat /\ 4 * q + 2 = Len(st.out) + 1
    BY <1>10
  <2>5. PICK b \in 0..255 : ByteAt(bytes, n) = b /\ LowBytes(w, b, 0)
    BY <1>5, <2>4
  <2>6. ByteAt(bytes, 3 * q + 1) = b /\ ByteAt(bytes, 3 * q + 2) = 0
    BY <1>7, <2>4, <2>5
  <2>7. Six(w, 4) = (b % 4) * 16 + 0 \div 16
    BY ZenonT(60), <1>8, <2>5, LastTwoBytes
  <2>8. Sextet(bytes, 4 * q + 2) = (b % 4) * 16 + 0 \div 16
    BY SMTT(60), <2>6, SextetAt
  <2>9. PICK k : k = 4 * q + 2
    OBVIOUS
  <2>10. Six(w, 4) = Sextet(bytes, k)
    BY <2>7, <2>8, <2>9
  <2>11. Characters(bytes, WithTail(st)) /\ Len(WithTail(st)) = k
    BY <1>1, <2>2, <2>3, <2>4, <2>9, <2>10, OneMore
  <2>12. PICK p \in Nat : p = 4 * q + 4
    OBVIOUS
  <2>13. Sizes(n, q, Len(WithTail(st)), p)
    BY <2>4, <2>9, <2>11, <2>12 DEF Sizes
  <2> QED
    BY <1>0, <2>11, <2>13
<1>11. CASE n = 3 * q + 2 /\ st.valb = -2 /\ Len(st.out) = 4 * q + 2
  <2>1. st.valb > -6 /\ st.valb + 8 = 6
    BY <1>11
  <2>2. Six(w, 6) \in Sixes
    BY <1>5, SixIs
  <2>3. WithTail(st) = st.out \o <<Six(w, 6)>>
    BY SMTT(60), <1>2, <1>4, <2>1, <2>2
  <2>4. n # 0 /\ n = 3 * q + 2 /\ 3 * q + 3 > n /\ 3 * q + 3 \in Nat /\ 4 * q + 3 = Len(st.out) + 1
    BY <1>11
  <2>5. PICK b \in 0..255 : ByteAt(bytes, n) = b /\ LowBytes(w, b, 0)
    BY <1>5, <2>4
  <2>6. ByteAt(bytes, 3 * q + 2) = b /\ ByteAt(bytes, 3 * q + 3) = 0
    BY <1>7, <2>4, <2>5
  <2>7. Six(w, 6) = (b % 16) * 4 + 0 \div 64
    BY ZenonT(60), <1>8, <2>5, LastTwoBytes
  <2>8. Sextet(bytes, 4 * q + 3) = (b % 16) * 4 + 0 \div 64
    BY SMTT(60), <2>6, SextetAt
  <2>9. PICK k : k = 4 * q + 3
    OBVIOUS
  <2>10. Six(w, 6) = Sextet(bytes, k)
    BY <2>7, <2>8, <2>9
  <2>11. Characters(bytes, WithTail(st)) /\ Len(WithTail(st)) = k
    BY <1>1, <2>2, <2>3, <2>4, <2>9, <2>10, OneMore
  <2>12. PICK p \in Nat : p = 4 * q + 4
    OBVIOUS
  <2>13. Sizes(n, q, Len(WithTail(st)), p)
    BY <2>4, <2>9, <2>11, <2>12 DEF Sizes
  <2> QED
    BY <1>0, <2>11, <2>13
<1> QED
  BY <1>6, <1>9, <1>10, <1>11

(* The padding fills the last group of four.                               *)
LEMMA PaddedIs ==
  ASSUME NEW out \in Seq(Sixes), NEW n \in Nat, NEW q \in Nat, NEW p \in Nat,
         Sizes(n, q, Len(out), p)
  PROVE  /\ Padded(out) \in Seq(Sixes \cup {Pad}) /\ Len(Padded(out)) = p
         /\ Len(out) <= p
         /\ \A i \in 1..p : Padded(out)[i] = IF i <= Len(out) THEN out[i] ELSE Pad
<1>1. PICK l \in Nat : l = Len(out)
  OBVIOUS
<1>2. PICK m \in Nat : m = (4 - (l % 4)) % 4 /\ l + m = p
  <2>1. CASE l = 4 * q /\ p = 4 * q
    <3>1. (4 - (l % 4)) % 4 = 0
      BY <2>1
    <3> QED
      BY <2>1, <3>1
  <2>2. CASE l = 4 * q + 2 /\ p = 4 * q + 4
    <3>1. (4 - (l % 4)) % 4 = 2
      BY <2>2
    <3> QED
      BY <2>2, <3>1
  <2>3. CASE l = 4 * q + 3 /\ p = 4 * q + 4
    <3>1. (4 - (l % 4)) % 4 = 1
      BY <2>3
    <3> QED
      BY <2>3, <3>1
  <2> QED
    BY <1>1, <2>1, <2>2, <2>3 DEF Sizes
<1> DEFINE pads == [i \in 1..m |-> Pad]
           S == Sixes \cup {Pad}
<1>3. Padded(out) = out \o pads
  BY <1>1, <1>2 DEF Padded
<1>4. pads \in Seq(S) /\ Len(pads) = m /\ \A i \in 1..m : pads[i] = Pad
  OBVIOUS
<1>5. out \in Seq(S) /\ \A i \in 1..l : out[i] \in Sixes
  BY <1>1
<1> HIDE DEF pads, S
<1>6. /\ out \o pads \in Seq(S) /\ Len(out \o pads) = l + m
      /\ \A i \in 1..(l + m) : (out \o pads)[i] = IF i <= l THEN out[i] ELSE pads[i - l]
  BY ZenonT(60), <1>1, <1>4, <1>5, ConcatProperties
<1>7. \A i \in 1..p : i <= l \/ i - l \in 1..m
  BY <1>2
<1>8. \A i \in 1..p : (out \o pads)[i] = IF i <= l THEN out[i] ELSE Pad
  BY <1>2, <1>4, <1>6, <1>7
<1>9. l <= p
  BY <1>2
<1> QED
  BY <1>1, <1>2, <1>3, <1>6, <1>8, <1>9 DEF S

-----------------------------------------------------------------------------
(* The standard, bit by bit, says the same of every character.             *)
BitOf(c, m) == (c \div 2^(7 - m)) % 2

LEMMA Powers ==
  /\ 2^0 = 1 /\ 2^1 = 2 /\ 2^2 = 4 /\ 2^3 = 8
  /\ 2^4 = 16 /\ 2^5 = 32 /\ 2^6 = 64 /\ 2^7 = 128
OBVIOUS

LEMMA BitsAre ==
  ASSUME NEW c
  PROVE  /\ BitOf(c, 0) = (c \div 128) % 2 /\ BitOf(c, 1) = (c \div 64) % 2
         /\ BitOf(c, 2) = (c \div 32) % 2 /\ BitOf(c, 3) = (c \div 16) % 2
         /\ BitOf(c, 4) = (c \div 8) % 2 /\ BitOf(c, 5) = (c \div 4) % 2
         /\ BitOf(c, 6) = (c \div 2) % 2 /\ BitOf(c, 7) = (c \div 1) % 2
<1>1. /\ 7 - 0 = 7 /\ 7 - 1 = 6 /\ 7 - 2 = 5 /\ 7 - 3 = 4
      /\ 7 - 4 = 3 /\ 7 - 5 = 2 /\ 7 - 6 = 1 /\ 7 - 7 = 0
  OBVIOUS
<1> QED
  BY <1>1, Powers DEF BitOf

(* A byte by its bits.                                                     *)
LEMMA ByteOfBits ==
  ASSUME NEW c \in Octets
  PROVE  /\ c \div 4 = 32 * BitOf(c, 0) + 16 * BitOf(c, 1) + 8 * BitOf(c, 2)
                         + 4 * BitOf(c, 3) + 2 * BitOf(c, 4) + BitOf(c, 5)
         /\ c % 4 = 2 * BitOf(c, 6) + BitOf(c, 7)
         /\ c \div 16 = 8 * BitOf(c, 0) + 4 * BitOf(c, 1) + 2 * BitOf(c, 2) + BitOf(c, 3)
         /\ c % 16 = 8 * BitOf(c, 4) + 4 * BitOf(c, 5) + 2 * BitOf(c, 6) + BitOf(c, 7)
         /\ c \div 64 = 2 * BitOf(c, 0) + BitOf(c, 1)
         /\ c % 64 = 32 * BitOf(c, 2) + 16 * BitOf(c, 3) + 8 * BitOf(c, 4)
                       + 4 * BitOf(c, 5) + 2 * BitOf(c, 6) + BitOf(c, 7)
         /\ BitOf(c, 0) \in 0..1 /\ BitOf(c, 1) \in 0..1
         /\ BitOf(c, 2) \in 0..1 /\ BitOf(c, 3) \in 0..1
         /\ BitOf(c, 4) \in 0..1 /\ BitOf(c, 5) \in 0..1
         /\ BitOf(c, 6) \in 0..1 /\ BitOf(c, 7) \in 0..1
<1>0. c \in 0..255
  BY DEF Octets
<1>1. /\ c \div 1 = c /\ c \in Int /\ 0 <= c /\ c <= 255
      /\ c \div 128 \in 0..1 /\ (c \div 128) % 2 = c \div 128
  BY <1>0
<1>2. c \div 1 = 2 * (c \div 2) + ((c \div 1) % 2) /\ ((c \div 1) % 2) \in 0..1 /\ c \div 2 \in Int
  BY <1>0
<1>3. c \div 2 = 2 * (c \div 4) + ((c \div 2) % 2) /\ ((c \div 2) % 2) \in 0..1 /\ c \div 4 \in Int
  BY <1>0
<1>4. c \div 4 = 2 * (c \div 8) + ((c \div 4) % 2) /\ ((c \div 4) % 2) \in 0..1 /\ c \div 8 \in Int
  BY <1>0
<1>5. c \div 8 = 2 * (c \div 16) + ((c \div 8) % 2) /\ ((c \div 8) % 2) \in 0..1 /\ c \div 16 \in Int
  BY <1>0
<1>6. c \div 16 = 2 * (c \div 32) + ((c \div 16) % 2) /\ ((c \div 16) % 2) \in 0..1 /\ c \div 32 \in Int
  BY <1>0
<1>7. c \div 32 = 2 * (c \div 64) + ((c \div 32) % 2) /\ ((c \div 32) % 2) \in 0..1 /\ c \div 64 \in Int
  BY <1>0
<1>8. c \div 64 = 2 * (c \div 128) + ((c \div 64) % 2) /\ ((c \div 64) % 2) \in 0..1 /\ c \div 128 \in Int
  BY <1>0
<1>9. PICK h1 \in Int, h2 \in Int, h3 \in Int, h4 \in Int, h5 \in Int, h6 \in Int :
         /\ h1 = c \div 2 /\ h2 = c \div 4 /\ h3 = c \div 8
         /\ h4 = c \div 16 /\ h5 = c \div 32 /\ h6 = c \div 64
  BY <1>2, <1>3, <1>4, <1>5, <1>6, <1>7
<1>10. PICK b0 \in 0..1, b1 \in 0..1, b2 \in 0..1, b3 \in 0..1,
            b4 \in 0..1, b5 \in 0..1, b6 \in 0..1, b7 \in 0..1 :
         /\ b0 = BitOf(c, 0) /\ b1 = BitOf(c, 1) /\ b2 = BitOf(c, 2) /\ b3 = BitOf(c, 3)
         /\ b4 = BitOf(c, 4) /\ b5 = BitOf(c, 5) /\ b6 = BitOf(c, 6) /\ b7 = BitOf(c, 7)
         /\ h6 = 2 * b0 + b1 /\ h5 = 2 * h6 + b2 /\ h4 = 2 * h5 + b3
         /\ h3 = 2 * h4 + b4 /\ h2 = 2 * h3 + b5 /\ h1 = 2 * h2 + b6 /\ c = 2 * h1 + b7
  BY SMTT(60), <1>1, <1>2, <1>3, <1>4, <1>5, <1>6, <1>7, <1>8, <1>9, BitsAre
<1>22. /\ b0 \in 0..1 /\ b1 \in 0..1 /\ b2 \in 0..1 /\ b3 \in 0..1
       /\ b4 \in 0..1 /\ b5 \in 0..1 /\ b6 \in 0..1 /\ b7 \in 0..1
  BY <1>10
<1>11. /\ c \in Int /\ h1 \in Int /\ h2 \in Int /\ h3 \in Int
       /\ h4 \in Int /\ h5 \in Int /\ h6 \in Int
       /\ b0 \in Int /\ b1 \in Int /\ b2 \in Int /\ b3 \in Int
       /\ b4 \in Int /\ b5 \in Int /\ b6 \in Int /\ b7 \in Int
       /\ h6 = 2 * b0 + b1 /\ h5 = 2 * h6 + b2 /\ h4 = 2 * h5 + b3
       /\ h3 = 2 * h4 + b4 /\ h2 = 2 * h3 + b5 /\ h1 = 2 * h2 + b6 /\ c = 2 * h1 + b7
  <2>1. /\ c \in Int /\ h1 \in Int /\ h2 \in Int /\ h3 \in Int
        /\ h4 \in Int /\ h5 \in Int /\ h6 \in Int
    BY <1>1, <1>9
  <2>2. /\ b0 \in Int /\ b1 \in Int /\ b2 \in Int /\ b3 \in Int
        /\ b4 \in Int /\ b5 \in Int /\ b6 \in Int /\ b7 \in Int
    BY <1>22
  <2> QED
    BY <1>10, <2>1, <2>2
<1>12. PICK r4 \in Int, r16 \in Int, r64 \in Int :
         /\ r4 = 2 * b6 + b7
         /\ r16 = 8 * b4 + 4 * b5 + 2 * b6 + b7
         /\ r64 = 32 * b2 + 16 * b3 + 8 * b4 + 4 * b5 + 2 * b6 + b7
  BY <1>11
<1>13. r4 \in 0..3 /\ r16 \in 0..15 /\ r64 \in 0..63
  <2>1. r4 \in 0..3
    BY <1>12, <1>22
  <2>2. r16 = 8 * b4 + 4 * b5 + r4
    BY <1>11, <1>12
  <2>3. r16 \in 0..15
    BY <1>22, <2>1, <2>2
  <2>4. r64 = 32 * b2 + 16 * b3 + r16
    BY <1>11, <1>12
  <2>5. r64 \in 0..63
    BY <1>22, <2>3, <2>4
  <2> QED
    BY <2>1, <2>3, <2>5
<1>14. h2 = 32 * b0 + 16 * b1 + 8 * b2 + 4 * b3 + 2 * b4 + b5
  BY <1>11
<1>21. h4 = 8 * b0 + 4 * b1 + 2 * b2 + b3
  BY <1>11
<1>15. c = 4 * h2 + r4 /\ c = 16 * h4 + r16 /\ c = 64 * h6 + r64
  BY <1>11, <1>12
<1>16. c % 4 = r4
  BY <1>11, <1>13, <1>15
<1>17. c % 16 = r16
  BY <1>11, <1>13, <1>15
<1>18. c % 64 = r64
  BY <1>11, <1>13, <1>15
<1>20. c \div 4 = h2 /\ c \div 16 = h4 /\ c \div 64 = 2 * b0 + b1
  BY <1>9, <1>10
<1> QED
  BY <1>10, <1>12, <1>14, <1>21, <1>16, <1>17, <1>18, <1>20, <1>22

LEMMA BitIs ==
  ASSUME NEW bytes \in Texts, NEW p \in Nat, NEW m \in 0..7
  PROVE  Bit(bytes, 8 * p + m) = BitOf(ByteAt(bytes, p + 1), m)
<1>1. PICK i \in Nat : i = 8 * p + m
  OBVIOUS
<1>2. i \div 8 = p /\ i % 8 = m
  BY <1>1
<1>3. PICK n \in Nat : n = Len(bytes)
  BY DEF Texts
<1>4. i < 8 * n <=> p + 1 <= n
  BY <1>1
<1>5. Bit(bytes, i) = IF i < 8 * n THEN BitOf(bytes[p + 1], m) ELSE 0
  BY <1>2, <1>3 DEF Bit, BitOf
<1>6. ByteAt(bytes, p + 1) = IF p + 1 <= n THEN bytes[p + 1] ELSE 0
  BY <1>3 DEF ByteAt
<1>7. BitOf(0, m) = 0
  <2>1. /\ 0 \div 1 = 0 /\ 0 \div 2 = 0 /\ 0 \div 4 = 0 /\ 0 \div 8 = 0
        /\ 0 \div 16 = 0 /\ 0 \div 32 = 0 /\ 0 \div 64 = 0 /\ 0 \div 128 = 0 /\ 0 % 2 = 0
    OBVIOUS
  <2>2. /\ BitOf(0, 0) = 0 /\ BitOf(0, 1) = 0 /\ BitOf(0, 2) = 0 /\ BitOf(0, 3) = 0
        /\ BitOf(0, 4) = 0 /\ BitOf(0, 5) = 0 /\ BitOf(0, 6) = 0 /\ BitOf(0, 7) = 0
    BY <2>1, BitsAre
  <2>3. m \in {0, 1, 2, 3, 4, 5, 6, 7}
    OBVIOUS
  <2> QED
    BY <2>2, <2>3
<1>8. Bit(bytes, i) = BitOf(ByteAt(bytes, p + 1), m)
  BY <1>4, <1>5, <1>6, <1>7
<1> QED
  BY <1>1, <1>8

LEMMA ByteAtRange ==
  ASSUME NEW bytes \in Texts, NEW i \in Nat \ {0}
  PROVE  ByteAt(bytes, i) \in Octets
<1>1. Len(bytes) \in Nat
  BY DEF Texts
<1>2. CASE i <= Len(bytes)
  <2>1. i \in 1..Len(bytes)
    BY <1>1, <1>2
  <2>2. ByteAt(bytes, i) = bytes[i] /\ bytes[i] \in Octets
    BY <2>1, ByteIs DEF Texts
  <2> QED
    BY <2>2
<1>3. CASE ~ (i <= Len(bytes))
  <2>1. ByteAt(bytes, i) = 0
    BY <1>3 DEF ByteAt
  <2> QED
    BY <2>1 DEF Octets
<1> QED
  BY <1>2, <1>3

SixBits(bytes, i) ==
  32 * Bit(bytes, i) + 16 * Bit(bytes, i + 1) + 8 * Bit(bytes, i + 2)
    + 4 * Bit(bytes, i + 3) + 2 * Bit(bytes, i + 4) + Bit(bytes, i + 5)

LEMMA SixBitsAre ==
  ASSUME NEW bytes \in Texts, NEW q \in Nat
  PROVE  /\ SixBits(bytes, 24 * q) = Sextet(bytes, 4 * q + 1)
         /\ SixBits(bytes, 24 * q + 6) = Sextet(bytes, 4 * q + 2)
         /\ SixBits(bytes, 24 * q + 12) = Sextet(bytes, 4 * q + 3)
         /\ SixBits(bytes, 24 * q + 18) = Sextet(bytes, 4 * q + 4)
<1>1. PICK a \in Octets, b \in Octets, c \in Octets :
        /\ a = ByteAt(bytes, 3 * q + 1) /\ b = ByteAt(bytes, 3 * q + 2)
        /\ c = ByteAt(bytes, 3 * q + 3)
  <2>1. 3 * q + 1 \in Nat \ {0} /\ 3 * q + 2 \in Nat \ {0} /\ 3 * q + 3 \in Nat \ {0}
    OBVIOUS
  <2> QED
    BY <2>1, ByteAtRange
<1>2. PICK p \in Nat : p = 3 * q
  OBVIOUS
<1>3. ASSUME NEW m \in 0..7
      PROVE  /\ Bit(bytes, 24 * q + m) = BitOf(a, m)
             /\ Bit(bytes, 24 * q + 8 + m) = BitOf(b, m)
             /\ Bit(bytes, 24 * q + 16 + m) = BitOf(c, m)
  <2>1. p + 1 \in Nat /\ p + 2 \in Nat
    OBVIOUS
  <2>2. /\ Bit(bytes, 8 * p + m) = BitOf(ByteAt(bytes, p + 1), m)
        /\ Bit(bytes, 8 * (p + 1) + m) = BitOf(ByteAt(bytes, (p + 1) + 1), m)
        /\ Bit(bytes, 8 * (p + 2) + m) = BitOf(ByteAt(bytes, (p + 2) + 1), m)
    BY <2>1, BitIs
  <2>3. /\ 8 * p + m = 24 * q + m /\ 8 * (p + 1) + m = 24 * q + 8 + m
        /\ 8 * (p + 2) + m = 24 * q + 16 + m
        /\ p + 1 = 3 * q + 1 /\ (p + 1) + 1 = 3 * q + 2 /\ (p + 2) + 1 = 3 * q + 3
    BY <1>2
  <2> QED
    BY <1>1, <2>2, <2>3
<1> DEFINE B(i) == Bit(bytes, 24 * q + i)
<1>4. /\ B(0) = BitOf(a, 0) /\ B(1) = BitOf(a, 1) /\ B(2) = BitOf(a, 2) /\ B(3) = BitOf(a, 3)
      /\ B(4) = BitOf(a, 4) /\ B(5) = BitOf(a, 5) /\ B(6) = BitOf(a, 6) /\ B(7) = BitOf(a, 7)
  BY <1>3
<1>5. /\ B(8) = BitOf(b, 0) /\ B(9) = BitOf(b, 1) /\ B(10) = BitOf(b, 2) /\ B(11) = BitOf(b, 3)
      /\ B(12) = BitOf(b, 4) /\ B(13) = BitOf(b, 5) /\ B(14) = BitOf(b, 6) /\ B(15) = BitOf(b, 7)
  BY <1>3
<1>6. /\ B(16) = BitOf(c, 0) /\ B(17) = BitOf(c, 1) /\ B(18) = BitOf(c, 2) /\ B(19) = BitOf(c, 3)
      /\ B(20) = BitOf(c, 4) /\ B(21) = BitOf(c, 5) /\ B(22) = BitOf(c, 6) /\ B(23) = BitOf(c, 7)
  BY <1>3
<1>7. /\ SixBits(bytes, 24 * q) = 32 * B(0) + 16 * B(1) + 8 * B(2) + 4 * B(3) + 2 * B(4) + B(5)
      /\ SixBits(bytes, 24 * q + 6) = 32 * B(6) + 16 * B(7) + 8 * B(8) + 4 * B(9) + 2 * B(10) + B(11)
      /\ SixBits(bytes, 24 * q + 12) = 32 * B(12) + 16 * B(13) + 8 * B(14) + 4 * B(15) + 2 * B(16) + B(17)
      /\ SixBits(bytes, 24 * q + 18) = 32 * B(18) + 16 * B(19) + 8 * B(20) + 4 * B(21) + 2 * B(22) + B(23)
  BY DEF SixBits
<1> HIDE DEF B
<1>8. SixBits(bytes, 24 * q) = a \div 4
  <2>1. a \div 4 = 32 * BitOf(a, 0) + 16 * BitOf(a, 1) + 8 * BitOf(a, 2)
                     + 4 * BitOf(a, 3) + 2 * BitOf(a, 4) + BitOf(a, 5)
    BY <1>1, ByteOfBits
  <2> QED
    BY <1>4, <1>7, <2>1
<1>9. SixBits(bytes, 24 * q + 6) = (a % 4) * 16 + (b \div 16)
  <2>1. /\ a % 4 = 2 * B(6) + B(7) /\ B(6) \in 0..1 /\ B(7) \in 0..1
        /\ b \div 16 = 8 * B(8) + 4 * B(9) + 2 * B(10) + B(11)
        /\ B(8) \in 0..1 /\ B(9) \in 0..1 /\ B(10) \in 0..1 /\ B(11) \in 0..1
    <3>1. /\ a % 4 = 2 * BitOf(a, 6) + BitOf(a, 7)
          /\ BitOf(a, 6) \in 0..1 /\ BitOf(a, 7) \in 0..1
      BY <1>1, ByteOfBits
    <3>2. /\ b \div 16 = 8 * BitOf(b, 0) + 4 * BitOf(b, 1) + 2 * BitOf(b, 2) + BitOf(b, 3)
          /\ BitOf(b, 0) \in 0..1 /\ BitOf(b, 1) \in 0..1
          /\ BitOf(b, 2) \in 0..1 /\ BitOf(b, 3) \in 0..1
      BY <1>1, ByteOfBits
    <3> QED
      BY <1>4, <1>5, <3>1, <3>2
  <2>2. PICK x6 \in 0..1, x7 \in 0..1, x8 \in 0..1, x9 \in 0..1, x10 \in 0..1, x11 \in 0..1 :
          /\ x6 = B(6) /\ x7 = B(7) /\ x8 = B(8) /\ x9 = B(9) /\ x10 = B(10) /\ x11 = B(11)
    BY <2>1
  <2>3. a % 4 = 2 * x6 + x7 /\ b \div 16 = 8 * x8 + 4 * x9 + 2 * x10 + x11
    BY <2>1, <2>2
  <2>4. SixBits(bytes, 24 * q + 6) = 32 * x6 + 16 * x7 + 8 * x8 + 4 * x9 + 2 * x10 + x11
    BY <1>7, <2>2
  <2> QED
    <3>1. PICK y \in Int, z \in Int : y = a % 4 /\ z = b \div 16
      BY <1>1 DEF Octets
    <3>2. y = 2 * x6 + x7 /\ z = 8 * x8 + 4 * x9 + 2 * x10 + x11
      BY <2>3, <3>1
    <3>3. x6 \in Int /\ x7 \in Int /\ x8 \in Int /\ x9 \in Int /\ x10 \in Int /\ x11 \in Int
      BY <2>2
    <3>4. SixBits(bytes, 24 * q + 6) = y * 16 + z
      BY <2>4, <3>1, <3>2, <3>3
    <3> QED
      BY <3>1, <3>4
<1>10. SixBits(bytes, 24 * q + 12) = (b % 16) * 4 + (c \div 64)
  <2>1. /\ b % 16 = 8 * B(12) + 4 * B(13) + 2 * B(14) + B(15)
        /\ B(12) \in 0..1 /\ B(13) \in 0..1 /\ B(14) \in 0..1 /\ B(15) \in 0..1
        /\ c \div 64 = 2 * B(16) + B(17) /\ B(16) \in 0..1 /\ B(17) \in 0..1
    <3>1. /\ b % 16 = 8 * BitOf(b, 4) + 4 * BitOf(b, 5) + 2 * BitOf(b, 6) + BitOf(b, 7)
          /\ BitOf(b, 4) \in 0..1 /\ BitOf(b, 5) \in 0..1
          /\ BitOf(b, 6) \in 0..1 /\ BitOf(b, 7) \in 0..1
      BY <1>1, ByteOfBits
    <3>2. /\ c \div 64 = 2 * BitOf(c, 0) + BitOf(c, 1)
          /\ BitOf(c, 0) \in 0..1 /\ BitOf(c, 1) \in 0..1
      BY <1>1, ByteOfBits
    <3> QED
      BY <1>5, <1>6, <3>1, <3>2
  <2>2. PICK x12 \in 0..1, x13 \in 0..1, x14 \in 0..1, x15 \in 0..1, x16 \in 0..1, x17 \in 0..1 :
          /\ x12 = B(12) /\ x13 = B(13) /\ x14 = B(14) /\ x15 = B(15)
          /\ x16 = B(16) /\ x17 = B(17)
    BY <2>1
  <2>3. b % 16 = 8 * x12 + 4 * x13 + 2 * x14 + x15 /\ c \div 64 = 2 * x16 + x17
    BY <2>1, <2>2
  <2>4. SixBits(bytes, 24 * q + 12) = 32 * x12 + 16 * x13 + 8 * x14 + 4 * x15 + 2 * x16 + x17
    BY <1>7, <2>2
  <2> QED
    <3>1. PICK y \in Int, z \in Int : y = b % 16 /\ z = c \div 64
      BY <1>1 DEF Octets
    <3>2. y = 8 * x12 + 4 * x13 + 2 * x14 + x15 /\ z = 2 * x16 + x17
      BY <2>3, <3>1
    <3>3. x12 \in Int /\ x13 \in Int /\ x14 \in Int /\ x15 \in Int /\ x16 \in Int /\ x17 \in Int
      BY <2>2
    <3>4. SixBits(bytes, 24 * q + 12) = y * 4 + z
      BY <2>4, <3>1, <3>2, <3>3
    <3> QED
      BY <3>1, <3>4
<1>11. SixBits(bytes, 24 * q + 18) = c % 64
  <2>1. c % 64 = 32 * BitOf(c, 2) + 16 * BitOf(c, 3) + 8 * BitOf(c, 4)
                   + 4 * BitOf(c, 5) + 2 * BitOf(c, 6) + BitOf(c, 7)
    BY <1>1, ByteOfBits
  <2> QED
    BY <1>6, <1>7, <2>1
<1> QED
  BY <1>1, <1>8, <1>9, <1>10, <1>11, SextetAt

LEMMA CharacterIs ==
  ASSUME NEW bytes \in Texts, NEW k \in Nat \ {0}
  PROVE  Character(bytes, k - 1) =
           IF 6 * (k - 1) >= 8 * Len(bytes) THEN Pad ELSE Sextet(bytes, k)
<1>1. PICK q \in Nat, j \in {0, 1, 2, 3} : k = 4 * q + j + 1
  <2>1. (k - 1) \div 4 \in Nat /\ (k - 1) % 4 \in {0, 1, 2, 3}
        /\ k = 4 * ((k - 1) \div 4) + ((k - 1) % 4) + 1
    OBVIOUS
  <2> QED
    BY <2>1
<1>2. PICK i : i = 6 * (k - 1)
  OBVIOUS
<1>3. SixBits(bytes, i) = Sextet(bytes, k)
  <2>1. \/ k = 4 * q + 1 /\ i = 24 * q
        \/ k = 4 * q + 2 /\ i = 24 * q + 6
        \/ k = 4 * q + 3 /\ i = 24 * q + 12
        \/ k = 4 * q + 4 /\ i = 24 * q + 18
    BY <1>1, <1>2
  <2> QED
    BY <2>1, SixBitsAre
<1>4. i \in Int /\ i + 0 = i
  BY <1>2
<1>5. Character(bytes, k - 1) = IF i >= 8 * Len(bytes) THEN Pad ELSE SixBits(bytes, i)
  BY <1>2, <1>4 DEF Character, SixBits
<1> QED
  BY <1>2, <1>3, <1>5

(* base64_encode gives any text its standard encoding, although val has    *)
(* overflowed.                                                             *)
THEOREM EncodeStandard ==
  ASSUME NEW bytes \in Texts
  PROVE  Encode(bytes) = Standard(bytes)
<1>1. PICK st : st = FoldLeft(EncodeByte, EncodeStart, bytes)
  OBVIOUS
<1>2. PICK out : out = WithTail(st)
  OBVIOUS
<1>3. Encode(bytes) = Padded(out)
  BY <1>1, <1>2 DEF Encode, EncodeStart
<1>4. Encoded(bytes, Len(bytes), st)
  BY <1>1, AllEncoded
<1>5. PICK n \in Nat : n = Len(bytes)
  BY DEF Texts
<1>6. PICK q \in Nat, p \in Nat : Characters(bytes, out) /\ Sizes(n, q, Len(out), p)
  BY <1>2, <1>4, <1>5, TailIs
<1>7. PICK l \in Nat : out \in Seq(Sixes) /\ l = Len(out)
  BY <1>6 DEF Characters
<1>8. /\ Padded(out) \in Seq(Sixes \cup {Pad}) /\ Len(Padded(out)) = p /\ l <= p
      /\ \A i \in 1..p : Padded(out)[i] = IF i <= l THEN out[i] ELSE Pad
  BY <1>6, <1>7, PaddedIs
<1>9. p = 4 * ((n + 2) \div 3)
  BY <1>6 DEF Sizes
<1>10. \A i \in 1..p : Padded(out)[i] = Character(bytes, i - 1)
  <2> SUFFICES ASSUME NEW i \in 1..p PROVE Padded(out)[i] = Character(bytes, i - 1)
    OBVIOUS
  <2>1. i \in Nat \ {0} /\ (i <= l <=> ~ (6 * (i - 1) >= 8 * n))
    BY <1>6, <1>7 DEF Sizes
  <2>2. i <= l => out[i] = Sextet(bytes, i)
    <3>1. \A m \in 1..l : out[m] = Sextet(bytes, m)
      BY <1>6, <1>7 DEF Characters
    <3> QED
      BY <2>1, <3>1
  <2>3. Character(bytes, i - 1) = IF 6 * (i - 1) >= 8 * n THEN Pad ELSE Sextet(bytes, i)
    BY <1>5, <2>1, CharacterIs
  <2> QED
    BY <1>8, <2>1, <2>2, <2>3
<1>11. Standard(bytes) = [k \in 1..p |-> Character(bytes, k - 1)]
  BY <1>5, <1>9 DEF Standard
<1>12. PICK e : e = Padded(out)
  OBVIOUS
<1>13. e = [k \in 1..p |-> e[k]]
  BY <1>8, <1>12
<1>14. e = [k \in 1..p |-> Character(bytes, k - 1)]
  BY <1>10, <1>12, <1>13, Zenon
<1> QED
  BY <1>3, <1>11, <1>12, <1>14

-----------------------------------------------------------------------------
(* base64_decode.  The byte of the eight bits of v above its k lowest.     *)
Eight(v, k) == ShiftRight(v, k) % 256

LEMMA EightIs ==
  ASSUME NEW v \in Int
  PROVE  /\ Eight(v, 0) = v % 256 /\ Eight(v, 2) = (v \div 4) % 256
         /\ Eight(v, 4) = (v \div 16) % 256
         /\ Eight(v, 0) \in Octets /\ Eight(v, 2) \in Octets /\ Eight(v, 4) \in Octets
<1>1. 2^0 = 1 /\ 2^2 = 4 /\ 2^4 = 16
  OBVIOUS
<1>2. /\ Eight(v, 0) = v % 256 /\ Eight(v, 2) = (v \div 4) % 256
      /\ Eight(v, 4) = (v \div 16) % 256
  BY <1>1 DEF Eight, ShiftRight
<1>3. \A x \in Int : x % 256 \in 0..255
  OBVIOUS
<1>4. v \div 4 \in Int /\ v \div 16 \in Int
  OBVIOUS
<1> QED
  BY <1>2, <1>3, <1>4 DEF Octets

(* It shows the last character and the one before, whatever is above.      *)
LowDigit(w, d) == \E x \in Int : w = 64 * x + d
LowDigits(w, c, d) == \E y \in Int : w = 4096 * y + 64 * c + d

LEMMA NextLowDigit ==
  ASSUME NEW v \in Int, NEW d \in Int, NEW z, z = 64 * v + d, NEW w, Congruent(w, z)
  PROVE  w \in Int /\ LowDigit(w, d)
<1>1. PICK t \in Int : w = (64 * v + d) + 65536 * t
  BY DEF Congruent
<1>2. PICK x \in Int : x = v + 1024 * t
  OBVIOUS
<1>3. w \in Int /\ w = 64 * x + d
  BY <1>1, <1>2
<1> QED
  BY <1>2, <1>3 DEF LowDigit

LEMMA NextLowDigits ==
  ASSUME NEW v \in Int, NEW c \in Int, LowDigit(v, c),
         NEW d \in Int, NEW z, z = 64 * v + d, NEW w, Congruent(w, z)
  PROVE  LowDigits(w, c, d)
<1>1. PICK t \in Int : w = (64 * v + d) + 65536 * t
  BY DEF Congruent
<1>2. PICK u \in Int : v = 64 * u + c
  BY DEF LowDigit
<1>3. PICK y \in Int : y = u + 16 * t
  OBVIOUS
<1>4. w = 4096 * y + 64 * c + d
  BY <1>1, <1>2, <1>3
<1> SUFFICES \E x \in Int : w = 4096 * x + 64 * c + d
  BY DEF LowDigits
<1> WITNESS y \in Int
<1> QED
  BY <1>4

LEMMA LastTwoDigits ==
  ASSUME NEW w, NEW c \in 0..63, NEW d \in 0..63, LowDigits(w, c, d)
  PROVE  /\ Eight(w, 4) = 4 * c + (d \div 16)
         /\ Eight(w, 2) = (c % 16) * 16 + (d \div 4)
         /\ Eight(w, 0) = (c % 4) * 64 + d
<1>1. PICK y \in Int : w = 4096 * y + 64 * c + d
  BY DEF LowDigits
<1>2. w \in Int /\ c \in Int /\ d \in Int
  BY <1>1
<1>3. /\ Eight(w, 0) = w % 256 /\ Eight(w, 2) = (w \div 4) % 256
      /\ Eight(w, 4) = (w \div 16) % 256
  BY <1>2, EightIs
<1>4. Eight(w, 4) = 4 * c + (d \div 16)
  <2>1. PICK e \in Int : e = d \div 16 /\ 0 <= e /\ e < 4
    OBVIOUS
  <2>2. w \div 16 = 256 * y + (4 * c + e)
    BY <1>1, <2>1
  <2>3. 0 <= 4 * c + e /\ 4 * c + e < 256
    BY <2>1
  <2>4. (256 * y + (4 * c + e)) % 256 = 4 * c + e
    BY <2>3
  <2> QED
    BY <1>3, <2>1, <2>2, <2>4
<1>5. Eight(w, 2) = (c % 16) * 16 + (d \div 4)
  <2>1. PICK e \in Int : e = d \div 4 /\ 0 <= e /\ e < 16
    OBVIOUS
  <2>2. PICK h \in Int, l \in Int : c = 16 * h + l /\ 0 <= l /\ l < 16 /\ l = c % 16
    <3>1. /\ c = 16 * (c \div 16) + (c % 16) /\ 0 <= c % 16 /\ c % 16 < 16
          /\ c \div 16 \in Int /\ c % 16 \in Int
      OBVIOUS
    <3> QED
      BY <3>1
  <2>3. w \div 4 = 1024 * y + 16 * c + e
    BY <1>1, <2>1
  <2>4. 1024 * y + 16 * c + e = 256 * (4 * y + h) + (16 * l + e)
    BY <2>2
  <2>5. 0 <= 16 * l + e /\ 16 * l + e < 256
    BY <2>1, <2>2
  <2>6. (256 * (4 * y + h) + (16 * l + e)) % 256 = 16 * l + e
    BY <2>5
  <2> QED
    BY <1>3, <2>1, <2>2, <2>3, <2>4, <2>6
<1>6. Eight(w, 0) = (c % 4) * 64 + d
  <2>1. PICK h \in Int, l \in Int : c = 4 * h + l /\ 0 <= l /\ l < 4 /\ l = c % 4
    <3>1. /\ c = 4 * (c \div 4) + (c % 4) /\ 0 <= c % 4 /\ c % 4 < 4
          /\ c \div 4 \in Int /\ c % 4 \in Int
      OBVIOUS
    <3> QED
      BY <3>1
  <2>2. w = 256 * (16 * y + h) + (64 * l + d)
    BY <1>1, <2>1
  <2>3. 0 <= 64 * l + d /\ 64 * l + d < 256
    BY <2>1
  <2>4. (256 * (16 * y + h) + (64 * l + d)) % 256 = 64 * l + d
    BY <2>3
  <2> QED
    BY <1>3, <2>1, <2>2, <2>4
<1> QED
  BY <1>4, <1>5, <1>6

(* The six bits of four characters are the eight bits of three bytes.      *)
LEMMA Together ==
  ASSUME NEW a \in Octets, NEW b \in Octets, NEW c \in Octets
  PROVE  /\ a \div 4 \in 0..63 /\ (a % 4) * 16 + (b \div 16) \in 0..63
         /\ (b % 16) * 4 + (c \div 64) \in 0..63 /\ c % 64 \in 0..63
         /\ 4 * (a \div 4) + (((a % 4) * 16 + (b \div 16)) \div 16) = a
         /\ (((a % 4) * 16 + (b \div 16)) % 16) * 16
              + (((b % 16) * 4 + (c \div 64)) \div 4) = b
         /\ (((b % 16) * 4 + (c \div 64)) % 4) * 64 + (c % 64) = c
<1>1. a \in 0..255 /\ b \in 0..255 /\ c \in 0..255
  BY DEF Octets
<1>2. PICK a1 \in 0..63, a2 \in 0..3 : a = 4 * a1 + a2 /\ a1 = a \div 4 /\ a2 = a % 4
  <2>1. a = 4 * (a \div 4) + (a % 4) /\ a \div 4 \in 0..63 /\ a % 4 \in 0..3
    BY <1>1
  <2> QED
    BY <2>1
<1>3. PICK b1 \in 0..15, b2 \in 0..15 : b = 16 * b1 + b2 /\ b1 = b \div 16 /\ b2 = b % 16
  <2>1. b = 16 * (b \div 16) + (b % 16) /\ b \div 16 \in 0..15 /\ b % 16 \in 0..15
    BY <1>1
  <2> QED
    BY <2>1
<1>4. PICK c1 \in 0..3, c2 \in 0..63 : c = 64 * c1 + c2 /\ c1 = c \div 64 /\ c2 = c % 64
  <2>1. c = 64 * (c \div 64) + (c % 64) /\ c \div 64 \in 0..3 /\ c % 64 \in 0..63
    BY <1>1
  <2> QED
    BY <2>1
<1>5. /\ 16 * a2 + b1 \in 0..63 /\ (16 * a2 + b1) \div 16 = a2 /\ (16 * a2 + b1) % 16 = b1
  BY <1>2, <1>3
<1>6. /\ 4 * b2 + c1 \in 0..63 /\ (4 * b2 + c1) \div 4 = b2 /\ (4 * b2 + c1) % 4 = c1
  BY <1>3, <1>4
<1>7. /\ (a % 4) * 16 + (b \div 16) = 16 * a2 + b1
      /\ (b % 16) * 4 + (c \div 64) = 4 * b2 + c1
  BY <1>2, <1>3, <1>4
<1>8. 4 * (a \div 4) + (((a % 4) * 16 + (b \div 16)) \div 16) = a
  BY <1>2, <1>5, <1>7
<1>9. (((a % 4) * 16 + (b \div 16)) % 16) * 16 + (((b % 16) * 4 + (c \div 64)) \div 4) = b
  BY <1>3, <1>5, <1>6, <1>7
<1>10. (((b % 16) * 4 + (c \div 64)) % 4) * 64 + (c % 64) = c
  BY <1>4, <1>6, <1>7
<1> QED
  BY <1>2, <1>4, <1>5, <1>6, <1>7, <1>8, <1>9, <1>10

LEMMA SextetIn ==
  ASSUME NEW bytes \in Texts, NEW k \in Nat \ {0}
  PROVE  Sextet(bytes, k) \in Sixes
<1>1. PICK q \in Nat, j \in {0, 1, 2, 3} : k = 4 * q + j + 1
  <2>1. (k - 1) \div 4 \in Nat /\ (k - 1) % 4 \in {0, 1, 2, 3}
        /\ k = 4 * ((k - 1) \div 4) + ((k - 1) % 4) + 1
    OBVIOUS
  <2> QED
    BY <2>1
<1>2. PICK a \in Octets, b \in Octets, c \in Octets :
        /\ a = ByteAt(bytes, 3 * q + 1) /\ b = ByteAt(bytes, 3 * q + 2)
        /\ c = ByteAt(bytes, 3 * q + 3)
  <2>1. 3 * q + 1 \in Nat \ {0} /\ 3 * q + 2 \in Nat \ {0} /\ 3 * q + 3 \in Nat \ {0}
    OBVIOUS
  <2> QED
    BY <2>1, ByteAtRange
<1>3. /\ Sextet(bytes, 4 * q + 1) = a \div 4
      /\ Sextet(bytes, 4 * q + 2) = (a % 4) * 16 + (b \div 16)
      /\ Sextet(bytes, 4 * q + 3) = (b % 16) * 4 + (c \div 64)
      /\ Sextet(bytes, 4 * q + 4) = c % 64
  BY <1>2, SextetAt
<1>4. /\ a \div 4 \in Sixes /\ (a % 4) * 16 + (b \div 16) \in Sixes
      /\ (b % 16) * 4 + (c \div 64) \in Sixes /\ c % 64 \in Sixes
  BY <1>2, Together DEF Sixes
<1>5. /\ Sextet(bytes, 4 * q + 1) \in Sixes /\ Sextet(bytes, 4 * q + 2) \in Sixes
      /\ Sextet(bytes, 4 * q + 3) \in Sixes /\ Sextet(bytes, 4 * q + 4) \in Sixes
  BY <1>3, <1>4
<1>6. k = 4 * q + 1 \/ k = 4 * q + 2 \/ k = 4 * q + 3 \/ k = 4 * q + 4
  BY <1>1
<1> QED
  BY <1>5, <1>6

(* The states of the loop, by how many bits are due.                       *)
DecodeStates == [val : Int, valb : {-8, -2, -4, -6}, out : Texts]

DigitIn(st, d) == Word(st.val * 64 + d)

LEMMA DecodeDigitIs ==
  ASSUME NEW st \in DecodeStates, NEW d, NEW w, w = DigitIn(st, d)
  PROVE  /\ st.valb = -8 =>
              DecodeDigit(st, d) = [val |-> w, valb |-> -2, out |-> st.out]
         /\ st.valb = -2 =>
              DecodeDigit(st, d) = [val |-> w, valb |-> -4, out |-> Append(st.out, Eight(w, 4))]
         /\ st.valb = -4 =>
              DecodeDigit(st, d) = [val |-> w, valb |-> -6, out |-> Append(st.out, Eight(w, 2))]
         /\ st.valb = -6 =>
              DecodeDigit(st, d) = [val |-> w, valb |-> -8, out |-> Append(st.out, Eight(w, 0))]
<1>1. PICK x : x = st.valb + 6
  OBVIOUS
<1>2. DecodeDigit(st, d) =
        IF x >= 0 THEN [val |-> w, valb |-> x - 8, out |-> Append(st.out, Eight(w, x))]
                  ELSE [val |-> w, valb |-> x, out |-> st.out]
  BY <1>1 DEF DecodeDigit, DigitIn, Eight
<1>3. /\ st.valb = -8 => x = -2 /\ ~ (x >= 0)
      /\ st.valb = -2 => x = 4 /\ x >= 0 /\ x - 8 = -4
      /\ st.valb = -4 => x = 2 /\ x >= 0 /\ x - 8 = -6
      /\ st.valb = -6 => x = 0 /\ x >= 0 /\ x - 8 = -8
  BY <1>1
<1> QED
  BY <1>2, <1>3

LEMMA DecodeTyped ==
  ASSUME NEW st \in DecodeStates, NEW d \in Sixes
  PROVE  DecodeDigit(st, d) \in DecodeStates
<1>1. st.val \in Int /\ st.valb \in {-8, -2, -4, -6} /\ st.out \in Texts
  BY DEF DecodeStates
<1>2. PICK w : w = DigitIn(st, d)
  OBVIOUS
<1>3. w \in Int
  <2>1. PICK z \in Int : z = st.val * 64 + d
    BY <1>1 DEF Sixes
  <2> QED
    BY <1>2, <2>1, WordIs DEF DigitIn
<1>4. /\ Append(st.out, Eight(w, 4)) \in Texts /\ Append(st.out, Eight(w, 2)) \in Texts
      /\ Append(st.out, Eight(w, 0)) \in Texts
  <2>1. Eight(w, 4) \in Octets /\ Eight(w, 2) \in Octets /\ Eight(w, 0) \in Octets
    BY <1>3, EightIs
  <2> QED
    BY <1>1, <2>1 DEF Texts
<1>5. CASE st.valb = -8
  <2>1. DecodeDigit(st, d) = [val |-> w, valb |-> -2, out |-> st.out]
    BY <1>2, <1>5, DecodeDigitIs
  <2> QED
    BY <1>1, <1>3, <2>1 DEF DecodeStates
<1>6. CASE st.valb = -2
  <2>1. DecodeDigit(st, d) = [val |-> w, valb |-> -4, out |-> Append(st.out, Eight(w, 4))]
    BY <1>2, <1>6, DecodeDigitIs
  <2> QED
    BY <1>3, <1>4, <2>1 DEF DecodeStates
<1>7. CASE st.valb = -4
  <2>1. DecodeDigit(st, d) = [val |-> w, valb |-> -6, out |-> Append(st.out, Eight(w, 2))]
    BY <1>2, <1>7, DecodeDigitIs
  <2> QED
    BY <1>3, <1>4, <2>1 DEF DecodeStates
<1>8. CASE st.valb = -6
  <2>1. DecodeDigit(st, d) = [val |-> w, valb |-> -8, out |-> Append(st.out, Eight(w, 0))]
    BY <1>2, <1>8, DecodeDigitIs
  <2> QED
    BY <1>3, <1>4, <2>1 DEF DecodeStates
<1> QED
  BY <1>1, <1>5, <1>6, <1>7, <1>8

(* After k characters of the encoding: what is in val of the last one, how *)
(* many bytes there are and which.                                         *)
Prefix(bytes, out) == out \in Texts /\ \A i \in 1..Len(out) : out[i] = ByteAt(bytes, i)

Decoded(bytes, k, st) ==
  /\ st \in DecodeStates
  /\ k # 0 => LowDigit(st.val, Sextet(bytes, k))
  /\ \E q \in Nat :
       \/ k = 4 * q /\ st.valb = -8 /\ Len(st.out) = 3 * q
       \/ k = 4 * q + 1 /\ st.valb = -2 /\ Len(st.out) = 3 * q
       \/ k = 4 * q + 2 /\ st.valb = -4 /\ Len(st.out) = 3 * q + 1
       \/ k = 4 * q + 3 /\ st.valb = -6 /\ Len(st.out) = 3 * q + 2
  /\ Prefix(bytes, st.out)

LEMMA OneMoreByte ==
  ASSUME NEW bytes, NEW out, Prefix(bytes, out), NEW k, k = Len(out) + 1,
         NEW d, d \in Octets, d = ByteAt(bytes, k)
  PROVE  Prefix(bytes, Append(out, d)) /\ Len(Append(out, d)) = k
<1>0. out \in Seq(Octets) /\ \A i \in 1..Len(out) : out[i] = ByteAt(bytes, i)
  BY DEF Prefix, Texts
<1>1. /\ Append(out, d) \in Seq(Octets) /\ Len(Append(out, d)) = Len(out) + 1
      /\ Append(out, d)[Len(out) + 1] = d
      /\ \A i \in 1..Len(out) : Append(out, d)[i] = out[i]
  BY <1>0
<1>2. \A i \in 1..(Len(out) + 1) : i \in 1..Len(out) \/ i = Len(out) + 1
  BY <1>0
<1> DEFINE more == Append(out, d)
<1> HIDE DEF more
<1>3. \A i \in 1..Len(more) : more[i] = ByteAt(bytes, i)
  BY <1>0, <1>1, <1>2 DEF more
<1> QED
  BY <1>1, <1>3 DEF more, Prefix, Texts

DecodeStart == [val |-> 0, valb |-> -8, out |-> <<>>]

LEMMA DecodedStart ==
  ASSUME NEW bytes \in Texts
  PROVE  Decoded(bytes, 0, DecodeStart)
<1>1. DecodeStart.valb = -8 /\ DecodeStart.out = <<>> /\ DecodeStart.val = 0
  BY DEF DecodeStart
<1>2. <<>> \in Texts
  BY DEF Texts
<1>3. DecodeStart \in DecodeStates
  BY <1>2 DEF DecodeStart, DecodeStates
<1>4. 0 = 4 * 0 /\ Len(<<>>) = 3 * 0 /\ 0 \in Nat /\ 1..0 = {}
  OBVIOUS
<1>5. Prefix(bytes, <<>>)
  BY <1>2, <1>4 DEF Prefix
<1> QED
  BY <1>1, <1>3, <1>4, <1>5 DEF Decoded

LEMMA DecodedStep ==
  ASSUME NEW bytes \in Texts, NEW k \in Nat, NEW st, Decoded(bytes, k, st)
  PROVE  Decoded(bytes, k + 1, DecodeDigit(st, Sextet(bytes, k + 1)))
<1>1. PICK d \in Sixes : d = Sextet(bytes, k + 1)
  <2>1. k + 1 \in Nat \ {0}
    OBVIOUS
  <2> QED
    BY <2>1, SextetIn
<1>2. /\ st \in DecodeStates /\ st.val \in Int /\ st.out \in Texts /\ Prefix(bytes, st.out)
  BY DEF Decoded, DecodeStates
<1>3. PICK next, w : next = DecodeDigit(st, d) /\ w = DigitIn(st, d)
  OBVIOUS
<1> SUFFICES Decoded(bytes, k + 1, next)
  BY <1>1, <1>3
<1>4. next \in DecodeStates
  BY <1>1, <1>2, <1>3, DecodeTyped
<1>5. PICK v \in Int, z \in Int : v = st.val /\ z = 64 * v + d /\ Congruent(w, z)
  <2>1. PICK v \in Int, z \in Int : v = st.val /\ z = v * 64 + d
    BY <1>1, <1>2 DEF Sixes
  <2>2. w = Word(z) /\ z = 64 * v + d
    BY <1>1, <1>3, <2>1 DEF Sixes, DigitIn
  <2> QED
    BY <2>1, <2>2, WordIs
<1>6. d \in 0..63 /\ d \in Int
  BY <1>1 DEF Sixes
<1>7. w \in Int /\ LowDigit(w, Sextet(bytes, k + 1))
  BY <1>1, <1>5, <1>6, NextLowDigit
<1>8. ASSUME k # 0
      PROVE  \E c \in 0..63 : Sextet(bytes, k) = c /\ LowDigits(w, c, d)
  <2>1. PICK c \in Sixes : c = Sextet(bytes, k)
    BY <1>8, SextetIn
  <2>2. LowDigit(v, c)
    BY <1>5, <1>8, <2>1 DEF Decoded
  <2>3. c \in 0..63 /\ c \in Int
    BY <2>1 DEF Sixes
  <2>4. LowDigits(w, c, d)
    BY <1>5, <1>6, <2>2, <2>3, NextLowDigits
  <2> QED
    BY <2>1, <2>3, <2>4
<1>9. PICK q \in Nat :
       \/ k = 4 * q /\ st.valb = -8 /\ Len(st.out) = 3 * q
       \/ k = 4 * q + 1 /\ st.valb = -2 /\ Len(st.out) = 3 * q
       \/ k = 4 * q + 2 /\ st.valb = -4 /\ Len(st.out) = 3 * q + 1
       \/ k = 4 * q + 3 /\ st.valb = -6 /\ Len(st.out) = 3 * q + 2
  BY DEF Decoded
<1>10. PICK a \in Octets, b \in Octets, c \in Octets :
        /\ a = ByteAt(bytes, 3 * q + 1) /\ b = ByteAt(bytes, 3 * q + 2)
        /\ c = ByteAt(bytes, 3 * q + 3)
  <2>1. 3 * q + 1 \in Nat \ {0} /\ 3 * q + 2 \in Nat \ {0} /\ 3 * q + 3 \in Nat \ {0}
    OBVIOUS
  <2> QED
    BY <2>1, ByteAtRange
<1>11. /\ Sextet(bytes, 4 * q + 1) = a \div 4
       /\ Sextet(bytes, 4 * q + 2) = (a % 4) * 16 + (b \div 16)
       /\ Sextet(bytes, 4 * q + 3) = (b % 16) * 4 + (c \div 64)
       /\ Sextet(bytes, 4 * q + 4) = c % 64
  BY <1>10, SextetAt
<1>12. Eight(w, 0) \in Octets /\ Eight(w, 2) \in Octets /\ Eight(w, 4) \in Octets
  BY <1>7, EightIs
<1>13. CASE k = 4 * q /\ st.valb = -8 /\ Len(st.out) = 3 * q
  <2>1. next = [val |-> w, valb |-> -2, out |-> st.out]
    BY <1>2, <1>3, <1>13, DecodeDigitIs
  <2>2. next.val = w /\ next.valb = -2 /\ next.out = st.out
    BY <2>1
  <2>3. k + 1 = 4 * q + 1
    BY <1>13
  <2> QED
    BY <1>2, <1>4, <1>7, <1>13, <2>2, <2>3 DEF Decoded
<1>14. CASE k = 4 * q + 1 /\ st.valb = -2 /\ Len(st.out) = 3 * q
  <2>1. next = [val |-> w, valb |-> -4, out |-> Append(st.out, Eight(w, 4))]
    BY <1>2, <1>3, <1>14, DecodeDigitIs
  <2>2. next.val = w /\ next.valb = -4 /\ next.out = Append(st.out, Eight(w, 4))
    BY <2>1
  <2>3. k # 0 /\ k = 4 * q + 1 /\ k + 1 = 4 * q + 2 /\ 3 * q + 1 = Len(st.out) + 1
    BY <1>14
  <2>4. PICK e \in 0..63 : Sextet(bytes, k) = e /\ LowDigits(w, e, d)
    BY <1>8, <2>3
  <2>5. e = a \div 4 /\ d = (a % 4) * 16 + (b \div 16)
    BY <1>1, <1>11, <2>3, <2>4
  <2>6. Eight(w, 4) = 4 * e + (d \div 16)
    BY <1>6, <2>4, LastTwoDigits
  <2>7. 4 * (a \div 4) + (((a % 4) * 16 + (b \div 16)) \div 16) = a
    BY <1>10, Together
  <2>8. Eight(w, 4) = a
    BY <2>5, <2>6, <2>7
  <2>9. PICK m : m = 3 * q + 1
    OBVIOUS
  <2>10. Eight(w, 4) = ByteAt(bytes, m) /\ m = Len(st.out) + 1
    BY <1>10, <2>3, <2>8, <2>9
  <2>11. Prefix(bytes, next.out) /\ Len(next.out) = m
    BY <1>2, <1>12, <2>2, <2>10, OneMoreByte
  <2> QED
    BY <1>4, <1>7, <2>2, <2>3, <2>9, <2>11 DEF Decoded
<1>15. CASE k = 4 * q + 2 /\ st.valb = -4 /\ Len(st.out) = 3 * q + 1
  <2>1. next = [val |-> w, valb |-> -6, out |-> Append(st.out, Eight(w, 2))]
    BY <1>2, <1>3, <1>15, DecodeDigitIs
  <2>2. next.val = w /\ next.valb = -6 /\ next.out = Append(st.out, Eight(w, 2))
    BY <2>1
  <2>3. k # 0 /\ k = 4 * q + 2 /\ k + 1 = 4 * q + 3 /\ 3 * q + 2 = Len(st.out) + 1
    BY <1>15
  <2>4. PICK e \in 0..63 : Sextet(bytes, k) = e /\ LowDigits(w, e, d)
    BY <1>8, <2>3
  <2>5. e = (a % 4) * 16 + (b \div 16) /\ d = (b % 16) * 4 + (c \div 64)
    BY <1>1, <1>11, <2>3, <2>4
  <2>6. Eight(w, 2) = (e % 16) * 16 + (d \div 4)
    BY <1>6, <2>4, LastTwoDigits
  <2>7. (((a % 4) * 16 + (b \div 16)) % 16) * 16 + (((b % 16) * 4 + (c \div 64)) \div 4) = b
    BY <1>10, Together
  <2>8. Eight(w, 2) = b
    BY <2>5, <2>6, <2>7
  <2>9. PICK m : m = 3 * q + 2
    OBVIOUS
  <2>10. Eight(w, 2) = ByteAt(bytes, m) /\ m = Len(st.out) + 1
    BY <1>10, <2>3, <2>8, <2>9
  <2>11. Prefix(bytes, next.out) /\ Len(next.out) = m
    BY <1>2, <1>12, <2>2, <2>10, OneMoreByte
  <2> QED
    BY <1>4, <1>7, <2>2, <2>3, <2>9, <2>11 DEF Decoded
<1>16. CASE k = 4 * q + 3 /\ st.valb = -6 /\ Len(st.out) = 3 * q + 2
  <2>1. next = [val |-> w, valb |-> -8, out |-> Append(st.out, Eight(w, 0))]
    BY <1>2, <1>3, <1>16, DecodeDigitIs
  <2>2. next.val = w /\ next.valb = -8 /\ next.out = Append(st.out, Eight(w, 0))
    BY <2>1
  <2>3. k # 0 /\ k = 4 * q + 3 /\ k + 1 = 4 * q + 4 /\ 3 * q + 3 = Len(st.out) + 1
    BY <1>16
  <2>4. PICK e \in 0..63 : Sextet(bytes, k) = e /\ LowDigits(w, e, d)
    BY <1>8, <2>3
  <2>5. e = (b % 16) * 4 + (c \div 64) /\ d = c % 64
    BY <1>1, <1>11, <2>3, <2>4
  <2>6. Eight(w, 0) = (e % 4) * 64 + d
    BY <1>6, <2>4, LastTwoDigits
  <2>7. (((b % 16) * 4 + (c \div 64)) % 4) * 64 + (c % 64) = c
    BY <1>10, Together
  <2>8. Eight(w, 0) = c
    BY <2>5, <2>6, <2>7
  <2>9. PICK m, p \in Nat : m = 3 * q + 3 /\ p = q + 1
    OBVIOUS
  <2>10. Eight(w, 0) = ByteAt(bytes, m) /\ m = Len(st.out) + 1
    BY <1>10, <2>3, <2>8, <2>9
  <2>11. Prefix(bytes, next.out) /\ Len(next.out) = m
    BY <1>2, <1>12, <2>2, <2>10, OneMoreByte
  <2>12. k + 1 = 4 * p /\ m = 3 * p
    BY <2>3, <2>9
  <2> QED
    BY <1>4, <1>7, <2>2, <2>9, <2>11, <2>12 DEF Decoded
<1> QED
  BY <1>9, <1>13, <1>14, <1>15, <1>16

LEMMA AllDecoded ==
  ASSUME NEW bytes \in Texts, NEW digits, Characters(bytes, digits)
  PROVE  Decoded(bytes, Len(digits), FoldLeft(DecodeDigit, DecodeStart, digits))
<1>1. DecodeStart \in DecodeStates
  BY DecodedStart DEF Decoded
<1>2. digits \in Seq(Sixes) /\ \A i \in 1..Len(digits) : digits[i] = Sextet(bytes, i)
  BY DEF Characters
<1>3. PICK r : DecodeRounds(r, DecodeStates, DecodeStart, digits)
  BY <1>1, <1>2, DecodeTyped, FoldOfDecodeDigit
<1>4. PICK n \in Nat : n = Len(digits)
  BY <1>2
<1> DEFINE G == {k \in 0..n : Decoded(bytes, k, r[k])}
<1>5. 0 \in G
  BY <1>3, DecodedStart DEF DecodeRounds
<1>6. ASSUME NEW k \in 0..(n - 1), k \in G PROVE k + 1 \in G
  <2>1. k \in Nat /\ k + 1 \in 1..n /\ k + 1 \in 0..n /\ (k + 1) - 1 = k
    OBVIOUS
  <2>2. Decoded(bytes, k, r[k])
    BY <1>6
  <2>3. r[k + 1] = DecodeDigit(r[k], digits[k + 1]) /\ digits[k + 1] = Sextet(bytes, k + 1)
    BY <1>2, <1>3, <1>4, <2>1 DEF DecodeRounds
  <2> HIDE DEF G
  <2>4. Decoded(bytes, k + 1, DecodeDigit(r[k], Sextet(bytes, k + 1)))
    BY <2>1, <2>2, DecodedStep
  <2>5. Decoded(bytes, k + 1, r[k + 1])
    BY <2>3, <2>4
  <2> QED
    BY <2>1, <2>5 DEF G
<1>7. n \in G
  <2> HIDE DEF G
  <2>1. 0..n \subseteq G
    BY <1>5, <1>6, InductionTo
  <2> QED
    BY <2>1
<1> QED
  BY <1>3, <1>4, <1>7 DEF DecodeRounds

(* The padding is where the digits end.                                    *)
DigitsOf(chars) ==
  LET pads == {i \in DOMAIN chars : chars[i] = Pad}
  IN  IF pads = {} THEN chars ELSE SubSeq(chars, 1, CHOOSE k \in 0..Len(chars) :
        k + 1 \in pads /\ \A i \in pads : k < i)

LEMMA DigitsOfIs ==
  ASSUME NEW S, NEW chars \in Seq(S), NEW out \in Seq(Sixes), NEW l \in Nat, l = Len(out),
         NEW p \in Nat, p = Len(chars), l <= p,
         \A i \in 1..p : chars[i] = IF i <= l THEN out[i] ELSE Pad
  PROVE  DigitsOf(chars) = out
<1>1. \A i \in 1..l : out[i] \in Sixes /\ out[i] # Pad
  <2>1. \A i \in 1..l : out[i] \in Sixes
    OBVIOUS
  <2>2. \A x \in Sixes : x # Pad
    BY DEF Sixes, Pad
  <2> QED
    BY <2>1, <2>2
<1> DEFINE pads == {i \in DOMAIN chars : chars[i] = Pad}
<1>2. DigitsOf(chars) = IF pads = {} THEN chars ELSE SubSeq(chars, 1, CHOOSE k \in 0..p :
                          k + 1 \in pads /\ \A i \in pads : k < i)
  BY DEF DigitsOf
<1>3. DOMAIN chars = 1..p
  OBVIOUS
<1>4. \A i \in 1..p : i \in pads <=> i > l
  BY <1>1, <1>3
<1>5. pads \subseteq 1..p
  BY <1>3
<1> HIDE DEF pads
<1>6. CASE l = p
  <2>1. pads = {}
    BY <1>4, <1>5, <1>6
  <2>2. DigitsOf(chars) = chars
    BY <1>2, <2>1
  <2>3. \A i \in 1..Len(chars) : chars[i] = out[i]
    BY <1>6
  <2>4. chars = out
    <3>1. PICK T : T = S \cup Sixes
      OBVIOUS
    <3>2. chars \in Seq(T) /\ out \in Seq(T) /\ Len(chars) = Len(out)
      BY <1>6, <3>1
    <3> QED
      BY <2>3, <3>2, SeqEqual
  <2> QED
    BY <2>2, <2>4
<1>7. CASE l # p
  <2>1. l + 1 \in pads /\ \A i \in pads : l < i
    BY <1>4, <1>5, <1>7
  <2>2. \A k \in 0..p : (k + 1 \in pads /\ \A i \in pads : k < i) => k = l
    <3> SUFFICES ASSUME NEW k \in 0..p, k + 1 \in pads, \A i \in pads : k < i PROVE k = l
      OBVIOUS
    <3>1. l < k + 1 /\ k < l + 1
      BY <2>1
    <3> QED
      BY <3>1
  <2>3. l \in 0..p
    OBVIOUS
  <2>4. (CHOOSE k \in 0..p : k + 1 \in pads /\ \A i \in pads : k < i) = l
    BY <2>1, <2>2, <2>3
  <2>5. DigitsOf(chars) = SubSeq(chars, 1, l)
    BY <1>2, <2>1, <2>4
  <2>6. PICK sub : sub = SubSeq(chars, 1, l)
    OBVIOUS
  <2>7. sub \in Seq(S) /\ Len(sub) = l /\ \A i \in 1..l : sub[i] = chars[i]
    BY <2>6, SubSeqProperties
  <2>8. \A i \in 1..Len(sub) : sub[i] = out[i]
    BY <2>7
  <2>9. sub = out
    <3>1. PICK T : T = S \cup Sixes
      OBVIOUS
    <3>2. sub \in Seq(T) /\ out \in Seq(T) /\ Len(sub) = Len(out)
      BY <2>7, <3>1
    <3> QED
      BY <2>8, <3>2, SeqEqual
  <2> QED
    BY <2>5, <2>6, <2>9
<1> QED
  BY <1>6, <1>7

(* base64_decode restores any text from its encoding.                      *)
THEOREM DecodeRestores ==
  ASSUME NEW bytes \in Texts
  PROVE  Decode(Encode(bytes)) = bytes
<1>1. PICK st : st = FoldLeft(EncodeByte, EncodeStart, bytes)
  OBVIOUS
<1>2. PICK out, chars : out = WithTail(st) /\ chars = Padded(out)
  OBVIOUS
<1>3. Encode(bytes) = chars
  BY <1>1, <1>2 DEF Encode, EncodeStart
<1>4. Encoded(bytes, Len(bytes), st)
  BY <1>1, AllEncoded
<1>5. PICK n \in Nat : n = Len(bytes)
  BY DEF Texts
<1>6. PICK q \in Nat, p \in Nat : Characters(bytes, out) /\ Sizes(n, q, Len(out), p)
  BY <1>2, <1>4, <1>5, TailIs
<1>7. PICK l \in Nat : out \in Seq(Sixes) /\ l = Len(out)
  BY <1>6 DEF Characters
<1>8. /\ chars \in Seq(Sixes \cup {Pad}) /\ Len(chars) = p /\ l <= p
      /\ \A i \in 1..p : chars[i] = IF i <= l THEN out[i] ELSE Pad
  BY <1>2, <1>6, <1>7, PaddedIs
<1>9. DigitsOf(chars) = out
  BY <1>7, <1>8, DigitsOfIs
<1>10. PICK end : end = FoldLeft(DecodeDigit, DecodeStart, out)
  OBVIOUS
<1>11. Decode(chars) = end.out
  <2>1. Decode(chars) = FoldLeft(DecodeDigit, DecodeStart, DigitsOf(chars)).out
    BY Zenon DEF Decode, DigitsOf, DecodeStart
  <2> QED
    BY <1>9, <1>10, <2>1
<1>12. Decoded(bytes, l, end)
  BY <1>6, <1>7, <1>10, AllDecoded
<1>13. Prefix(bytes, end.out)
  BY <1>12 DEF Decoded
<1>14. Len(end.out) = n
  <2>1. PICK m \in Nat : m = Len(end.out)
    BY <1>13 DEF Prefix, Texts
  <2>2. PICK t \in Nat :
       \/ l = 4 * t /\ m = 3 * t
       \/ l = 4 * t + 1 /\ m = 3 * t
       \/ l = 4 * t + 2 /\ m = 3 * t + 1
       \/ l = 4 * t + 3 /\ m = 3 * t + 2
    BY <1>12, <2>1 DEF Decoded
  <2>3. \/ n = 3 * q /\ l = 4 * q
        \/ n = 3 * q + 1 /\ l = 4 * q + 2
        \/ n = 3 * q + 2 /\ l = 4 * q + 3
    BY <1>6, <1>7 DEF Sizes
  <2>4. m = n
    BY <2>2, <2>3
  <2> QED
    BY <2>1, <2>4
<1>15. \A i \in 1..n : end.out[i] = bytes[i]
  <2> SUFFICES ASSUME NEW i \in 1..n PROVE end.out[i] = bytes[i]
    OBVIOUS
  <2>1. end.out[i] = ByteAt(bytes, i)
    BY <1>13, <1>14 DEF Prefix
  <2>2. ByteAt(bytes, i) = bytes[i]
    BY <1>5, ByteIs
  <2> QED
    BY <2>1, <2>2
<1>16. end.out = bytes
  BY <1>5, <1>13, <1>14, <1>15, SeqEqual DEF Prefix, Texts
<1> QED
  BY <1>3, <1>11, <1>16

-----------------------------------------------------------------------------
(* The specification that TLC checks: the commands, and beside them a text *)
(* that grows.                                                             *)
MCInv == Inv /\ text \in Texts

LEMMA MCInitInv == MCInit => MCInv
<1>1. <<>> \in Texts
  BY DEF Texts
<1> QED
  BY <1>1, InitInv DEF MCInit, MCInv

LEMMA MCNextInv == MCInv /\ [MCNext]_<<vars, text>> => MCInv'
<1> SUFFICES ASSUME MCInv, [MCNext]_<<vars, text>> PROVE MCInv'
  OBVIOUS
<1>1. Inv /\ text \in Texts
  BY DEF MCInv
<1>2. CASE Next /\ UNCHANGED text
  BY <1>1, <1>2, NextInv DEF MCInv
<1>3. CASE Feed
  <2>1. PICK b \in Bytes : text' = Append(text, b)
    BY <1>3 DEF Feed
  <2>2. b \in Octets
    BY DEF Bytes, Octets
  <2>3. text' \in Texts
    BY <1>1, <2>1, <2>2 DEF Texts
  <2>4. UNCHANGED vars
    BY <1>3 DEF Feed
  <2>5. Inv'
    BY <1>1, <2>4, NextInv
  <2> QED
    BY <2>3, <2>5 DEF MCInv
<1>4. CASE UNCHANGED <<vars, text>>
  <2>1. UNCHANGED vars /\ text' = text
    BY <1>4
  <2> QED
    BY <1>1, <2>1, NextInv DEF MCInv
<1> QED
  BY <1>2, <1>3, <1>4 DEF MCNext

(* The invariant of the commands holds beside the text too.                *)
THEOREM MCInvariance == MCSpec => []MCInv
  BY MCInitInv, MCNextInv, PTL DEF MCSpec

(* From wherever a session is, a relative path leads where it leads in a   *)
(* shell, unless it climbs beyond the root.                                *)
THEOREM PathsLikeShell == MCSpec => []ResolvesLikeShell
<1>1. Inv => ResolvesLikeShell
  <2> SUFFICES ASSUME Inv, NEW s \in live, NEW parts \in RelativePaths
               PROVE  ResolvesLikeShellFrom(cwd[s], parts)
    BY DEF ResolvesLikeShell
  <2>1. cwd[s] \in Places
    BY DEF Inv, TreeOK, Good
  <2>2. PICK n \in 0..MaxParts : parts \in [1..n -> Parts]
    BY PartsAssumption DEF RelativePaths, BoundedSeq, SeqOf, Parts
  <2>3. parts \in Seq(Parts)
    BY <2>2, PartsAssumption
  <2> QED
    BY <2>1, <2>3, EveryPathLikeShell
<1> QED
  BY <1>1, MCInvariance, PTL DEF MCInv

(* Whatever text base64_encode has been given, its result is the standard  *)
(* one, and base64_decode restores the text.                               *)
THEOREM EncodingRight == MCSpec => []Base64Right
<1>1. text \in Texts => Base64Right
  BY EncodeStandard, DecodeRestores DEF Base64Right, Base64RightOf
<1> QED
  BY <1>1, MCInvariance, PTL DEF MCInv
=============================================================================
