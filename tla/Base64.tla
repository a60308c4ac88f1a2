------------------------------- MODULE Base64 ------------------------------
(***************************************************************************)
(* base64_encode and base64_decode of CompressUtil.hpp (the same file on   *)
(* both sides).  Both shift their input through one int, val, whose upper  *)
(* bits overflow after a few characters, and count in valb how many bits   *)
(* of it are due.  A character of the encoding is its index in the table,  *)
(* or Pad.                                                                 *)
(***************************************************************************)
EXTENDS Integers, SequencesExt

CONSTANT WordSize  (* how many values an int has: 2 to the number of bits  *)

ASSUME WordSizeAssumption == WordSize \in Nat \ {0} /\ WordSize % 65536 = 0

Pad == 64

(* Two's complement: the value n leaves in val, and val >> k.              *)
Word(n) == ((n + WordSize \div 2) % WordSize) - WordSize \div 2
ShiftRight(v, k) == v \div 2^k

(* The characters of the valb + 6 bits that are due.                        *)
Digits(val, valb) ==
  [i \in 1..(valb \div 6 + 1) |-> ShiftRight(val, valb - 6 * (i - 1)) % 64]

EncodeByte(st, c) ==
  LET val    == Word(st.val * 256 + c)
      digits == Digits(val, st.valb + 8)
  IN  [val |-> val, valb |-> st.valb + 8 - 6 * Len(digits), out |-> st.out \o digits]

(* Slip: the bits left over are not encoded.                               *)
TailDropped(st) == st.out

(* The bits left over, filled up with zeros.                               *)
WithTail(st) ==
  IF st.valb > -6
  THEN Append(st.out, ShiftRight(Word(st.val * 256), st.valb + 8) % 64)
  ELSE st.out

(* Characters come in groups of four.                                      *)
Padded(out) == out \o [i \in 1..((4 - (Len(out) % 4)) % 4) |-> Pad]

Encode(bytes) ==
  Padded(WithTail(FoldLeft(EncodeByte, [val |-> 0, valb |-> -6, out |-> <<>>], bytes)))

DecodeDigit(st, d) ==
  LET val  == Word(st.val * 64 + d)
      valb == st.valb + 6
  IN  IF valb >= 0
      THEN [val |-> val, valb |-> valb - 8,
            out |-> Append(st.out, ShiftRight(val, valb) % 256)]
      ELSE [val |-> val, valb |-> valb, out |-> st.out]

(* Decoding stops at the first character that is not in the table.         *)
Decode(chars) ==
  LET pads   == {i \in DOMAIN chars : chars[i] = Pad}
      digits == IF pads = {} THEN chars ELSE SubSeq(chars, 1, CHOOSE k \in 0..Len(chars) :
                  k + 1 \in pads /\ \A i \in pads : k < i)
  IN  FoldLeft(DecodeDigit, [val |-> 0, valb |-> -8, out |-> <<>>], digits).out

-----------------------------------------------------------------------------
(* The reference (RFC 4648): character k holds the bits 6k to 6k+5 of the  *)
(* bytes, zeros where they end; a multiple of four characters.             *)
Bit(bytes, i) ==
  IF i < 8 * Len(bytes) THEN (bytes[i \div 8 + 1] \div 2^(7 - (i % 8))) % 2 ELSE 0

Character(bytes, k) ==
  IF 6 * k >= 8 * Len(bytes) THEN Pad
  ELSE LET b(j) == Bit(bytes, 6 * k + j)
       IN  32 * b(0) + 16 * b(1) + 8 * b(2) + 4 * b(3) + 2 * b(4) + b(5)

Standard(bytes) ==
  [k \in 1..(4 * ((Len(bytes) + 2) \div 3)) |-> Character(bytes, k - 1)]

(* The encoding of a string is the standard one, and decoding restores it, *)
(* although val has overflowed.                                            *)
Base64RightOf(bytes) ==
  Encode(bytes) = Standard(bytes) /\ Decode(Encode(bytes)) = bytes
=============================================================================
