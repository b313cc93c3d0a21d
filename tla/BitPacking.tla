------------------------------ MODULE BitPacking ------------------------------
(***************************************************************************)
(* How bits are laid out in words: NetIOMP::sendBool and recvBool, packBool  *)
(* and unpackBool, BoolRing::pack and unpack, bitDecompose.  A word is the   *)
(* number it holds.                                                          *)
(***************************************************************************)
EXTENDS Integers, Sequences

CONSTANTS WORDBITS,   \* the width of uint64_t, 64
          BYTEBITS    \* the width of uint8_t, 8

\* With what defines the powers of two that occur.
ASSUME BitPackingAssumption == /\ WORDBITS \in Nat \ {0}
                               /\ BYTEBITS \in Nat \ {0}
                               /\ WORDBITS % BYTEBITS = 0
                               /\ 2 ^ 0 = 1
                               /\ \A j \in 0 .. WORDBITS : 2 ^ (j + 1) = 2 * 2 ^ j

\* How many of len bits go into the word that starts behind bit i.
Filled(i, len, width) == IF len - i < width THEN len - i ELSE width

Words(len, width) == (len + width - 1) \div width

\* Fault: the first bit is the highest of the word.
PackFromHigh(data, i, width) ==
  LET tmp[j \in 0 .. Filled(i, Len(data), width)] ==
        IF j = 0 THEN 0
        ELSE tmp[j - 1] + (IF data[i + j] THEN 2 ^ (width - j) ELSE 0)
  IN  tmp[Filled(i, Len(data), width)]

\* The word that starts behind bit i, first bit lowest; j bits go into tmp[j].
PackFrom(data, i, width) ==
  LET tmp[j \in 0 .. Filled(i, Len(data), width)] ==
        IF j = 0 THEN 0
        ELSE tmp[j - 1] + (IF data[i + j] THEN 2 ^ (j - 1) ELSE 0)
  IN  tmp[Filled(i, Len(data), width)]

\* The bit that is lowest after j shifts to the right.
Shifted(word, j) == (word \div 2 ^ j) % 2 = 1

\* Fault: all bits of a word are kept.
UnpackWholeWord(word, n) == [j \in 1 .. WORDBITS |-> Shifted(word, j - 1)]

\* The n bits of a word that recvBool keeps.
UnpackWord(word, n) == [j \in 1 .. n |-> Shifted(word, j - 1)]

packBool(data) ==
  [k \in 1 .. Words(Len(data), WORDBITS) |-> PackFrom(data, (k - 1) * WORDBITS, WORDBITS)]

unpackBool(packed, len) ==
  [i \in 1 .. len |-> Shifted(packed[(i - 1) \div WORDBITS + 1], (i - 1) % WORDBITS)]

\* BoolRing::pack and unpack.
pack(data) ==
  [k \in 1 .. Words(Len(data), BYTEBITS) |-> PackFrom(data, (k - 1) * BYTEBITS, BYTEBITS)]

unpack(packed, len) ==
  [i \in 1 .. len |-> Shifted(packed[(i - 1) \div BYTEBITS + 1], (i - 1) % BYTEBITS)]

bitDecompose(val) == [i \in 1 .. WORDBITS |-> Shifted(val, i - 1)]
=============================================================================
