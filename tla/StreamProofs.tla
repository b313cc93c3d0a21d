----------------------------- MODULE StreamProofs -----------------------------
(***************************************************************************)
(* Proofs about Relay and BoundedExchange, for every number of nodes, every  *)
(* word size, list and buffer.  Both are about what is under way on a         *)
(* stream: in a relay it is the words between the places of its two ends, in  *)
(* a bounded exchange the units one end has sent and the other not taken.    *)
(***************************************************************************)
EXTENDS Relay, BoundedExchange, OpsProofs

-----------------------------------------------------------------------------
(* Words of bits.                                                            *)

\* The powers of two that occur are positive numbers, each twice the one before.
LEMMA PowerFacts ==
  /\ WORDBITS \in Nat \ {0} /\ BYTEBITS \in Nat \ {0} /\ 2 ^ 0 = 1
  /\ \A j \in 0 .. WORDBITS : 2 ^ j \in Nat \ {0}
  /\ \A j \in 0 .. WORDBITS : 2 ^ (j + 1) = 2 * 2 ^ j
<1> DEFINE W == WORDBITS
           pow(j) == 2 ^ j
           T == {j \in 0 .. W : pow(j) \in Nat \ {0}}
<1>1. /\ W \in Nat \ {0} /\ BYTEBITS \in Nat \ {0} /\ pow(0) = 1
      /\ \A j \in 0 .. W : pow(j + 1) = 2 * pow(j)
  BY BitPackingAssumption
<1> HIDE DEF W, pow
<1>2. 0 \in T
  BY <1>1
<1>3. \A j \in 1 .. W : j - 1 \in T => j \in T
  <2> TAKE j \in 1 .. W
  <2>1. j - 1 \in 0 .. W /\ (j - 1) + 1 = j
    BY <1>1
  <2> QED
    BY <1>1, <2>1
<1>4. \A j \in 0 .. W : j \in T
  <2> HIDE DEF T
  <2> QED
    BY <1>1, <1>2, <1>3, UpTo
<1>5. \A j \in 0 .. W : pow(j) \in Nat \ {0}
  BY <1>4
<1> QED
  BY <1>1, <1>5 DEF W, pow

\* A higher power of two is a multiple of a lower one.
LEMMA PowerDivides ==
  ASSUME NEW k \in 0 .. WORDBITS, NEW j \in 0 .. k
  PROVE  \E q \in Nat : 2 ^ k = 2 ^ j * q
<1> DEFINE W == WORDBITS
           pow(i) == 2 ^ i
           T == {d \in 0 .. k - j : \E q \in Nat : pow(j + d) = pow(j) * q}
<1>1. /\ W \in Nat \ {0} /\ k \in 0 .. W /\ j \in 0 .. k
      /\ \A i \in 0 .. W : pow(i) \in Nat \ {0}
      /\ \A i \in 0 .. W : pow(i + 1) = 2 * pow(i)
  BY PowerFacts
<1> HIDE DEF W, pow
<1>2. 0 \in T
  <2>1. pow(j + 0) = pow(j) * 1 /\ 1 \in Nat /\ 0 \in 0 .. k - j
    <3>1. j + 0 = j /\ pow(j) \in Nat
      BY <1>1
    <3> QED
      BY <1>1, <3>1
  <2> QED
    BY <2>1
<1>3. ASSUME NEW d \in 1 .. k - j, d - 1 \in T
      PROVE  d \in T
  <2>1. PICK q \in Nat : pow(j + (d - 1)) = pow(j) * q
    BY <1>3
  <2>2. j + (d - 1) \in 0 .. W /\ (j + (d - 1)) + 1 = j + d /\ j \in 0 .. W /\ d \in 0 .. k - j
    BY <1>1
  <2>3. pow(j + d) = 2 * (pow(j) * q)
    BY <1>1, <2>1, <2>2
  <2>4. 2 * (pow(j) * q) = pow(j) * (2 * q) /\ 2 * q \in Nat
    BY <1>1, <2>2
  <2> QED
    BY <2>2, <2>3, <2>4
<1>4. k - j \in T
  <2>1. k - j \in Nat /\ k - j \in 0 .. k - j
    BY <1>1
  <2> HIDE DEF T
  <2> QED
    BY <1>2, <1>3, <2>1, UpTo
<1>5. j + (k - j) = k
  BY <1>1
<1> QED
  BY <1>4, <1>5 DEF pow

\* g[j] is the word of the first j bits behind bit i; no bit counts as a 0.
BitAt(bits, i) == i <= Len(bits) /\ bits[i]
Bits01(bits, i, j) == IF BitAt(bits, i + j) THEN 2 ^ (j - 1) ELSE 0
IsRun(bits, i, n, g) ==
  /\ g \in [0 .. n -> Nat]
  /\ g[0] = 0
  /\ \A j \in 1 .. n : g[j] = g[j - 1] + Bits01(bits, i, j)

\* The loop of sendBool and of pack computes such a word.
LEMMA PackRun ==
  ASSUME NEW bits \in Seq(BOOLEAN), NEW i \in Nat, i <= Len(bits),
         NEW n \in 0 .. WORDBITS
  PROVE  \E g : IsRun(bits, i, n, g) /\ PackFrom(bits, i, n) = g[n]
<1> DEFINE m == Filled(i, Len(bits), n)
           b(j) == Bits01(bits, i, j)
           step == [j \in 1 .. n |-> [a \in Nat |-> a + b(j)]]
           Def(f) == [j \in 0 .. m |-> IF j = 0 THEN 0
                        ELSE f[j - 1] + (IF bits[i + j] THEN 2 ^ (j - 1) ELSE 0)]
<1>1. n \in Nat /\ Len(bits) \in Nat /\ m \in 0 .. n /\ m \in Nat
      /\ \A j \in 1 .. n : j <= m <=> i + j <= Len(bits)
  <2>1. n \in Nat /\ Len(bits) \in Nat
    BY PowerFacts
  <2> QED
    BY <2>1 DEF Filled
<1>2. \A j \in 1 .. n : b(j) \in Nat
  <2> TAKE j \in 1 .. n
  <2>1. j - 1 \in 0 .. WORDBITS
    BY PowerFacts
  <2>2. 2 ^ (j - 1) \in Nat
    BY <2>1, PowerFacts
  <2> QED
    BY <2>2 DEF Bits01
<1>3. \A j \in 1 .. m : b(j) = IF bits[i + j] THEN 2 ^ (j - 1) ELSE 0
  <2> TAKE j \in 1 .. m
  <2>1. i + j <= Len(bits)
    BY <1>1
  <2> QED
    BY <2>1 DEF Bits01, BitAt
<1>4. \A j \in 1 .. n : j > m => b(j) = 0
  BY <1>1 DEF Bits01, BitAt
<1> HIDE DEF b, m
<1>5. step \in [1 .. n -> [Nat -> Nat]] /\ \A j \in 1 .. n, a \in Nat : step[j][a] = a + b(j)
  BY <1>2
<1> HIDE DEF step
<1>6. PICK g \in [0 .. n -> Nat] : History(n, 0, step, g)
  BY <1>1, <1>5, Recursion
<1>7. g[0] = 0 /\ \A j \in 1 .. n : g[j] = g[j - 1] + b(j)
  <2>1. \A j \in 1 .. n : g[j - 1] \in Nat
    BY <1>1
  <2> QED
    BY <1>5, <1>6, <2>1 DEF History
<1>8. IsRun(bits, i, n, g)
  BY <1>6, <1>7 DEF IsRun, b
<1>9. \E f : f = Def(f)
  <2> DEFINE h == [j \in 0 .. m |-> g[j]]
  <2>1. h = Def(h)
    <3>1. \A j \in 0 .. m : h[j] = g[j] /\ j \in 0 .. n
      BY <1>1
    <3>2. \A j \in 0 .. m : j # 0 => j \in 1 .. n /\ j \in 1 .. m /\ j - 1 \in 0 .. m
      BY <1>1
    <3> HIDE DEF h
    <3>3. \A j \in 0 .. m : h[j] = IF j = 0 THEN 0
                        ELSE h[j - 1] + (IF bits[i + j] THEN 2 ^ (j - 1) ELSE 0)
      BY <1>3, <1>7, <3>1, <3>2
    <3> QED
      BY <3>3 DEF h
  <2> QED
    BY <2>1
<1> DEFINE f == CHOOSE f : f = Def(f)
<1>10. PackFrom(bits, i, n) = f[m]
  BY DEF PackFrom, m
<1>11. /\ f[0] = 0
       /\ \A j \in 1 .. m : f[j] = f[j - 1] + b(j)
  <2>1. f = Def(f)
    <3> HIDE DEF Def
    <3> QED
      BY <1>9
  <2> HIDE DEF f
  <2>2. \A j \in 0 .. m : f[j] = IF j = 0 THEN 0
                        ELSE f[j - 1] + (IF bits[i + j] THEN 2 ^ (j - 1) ELSE 0)
    BY <2>1
  <2>3. 0 \in 0 .. m /\ \A j \in 1 .. m : j \in 0 .. m /\ j # 0
    BY <1>1
  <2> QED
    BY <1>3, <2>2, <2>3
<1> HIDE DEF f, Def
<1>12. f[m] = g[m]
  <2> DEFINE T == {j \in 0 .. m : f[j] = g[j]}
  <2>1. 0 \in T
    BY <1>1, <1>7, <1>11
  <2>2. \A j \in 1 .. m : j - 1 \in T => j \in T
    BY <1>1, <1>7, <1>11
  <2>3. m \in 0 .. m
    BY <1>1
  <2> HIDE DEF T
  <2>4. m \in T
    BY <1>1, <2>1, <2>2, <2>3, UpTo
  <2> QED
    BY <2>4 DEF T
<1>13. g[n] = g[m]
  <2> DEFINE T == {d \in 0 .. n - m : g[m + d] = g[m]}
  <2>1. 0 \in T
    BY <1>1
  <2>2. ASSUME NEW d \in 1 .. n - m, d - 1 \in T
        PROVE  d \in T
    <3>1. m + d \in 1 .. n /\ m + d > m /\ (m + d) - 1 = m + (d - 1) /\ d \in 0 .. n - m
      BY <1>1
    <3>2. g[m + d] = g[m + (d - 1)] + 0
      BY <1>4, <1>7, <3>1
    <3>3. g[m + (d - 1)] \in Nat
      BY <1>1
    <3> QED
      BY <2>2, <3>1, <3>2, <3>3
  <2>3. n - m \in 0 .. n - m /\ n - m \in Nat /\ m + (n - m) = n
    BY <1>1
  <2> HIDE DEF T
  <2>4. n - m \in T
    BY <2>1, <2>2, <2>3, UpTo
  <2> QED
    BY <2>3, <2>4 DEF T
<1> QED
  BY <1>8, <1>10, <1>12, <1>13

\* v is u and a multiple of m.
AddsMultiple(v, u, m) == \E q \in Nat : v = u + m * q

\* The word of a bits is below 2 ^ a, and the bits behind it add a multiple.
LEMMA RunSplit ==
  ASSUME NEW bits, NEW i \in Nat, NEW n \in 0 .. WORDBITS, NEW g, IsRun(bits, i, n, g),
         NEW k \in 0 .. n, NEW a \in 0 .. k
  PROVE  /\ g[a] \in 0 .. 2 ^ a - 1
         /\ AddsMultiple(g[k], g[a], 2 ^ a)
<1> DEFINE pow(j) == 2 ^ j
           b(j) == Bits01(bits, i, j)
           T == {j \in 0 .. n : g[j] \in 0 .. pow(j) - 1}
           U == {d \in 0 .. k - a : \E q \in Nat : g[a + d] = g[a] + pow(a) * q}
<1>1. /\ n \in Nat /\ k \in 0 .. n /\ a \in 0 .. k /\ pow(0) = 1
      /\ \A j \in 0 .. n : g[j] \in Nat /\ pow(j) \in Nat \ {0}
      /\ \A j \in 1 .. n : pow(j) = 2 * pow(j - 1) /\ j - 1 \in 0 .. n /\ j \in 0 .. n
  <2>1. n \in Nat /\ \A j \in 0 .. n : j \in 0 .. WORDBITS
    BY PowerFacts
  <2>2. \A j \in 1 .. n : j - 1 \in 0 .. WORDBITS /\ (j - 1) + 1 = j /\ j - 1 \in 0 .. n
    BY <2>1
  <2> QED
    BY <2>1, <2>2, PowerFacts DEF IsRun
<1>2. g[0] = 0 /\ \A j \in 1 .. n : g[j] = g[j - 1] + b(j)
  BY DEF IsRun
<1>3. \A j \in 1 .. n : b(j) = pow(j - 1) \/ b(j) = 0
  BY DEF Bits01
<1> HIDE DEF b
<1>4. ASSUME NEW j \in 1 .. n, NEW c \in 0 .. j - 1
      PROVE  \E q \in Nat : b(j) = pow(c) * q
  <2>1. j - 1 \in 0 .. WORDBITS /\ c \in 0 .. WORDBITS
    BY <1>1, PowerFacts
  <2>2. PICK q \in Nat : pow(j - 1) = pow(c) * q
    BY <2>1, PowerDivides
  <2> HIDE DEF pow
  <2>3. pow(c) * 0 = 0
    <3>1. pow(c) \in Nat
      BY <1>1
    <3> QED
      BY <3>1
  <2> QED
    BY <1>3, <2>2, <2>3
<1> HIDE DEF pow
<1>5. 0 \in T
  BY <1>1, <1>2
<1>6. \A j \in 1 .. n : j - 1 \in T => j \in T
  <2> TAKE j \in 1 .. n
  <2> HAVE j - 1 \in T
  <2>1. g[j - 1] \in 0 .. pow(j - 1) - 1 /\ j - 1 \in 0 .. n /\ j \in 0 .. n
    BY <1>1
  <2>2. pow(j - 1) \in Nat /\ pow(j) = 2 * pow(j - 1) /\ g[j] = g[j - 1] + b(j)
    BY <1>1, <1>2
  <2>3. g[j] \in 0 .. pow(j) - 1
    BY <1>3, <2>1, <2>2
  <2> QED
    BY <2>1, <2>3
<1>7. \A j \in 0 .. n : j \in T
  <2> HIDE DEF T
  <2> QED
    BY <1>1, <1>5, <1>6, UpTo
<1>8. g[a] \in 0 .. pow(a) - 1
  BY <1>1, <1>7
<1>9. 0 \in U
  <2>1. pow(a) \in Nat /\ g[a] \in Nat /\ a + 0 = a /\ 0 \in 0 .. k - a
    BY <1>1
  <2>2. g[a] = g[a] + pow(a) * 0
    BY <2>1
  <2> QED
    BY <2>1, <2>2
<1>10. ASSUME NEW d \in 1 .. k - a, d - 1 \in U
       PROVE  d \in U
  <2>1. /\ a + d \in 1 .. n /\ (a + d) - 1 = a + (d - 1) /\ a \in 0 .. (a + d) - 1
        /\ d \in 0 .. k - a /\ pow(a) \in Nat /\ g[a] \in Nat
    BY <1>1
  <2>2. PICK q \in Nat : g[a + (d - 1)] = g[a] + pow(a) * q
    BY <1>10
  <2>3. PICK r \in Nat : b(a + d) = pow(a) * r
    BY <1>4, <2>1
  <2>4. g[a + d] = (g[a] + pow(a) * q) + pow(a) * r
    BY <1>2, <2>1, <2>2, <2>3
  <2>5. (g[a] + pow(a) * q) + pow(a) * r = g[a] + pow(a) * (q + r) /\ q + r \in Nat
    BY <2>1
  <2> QED
    BY <2>1, <2>4, <2>5
<1>11. k - a \in U
  <2>1. k - a \in Nat /\ k - a \in 0 .. k - a
    BY <1>1
  <2> HIDE DEF U
  <2> QED
    BY <1>9, <1>10, <2>1, UpTo
<1>12. a + (k - a) = k
  BY <1>1
<1> QED
  BY <1>8, <1>11, <1>12 DEF pow, AddsMultiple

\* Shifting the word to the right brings its bits back.
LEMMA RunBit ==
  ASSUME NEW bits, NEW i \in Nat, NEW n \in 0 .. WORDBITS, NEW g, IsRun(bits, i, n, g),
         NEW j \in 1 .. n
  PROVE  Shifted(g[n], j - 1) <=> BitAt(bits, i + j)
<1> DEFINE p == 2 ^ (j - 1)
           b == IF BitAt(bits, i + j) THEN 1 ELSE 0
<1>1. n \in Nat /\ j \in 0 .. n /\ j - 1 \in 0 .. n /\ j - 1 \in 0 .. WORDBITS /\ n \in 0 .. n
      /\ (j - 1) + 1 = j /\ j - 1 \in 0 .. j
  BY PowerFacts
<1>2. p \in Nat \ {0} /\ 2 ^ j = 2 * p
  BY <1>1, PowerFacts
<1>3. g[j - 1] \in 0 .. p - 1
  BY <1>1, RunSplit
<1>4. PICK q \in Nat : g[n] = g[j] + 2 ^ j * q
  <2>1. n \in 0 .. n /\ j \in 0 .. n
    BY <1>1
  <2>2. AddsMultiple(g[n], g[j], 2 ^ j)
    BY <2>1, RunSplit
  <2> QED
    BY <2>2 DEF AddsMultiple
<1>5. g[j] = g[j - 1] + p * b
  <2>1. g[j] = g[j - 1] + Bits01(bits, i, j)
    BY DEF IsRun
  <2>2. Bits01(bits, i, j) = IF BitAt(bits, i + j) THEN p ELSE 0
    BY DEF Bits01
  <2>3. p * 1 = p /\ p * 0 = 0
    BY <1>2
  <2> QED
    BY <2>1, <2>2, <2>3
<1>6. b \in 0 .. 1 /\ (b = 1 <=> BitAt(bits, i + j))
  OBVIOUS
<1> HIDE DEF p, b
<1>7. g[n] = p * (2 * q + b) + g[j - 1] /\ 2 * q + b \in Nat
  <2>1. g[n] = (g[j - 1] + p * b) + (2 * p) * q
    BY <1>2, <1>4, <1>5
  <2>2. (2 * p) * q = p * (2 * q) /\ p * (2 * q + b) = p * (2 * q) + p * b
    BY <1>2, <1>6
  <2>3. p * b \in Int /\ p * (2 * q) \in Int /\ g[j - 1] \in Int /\ 2 * q + b \in Nat
    BY <1>2, <1>3, <1>6
  <2> HIDE DEF p
  <2> QED
    BY <2>1, <2>2, <2>3
<1>8. g[n] \in Int
  <2>1. g \in [0 .. n -> Nat]
    BY DEF IsRun
  <2> QED
    BY <1>1, <2>1
<1>9. g[n] \div p = 2 * q + b
  <2> DEFINE v == g[n]
             h == 2 * q + b
             r == g[j - 1]
  <2>1. v \in Int /\ h \in Int /\ r \in 0 .. p - 1 /\ v = p * h + r
    BY <1>3, <1>7, <1>8
  <2> HIDE DEF v, h, r
  <2>2. v \div p = h
    BY <1>2, <2>1, DivUnique
  <2> QED
    BY <2>2 DEF v, h
<1>10. (2 * q + b) % 2 = b
  BY <1>6
<1> QED
  BY <1>6, <1>9, <1>10 DEF Shifted, p

\* The word that starts behind bit i holds the bits from there on.
LEMMA PackBits ==
  ASSUME NEW bits \in Seq(BOOLEAN), NEW i \in Nat, i <= Len(bits), NEW n \in 0 .. WORDBITS
  PROVE  /\ PackFrom(bits, i, n) \in Nat
         /\ \A j \in 1 .. n : Shifted(PackFrom(bits, i, n), j - 1) <=> BitAt(bits, i + j)
<1>1. PICK g : IsRun(bits, i, n, g) /\ PackFrom(bits, i, n) = g[n]
  BY PackRun
<1>2. n \in 0 .. n
  BY PowerFacts
<1>3. g[n] \in Nat
  BY <1>1, <1>2 DEF IsRun
<1> QED
  BY <1>1, <1>3, RunBit

\* What recvBool keeps of a word are the bits that sendBool put into it.
LEMMA UnpackPacked ==
  ASSUME NEW bits \in Seq(BOOLEAN), NEW i \in Nat, i <= Len(bits)
  PROVE  LET n == Filled(i, Len(bits), WORDBITS)
         IN  /\ n \in 0 .. WORDBITS /\ i + n \in 0 .. Len(bits)
             /\ i < Len(bits) => n > 0
             /\ UnpackWord(PackFrom(bits, i, WORDBITS), n) = [j \in 1 .. n |-> bits[i + j]]
<1> DEFINE n == Filled(i, Len(bits), WORDBITS)
           w == PackFrom(bits, i, WORDBITS)
<1>1. WORDBITS \in Nat \ {0} /\ Len(bits) \in Nat /\ WORDBITS \in 0 .. WORDBITS
  BY PowerFacts
<1>2. n \in 0 .. WORDBITS /\ i + n \in 0 .. Len(bits) /\ (i < Len(bits) => n > 0)
  BY <1>1 DEF Filled
<1>3. \A j \in 1 .. WORDBITS : Shifted(w, j - 1) <=> BitAt(bits, i + j)
  BY <1>1, PackBits
<1> HIDE DEF n, w
<1>4. \A j \in 1 .. n : Shifted(w, j - 1) = bits[i + j]
  <2> TAKE j \in 1 .. n
  <2>1. j \in 1 .. WORDBITS /\ i + j <= Len(bits) /\ i + j \in 1 .. Len(bits)
    BY <1>1, <1>2
  <2>2. bits[i + j] \in BOOLEAN /\ Shifted(w, j - 1) \in BOOLEAN
    BY <2>1 DEF Shifted
  <2>3. Shifted(w, j - 1) <=> bits[i + j]
    BY <1>3, <2>1 DEF BitAt
  <2> QED
    BY <2>2, <2>3
<1>5. UnpackWord(w, n) = [j \in 1 .. n |-> bits[i + j]]
  BY <1>4 DEF UnpackWord
<1> QED
  BY <1>2, <1>5 DEF n, w
-----------------------------------------------------------------------------
(* The layouts.                                                              *)

\* A list has a k-th word when a bit is left for it.
LEMMA WordIsThere ==
  ASSUME NEW n \in Nat \ {0}, NEW len \in Nat, NEW k \in Nat \ {0}
  PROVE  /\ Words(len, n) \in Nat
         /\ k <= Words(len, n) <=> (k - 1) * n < len
         /\ (k - 1) * n \in Nat
<1> DEFINE c == len + n - 1
           q == c \div n
           r == c % n
<1>1. c \in Nat /\ q \in Int /\ r \in 0 .. n - 1 /\ c = n * q + r
  <2>1. c \in Nat
    OBVIOUS
  <2> HIDE DEF c
  <2> QED
    BY <2>1, ModDiv
<1>2. Words(len, n) = q
  BY DEF Words
<1>3. n * q = len + n - 1 - r /\ n * q \in Int
  BY <1>1
<1> HIDE DEF c, q, r
<1>4. \A d \in Int : (d >= 0 => n * d >= 0) /\ (d <= -1 => n * d <= -n)
  OBVIOUS
<1>5. (k - 1) * n = n * q + n * (k - 1 - q) /\ n * (k - 1 - q) \in Int /\ k - 1 - q \in Int
  BY <1>1
<1>6. k <= q => (k - 1) * n < len
  <2> HAVE k <= q
  <2>1. k - 1 - q <= -1
    BY <1>1
  <2>2. n * (k - 1 - q) <= -n
    BY <1>4, <1>5, <2>1
  <2> QED
    BY <1>1, <1>3, <1>5, <2>2
<1>7. ~(k <= q) => ~((k - 1) * n < len)
  <2> HAVE ~(k <= q)
  <2>1. k - 1 - q >= 0
    BY <1>1
  <2>2. n * (k - 1 - q) >= 0
    BY <1>4, <1>5, <2>1
  <2> QED
    BY <1>1, <1>3, <1>5, <2>2
<1>8. q \in Nat
  <2>1. ~(q <= -1)
    <3> SUFFICES ASSUME q <= -1
                 PROVE  FALSE
      OBVIOUS
    <3>1. n * q <= -n
      BY <1>1, <1>4
    <3> QED
      BY <1>1, <1>3, <3>1
  <2> QED
    BY <1>1, <2>1
<1>9. (k - 1) * n \in Nat
  BY <1>4
<1> QED
  BY <1>2, <1>6, <1>7, <1>8, <1>9

\* Bit by bit, a list comes back from its words.
LEMMA UnpackedAll ==
  ASSUME NEW bits \in Seq(BOOLEAN), NEW n \in 0 .. WORDBITS, n # 0, NEW packed,
         packed = [k \in 1 .. Words(Len(bits), n) |-> PackFrom(bits, (k - 1) * n, n)]
  PROVE  [i \in 1 .. Len(bits) |-> Shifted(packed[(i - 1) \div n + 1], (i - 1) % n)] = bits
<1>1. n \in Nat \ {0} /\ Len(bits) \in Nat
  BY PowerFacts
<1>2. ASSUME NEW i \in 1 .. Len(bits)
      PROVE  Shifted(packed[(i - 1) \div n + 1], (i - 1) % n) = bits[i]
  <2> DEFINE c == i - 1
             q == c \div n
             r == c % n
  <2>1. c \in Nat /\ c + 1 = i
    BY <1>1
  <2> HIDE DEF c
  <2>2. q \in Int /\ r \in 0 .. n - 1 /\ c = n * q + r
    <3>1. c \in Int /\ n \in Nat \ {0}
      BY <1>1, <2>1
    <3> QED
      BY <3>1, ModDiv
  <2> HIDE DEF q, r
  <2>3. q \in Nat
    <3>1. \A d \in Int : d <= -1 => n * d <= -n
      BY <1>1
    <3>2. ~(q <= -1)
      <4> SUFFICES ASSUME q <= -1
                   PROVE  FALSE
        OBVIOUS
      <4>1. n * q <= -n /\ n * q \in Int
        BY <1>1, <2>2, <3>1
      <4> QED
        BY <1>1, <2>1, <2>2, <4>1
    <3> QED
      BY <2>2, <3>2
  <2> DEFINE k == q + 1
             s == (k - 1) * n
  <2>4. k \in Nat \ {0} /\ k - 1 = q /\ s = n * q
    BY <1>1, <2>3
  <2> HIDE DEF k, s
  <2>5. s \in Nat /\ s + (r + 1) = i /\ s < Len(bits) /\ s <= Len(bits)
    BY <1>1, <2>1, <2>2, <2>3, <2>4
  <2>6. k \in 1 .. Words(Len(bits), n)
    <3>1. k <= Words(Len(bits), n) /\ Words(Len(bits), n) \in Nat
      BY <1>1, <2>4, <2>5, WordIsThere DEF s
    <3> QED
      BY <2>4, <3>1
  <2>7. packed[k] = PackFrom(bits, s, n)
    BY <2>6 DEF s
  <2>8. r + 1 \in 1 .. n /\ (r + 1) - 1 = r
    BY <1>1, <2>2
  <2>9. Shifted(packed[k], r) <=> BitAt(bits, i)
    BY <2>5, <2>7, <2>8, PackBits
  <2>10. BitAt(bits, i) <=> bits[i]
    BY <1>1 DEF BitAt
  <2>11. bits[i] \in BOOLEAN /\ Shifted(packed[k], r) \in BOOLEAN
    BY DEF Shifted
  <2>12. Shifted(packed[k], r) = bits[i]
    BY <2>9, <2>10, <2>11
  <2> QED
    BY <2>12 DEF c, q, r, k
<1>3. bits = [i \in 1 .. Len(bits) |-> bits[i]]
  OBVIOUS
<1>4. [i \in 1 .. Len(bits) |-> Shifted(packed[(i - 1) \div n + 1], (i - 1) % n)]
        = [i \in 1 .. Len(bits) |-> bits[i]]
  BY <1>2
<1> QED
  BY <1>3, <1>4

\* The powers multiply where they occur.
LEMMA PowerSum ==
  ASSUME NEW a \in 0 .. WORDBITS, NEW b \in 0 .. WORDBITS - a
  PROVE  2 ^ (a + b) = 2 ^ a * 2 ^ b
<1> DEFINE W == WORDBITS
           pow(j) == 2 ^ j
           T == {d \in 0 .. b : pow(a + d) = pow(a) * pow(d)}
<1>1. /\ W \in Nat \ {0} /\ a \in 0 .. W /\ b \in 0 .. W - a /\ pow(0) = 1
      /\ \A j \in 0 .. W : pow(j) \in Nat \ {0}
      /\ \A j \in 0 .. W : pow(j + 1) = 2 * pow(j)
  BY PowerFacts
<1> HIDE DEF W, pow
<1>2. 0 \in T
  <2>1. a + 0 = a /\ pow(a) \in Nat /\ 0 \in 0 .. b
    BY <1>1
  <2> QED
    BY <1>1, <2>1
<1>3. ASSUME NEW d \in 1 .. b, d - 1 \in T
      PROVE  d \in T
  <2>1. /\ a + (d - 1) \in 0 .. W /\ (a + (d - 1)) + 1 = a + d
        /\ d - 1 \in 0 .. W /\ (d - 1) + 1 = d /\ d \in 0 .. b
    BY <1>1
  <2>2. pow(a + d) = 2 * (pow(a) * pow(d - 1)) /\ pow(d) = 2 * pow(d - 1)
    BY <1>1, <1>3, <2>1
  <2>3. pow(a) \in Nat /\ pow(d - 1) \in Nat
    BY <1>1, <2>1
  <2>4. 2 * (pow(a) * pow(d - 1)) = pow(a) * (2 * pow(d - 1))
    BY <2>3
  <2> QED
    BY <2>1, <2>2, <2>4
<1>4. b \in T
  <2>1. b \in Nat /\ b \in 0 .. b
    BY <1>1
  <2> HIDE DEF T
  <2> QED
    BY <1>2, <1>3, <2>1, UpTo
<1> QED
  BY <1>4 DEF pow

\* The word behind bit i, from its bit a on, is the word behind bit i + a.
LEMMA RunInside ==
  ASSUME NEW bits, NEW i \in Nat, NEW n \in 0 .. WORDBITS, NEW a \in 0 .. n, NEW b \in 0 .. n - a,
         NEW g, IsRun(bits, i, n, g), NEW h, IsRun(bits, i + a, b, h)
  PROVE  (g[n] \div 2 ^ a) % 2 ^ b = h[b]
<1> DEFINE pow(j) == 2 ^ j
           T == {d \in 0 .. b : g[a + d] = g[a] + pow(a) * h[d]}
<1>1. /\ n \in Nat /\ a \in 0 .. n /\ b \in 0 .. n - a /\ b \in 0 .. b /\ b \in 0 .. WORDBITS
      /\ a + b \in 0 .. n /\ n \in 0 .. n /\ b \in Nat /\ a \in 0 .. WORDBITS
      /\ a \in 0 .. a + b
  BY PowerFacts
<1>2. /\ \A j \in 0 .. n : g[j] \in Nat /\ pow(j) \in Nat \ {0}
      /\ \A j \in 0 .. b : h[j] \in Nat
      /\ h[0] = 0
      /\ \A j \in 1 .. n : g[j] = g[j - 1] + Bits01(bits, i, j)
      /\ \A j \in 1 .. b : h[j] = h[j - 1] + Bits01(bits, i + a, j)
  <2>1. \A j \in 0 .. n : j \in 0 .. WORDBITS
    BY <1>1, PowerFacts
  <2> QED
    BY <2>1, PowerFacts DEF IsRun
<1>3. ASSUME NEW d \in 1 .. b
      PROVE  /\ Bits01(bits, i, a + d) = pow(a) * Bits01(bits, i + a, d)
             /\ Bits01(bits, i + a, d) \in Nat
  <2>1. /\ (a + d) - 1 = a + (d - 1) /\ i + (a + d) = (i + a) + d
        /\ d - 1 \in 0 .. WORDBITS - a /\ d - 1 \in 0 .. n /\ a \in 0 .. n
    BY <1>1, PowerFacts
  <2>2. pow(a + (d - 1)) = pow(a) * pow(d - 1)
    BY <1>1, <2>1, PowerSum
  <2>3. /\ Bits01(bits, i, a + d) = IF BitAt(bits, (i + a) + d) THEN pow(a + (d - 1)) ELSE 0
        /\ Bits01(bits, i + a, d) = IF BitAt(bits, (i + a) + d) THEN pow(d - 1) ELSE 0
    BY <2>1 DEF Bits01
  <2> HIDE DEF pow
  <2>4. pow(a) \in Nat /\ pow(d - 1) \in Nat /\ pow(a) * 0 = 0
    <3>1. pow(a) \in Nat /\ pow(d - 1) \in Nat
      BY <1>2, <2>1
    <3> QED
      BY <3>1
  <2> QED
    BY <2>2, <2>3, <2>4
<1> HIDE DEF pow
<1>4. 0 \in T
  <2>1. a + 0 = a /\ pow(a) \in Nat /\ g[a] \in Nat /\ 0 \in 0 .. b
    BY <1>1, <1>2
  <2>2. g[a] = g[a] + pow(a) * 0
    BY <2>1
  <2> QED
    BY <1>2, <2>1, <2>2
<1>5. ASSUME NEW d \in 1 .. b, d - 1 \in T
      PROVE  d \in T
  <2>1. /\ a + d \in 1 .. n /\ (a + d) - 1 = a + (d - 1) /\ d - 1 \in 0 .. b /\ d \in 0 .. b
        /\ a \in 0 .. n
    BY <1>1
  <2> DEFINE z == Bits01(bits, i + a, d)
             y == h[d - 1]
  <2>2. g[a + d] = (g[a] + pow(a) * y) + pow(a) * z /\ h[d] = y + z
    BY <1>2, <1>3, <1>5, <2>1
  <2>3. y \in Nat /\ z \in Nat /\ g[a] \in Nat /\ pow(a) \in Nat
    BY <1>2, <1>3, <2>1
  <2> HIDE DEF y, z
  <2>4. (g[a] + pow(a) * y) + pow(a) * z = g[a] + pow(a) * (y + z)
    BY <2>3
  <2> QED
    BY <2>1, <2>2, <2>4
<1>6. g[a + b] = g[a] + pow(a) * h[b]
  <2> HIDE DEF T
  <2>1. b \in T
    BY <1>1, <1>4, <1>5, UpTo
  <2> QED
    BY <2>1 DEF T
<1>7. PICK q \in Nat : g[n] = g[a + b] + pow(a + b) * q
  <2>1. AddsMultiple(g[n], g[a + b], 2 ^ (a + b))
    BY <1>1, RunSplit
  <2> QED
    BY <2>1 DEF AddsMultiple, pow
<1>8. g[a] \in 0 .. pow(a) - 1
  BY <1>1, RunSplit DEF pow
<1>9. h[b] \in 0 .. pow(b) - 1
  BY <1>1, RunSplit DEF pow
<1>10. pow(a + b) = pow(a) * pow(b)
  <2>1. b \in 0 .. WORDBITS - a
    BY <1>1, PowerFacts
  <2> QED
    BY <1>1, <2>1, PowerSum DEF pow
<1>11. pow(a) \in Nat \ {0} /\ pow(b) \in Nat \ {0}
  <2>1. a \in 0 .. n /\ b \in 0 .. n
    BY <1>1
  <2> QED
    BY <1>2, <2>1
<1> DEFINE P == pow(a)
           Q == pow(b)
           u == g[a]
           v == h[b]
           w == g[n]
<1>12. w = (u + P * v) + (P * Q) * q /\ u \in 0 .. P - 1 /\ v \in 0 .. Q - 1
       /\ P \in Nat \ {0} /\ Q \in Nat \ {0}
  BY <1>6, <1>7, <1>8, <1>9, <1>10, <1>11
<1> HIDE DEF P, Q, u, v, w
<1> DEFINE x == Q * q + v
<1>13. w = P * x + u /\ x \in Int /\ w \in Int
  <2>1. (P * Q) * q = P * (Q * q) /\ P * x = P * (Q * q) + P * v
    BY <1>12
  <2>2. P * v \in Int /\ P * (Q * q) \in Int /\ x \in Int
    BY <1>12
  <2> HIDE DEF x
  <2> QED
    BY <1>12, <2>1, <2>2
<1>14. x % Q = v
  BY <1>12, <1>13, ModUnique
<1> HIDE DEF x
<1>15. w \div P = x
  BY <1>12, <1>13, DivUnique
<1> QED
  BY <1>14, <1>15 DEF P, Q, v, w, pow

\* The same bits make the same word.
LEMMA RunUnique ==
  ASSUME NEW n \in 0 .. WORDBITS,
         NEW x, NEW i \in Nat, NEW g, IsRun(x, i, n, g),
         NEW y, NEW k \in Nat, NEW h, IsRun(y, k, n, h),
         \A j \in 1 .. n : BitAt(x, i + j) <=> BitAt(y, k + j)
  PROVE  g[n] = h[n]
<1> DEFINE T == {j \in 0 .. n : g[j] = h[j]}
<1>1. n \in Nat /\ n \in 0 .. n
  BY PowerFacts
<1>2. /\ g[0] = h[0]
      /\ \A j \in 1 .. n : g[j] = g[j - 1] + Bits01(x, i, j) /\ h[j] = h[j - 1] + Bits01(y, k, j)
  BY DEF IsRun
<1>3. \A j \in 1 .. n : Bits01(x, i, j) = Bits01(y, k, j)
  BY DEF Bits01
<1>4. 0 \in T
  BY <1>1, <1>2
<1>5. \A j \in 1 .. n : j - 1 \in T => j \in T
  BY <1>1, <1>2, <1>3
<1> HIDE DEF T
<1>6. n \in T
  BY <1>1, <1>4, <1>5, UpTo
<1> QED
  BY <1>6 DEF T

\* A byte is no longer than a word, and a word is a number of bytes.
LEMMA ByteFacts ==
  /\ BYTEBITS \in 0 .. WORDBITS /\ WORDBITS \div BYTEBITS \in Nat
  /\ BYTEBITS * (WORDBITS \div BYTEBITS) = WORDBITS
<1> DEFINE B == BYTEBITS
           W == WORDBITS
           q == W \div B
<1>1. B \in Nat \ {0} /\ W \in Nat \ {0} /\ W % B = 0
  BY BitPackingAssumption
<1> HIDE DEF B, W
<1>2. q \in Int /\ W = B * q + 0
  BY <1>1, ModDiv
<1> HIDE DEF q
<1>3. \A d \in Int : (d >= 1 => B * d >= B) /\ (d <= 0 => B * d <= 0)
  BY <1>1
<1>4. q >= 1 /\ B * q = W
  <2>1. B * q = W
    <3>1. B * q \in Int
      BY <1>1, <1>2
    <3> QED
      BY <1>2, <3>1
  <2>2. ~(q <= 0)
    BY <1>1, <1>2, <1>3, <2>1
  <2> QED
    BY <1>2, <2>1, <2>2
<1>5. B <= W
  BY <1>1, <1>2, <1>3, <1>4
<1> QED
  BY <1>1, <1>2, <1>4, <1>5 DEF B, W, q

\* A list comes back from its words, and from its bytes.
LEMMA ComesBack ==
  ASSUME NEW bits \in Seq(BOOLEAN)
  PROVE  unpackBool(packBool(bits), Len(bits)) = bits /\ unpack(pack(bits), Len(bits)) = bits
<1>1. /\ WORDBITS \in 0 .. WORDBITS /\ WORDBITS # 0 /\ BYTEBITS # 0 /\ BYTEBITS \in 0 .. WORDBITS
  BY PowerFacts, ByteFacts
<1>2. packBool(bits) = [k \in 1 .. Words(Len(bits), WORDBITS) |->
                          PackFrom(bits, (k - 1) * WORDBITS, WORDBITS)]
  BY DEF packBool
<1>3. pack(bits) = [k \in 1 .. Words(Len(bits), BYTEBITS) |->
                      PackFrom(bits, (k - 1) * BYTEBITS, BYTEBITS)]
  BY DEF pack
<1>4. unpackBool(packBool(bits), Len(bits)) = bits
  BY <1>1, <1>2, UnpackedAll DEF unpackBool
<1>5. unpack(pack(bits), Len(bits)) = bits
  BY <1>1, <1>3, UnpackedAll DEF unpack
<1> QED
  BY <1>4, <1>5

\* A word, decomposed into bits, is the word of these bits.
LEMMA Decomposed ==
  ASSUME NEW bits \in Seq(BOOLEAN), NEW k \in DOMAIN packBool(bits)
  PROVE  packBool(bitDecompose(packBool(bits)[k])) = << packBool(bits)[k] >>
<1> DEFINE W == WORDBITS
           s == (k - 1) * W
           w == PackFrom(bits, s, W)
           d == bitDecompose(w)
<1>1. W \in Nat \ {0} /\ W \in 0 .. WORDBITS /\ Len(bits) \in Nat
  BY PowerFacts
<1>2. /\ DOMAIN packBool(bits) = 1 .. Words(Len(bits), W)
      /\ packBool(bits)[k] = w
  BY DEF packBool
<1>3. k \in Nat \ {0} /\ s \in Nat /\ s <= Len(bits)
  <2>1. k \in Nat \ {0} /\ k <= Words(Len(bits), W)
    <3>1. Words(Len(bits), W) \in Nat
      BY <1>1, WordIsThere
    <3> QED
      BY <1>2, <3>1
  <2>2. (k - 1) * W < Len(bits) /\ (k - 1) * W \in Nat
    BY <1>1, <2>1, WordIsThere
  <2> QED
    BY <1>1, <2>1, <2>2
<1> HIDE DEF s
<1>4. PICK g : IsRun(bits, s, W, g) /\ w = g[W]
  BY <1>1, <1>3, PackRun
<1>5. d = [j \in 1 .. W |-> Shifted(w, j - 1)] /\ \A j \in 1 .. W : Shifted(w, j - 1) \in BOOLEAN
  BY DEF bitDecompose, Shifted
<1>6. d \in Seq(BOOLEAN) /\ Len(d) = W
  <2> HIDE DEF d
  <2>1. d \in [1 .. W -> BOOLEAN]
    BY <1>5
  <2> QED
    BY <1>1, <2>1
<1>7. \A j \in 1 .. W : BitAt(d, 0 + j) <=> BitAt(bits, s + j)
  <2> TAKE j \in 1 .. W
  <2>1. 0 + j = j /\ j <= W
    BY <1>1
  <2>2. BitAt(d, j) <=> Shifted(w, j - 1)
    <3> HIDE DEF d, w
    <3> QED
      BY <1>5, <1>6, <2>1 DEF BitAt
  <2>3. Shifted(w, j - 1) <=> BitAt(bits, s + j)
    BY <1>1, <1>3, PackBits
  <2> QED
    BY <2>1, <2>2, <2>3
<1> HIDE DEF d, w
<1>8. PICK h : IsRun(d, 0, W, h) /\ PackFrom(d, 0, W) = h[W]
  BY <1>1, <1>6, PackRun
<1>9. h[W] = g[W]
  BY <1>1, <1>3, <1>4, <1>7, <1>8, RunUnique
<1>10. Words(W, W) = 1
  <2>1. 1 <= Words(W, W) <=> (1 - 1) * W < W
    BY <1>1, WordIsThere
  <2>2. 2 <= Words(W, W) <=> (2 - 1) * W < W
    BY <1>1, WordIsThere
  <2>3. Words(W, W) \in Nat
    BY <1>1, WordIsThere
  <2>4. (1 - 1) * W = 0 /\ (2 - 1) * W = W
    BY <1>1
  <2> QED
    BY <1>1, <2>1, <2>2, <2>3, <2>4
<1>11. packBool(d) = [x \in 1 .. 1 |-> PackFrom(d, (x - 1) * W, W)]
  BY <1>6, <1>10 DEF packBool, W
<1>12. \A x \in 1 .. 1 : (x - 1) * W = 0
  BY <1>1
<1>13. packBool(d) = [x \in 1 .. 1 |-> w]
  BY <1>4, <1>8, <1>9, <1>11, <1>12
<1> QED
  BY <1>2, <1>13 DEF d

\* The bytes of a word are the bytes of its bits.
LEMMA BytesOfWord ==
  ASSUME NEW bits \in Seq(BOOLEAN), NEW k \in DOMAIN packBool(bits),
         NEW j \in 1 .. WORDBITS \div BYTEBITS
  PROVE  LET t == (k - 1) * (WORDBITS \div BYTEBITS) + j
         IN  (packBool(bits)[k] \div 2 ^ (BYTEBITS * (j - 1))) % 2 ^ BYTEBITS =
               IF t \in DOMAIN pack(bits) THEN pack(bits)[t] ELSE 0
<1> DEFINE W == WORDBITS
           B == BYTEBITS
           c == W \div B
           s == (k - 1) * W
           t == (k - 1) * c + j
           a == B * (j - 1)
           z == (t - 1) * B
<1>1. W \in Nat \ {0} /\ W \in 0 .. WORDBITS /\ B \in Nat \ {0} /\ B \in 0 .. WORDBITS
      /\ Len(bits) \in Nat /\ c \in Nat /\ B * c = W /\ j \in 1 .. c
  BY PowerFacts, ByteFacts
<1>2. /\ DOMAIN packBool(bits) = 1 .. Words(Len(bits), W)
      /\ packBool(bits)[k] = PackFrom(bits, s, W)
  BY DEF packBool
<1>3. k \in Nat \ {0} /\ s \in Nat /\ s <= Len(bits)
  <2>1. k \in Nat \ {0} /\ k <= Words(Len(bits), W)
    <3>1. Words(Len(bits), W) \in Nat
      BY <1>1, WordIsThere
    <3> QED
      BY <1>2, <3>1
  <2>2. (k - 1) * W < Len(bits) /\ (k - 1) * W \in Nat
    BY <1>1, <2>1, WordIsThere
  <2> QED
    BY <1>1, <2>1, <2>2
<1>4. a \in 0 .. W /\ B \in 0 .. W - a
  <2> HIDE DEF W, B, c
  <2>1. B * (c - j) >= 0 /\ B * (c - j) = B * c - B * j /\ B * j \in Int
        /\ a = B * j - B /\ a >= 0 /\ a \in Int
    <3>1. c - j \in Nat /\ j - 1 \in Nat
      BY <1>1
    <3>2. \A d \in Nat : B * d >= 0 /\ B * d \in Int
      BY <1>1
    <3>3. B * (c - j) = B * c - B * j /\ a = B * j - B /\ B * j \in Int
      BY <1>1
    <3> QED
      BY <3>1, <3>2, <3>3
  <2> HIDE DEF a
  <2> QED
    BY <1>1, <2>1
<1>5. t \in Nat \ {0} /\ z = s + a
  <2> HIDE DEF W, B, c
  <2> DEFINE e == k - 1
             f == j - 1
  <2>1. e \in Nat /\ f \in Nat /\ t = e * c + f + 1
    <3>1. e * c \in Int
      BY <1>1, <1>3
    <3> QED
      BY <1>1, <1>3, <3>1
  <2>2. e * c \in Nat
    <3> HIDE DEF e
    <3> QED
      BY <1>1, <2>1
  <2>3. t - 1 = e * c + f /\ t \in Nat \ {0}
    BY <2>1, <2>2
  <2>4. s = e * W /\ a = B * f
    OBVIOUS
  <2> HIDE DEF e, f, t, s, a
  <2>5. (e * c + f) * B = e * (B * c) + B * f
    BY <1>1, <2>1
  <2> QED
    BY <1>1, <2>3, <2>4, <2>5
<1>6. PICK g : IsRun(bits, s, W, g) /\ PackFrom(bits, s, W) = g[W]
  BY <1>1, <1>3, PackRun
<1>7. /\ DOMAIN pack(bits) = 1 .. Words(Len(bits), B)
      /\ t \in DOMAIN pack(bits) => pack(bits)[t] = PackFrom(bits, z, B)
  BY DEF pack
<1>8. t \in DOMAIN pack(bits) <=> z < Len(bits)
  <2>1. t <= Words(Len(bits), B) <=> (t - 1) * B < Len(bits)
    <3> HIDE DEF t
    <3> QED
      BY <1>1, <1>5, WordIsThere
  <2>2. Words(Len(bits), B) \in Nat
    BY <1>1, <1>5, WordIsThere
  <2> HIDE DEF t
  <2> QED
    BY <1>5, <1>7, <2>1, <2>2
<1> HIDE DEF t, z, s, a, c
<1>9. z \in Nat
  BY <1>1, <1>3, <1>4, <1>5
<1> DEFINE byte == IF t \in DOMAIN pack(bits) THEN pack(bits)[t] ELSE 0
<1>10. \E h : IsRun(bits, z, B, h) /\ byte = h[B]
  <2>1. CASE z < Len(bits)
    <3>1. \E h : IsRun(bits, z, B, h) /\ PackFrom(bits, z, B) = h[B]
      BY <1>1, <1>9, <2>1, PackRun
    <3> QED
      BY <1>7, <1>8, <2>1, <3>1
  <2>2. CASE ~(z < Len(bits))
    <3> DEFINE h == [i \in 0 .. B |-> 0]
    <3>1. \A i \in 1 .. B : Bits01(bits, z, i) = 0
      <4> TAKE i \in 1 .. B
      <4>1. ~(z + i <= Len(bits))
        BY <1>1, <1>9, <2>2
      <4> QED
        BY <4>1 DEF Bits01, BitAt
    <3>2. IsRun(bits, z, B, h) /\ h[B] = 0
      <4>1. 0 \in 0 .. B /\ B \in 0 .. B /\ \A i \in 1 .. B : i \in 0 .. B /\ i - 1 \in 0 .. B
        BY <1>1
      <4> HIDE DEF B
      <4> QED
        BY <3>1, <4>1 DEF IsRun
    <3>3. byte = 0
      BY <1>8, <2>2
    <3> HIDE DEF h
    <3> QED
      BY <3>2, <3>3
  <2> QED
    BY <2>1, <2>2
<1>11. PICK h : IsRun(bits, z, B, h) /\ byte = h[B]
  BY <1>10
<1> HIDE DEF byte
<1>12. (g[W] \div 2 ^ a) % 2 ^ B = h[B]
  BY <1>1, <1>3, <1>4, <1>5, <1>6, <1>11, RunInside
<1> QED
  BY <1>2, <1>6, <1>11, <1>12 DEF byte, t, c, a, W, B
-----------------------------------------------------------------------------
(* The inductive invariant.                                                  *)

\* A place is the number of bits of the message that are behind.  Where a bit is
\* left, the word that starts there, and the place behind it.
InList(m, c) == c \in 0 .. Len(m) - 1
WordAt(m, c) == PackFrom(m, c, WORDBITS)
Behind(m, c) == c + Filled(c, Len(m), WORDBITS)

\* Up to where p has sent, and up to where it has received.
SendPlace(p) ==
  IF at[p] = "send" THEN pos[p]
  ELSE IF p # 0 /\ at[p] \in {"recv", "wait"} THEN 0 ELSE Size
RecvPlace(p) ==
  IF at[p] \in {"recv", "wait"} THEN pos[p]
  ELSE IF p = 0 /\ at[p] = "send" THEN 0 ELSE Size

\* s holds the words between two places, c[k] being the place behind k of them.
IsTrail(m, s, c, from, to) ==
  /\ c \in [0 .. Len(s) -> Nat]
  /\ c[0] = from /\ c[Len(s)] = to
  /\ \A k \in 1 .. Len(s) :
       InList(m, c[k - 1]) /\ s[k] = WordAt(m, c[k - 1]) /\ c[k] = Behind(m, c[k - 1])
Between(m, s, from, to) == \E c : IsTrail(m, s, c, from, to)

\* What is under way between neighbours is what one has sent and the other has
\* not received.
StreamInv ==
  \A p \in Members : Between(message, chan[p][To(p)], RecvPlace(To(p)), SendPlace(p))

Stops == {"send", "recv", "wait", "end", "closed"}

IsMessage(m) == m \in Seq(BOOLEAN) /\ Len(m) > 0

RelayTypeOK ==
  /\ test \in Tests /\ IsMessage(message)
  /\ at \in [Node -> Stops] /\ pos \in [Node -> Nat] /\ data \in [Node -> Seq(BOOLEAN)]
  /\ chan \in [Node -> [Node -> Seq(Nat)]]
  /\ inSock \in [Node -> [Node -> Nat]] /\ sent \in [Node -> [Node -> BOOLEAN]]

\* What a node holds in its variables is its part of the message.
NodeOK(p) ==
  /\ pos[p] \in 0 .. Size
  /\ at[p] = "wait" => pos[p] < Size
  /\ p = 0 /\ at[p] = "send" => data[p] = message
  /\ at[p] \in {"recv", "wait"} => data[p] = [j \in 1 .. pos[p] |-> message[j]]
  /\ HasAll(p) => data[p] = message

FlushedWithin == \A p, q \in Node : inSock[p][q] <= Len(chan[p][q])

RelayInv == RelayTypeOK /\ FlushedWithin /\ (\A p \in Members : NodeOK(p)) /\ StreamInv

\* The members stand in a ring: each is the neighbour of its neighbours, and
\* every one but node 0 receives from the one before it.
LEMMA Neighbour ==
  ASSUME test \in Tests, NEW p \in Members
  PROVE  /\ p \in Node /\ p \in Nat /\ To(p) \in Members /\ From(p) \in Members
         /\ To(From(p)) = p /\ From(To(p)) = p
         /\ To(p) \in Node /\ From(p) \in Node /\ 0 \in Members /\ 0 \in Node
         /\ p # 0 => From(p) = p - 1
<1>1. nP \in Nat \ {0} /\ Node = 0 .. nP /\ 0 \in Node /\ 1 \in Node
  BY RingSumAssumption DEF Node
<1>2. CASE test = "mssg_pass_4P"
  <2> DEFINE m == nP + 1
             n == -1
  <2>1. /\ m \in Nat \ {0} /\ p \in 0 .. m - 1 /\ Node = 0 .. m - 1 /\ Members = Node
        /\ n \in Int /\ 1 \in Int /\ p \in Int
    BY <1>1, <1>2 DEF Members
  <2>2. \A q : To(q) = (q + 1) % m /\ From(q) = (q + n) % m
    BY <1>2 DEF To, From, Relative
  <2>3. (p + 1) % m \in 0 .. m - 1 /\ (p + n) % m \in 0 .. m - 1
    <3> HIDE DEF m, n
    <3>1. PICK a \in Int, b \in Int : a = p + 1 /\ b = p + n
      BY <2>1
    <3> QED
      BY <2>1, <3>1, ModDiv
  <2>4. (((p + n) % m) + 1) % m = p /\ (((p + 1) % m) + n) % m = p
    <3>1. (p + n) + 1 = p /\ (p + 1) + n = p /\ p % m = p /\ p + n \in Int /\ p + 1 \in Int
      BY <2>1
    <3> HIDE DEF m, n
    <3>2. /\ (((p + n) % m) + 1) % m = ((p + n) + 1) % m
          /\ (((p + 1) % m) + n) % m = ((p + 1) + n) % m
      BY <2>1, <3>1, ModInside
    <3> QED
      BY <3>1, <3>2
  <2>5. p # 0 => (p + n) % m = p - 1
    <3>1. p # 0 => p + n = p - 1 /\ p - 1 \in 0 .. m - 1 /\ (p - 1) % m = p - 1
      BY <2>1
    <3> QED
      BY <3>1
  <2>6. 0 .. m - 1 \subseteq Nat
    BY <2>1
  <2> HIDE DEF m, n
  <2>7. /\ To(p) = (p + 1) % m /\ From(p) = (p + n) % m
        /\ To(p) \in Members /\ From(p) \in Members
    BY <2>1, <2>2, <2>3
  <2>8. To(From(p)) = p /\ From(To(p)) = p
    BY <2>2, <2>4
  <2> QED
    BY <1>1, <2>1, <2>5, <2>6, <2>7, <2>8
<1>3. CASE test = "echo_bool"
  <2>1. Members = {0, 1} /\ \A q : To(q) = 1 - q /\ From(q) = 1 - q
    BY <1>3 DEF Members, To, From
  <2>2. p = 0 \/ p = 1
    BY <2>1
  <2> QED
    BY <1>1, <2>1, <2>2
<1> QED
  BY <1>2, <1>3 DEF Tests

\* The word behind the places sent is sent.
LEMMA TrailSend ==
  ASSUME NEW m, NEW s \in Seq(Nat), NEW from, NEW to, Between(m, s, from, to),
         InList(m, to), Behind(m, to) \in Nat, WordAt(m, to) \in Nat
  PROVE  Between(m, Append(s, WordAt(m, to)), from, Behind(m, to))
<1>1. PICK c : IsTrail(m, s, c, from, to)
  BY DEF Between
<1> DEFINE l == Len(s)
           t == Append(s, WordAt(m, to))
           b == Behind(m, to)
           d == [k \in 0 .. l + 1 |-> IF k = l + 1 THEN b ELSE c[k]]
<1>2. l \in Nat /\ Len(t) = l + 1 /\ t[l + 1] = WordAt(m, to)
      /\ \A k \in 1 .. l : t[k] = s[k]
  OBVIOUS
<1>3. /\ c \in [0 .. l -> Nat] /\ c[0] = from /\ c[l] = to
      /\ \A k \in 1 .. l : /\ InList(m, c[k - 1]) /\ s[k] = WordAt(m, c[k - 1])
                           /\ c[k] = Behind(m, c[k - 1])
  BY <1>1 DEF IsTrail
<1>4. b \in Nat
  OBVIOUS
<1> HIDE DEF l, t, b
<1>5. d \in [0 .. l + 1 -> Nat] /\ d[0] = from /\ d[l + 1] = b
      /\ \A k \in 0 .. l : d[k] = c[k]
  BY <1>2, <1>3, <1>4
<1> HIDE DEF d
<1>6. ASSUME NEW k \in 1 .. l + 1
      PROVE  InList(m, d[k - 1]) /\ t[k] = WordAt(m, d[k - 1]) /\ d[k] = Behind(m, d[k - 1])
  <2>1. CASE k = l + 1
    <3>1. k - 1 = l /\ l \in 0 .. l
      BY <1>2, <2>1
    <3>2. d[k - 1] = to
      BY <1>3, <1>5, <3>1
    <3> QED
      BY <1>2, <1>5, <2>1, <3>2 DEF b
  <2>2. CASE k # l + 1
    <3>1. k \in 1 .. l /\ k \in 0 .. l /\ k - 1 \in 0 .. l
      BY <1>2, <2>2
    <3>2. d[k] = c[k] /\ d[k - 1] = c[k - 1] /\ t[k] = s[k]
      BY <1>2, <1>5, <3>1
    <3> QED
      BY <1>3, <3>1, <3>2
  <2> QED
    BY <2>1, <2>2
<1>7. IsTrail(m, t, d, from, b)
  BY <1>2, <1>5, <1>6 DEF IsTrail
<1> QED
  BY <1>7 DEF Between, t, b

\* The first word under way is the one behind the places received.
LEMMA TrailReceive ==
  ASSUME NEW m, NEW s \in Seq(Nat), NEW from, NEW to, Between(m, s, from, to), Len(s) > 0
  PROVE  /\ InList(m, from) /\ Head(s) = WordAt(m, from)
         /\ Between(m, Tail(s), Behind(m, from), to)
<1>1. PICK c : IsTrail(m, s, c, from, to)
  BY DEF Between
<1> DEFINE l == Len(s)
           t == Tail(s)
           d == [k \in 0 .. l - 1 |-> c[k + 1]]
<1>2. l \in Nat /\ l > 0 /\ Len(t) = l - 1 /\ Head(s) = s[1]
      /\ \A k \in 1 .. l - 1 : t[k] = s[k + 1]
  OBVIOUS
<1>3. /\ c \in [0 .. l -> Nat] /\ c[0] = from /\ c[l] = to
      /\ \A k \in 1 .. l : /\ InList(m, c[k - 1]) /\ s[k] = WordAt(m, c[k - 1])
                           /\ c[k] = Behind(m, c[k - 1])
  BY <1>1 DEF IsTrail
<1> HIDE DEF l, t
<1>4. 1 \in 1 .. l /\ 1 - 1 = 0 /\ 0 + 1 = 1 /\ (l - 1) + 1 = l
  BY <1>2
<1>5. InList(m, from) /\ s[1] = WordAt(m, from) /\ c[1] = Behind(m, from)
  BY <1>3, <1>4
<1>6. /\ \A k \in 0 .. l - 1 : k + 1 \in 0 .. l /\ d[k] = c[k + 1]
      /\ 0 \in 0 .. l - 1 /\ l - 1 \in 0 .. l - 1
  BY <1>2
<1>7. d \in [0 .. l - 1 -> Nat]
  BY <1>3, <1>6
<1> HIDE DEF d
<1>8. d[0] = Behind(m, from) /\ d[l - 1] = to
  BY <1>3, <1>4, <1>5, <1>6
<1>9. ASSUME NEW k \in 1 .. l - 1
      PROVE  InList(m, d[k - 1]) /\ t[k] = WordAt(m, d[k - 1]) /\ d[k] = Behind(m, d[k - 1])
  <2>1. k + 1 \in 1 .. l /\ (k + 1) - 1 = k /\ (k - 1) + 1 = k /\ k \in 0 .. l - 1
        /\ k - 1 \in 0 .. l - 1
    BY <1>2
  <2>2. d[k] = c[k + 1] /\ d[k - 1] = c[k] /\ t[k] = s[k + 1]
    BY <1>2, <1>6, <2>1
  <2>3. InList(m, c[k]) /\ s[k + 1] = WordAt(m, c[k]) /\ c[k + 1] = Behind(m, c[k])
    BY <1>3, <2>1
  <2> QED
    BY <2>2, <2>3
<1>10. IsTrail(m, t, d, Behind(m, from), to)
  BY <1>2, <1>7, <1>8, <1>9 DEF IsTrail
<1> QED
  BY <1>2, <1>5, <1>10 DEF Between, t

\* Where a bit is left, a word is sent, and the place behind it is a place.
LEMMA BehindFacts ==
  ASSUME NEW m, IsMessage(m), NEW x \in Nat, x < Len(m)
  PROVE  LET n == Filled(x, Len(m), WORDBITS)
         IN  /\ InList(m, x) /\ WordAt(m, x) = PackFrom(m, x, WORDBITS)
             /\ WordAt(m, x) \in Nat
             /\ Behind(m, x) = x + n /\ Behind(m, x) \in Nat
             /\ n \in Nat /\ x + n \in 0 .. Len(m)
             /\ UnpackWord(PackFrom(m, x, WORDBITS), n) = [j \in 1 .. n |-> m[x + j]]
<1> DEFINE n == Filled(x, Len(m), WORDBITS)
<1>1. m \in Seq(BOOLEAN) /\ Len(m) \in Nat
  BY DEF IsMessage
<1>2. n \in 0 .. WORDBITS /\ x + n \in 0 .. Len(m)
      /\ UnpackWord(PackFrom(m, x, WORDBITS), n) = [j \in 1 .. n |-> m[x + j]]
  BY <1>1, UnpackPacked
<1>3. WORDBITS \in 0 .. WORDBITS /\ WORDBITS \in Nat
  BY PowerFacts
<1>4. PackFrom(m, x, WORDBITS) \in Nat
  BY <1>1, <1>3, PackBits
<1>5. InList(m, x)
  BY <1>1 DEF InList
<1>6. WordAt(m, x) = PackFrom(m, x, WORDBITS) /\ Behind(m, x) = x + n
  BY DEF WordAt, Behind
<1> HIDE DEF n
<1> QED
  BY <1>2, <1>3, <1>4, <1>5, <1>6 DEF n
-----------------------------------------------------------------------------
(* The invariant is inductive.                                               *)

\* A node that no step moves.
Still(q) == at'[q] = at[q] /\ pos'[q] = pos[q] /\ data'[q] = data[q] /\ message' = message

\* Such a node is as good as before, and at the same places.
LEMMA StillNode ==
  ASSUME NEW q \in Node, Still(q)
  PROVE  /\ NodeOK(q) => NodeOK(q)'
         /\ SendPlace(q)' = SendPlace(q) /\ RecvPlace(q)' = RecvPlace(q)
BY DEF Still, NodeOK, SendPlace, RecvPlace, Size, HasAll

\* The variables that a program only sets at its start.
Fixed == message' = message /\ test' = test

\* What a step of p leaves alone.
OnlyMoves(p) == Fixed /\ \A q \in Node : q # p => Still(q)

\* A step of p changes the variables of p's program alone.
LEMMA StepsMoveOne ==
  ASSUME RelayTypeOK, NEW p \in Members, NodeStep(p)
  PROVE  OnlyMoves(p)
<1>1. Constant
  BY DEF NodeStep, SendWord, MessageSent, AwaitWord, RecvWord, MessageReceived, Close
<1>2. Fixed
  BY <1>1 DEF Constant, Fixed
<1>3. ASSUME NEW q \in Node, q # p
      PROVE  Still(q)
  <2> USE <1>2, <1>3 DEF RelayTypeOK, Still, Fixed
  <2>1. CASE SendWord(p)
    BY <2>1 DEF SendWord
  <2>2. CASE MessageSent(p)
    BY <2>2 DEF MessageSent
  <2>3. CASE AwaitWord(p)
    BY <2>3 DEF AwaitWord
  <2>4. CASE RecvWord(p)
    BY <2>4 DEF RecvWord
  <2>5. CASE MessageReceived(p)
    BY <2>5 DEF MessageReceived
  <2>6. CASE Close(p)
    BY <2>6 DEF Close
  <2> QED
    BY <2>1, <2>2, <2>3, <2>4, <2>5, <2>6 DEF NodeStep
<1> QED
  BY <1>2, <1>3 DEF OnlyMoves

\* What the invariant says of a node and of what it can receive.
LEMMA MemberFacts ==
  ASSUME RelayInv, NEW p \in Members
  PROVE  /\ IsMessage(message) /\ message \in Seq(BOOLEAN) /\ Size \in Nat \ {0}
         /\ Size = Len(message) /\ pos[p] \in 0 .. Size /\ pos[p] \in Nat
         /\ RelayTypeOK /\ NodeOK(p) /\ p \in Node /\ To(p) \in Node /\ From(p) \in Node
         /\ at[p] = "send" => data[p] = message
         /\ at[p] = "wait" => pos[p] < Size
<1>1. RelayTypeOK /\ NodeOK(p) /\ IsMessage(message) /\ test \in Tests
  BY DEF RelayInv, RelayTypeOK
<1>2. message \in Seq(BOOLEAN) /\ Size \in Nat \ {0} /\ Size = Len(message)
  BY <1>1 DEF IsMessage, Size
<1>3. pos[p] \in 0 .. Size /\ (at[p] = "wait" => pos[p] < Size)
      /\ (at[p] = "send" => data[p] = message)
  BY <1>1 DEF NodeOK, HasAll
<1> QED
  BY <1>1, <1>2, <1>3, Neighbour

\* sendBool puts a word behind what it has sent.
LEMMA SendWordStep ==
  ASSUME RelayInv, NEW p \in Members, SendWord(p), Fixed
  PROVE  /\ RelayTypeOK' /\ NodeOK(p)'
         /\ InList(message, SendPlace(p)) /\ WordAt(message, SendPlace(p)) \in Nat
         /\ Behind(message, SendPlace(p)) \in Nat
         /\ chan' = [chan EXCEPT ![p][To(p)] = Append(@, WordAt(message, SendPlace(p)))]
         /\ SendPlace(p)' = Behind(message, SendPlace(p)) /\ RecvPlace(p)' = RecvPlace(p)
<1> DEFINE x == pos[p]
           n == Filled(x, Len(message), WORDBITS)
           w == PackFrom(message, x, WORDBITS)
<1>1. /\ at[p] = "send" /\ pos[p] < Size /\ Send(p, To(p), PackFrom(data[p], pos[p], WORDBITS))
      /\ pos' = [pos EXCEPT ![p] = @ + Filled(@, Size, WORDBITS)]
      /\ at' = at /\ data' = data /\ message' = message /\ test' = test
  BY DEF SendWord, Fixed
<1>2. /\ IsMessage(message) /\ Size = Len(message) /\ Size \in Nat /\ x \in Nat /\ x < Len(message)
      /\ data[p] = message /\ RelayTypeOK /\ NodeOK(p) /\ p \in Node /\ To(p) \in Node
  BY <1>1, MemberFacts
<1>3. /\ InList(message, x) /\ WordAt(message, x) = w /\ w \in Nat
      /\ Behind(message, x) = x + n /\ Behind(message, x) \in Nat
      /\ n \in Nat /\ x + n \in 0 .. Len(message)
  <2> HIDE DEF x
  <2> QED
    BY <1>2, BehindFacts
<1>4. /\ pos' = [pos EXCEPT ![p] = x + n]
      /\ chan' = [chan EXCEPT ![p][To(p)] = Append(@, w)]
      /\ sent' = [sent EXCEPT ![p][To(p)] = TRUE]
      /\ inSock' = IF Clang THEN [inSock EXCEPT ![p][To(p)] = Len(chan[p][To(p)]) + 1] ELSE inSock
  BY <1>1, <1>2 DEF Send
<1>5. pos'[p] = x + n
  BY <1>2, <1>4 DEF RelayTypeOK
<1> HIDE DEF w, n
<1>6. RelayTypeOK'
  <2>1. chan[p][To(p)] \in Seq(Nat) /\ Len(chan[p][To(p)]) + 1 \in Nat
    BY <1>2 DEF RelayTypeOK
  <2>2. chan' \in [Node -> [Node -> Seq(Nat)]] /\ inSock' \in [Node -> [Node -> Nat]]
        /\ sent' \in [Node -> [Node -> BOOLEAN]]
    <3>1. Append(chan[p][To(p)], w) \in Seq(Nat)
      BY <1>3, <2>1
    <3> QED
      BY <1>2, <1>4, <2>1, <3>1 DEF RelayTypeOK
  <2>3. pos' \in [Node -> Nat]
    BY <1>2, <1>3, <1>4 DEF RelayTypeOK
  <2> QED
    BY <1>1, <1>2, <2>2, <2>3 DEF RelayTypeOK
<1>7. NodeOK(p)'
  BY <1>1, <1>2, <1>3, <1>5 DEF NodeOK, Size, HasAll
<1>8. SendPlace(p) = x /\ SendPlace(p)' = x + n /\ RecvPlace(p)' = RecvPlace(p)
  BY <1>1, <1>5 DEF SendPlace, RecvPlace, Size
<1> QED
  BY <1>3, <1>4, <1>6, <1>7, <1>8

\* Flushing hands over what is there.
LEMMA FlushAllType ==
  ASSUME RelayTypeOK, NEW p \in Node, FlushAll(p)
  PROVE  chan' = chan /\ sent' = sent /\ inSock' \in [Node -> [Node -> Nat]]
BY DEF FlushAll, RelayTypeOK

\* A node that has sent the message is where it was.
LEMMA MessageSentStep ==
  ASSUME RelayInv, NEW p \in Members, MessageSent(p), Fixed
  PROVE  /\ RelayTypeOK' /\ NodeOK(p)' /\ chan' = chan
         /\ SendPlace(p)' = SendPlace(p) /\ RecvPlace(p)' = RecvPlace(p)
<1>1. /\ at[p] = "send" /\ pos[p] = Size /\ pos' = [pos EXCEPT ![p] = 0]
      /\ FlushAll(p) \/ UNCHANGED netVars
      /\ at' = [at EXCEPT ![p] = IF p = 0 THEN "recv" ELSE "end"]
      /\ data' = [data EXCEPT ![p] = IF p = 0 THEN <<>> ELSE @]
      /\ message' = message /\ test' = test
  BY DEF MessageSent, Fixed
<1>2. /\ RelayTypeOK /\ p \in Node /\ Size \in Nat /\ data[p] = message
      /\ message \in Seq(BOOLEAN)
  BY <1>1, MemberFacts
<1>3. chan' = chan /\ sent' = sent /\ inSock' \in [Node -> [Node -> Nat]]
  <2>1. CASE FlushAll(p)
    BY <1>2, <2>1, FlushAllType
  <2>2. CASE UNCHANGED netVars
    BY <1>2, <2>2 DEF netVars, RelayTypeOK
  <2> QED
    BY <1>1, <2>1, <2>2
<1>4. /\ pos'[p] = 0 /\ at'[p] = (IF p = 0 THEN "recv" ELSE "end")
      /\ data'[p] = (IF p = 0 THEN <<>> ELSE message)
  BY <1>1, <1>2 DEF RelayTypeOK
<1>5. RelayTypeOK'
  <2>1. <<>> \in Seq(BOOLEAN) /\ 0 \in Nat
    OBVIOUS
  <2>2. at' \in [Node -> Stops] /\ pos' \in [Node -> Nat]
    BY <1>1, <1>2, <2>1 DEF RelayTypeOK, Stops
  <2>3. data' \in [Node -> Seq(BOOLEAN)]
    BY <1>1, <1>2, <2>1 DEF RelayTypeOK
  <2> QED
    BY <1>1, <1>2, <1>3, <2>2, <2>3 DEF RelayTypeOK
<1>6. NodeOK(p)'
  <2>1. <<>> = [j \in 1 .. 0 |-> message[j]] /\ 0 \in 0 .. Size
    BY <1>2
  <2> QED
    BY <1>1, <1>4, <2>1 DEF NodeOK, Size, HasAll
<1>7. SendPlace(p)' = SendPlace(p) /\ RecvPlace(p)' = RecvPlace(p)
  BY <1>1, <1>4 DEF SendPlace, RecvPlace, Size
<1> QED
  BY <1>3, <1>5, <1>6, <1>7

\* Before it blocks, recvBool only flushes.
LEMMA AwaitWordStep ==
  ASSUME RelayInv, NEW p \in Members, AwaitWord(p), Fixed
  PROVE  /\ RelayTypeOK' /\ NodeOK(p)' /\ chan' = chan
         /\ SendPlace(p)' = SendPlace(p) /\ RecvPlace(p)' = RecvPlace(p)
<1>1. /\ at[p] = "recv" /\ pos[p] < Size /\ FlushBeforeRecv(p, From(p))
      /\ at' = [at EXCEPT ![p] = "wait"]
      /\ pos' = pos /\ data' = data /\ message' = message /\ test' = test
  BY DEF AwaitWord, Fixed
<1>2. RelayTypeOK /\ NodeOK(p) /\ p \in Node /\ From(p) \in Node
  BY MemberFacts
<1>3. chan' = chan /\ sent' = sent
  BY <1>1 DEF FlushBeforeRecv
<1>4. inSock' \in [Node -> [Node -> Nat]]
  <2>1. Len(chan[p][From(p)]) \in Nat
    BY <1>2 DEF RelayTypeOK
  <2> QED
    BY <1>1, <1>2, <2>1 DEF FlushBeforeRecv, RelayTypeOK
<1>5. at'[p] = "wait" /\ at' \in [Node -> Stops]
  BY <1>1, <1>2 DEF RelayTypeOK, Stops
<1>6. RelayTypeOK'
  BY <1>1, <1>2, <1>3, <1>4, <1>5 DEF RelayTypeOK
<1>7. NodeOK(p)'
  BY <1>1, <1>2, <1>5 DEF NodeOK, Size, HasAll
<1> QED
  BY <1>1, <1>3, <1>5, <1>6, <1>7 DEF SendPlace, RecvPlace, Size

\* The first bits of a list, and a part that continues them.
LEMMA BitsJoined ==
  ASSUME NEW l \in Seq(BOOLEAN), NEW x \in Nat, NEW n \in Nat, x + n \in 0 .. Len(l)
  PROVE  LET d == [j \in 1 .. x |-> l[j]] \o [j \in 1 .. n |-> l[x + j]]
         IN  d \in Seq(BOOLEAN) /\ d = [j \in 1 .. x + n |-> l[j]]
<1> DEFINE f == [j \in 1 .. x |-> l[j]]
           u == [j \in 1 .. n |-> l[x + j]]
           d == f \o u
           e == [j \in 1 .. x + n |-> l[j]]
<1>1. Len(l) \in Nat /\ \A j \in 1 .. Len(l) : l[j] \in BOOLEAN
  OBVIOUS
<1>2. f \in Seq(BOOLEAN) /\ Len(f) = x /\ \A j \in 1 .. x : f[j] = l[j]
  <2>1. f \in [1 .. x -> BOOLEAN]
    BY <1>1
  <2> QED
    BY <2>1
<1>3. u \in Seq(BOOLEAN) /\ Len(u) = n /\ \A j \in 1 .. n : u[j] = l[x + j]
  <2>1. \A j \in 1 .. n : x + j \in 1 .. Len(l)
    BY <1>1
  <2>2. u \in [1 .. n -> BOOLEAN]
    BY <1>1, <2>1
  <2> QED
    BY <2>2
<1>4. e \in Seq(BOOLEAN) /\ Len(e) = x + n /\ \A j \in 1 .. x + n : e[j] = l[j]
  <2>1. e \in [1 .. x + n -> BOOLEAN]
    BY <1>1
  <2> QED
    BY <2>1
<1> HIDE DEF f, u, e
<1>5. d \in Seq(BOOLEAN) /\ Len(d) = x + n
      /\ \A j \in 1 .. x + n : d[j] = IF j <= x THEN f[j] ELSE u[j - x]
  BY <1>2, <1>3
<1>6. \A j \in 1 .. x + n : d[j] = e[j]
  <2> TAKE j \in 1 .. x + n
  <2>1. CASE j <= x
    BY <1>2, <1>4, <1>5, <2>1
  <2>2. CASE ~(j <= x)
    <3>1. j - x \in 1 .. n /\ x + (j - x) = j
      BY <2>2
    <3> QED
      BY <1>3, <1>4, <1>5, <2>2, <3>1
  <2> QED
    BY <2>1, <2>2
<1> HIDE DEF d
<1>7. d = e
  BY <1>4, <1>5, <1>6
<1> QED
  BY <1>5, <1>7 DEF d, e, f, u

\* The word that arrives continues the list.
LEMMA RecvWordStep ==
  ASSUME RelayInv, NEW p \in Members, RecvWord(p), Fixed
  PROVE  LET q == From(p)
         IN  /\ RelayTypeOK' /\ NodeOK(p)'
             /\ Len(chan[q][p]) > 0 /\ inSock[q][p] > 0
             /\ chan' = [chan EXCEPT ![q][p] = Tail(@)]
             /\ inSock' = [inSock EXCEPT ![q][p] = @ - 1]
             /\ SendPlace(p)' = SendPlace(p)
             /\ RecvPlace(p)' = Behind(message, RecvPlace(p))
<1> DEFINE q == From(p)
           x == pos[p]
           n == Filled(x, Len(message), WORDBITS)
<1>1. /\ at[p] = "wait" /\ TakeMessage(p, q) /\ at' = [at EXCEPT ![p] = "recv"]
      /\ data' = [data EXCEPT ![p] = @ \o UnpackWord(Head(chan[q][p]), Filled(x, Size, WORDBITS))]
      /\ pos' = [pos EXCEPT ![p] = @ + Filled(x, Size, WORDBITS)]
      /\ message' = message /\ test' = test
  BY DEF RecvWord, Fixed
<1>2. /\ RelayTypeOK /\ NodeOK(p) /\ p \in Node /\ q \in Node /\ q \in Members /\ To(q) = p
      /\ IsMessage(message) /\ message \in Seq(BOOLEAN) /\ Size = Len(message)
      /\ x \in Nat /\ x < Len(message) /\ data[p] = [j \in 1 .. x |-> message[j]]
  <2>1. test \in Tests /\ data[p] = [j \in 1 .. x |-> message[j]]
    BY <1>1 DEF RelayInv, RelayTypeOK, NodeOK
  <2> QED
    BY <1>1, <2>1, MemberFacts, Neighbour
<1>3. /\ WordAt(message, x) = PackFrom(message, x, WORDBITS)
      /\ Behind(message, x) = x + n
      /\ n \in Nat /\ x + n \in 0 .. Len(message)
      /\ UnpackWord(PackFrom(message, x, WORDBITS), n) = [j \in 1 .. n |-> message[x + j]]
  <2> HIDE DEF x
  <2> QED
    BY <1>2, BehindFacts
<1>4. RecvPlace(p) = x
  BY <1>1 DEF RecvPlace
<1>5. /\ inSock[q][p] > 0
      /\ chan' = [chan EXCEPT ![q][p] = Tail(@)]
      /\ inSock' = [inSock EXCEPT ![q][p] = @ - 1]
      /\ sent' = sent
  BY <1>1 DEF TakeMessage, Arrived
<1>6. Len(chan[q][p]) > 0 /\ chan[q][p] \in Seq(Nat) /\ inSock[q][p] \in Nat
  <2>1. inSock[q][p] <= Len(chan[q][p])
    BY <1>2 DEF RelayInv, FlushedWithin
  <2>2. chan[q][p] \in Seq(Nat) /\ inSock[q][p] \in Nat
    BY <1>2 DEF RelayTypeOK
  <2>3. Len(chan[q][p]) \in Nat
    BY <2>2
  <2> QED
    BY <1>5, <2>1, <2>2, <2>3
<1>7. Head(chan[q][p]) = PackFrom(message, x, WORDBITS)
  <2>1. Between(message, chan[q][p], RecvPlace(p), SendPlace(q))
    BY <1>2 DEF RelayInv, StreamInv
  <2>2. Head(chan[q][p]) = WordAt(message, RecvPlace(p))
    BY <1>6, <2>1, TrailReceive
  <2> QED
    BY <1>3, <1>4, <2>2
<1> DEFINE d == [j \in 1 .. x |-> message[j]] \o [j \in 1 .. n |-> message[x + j]]
<1>8. data' = [data EXCEPT ![p] = d] /\ pos' = [pos EXCEPT ![p] = x + n]
  BY <1>1, <1>2, <1>3, <1>7
<1>9. d \in Seq(BOOLEAN) /\ d = [j \in 1 .. x + n |-> message[j]]
  <2> HIDE DEF n, x
  <2> QED
    BY <1>2, <1>3, BitsJoined
<1> HIDE DEF d, n
<1>10. /\ at'[p] = "recv" /\ pos'[p] = x + n /\ data'[p] = d /\ at' \in [Node -> Stops]
  BY <1>1, <1>2, <1>8 DEF RelayTypeOK, Stops
<1>11. RelayTypeOK'
  <2>1. Tail(chan[q][p]) \in Seq(Nat) /\ inSock[q][p] - 1 \in Nat
    BY <1>5, <1>6
  <2>2. chan' \in [Node -> [Node -> Seq(Nat)]] /\ inSock' \in [Node -> [Node -> Nat]]
    BY <1>2, <1>5, <2>1 DEF RelayTypeOK
  <2>3. pos' \in [Node -> Nat] /\ data' \in [Node -> Seq(BOOLEAN)]
    <3>1. x + n \in Nat
      BY <1>2, <1>3
    <3> QED
      BY <1>2, <1>8, <1>9, <3>1 DEF RelayTypeOK
  <2> QED
    BY <1>1, <1>2, <1>5, <1>10, <2>2, <2>3 DEF RelayTypeOK
<1>12. NodeOK(p)'
  <2>1. pos'[p] \in 0 .. Size /\ data'[p] = [j \in 1 .. pos'[p] |-> message[j]]
    BY <1>2, <1>3, <1>9, <1>10
  <2> QED
    BY <1>1, <1>10, <2>1 DEF NodeOK, Size, HasAll
<1>13. SendPlace(p)' = SendPlace(p) /\ RecvPlace(p)' = x + n
  BY <1>1, <1>10 DEF SendPlace, RecvPlace, Size
<1> QED
  BY <1>3, <1>4, <1>5, <1>6, <1>11, <1>12, <1>13

\* A node that has received the message is where it was.
LEMMA MessageReceivedStep ==
  ASSUME RelayInv, NEW p \in Members, MessageReceived(p), Fixed
  PROVE  /\ RelayTypeOK' /\ NodeOK(p)' /\ chan' = chan
         /\ SendPlace(p)' = SendPlace(p) /\ RecvPlace(p)' = RecvPlace(p)
<1>1. /\ at[p] = "recv" /\ pos[p] = Size /\ pos' = [pos EXCEPT ![p] = 0]
      /\ at' = [at EXCEPT ![p] = IF p = 0 THEN "end" ELSE "send"]
      /\ chan' = chan /\ inSock' = inSock /\ sent' = sent /\ data' = data
      /\ message' = message /\ test' = test
  BY DEF MessageReceived, netVars, Fixed
<1>2. /\ RelayTypeOK /\ NodeOK(p) /\ p \in Node /\ Size \in Nat /\ Size = Len(message)
      /\ message \in Seq(BOOLEAN)
  BY MemberFacts
<1>3. data[p] = message
  <2>1. data[p] = [j \in 1 .. Len(message) |-> message[j]]
    BY <1>1, <1>2 DEF NodeOK
  <2>2. message = [j \in 1 .. Len(message) |-> message[j]]
    BY <1>2
  <2> QED
    BY <2>1, <2>2
<1>4. pos'[p] = 0 /\ at'[p] = (IF p = 0 THEN "end" ELSE "send")
  BY <1>1, <1>2 DEF RelayTypeOK
<1>5. RelayTypeOK'
  <2>1. at' \in [Node -> Stops] /\ pos' \in [Node -> Nat]
    BY <1>1, <1>2 DEF RelayTypeOK, Stops
  <2> QED
    BY <1>1, <1>2, <2>1 DEF RelayTypeOK
<1>6. NodeOK(p)'
  <2>1. 0 \in 0 .. Size
    BY <1>2
  <2> QED
    BY <1>1, <1>3, <1>4, <2>1 DEF NodeOK, Size, HasAll
<1>7. SendPlace(p)' = SendPlace(p) /\ RecvPlace(p)' = RecvPlace(p)
  BY <1>1, <1>4 DEF SendPlace, RecvPlace, Size
<1> QED
  BY <1>1, <1>5, <1>6, <1>7

\* At its end a program flushes.
LEMMA CloseStep ==
  ASSUME RelayInv, NEW p \in Members, Close(p), Fixed
  PROVE  /\ RelayTypeOK' /\ NodeOK(p)' /\ chan' = chan
         /\ SendPlace(p)' = SendPlace(p) /\ RecvPlace(p)' = RecvPlace(p)
<1>1. /\ at[p] = "end" /\ FlushAll(p) /\ at' = [at EXCEPT ![p] = "closed"]
      /\ pos' = pos /\ data' = data /\ message' = message /\ test' = test
  BY DEF Close, Fixed
<1>2. RelayTypeOK /\ NodeOK(p) /\ p \in Node
  BY MemberFacts
<1>3. chan' = chan /\ sent' = sent /\ inSock' \in [Node -> [Node -> Nat]]
  BY <1>1, <1>2, FlushAllType
<1>4. at'[p] = "closed" /\ at' \in [Node -> Stops]
  BY <1>1, <1>2 DEF RelayTypeOK, Stops
<1>5. RelayTypeOK'
  BY <1>1, <1>2, <1>3, <1>4 DEF RelayTypeOK
<1>6. NodeOK(p)'
  BY <1>1, <1>2, <1>4 DEF NodeOK, Size, HasAll
<1> QED
  BY <1>1, <1>3, <1>4, <1>5, <1>6 DEF SendPlace, RecvPlace, Size

\* No more is handed over than was sent.
LEMMA FlushedStep ==
  ASSUME RelayInv, NEW p \in Members, NodeStep(p)
  PROVE  FlushedWithin'
<1>1. /\ chan \in [Node -> [Node -> Seq(Nat)]] /\ inSock \in [Node -> [Node -> Nat]]
      /\ \A a, b \in Node : inSock[a][b] <= Len(chan[a][b])
      /\ p \in Node /\ To(p) \in Node /\ From(p) \in Node
  BY MemberFacts DEF RelayInv, RelayTypeOK, FlushedWithin
<1>2. SUFFICES ASSUME NEW a \in Node, NEW b \in Node
               PROVE  inSock'[a][b] <= Len(chan'[a][b])
  BY DEF FlushedWithin
<1>3. /\ chan[a][b] \in Seq(Nat) /\ inSock[a][b] \in Nat /\ Len(chan[a][b]) \in Nat
      /\ inSock[a][b] <= Len(chan[a][b])
  BY <1>1
<1>4. ASSUME FlushAll(p)
      PROVE  inSock'[a][b] <= Len(chan'[a][b])
  <2>1. chan' = chan /\ inSock' = [inSock EXCEPT ![p] = [q \in Node |-> Len(chan[p][q])]]
    BY <1>4 DEF FlushAll
  <2>2. a = p => inSock'[a][b] = Len(chan[a][b])
    BY <1>1, <2>1
  <2>3. a # p => inSock'[a][b] = inSock[a][b]
    BY <1>1, <2>1
  <2> QED
    BY <1>3, <2>1, <2>2, <2>3
<1>5. CASE SendWord(p)
  <2> DEFINE w == PackFrom(data[p], pos[p], WORDBITS)
             q == To(p)
  <2>1. /\ chan' = [chan EXCEPT ![p][q] = Append(@, w)]
        /\ inSock' = IF Clang THEN [inSock EXCEPT ![p][q] = Len(chan[p][q]) + 1] ELSE inSock
    BY <1>5 DEF SendWord, Send
  <2> HIDE DEF w, q
  <2>2. CASE a = p /\ b = q
    <3>1. chan'[a][b] = Append(chan[a][b], w)
      BY <1>1, <2>1, <2>2
    <3>2. Len(Append(chan[a][b], w)) = Len(chan[a][b]) + 1
      BY <1>3
    <3>3. inSock'[a][b] = Len(chan[a][b]) + 1 \/ inSock'[a][b] = inSock[a][b]
      BY <1>1, <2>1, <2>2
    <3> QED
      BY <1>3, <3>1, <3>2, <3>3
  <2>3. CASE ~(a = p /\ b = q)
    <3>1. chan'[a][b] = chan[a][b] /\ inSock'[a][b] = inSock[a][b]
      BY <1>1, <2>1, <2>3
    <3> QED
      BY <1>3, <3>1
  <2> QED
    BY <2>2, <2>3
<1>6. CASE MessageSent(p)
  <2>1. FlushAll(p) \/ (chan' = chan /\ inSock' = inSock)
    BY <1>6 DEF MessageSent, netVars
  <2> QED
    BY <1>3, <1>4, <2>1
<1>7. CASE AwaitWord(p)
  <2>1. /\ chan' = chan
        /\ \/ inSock' = [inSock EXCEPT ![p][From(p)] = Len(chan[p][From(p)])]
           \/ inSock' = inSock
    BY <1>7 DEF AwaitWord, FlushBeforeRecv
  <2>2. inSock'[a][b] = inSock[a][b] \/ inSock'[a][b] = Len(chan[a][b])
    <3>1. PICK q \in Node : q = From(p)
      BY <1>1
    <3>2. CASE inSock' = [inSock EXCEPT ![p][q] = Len(chan[p][q])]
      <4>1. a = p /\ b = q => inSock'[a][b] = Len(chan[a][b])
        BY <1>1, <3>2
      <4>2. ~(a = p /\ b = q) => inSock'[a][b] = inSock[a][b]
        BY <1>1, <3>2
      <4> QED
        BY <4>1, <4>2
    <3> QED
      BY <2>1, <3>1, <3>2
  <2> QED
    BY <1>3, <2>1, <2>2
<1>8. CASE RecvWord(p)
  <2>1. /\ inSock[From(p)][p] > 0
        /\ chan' = [chan EXCEPT ![From(p)][p] = Tail(@)]
        /\ inSock' = [inSock EXCEPT ![From(p)][p] = @ - 1]
    BY <1>8 DEF RecvWord, TakeMessage, Arrived
  <2>2. CASE a = From(p) /\ b = p
    <3>1. chan'[a][b] = Tail(chan[a][b]) /\ inSock'[a][b] = inSock[a][b] - 1 /\ inSock[a][b] > 0
      BY <1>1, <2>1, <2>2
    <3>2. Len(Tail(chan[a][b])) = Len(chan[a][b]) - 1
      BY <1>3, <3>1
    <3> QED
      BY <1>3, <3>1, <3>2
  <2>3. CASE ~(a = From(p) /\ b = p)
    <3>1. chan'[a][b] = chan[a][b] /\ inSock'[a][b] = inSock[a][b]
      BY <1>1, <2>1, <2>3
    <3> QED
      BY <1>3, <3>1
  <2> QED
    BY <2>2, <2>3
<1>9. CASE MessageReceived(p)
  <2>1. chan' = chan /\ inSock' = inSock
    BY <1>9 DEF MessageReceived, netVars
  <2> QED
    BY <1>3, <2>1
<1>10. CASE Close(p)
  BY <1>4, <1>10 DEF Close
<1> QED
  BY <1>5, <1>6, <1>7, <1>8, <1>9, <1>10 DEF NodeStep

\* A step that moves no word and no place.
LEMMA StreamKept ==
  ASSUME RelayInv, NEW p \in Members, OnlyMoves(p), chan' = chan,
         SendPlace(p)' = SendPlace(p), RecvPlace(p)' = RecvPlace(p)
  PROVE  StreamInv'
<1>1. test \in Tests /\ test' = test /\ message' = message /\ Members' = Members
  BY DEF OnlyMoves, Fixed, RelayInv, RelayTypeOK, Members
<1>2. SUFFICES ASSUME NEW q \in Members
               PROVE  Between(message', chan'[q][To(q)'], RecvPlace(To(q))', SendPlace(q)')
  BY <1>1 DEF StreamInv
<1>3. PICK r \in Node : r = To(q) /\ To(q)' = r /\ q \in Node
  BY <1>1, Neighbour DEF To
<1>4. SendPlace(q)' = SendPlace(q) /\ RecvPlace(r)' = RecvPlace(r)
  BY <1>3, StillNode DEF OnlyMoves
<1>5. RecvPlace(To(q))' = RecvPlace(r)'
  BY <1>3 DEF RecvPlace
<1>6. Between(message, chan[q][r], RecvPlace(r), SendPlace(q))
  BY <1>3 DEF RelayInv, StreamInv
<1> QED
  BY <1>1, <1>3, <1>4, <1>5, <1>6

\* A word more is under way.
LEMMA StreamSend ==
  ASSUME RelayInv, NEW p \in Members, OnlyMoves(p), SendWord(p)
  PROVE  StreamInv'
<1> DEFINE w == WordAt(message, SendPlace(p))
<1>1. /\ InList(message, SendPlace(p)) /\ w \in Nat
      /\ Behind(message, SendPlace(p)) \in Nat
      /\ chan' = [chan EXCEPT ![p][To(p)] = Append(@, w)]
      /\ SendPlace(p)' = Behind(message, SendPlace(p)) /\ RecvPlace(p)' = RecvPlace(p)
  BY SendWordStep DEF OnlyMoves
<1>2. /\ test \in Tests /\ test' = test /\ message' = message /\ Members' = Members
      /\ chan \in [Node -> [Node -> Seq(Nat)]]
  BY DEF OnlyMoves, Fixed, RelayInv, RelayTypeOK, Members
<1>3. SUFFICES ASSUME NEW q \in Members
               PROVE  Between(message', chan'[q][To(q)'], RecvPlace(To(q))', SendPlace(q)')
  BY <1>2 DEF StreamInv
<1>4. PICK r \in Node : r = To(q) /\ To(q)' = r /\ q \in Node /\ p \in Node /\ To(p) \in Node
  BY <1>2, Neighbour DEF To
<1>5. RecvPlace(To(q))' = RecvPlace(r)
  <2>1. RecvPlace(r)' = RecvPlace(r)
    BY <1>1, <1>4, StillNode DEF OnlyMoves
  <2> QED
    BY <1>4, <2>1 DEF RecvPlace
<1>6. Between(message, chan[q][r], RecvPlace(r), SendPlace(q)) /\ chan[q][r] \in Seq(Nat)
  BY <1>2, <1>4 DEF RelayInv, StreamInv
<1>7. CASE q = p
  <2>1. chan'[q][r] = Append(chan[q][r], w)
    BY <1>1, <1>2, <1>4, <1>7
  <2>2. Between(message, Append(chan[q][r], w), RecvPlace(r), Behind(message, SendPlace(p)))
    BY <1>1, <1>6, <1>7, TrailSend
  <2> HIDE DEF w
  <2> QED
    BY <1>1, <1>2, <1>4, <1>5, <1>7, <2>1, <2>2
<1>8. CASE q # p
  <2>1. chan'[q][r] = chan[q][r]
    BY <1>1, <1>2, <1>4, <1>8
  <2>2. SendPlace(q)' = SendPlace(q)
    BY <1>4, <1>8, StillNode DEF OnlyMoves
  <2> QED
    BY <1>2, <1>4, <1>5, <1>6, <2>1, <2>2
<1> QED
  BY <1>7, <1>8

\* The first word is no longer under way.
LEMMA StreamReceive ==
  ASSUME RelayInv, NEW p \in Members, OnlyMoves(p), RecvWord(p)
  PROVE  StreamInv'
<1> DEFINE s == From(p)
<1>1. /\ chan' = [chan EXCEPT ![s][p] = Tail(@)] /\ Len(chan[s][p]) > 0
      /\ RecvPlace(p)' = Behind(message, RecvPlace(p)) /\ SendPlace(p)' = SendPlace(p)
  BY RecvWordStep DEF OnlyMoves
<1>2. /\ test \in Tests /\ test' = test /\ message' = message /\ Members' = Members
      /\ chan \in [Node -> [Node -> Seq(Nat)]]
  BY DEF OnlyMoves, Fixed, RelayInv, RelayTypeOK, Members
<1>3. SUFFICES ASSUME NEW q \in Members
               PROVE  Between(message', chan'[q][To(q)'], RecvPlace(To(q))', SendPlace(q)')
  BY <1>2 DEF StreamInv
<1>4. PICK r \in Node : /\ r = To(q) /\ To(q)' = r /\ q \in Node /\ p \in Node
                        /\ s \in Node /\ To(s) = p /\ From(r) = q
  BY <1>2, Neighbour DEF To
<1>5. SendPlace(q)' = SendPlace(q) /\ (r # p => RecvPlace(r)' = RecvPlace(r))
  BY <1>1, <1>4, StillNode DEF OnlyMoves
<1>6. RecvPlace(To(q))' = RecvPlace(r)'
  BY <1>4 DEF RecvPlace
<1>7. Between(message, chan[q][r], RecvPlace(r), SendPlace(q)) /\ chan[q][r] \in Seq(Nat)
  BY <1>2, <1>4 DEF RelayInv, StreamInv
<1>8. CASE r = p
  <2>1. q = s
    BY <1>4, <1>8
  <2>2. chan'[q][r] = Tail(chan[q][r]) /\ Len(chan[q][r]) > 0
    BY <1>1, <1>2, <1>4, <1>8, <2>1
  <2>3. Between(message, Tail(chan[q][r]), Behind(message, RecvPlace(r)), SendPlace(q))
    BY <1>7, <2>2, TrailReceive
  <2>4. RecvPlace(r)' = Behind(message, RecvPlace(r))
    BY <1>1, <1>8 DEF RecvPlace
  <2> QED
    BY <1>2, <1>4, <1>5, <1>6, <2>2, <2>3, <2>4
<1>9. CASE r # p
  <2>1. chan'[q][r] = chan[q][r]
    BY <1>1, <1>2, <1>4, <1>9
  <2> QED
    BY <1>2, <1>4, <1>5, <1>6, <1>7, <1>9, <2>1
<1> QED
  BY <1>8, <1>9

\* At the start all nodes are before the first bit.
LEMMA RelayInitInv == RelayInit => RelayInv
<1> SUFFICES ASSUME RelayInit
             PROVE  RelayInv
  OBVIOUS
<1>1. /\ NetInit /\ test \in Tests
      /\ at   = [p \in Node |-> IF p = 0 THEN "send" ELSE "recv"]
      /\ pos  = [p \in Node |-> 0]
      /\ data = [p \in Node |-> IF p = 0 THEN message ELSE <<>>]
  BY DEF RelayInit
<1>2. PICK n \in Lengths : message \in [1 .. n -> BOOLEAN]
  BY DEF RelayInit
<1>3. n \in Nat \ {0}
  BY RelayAssumption
<1>4. message \in Seq(BOOLEAN) /\ Len(message) = n
  BY <1>2, <1>3
<1>5. IsMessage(message) /\ Size = n
  BY <1>3, <1>4 DEF IsMessage, Size
<1>6. RelayTypeOK
  <2>1. <<>> \in Seq(BOOLEAN) /\ <<>> \in Seq(Nat) /\ 0 \in Nat
    OBVIOUS
  <2>2. chan \in [Node -> [Node -> Seq(Nat)]] /\ inSock \in [Node -> [Node -> Nat]]
        /\ sent \in [Node -> [Node -> BOOLEAN]]
    BY <1>1, <2>1 DEF NetInit
  <2>3. data \in [Node -> Seq(BOOLEAN)]
    BY <1>1, <1>4, <2>1
  <2> QED
    BY <1>1, <1>5, <2>2, <2>3 DEF RelayTypeOK, Stops
<1>7. FlushedWithin
  <2>1. \A p, q \in Node : chan[p][q] = <<>> /\ inSock[p][q] = 0
    BY <1>1 DEF NetInit
  <2>2. Len(<<>>) = 0
    OBVIOUS
  <2> QED
    BY <2>1, <2>2 DEF FlushedWithin
<1>8. ASSUME NEW p \in Members
      PROVE  NodeOK(p)
  <2>1. <<>> = [j \in 1 .. 0 |-> message[j]]
    OBVIOUS
  <2>2. p \in Node
    BY <1>1, Neighbour
  <2>3. /\ pos[p] = 0 /\ 0 \in 0 .. Size
        /\ p = 0 => at[p] = "send" /\ data[p] = message
        /\ p # 0 => at[p] = "recv" /\ data[p] = <<>>
    BY <1>1, <1>3, <1>5, <2>2
  <2> QED
    BY <2>1, <2>3 DEF NodeOK, HasAll
<1>9. StreamInv
  <2> SUFFICES ASSUME NEW p \in Members
               PROVE  Between(message, chan[p][To(p)], RecvPlace(To(p)), SendPlace(p))
    BY DEF StreamInv
  <2>1. To(p) \in Node /\ p \in Node
    BY <1>1, Neighbour
  <2>2. ASSUME NEW q \in Node
        PROVE  SendPlace(q) = 0 /\ RecvPlace(q) = 0
    BY <1>1 DEF SendPlace, RecvPlace
  <2>3. chan[p][To(p)] = <<>>
    BY <1>1, <2>1 DEF NetInit
  <2> DEFINE c == [k \in 0 .. 0 |-> 0]
  <2>4. Len(<<>>) = 0
    OBVIOUS
  <2>5. IsTrail(message, <<>>, c, 0, 0)
    BY <2>4 DEF IsTrail
  <2>6. Between(message, <<>>, 0, 0)
    BY <2>5 DEF Between
  <2> QED
    BY <2>1, <2>2, <2>3, <2>6
<1> QED
  BY <1>6, <1>7, <1>8, <1>9 DEF RelayInv

\* Every step of every node keeps the invariant.
LEMMA RelayStepInv == RelayInv /\ [RelayNext]_relayVars => RelayInv'
<1> SUFFICES ASSUME RelayInv, [RelayNext]_relayVars
             PROVE  RelayInv'
  OBVIOUS
<1>1. CASE UNCHANGED relayVars
  BY <1>1 DEF relayVars, netVars, RelayInv, RelayTypeOK, FlushedWithin, NodeOK, StreamInv,
              Size, HasAll, SendPlace, RecvPlace, To, Members
<1>2. CASE RelayNext
  <2>1. PICK p \in Members : NodeStep(p)
    BY <1>2 DEF RelayNext
  <2>2. OnlyMoves(p) /\ Fixed
    BY <2>1, StepsMoveOne DEF RelayInv, OnlyMoves
  <2>3. FlushedWithin'
    BY <2>1, FlushedStep
  <2>4. RelayTypeOK' /\ NodeOK(p)' /\ StreamInv'
    <3>1. CASE SendWord(p)
      BY <2>2, <3>1, SendWordStep, StreamSend
    <3>2. CASE MessageSent(p)
      BY <2>2, <3>2, MessageSentStep, StreamKept
    <3>3. CASE AwaitWord(p)
      BY <2>2, <3>3, AwaitWordStep, StreamKept
    <3>4. CASE RecvWord(p)
      BY <2>2, <3>4, RecvWordStep, StreamReceive
    <3>5. CASE MessageReceived(p)
      BY <2>2, <3>5, MessageReceivedStep, StreamKept
    <3>6. CASE Close(p)
      BY <2>2, <3>6, CloseStep, StreamKept
    <3> QED
      BY <2>1, <3>1, <3>2, <3>3, <3>4, <3>5, <3>6 DEF NodeStep
  <2>5. Members' = Members
    BY <2>2 DEF Fixed, Members
  <2>6. ASSUME NEW q \in Members
        PROVE  NodeOK(q)'
    <3>1. CASE q = p
      BY <2>4, <3>1
    <3>2. CASE q # p
      <4>1. q \in Node /\ NodeOK(q)
        BY MemberFacts
      <4> QED
        BY <2>2, <3>2, <4>1, StillNode DEF OnlyMoves
    <3> QED
      BY <3>1, <3>2
  <2> QED
    BY <2>3, <2>4, <2>5, <2>6 DEF RelayInv
<1> QED
  BY <1>1, <1>2

\* At all times what is under way between two neighbours is what lies between
\* their places, word by word (netmp.h:131-150, netmp.h:178-197).
THEOREM RelayInvAlways == RelaySpec => []RelayInv
<1> QED
  BY RelayInitInv, RelayStepInv, PTL DEF RelaySpec

\* A node that has the whole message has it as node 0 sent it, whatever the word
\* size, the length and the number of nodes (netmp.h:140, netmp.h:189).
THEOREM BitsArriveAlways == RelaySpec => []BitsArrive
<1>1. RelayInv => BitsArrive
  BY DEF RelayInv, NodeOK, BitsArrive
<1> QED
  BY <1>1, RelayInvAlways, PTL

\* Words and bytes of a list unpack to the list, bytes of a word are the bytes of
\* its bits, and decomposing a word gives back its bits (helpers.cpp, types.cpp).
THEOREM LayoutsAgreeAlways == RelaySpec => []LayoutsAgree
<1>1. RelayInv => LayoutsAgree
  <2> SUFFICES ASSUME RelayInv
               PROVE  LayoutsAgree
    OBVIOUS
  <2>1. message \in Seq(BOOLEAN)
    BY DEF RelayInv, RelayTypeOK, IsMessage
  <2>2. unpackBool(packBool(message), Size) = message /\ unpack(pack(message), Size) = message
    BY <2>1, ComesBack DEF Size
  <2>3. \A k \in DOMAIN packBool(message), j \in 1 .. WORDBITS \div BYTEBITS :
          (packBool(message)[k] \div 2 ^ (BYTEBITS * (j - 1))) % 2 ^ BYTEBITS =
            IF (k - 1) * (WORDBITS \div BYTEBITS) + j \in DOMAIN pack(message)
            THEN pack(message)[(k - 1) * (WORDBITS \div BYTEBITS) + j] ELSE 0
    BY <2>1, BytesOfWord
  <2>4. \A k \in DOMAIN packBool(message) :
          packBool(bitDecompose(packBool(message)[k])) = << packBool(message)[k] >>
    BY <2>1, Decomposed
  <2> QED
    BY <2>2, <2>3, <2>4 DEF LayoutsAgree
<1> QED
  BY <1>1, RelayInvAlways, PTL
-----------------------------------------------------------------------------
(* The ring never stands still before its end.                               *)

\* What p has sent to its neighbour has left its buffer: by a send under clang,
\* by flush(), by a receive from that same neighbour, or at the end.
HandedOver(p) == \/ Clang
                 \/ test = "mssg_pass_4P" /\ at[p] # "send"
                 \/ To(p) = From(p) /\ at[p] = "wait"
                 \/ at[p] = "closed"

OutgoingOK(p) == /\ chan[p][To(p)] # <<>> => sent[p][To(p)]
                 /\ HandedOver(p) => inSock[p][To(p)] = Len(chan[p][To(p)])

OutgoingInv == \A p \in Members : OutgoingOK(p)

\* What a step of p does to its own stream, and to p's place.
LEMMA OutgoingOwn ==
  ASSUME RelayInv, NEW p \in Members, OutgoingOK(p), NodeStep(p)
  PROVE  OutgoingOK(p)'
<1>1. OnlyMoves(p) /\ Fixed /\ RelayTypeOK
  BY StepsMoveOne DEF RelayInv, OnlyMoves
<1>2. PICK t \in Node, f \in Node : t = To(p) /\ f = From(p) /\ p \in Node
  BY MemberFacts
<1>3. /\ p \in Node /\ t \in Node /\ f \in Node
      /\ To(p)' = t /\ From(p)' = f /\ test' = test
      /\ chan \in [Node -> [Node -> Seq(Nat)]] /\ inSock \in [Node -> [Node -> Nat]]
      /\ sent \in [Node -> [Node -> BOOLEAN]] /\ at \in [Node -> Stops]
      /\ inSock[p][t] <= Len(chan[p][t])
  BY <1>1, <1>2 DEF RelayTypeOK, Fixed, To, From, RelayInv, FlushedWithin
<1>4. /\ chan[p][t] \in Seq(Nat) /\ Len(chan[p][t]) \in Nat /\ inSock[p][t] \in Nat
      /\ chan[p][t] = <<>> => Len(chan[p][t]) = 0
  BY <1>3
<1>5. /\ chan[p][t] # <<>> => sent[p][t]
      /\ HandedOver(p) => inSock[p][t] = Len(chan[p][t])
  BY <1>2 DEF OutgoingOK
<1>6. SUFFICES /\ chan'[p][t] # <<>> => sent'[p][t]
               /\ HandedOver(p)' => inSock'[p][t] = Len(chan'[p][t])
  BY <1>3 DEF OutgoingOK
<1>7. ASSUME FlushAll(p)
      PROVE  chan' = chan /\ sent' = sent /\ inSock'[p][t] = Len(chan[p][t])
  BY <1>3, <1>7 DEF FlushAll
<1>8. CASE SendWord(p)
  <2> DEFINE w == PackFrom(data[p], pos[p], WORDBITS)
  <2>1. /\ at[p] = "send" /\ at' = at
        /\ chan' = [chan EXCEPT ![p][t] = Append(@, w)]
        /\ sent' = [sent EXCEPT ![p][t] = TRUE]
        /\ Clang => inSock' = [inSock EXCEPT ![p][t] = Len(chan[p][t]) + 1]
    BY <1>2, <1>8 DEF SendWord, Send
  <2> HIDE DEF w
  <2>2. chan'[p][t] = Append(chan[p][t], w) /\ sent'[p][t]
    BY <1>3, <2>1
  <2>3. Len(chan'[p][t]) = Len(chan[p][t]) + 1
    BY <1>4, <2>2
  <2>4. HandedOver(p)' => Clang
    BY <1>3, <2>1 DEF HandedOver
  <2>5. Clang => inSock'[p][t] = Len(chan[p][t]) + 1
    BY <1>3, <2>1
  <2> QED
    BY <2>2, <2>3, <2>4, <2>5
<1>9. CASE MessageSent(p)
  <2>1. CASE test = "mssg_pass_4P"
    BY <1>5, <1>7, <1>9, <2>1 DEF MessageSent
  <2>2. CASE test # "mssg_pass_4P"
    <3>1. /\ chan' = chan /\ sent' = sent /\ inSock' = inSock
          /\ \E x \in {"recv", "end"} : at' = [at EXCEPT ![p] = x]
      BY <1>9, <2>2 DEF MessageSent, netVars
    <3>2. at'[p] # "wait" /\ at'[p] # "closed"
      BY <1>3, <3>1
    <3>3. HandedOver(p)' => Clang
      BY <1>3, <2>2, <3>2 DEF HandedOver
    <3>4. Clang => HandedOver(p)
      BY DEF HandedOver
    <3> QED
      BY <1>5, <3>1, <3>3, <3>4
  <2> QED
    BY <2>1, <2>2
<1>10. CASE AwaitWord(p)
  <2>1. /\ at[p] = "recv" /\ at' = [at EXCEPT ![p] = "wait"]
        /\ chan' = chan /\ sent' = sent
        /\ inSock' = IF sent[p][f] THEN [inSock EXCEPT ![p][f] = Len(chan[p][f])] ELSE inSock
    BY <1>2, <1>10 DEF AwaitWord, FlushBeforeRecv
  <2>2. CASE t = f
    <3>1. sent[p][t] => inSock'[p][t] = Len(chan[p][t])
      BY <1>3, <2>1, <2>2
    <3>2. ~sent[p][t] => inSock'[p][t] = inSock[p][t] /\ Len(chan[p][t]) = 0
      BY <1>4, <1>5, <2>1, <2>2
    <3>3. ~sent[p][t] => inSock'[p][t] = Len(chan[p][t])
      BY <1>3, <1>4, <3>2
    <3> QED
      BY <1>5, <2>1, <3>1, <3>3
  <2>3. CASE t # f
    <3>1. inSock'[p][t] = inSock[p][t]
      BY <1>3, <2>1, <2>3
    <3>2. at'[p] = "wait"
      BY <1>3, <2>1
    <3>3. HandedOver(p)' => HandedOver(p)
      BY <1>2, <1>3, <2>1, <2>3, <3>2 DEF HandedOver
    <3> QED
      BY <1>5, <2>1, <3>1, <3>3
  <2> QED
    BY <2>2, <2>3
<1>11. CASE RecvWord(p)
  <2>1. /\ at[p] = "wait" /\ at' = [at EXCEPT ![p] = "recv"]
        /\ inSock[f][p] > 0 /\ sent' = sent
        /\ chan' = [chan EXCEPT ![f][p] = Tail(@)]
        /\ inSock' = [inSock EXCEPT ![f][p] = @ - 1]
    BY <1>2, <1>11 DEF RecvWord, TakeMessage, Arrived
  <2>2. at'[p] = "recv"
    BY <1>3, <2>1
  <2>3. HandedOver(p)' => HandedOver(p)
    BY <1>3, <2>1, <2>2 DEF HandedOver
  <2>4. CASE f = p /\ t = p
    <3>1. /\ inSock[p][t] > 0 /\ chan'[p][t] = Tail(chan[p][t])
          /\ inSock'[p][t] = inSock[p][t] - 1
      BY <1>3, <2>1, <2>4
    <3>2. chan[p][t] # <<>>
      BY <1>3, <1>4, <3>1
    <3>3. Len(Tail(chan[p][t])) = Len(chan[p][t]) - 1
      BY <1>4, <3>2
    <3> QED
      BY <1>5, <2>1, <2>3, <3>1, <3>2, <3>3
  <2>5. CASE ~(f = p /\ t = p)
    <3>1. chan'[p][t] = chan[p][t] /\ inSock'[p][t] = inSock[p][t]
      BY <1>3, <2>1, <2>5
    <3> QED
      BY <1>5, <2>1, <2>3, <3>1
  <2> QED
    BY <2>4, <2>5
<1>12. CASE MessageReceived(p)
  <2>1. /\ at[p] = "recv" /\ chan' = chan /\ sent' = sent /\ inSock' = inSock
        /\ \E x \in {"send", "end"} : at' = [at EXCEPT ![p] = x]
    BY <1>12 DEF MessageReceived, netVars
  <2>2. at'[p] # "wait" /\ at'[p] # "closed"
    BY <1>3, <2>1
  <2>3. HandedOver(p)' => HandedOver(p)
    BY <1>3, <2>1, <2>2 DEF HandedOver
  <2> QED
    BY <1>5, <2>1, <2>3
<1>13. CASE Close(p)
  BY <1>5, <1>7, <1>13 DEF Close
<1> QED
  BY <1>8, <1>9, <1>10, <1>11, <1>12, <1>13 DEF NodeStep

\* A step of p sets the stream of another node only by taking a word from it.
LEMMA OutgoingOther ==
  ASSUME RelayInv, NEW p \in Members, NodeStep(p), NEW r \in Members, r # p, OutgoingOK(r)
  PROVE  OutgoingOK(r)'
<1>1. OnlyMoves(p) /\ Fixed /\ RelayTypeOK
  BY StepsMoveOne DEF RelayInv, OnlyMoves
<1>2. PICK t \in Node, f \in Node, g \in Node :
        t = To(r) /\ f = From(p) /\ g = To(p) /\ p \in Node /\ r \in Node
  BY MemberFacts
<1>3. /\ p \in Node /\ r \in Node /\ t \in Node /\ f \in Node /\ g \in Node
      /\ To(r)' = t /\ From(r)' = From(r) /\ test' = test /\ at'[r] = at[r]
      /\ chan \in [Node -> [Node -> Seq(Nat)]] /\ inSock \in [Node -> [Node -> Nat]]
      /\ sent \in [Node -> [Node -> BOOLEAN]]
      /\ inSock[r][t] <= Len(chan[r][t])
  BY <1>1, <1>2 DEF RelayTypeOK, Fixed, To, From, RelayInv, FlushedWithin, OnlyMoves, Still
<1>4. /\ chan[r][t] \in Seq(Nat) /\ Len(chan[r][t]) \in Nat /\ inSock[r][t] \in Nat
      /\ chan[r][t] = <<>> => Len(chan[r][t]) = 0
      /\ inSock[r][t] <= Len(chan[r][t])
  BY <1>3
<1>5. /\ chan[r][t] # <<>> => sent[r][t]
      /\ HandedOver(r) => inSock[r][t] = Len(chan[r][t])
      /\ HandedOver(r)' => HandedOver(r)
  BY <1>2, <1>3 DEF OutgoingOK, HandedOver
<1>6. SUFFICES /\ chan'[r][t] # <<>> => sent'[r][t]
               /\ HandedOver(r)' => inSock'[r][t] = Len(chan'[r][t])
  BY <1>3 DEF OutgoingOK
<1> DEFINE Same3 == chan'[r][t] = chan[r][t] /\ inSock'[r][t] = inSock[r][t] /\ sent'[r][t] = sent[r][t]
<1>7. ASSUME FlushAll(p)
      PROVE  Same3
  BY <1>3, <1>7 DEF FlushAll
<1>8. CASE SendWord(p)
  <2> DEFINE w == PackFrom(data[p], pos[p], WORDBITS)
  <2>1. /\ chan' = [chan EXCEPT ![p][g] = Append(@, w)]
        /\ sent' = [sent EXCEPT ![p][g] = TRUE]
        /\ inSock' = [inSock EXCEPT ![p][g] = Len(chan[p][g]) + 1] \/ inSock' = inSock
    BY <1>2, <1>8 DEF SendWord, Send
  <2> HIDE DEF w
  <2>2. Same3
    BY <1>3, <2>1
  <2> QED
    BY <1>5, <2>2
<1>9. CASE MessageSent(p)
  <2>1. Same3
    BY <1>7, <1>9 DEF MessageSent, netVars
  <2> QED
    BY <1>5, <2>1
<1>10. CASE AwaitWord(p)
  <2>1. /\ chan' = chan /\ sent' = sent
        /\ inSock' = [inSock EXCEPT ![p][f] = Len(chan[p][f])] \/ inSock' = inSock
    BY <1>2, <1>10 DEF AwaitWord, FlushBeforeRecv
  <2>2. Same3
    BY <1>3, <2>1
  <2> QED
    BY <1>5, <2>2
<1>11. CASE RecvWord(p)
  <2>1. /\ inSock[f][p] > 0 /\ sent' = sent
        /\ chan' = [chan EXCEPT ![f][p] = Tail(@)]
        /\ inSock' = [inSock EXCEPT ![f][p] = @ - 1]
    BY <1>2, <1>11 DEF RecvWord, TakeMessage, Arrived
  <2>2. CASE f = r /\ t = p
    <3>1. /\ inSock[r][t] > 0 /\ chan'[r][t] = Tail(chan[r][t])
          /\ inSock'[r][t] = inSock[r][t] - 1
      BY <1>3, <2>1, <2>2
    <3>2. chan[r][t] # <<>>
      <4>1. inSock[r][t] > 0
        BY <3>1
      <4> QED
        BY <1>4, <4>1
    <3>3. Len(Tail(chan[r][t])) = Len(chan[r][t]) - 1
      BY <1>4, <3>2
    <3> QED
      BY <1>5, <2>1, <3>1, <3>2, <3>3
  <2>3. CASE ~(f = r /\ t = p)
    <3>1. Same3
      BY <1>3, <2>1, <2>3
    <3> QED
      BY <1>5, <3>1
  <2> QED
    BY <2>2, <2>3
<1>12. CASE MessageReceived(p)
  BY <1>5, <1>12 DEF MessageReceived, netVars
<1>13. CASE Close(p)
  <2>1. Same3
    BY <1>7, <1>13 DEF Close
  <2> QED
    BY <1>5, <2>1
<1> QED
  BY <1>8, <1>9, <1>10, <1>11, <1>12, <1>13 DEF NodeStep

\* At the start no stream holds a word.
LEMMA OutgoingInit == RelayInit => OutgoingInv
<1> SUFFICES ASSUME RelayInit, NEW p \in Members
             PROVE  OutgoingOK(p)
  BY DEF OutgoingInv
<1>1. To(p) \in Node /\ p \in Node
  BY Neighbour DEF RelayInit
<1>2. chan[p][To(p)] = <<>> /\ inSock[p][To(p)] = 0
  BY <1>1 DEF RelayInit, NetInit
<1> QED
  BY <1>2 DEF OutgoingOK

\* What has to have left the buffers has left them in every state.
LEMMA OutgoingStep == RelayInv /\ OutgoingInv /\ [RelayNext]_relayVars => OutgoingInv'
<1> SUFFICES ASSUME RelayInv, OutgoingInv, [RelayNext]_relayVars
             PROVE  OutgoingInv'
  OBVIOUS
<1>1. CASE UNCHANGED relayVars
  BY <1>1 DEF relayVars, netVars, OutgoingInv, OutgoingOK, HandedOver, To, From, Members
<1>2. CASE RelayNext
  <2>1. PICK p \in Members : NodeStep(p)
    BY <1>2 DEF RelayNext
  <2>2. Members' = Members
    BY <2>1, StepsMoveOne DEF RelayInv, OnlyMoves, Fixed, Members
  <2>3. ASSUME NEW r \in Members
        PROVE  OutgoingOK(r)'
    <3>1. OutgoingOK(r)
      BY DEF OutgoingInv
    <3> QED
      BY <2>1, <3>1, OutgoingOwn, OutgoingOther
  <2> QED
    BY <2>2, <2>3 DEF OutgoingInv
<1> QED
  BY <1>1, <1>2

\* Where a stream is empty, its reader stands where its writer stands; and the
\* stream to a node that has received everything is empty.
LEMMA EmptyStream ==
  ASSUME RelayInv, NEW p \in Members, chan[p][To(p)] = <<>> \/ RecvPlace(To(p)) = Size
  PROVE  RecvPlace(To(p)) = SendPlace(p)
<1>1. PICK c : IsTrail(message, chan[p][To(p)], c, RecvPlace(To(p)), SendPlace(p))
  BY DEF RelayInv, StreamInv, Between
<1>2. chan[p][To(p)] \in Seq(Nat) /\ Len(chan[p][To(p)]) \in Nat /\ Size \in Nat
  BY MemberFacts DEF RelayTypeOK
<1>3. c[0] = RecvPlace(To(p)) /\ c[Len(chan[p][To(p)])] = SendPlace(p)
  BY <1>1 DEF IsTrail
<1>4. ASSUME Len(chan[p][To(p)]) # 0, RecvPlace(To(p)) = Size
      PROVE  FALSE
  <2>1. 1 \in 1 .. Len(chan[p][To(p)]) /\ 1 - 1 = 0
    BY <1>2, <1>4
  <2>2. InList(message, c[1 - 1])
    BY <1>1, <2>1 DEF IsTrail
  <2>3. c[0] \in 0 .. Size - 1
    BY <2>1, <2>2 DEF InList, Size
  <2> QED
    BY <1>2, <1>3, <1>4, <2>3
<1>5. Len(chan[p][To(p)]) = 0
  <2>1. chan[p][To(p)] = <<>> => Len(chan[p][To(p)]) = 0
    OBVIOUS
  <2> QED
    BY <1>4, <2>1
<1> QED
  BY <1>3, <1>5

\* A node that does not go on waits or has ended, and what it has sent has left
\* it.
LEMMA Halted ==
  ASSUME RelayInv, OutgoingInv, NEW p \in Members, ~NodeGoesOn(p)
  PROVE  /\ at[p] \in {"wait", "closed"}
         /\ inSock[p][To(p)] = Len(chan[p][To(p)])
<1>1. RelayTypeOK /\ p \in Node /\ test \in Tests
  BY MemberFacts DEF RelayTypeOK
<1>2. at[p] \in {"wait", "closed"}
  BY <1>1 DEF RelayTypeOK, Stops, NodeGoesOn
<1>3. test = "mssg_pass_4P" \/ To(p) = From(p)
  BY <1>1 DEF Tests, To, From
<1>4. HandedOver(p)
  BY <1>2, <1>3 DEF HandedOver
<1> QED
  BY <1>2, <1>4 DEF OutgoingInv, OutgoingOK

\* Where nobody goes on nothing is under way.
LEMMA StillRing ==
  ASSUME RelayInv, OutgoingInv, \A q \in Members : ~NodeGoesOn(q), NEW p \in Members
  PROVE  RecvPlace(To(p)) = SendPlace(p)
<1>1. PICK q \in Members : q = To(p) /\ From(q) = p /\ q \in Node /\ p \in Node
  BY Neighbour DEF RelayInv, RelayTypeOK
<1>2. inSock[p][q] = Len(chan[p][q]) /\ at[q] \in {"wait", "closed"}
  BY <1>1, Halted
<1>3. CASE at[q] = "wait"
  <2>1. ~(inSock[p][q] > 0)
    BY <1>1, <1>3 DEF NodeGoesOn, Arrived
  <2>2. chan[p][q] \in Seq(Nat) /\ Len(chan[p][q]) \in Nat
    BY <1>1 DEF RelayInv, RelayTypeOK
  <2>3. chan[p][q] = <<>>
    BY <1>2, <2>1, <2>2
  <2> QED
    BY <1>1, <2>3, EmptyStream
<1>4. CASE at[q] = "closed"
  <2>1. RecvPlace(To(p)) = Size
    BY <1>1, <1>4 DEF RecvPlace
  <2> QED
    BY <2>1, EmptyStream
<1> QED
  BY <1>2, <1>3, <1>4

\* A node that waits has not received all, and only node 0 has sent all then.
LEMMA WaitingPlaces ==
  ASSUME RelayInv, NEW p \in Members, at[p] = "wait"
  PROVE  /\ Size \in Nat /\ RecvPlace(p) \in Nat /\ RecvPlace(p) < Size
         /\ SendPlace(p) = IF p = 0 THEN Size ELSE 0
<1>1. Size \in Nat /\ pos[p] \in Nat /\ pos[p] < Size
  BY MemberFacts
<1> QED
  BY <1>1 DEF RecvPlace, SendPlace

\* While a program has not ended, one of them goes on: programs that call
\* flush() or receive from the node they send to never all wait, however many
\* nodes there are and however long the message is (netmp.h:162).
THEOREM RingGoesOnAlways == RelaySpec => []RingGoesOn
<1>1. RelayInv /\ OutgoingInv => RingGoesOn
  <2> SUFFICES ASSUME RelayInv, OutgoingInv, \A q \in Members : ~NodeGoesOn(q),
                      NEW r \in Members, at[r] # "closed"
               PROVE  FALSE
    BY DEF RingGoesOn
  <2>1. test \in Tests
    BY DEF RelayInv, RelayTypeOK
  <2> DEFINE T == {p \in Members : at[p] = "wait" /\ p # 0}
  <2>2. T = {}
    <3> SUFFICES ASSUME T # {}
                 PROVE  FALSE
      OBVIOUS
    <3>1. T \in SUBSET Nat
      BY <2>1, Neighbour
    <3>2. PICK p \in T : \A n \in T : p <= n
      <4> HIDE DEF T
      <4> QED
        BY <3>1, LeastNatural
    <3>3. p \in Members /\ at[p] = "wait" /\ p # 0 /\ p \in Nat
      BY <3>1, <3>2
    <3>4. PICK q \in Members : q = From(p) /\ q = p - 1 /\ To(q) = p
      BY <2>1, <3>3, Neighbour
    <3>5. RecvPlace(p) = SendPlace(q)
      BY <3>4, StillRing
    <3>6. CASE at[q] = "wait" /\ q # 0
      <4>1. q \in T
        BY <3>6
      <4> QED
        BY <3>2, <3>3, <3>4, <4>1
    <3>7. CASE ~(at[q] = "wait" /\ q # 0)
      <4>1. at[q] \in {"wait", "closed"}
        BY Halted
      <4>2. SendPlace(q) = Size
        <5>1. CASE at[q] = "wait"
          BY <3>7, <5>1, WaitingPlaces
        <5>2. CASE at[q] = "closed"
          BY <5>2 DEF SendPlace
        <5> QED
          BY <4>1, <5>1, <5>2
      <4>3. RecvPlace(p) < Size /\ Size \in Nat /\ RecvPlace(p) \in Nat
        BY <3>3, WaitingPlaces
      <4> QED
        BY <3>5, <4>2, <4>3
    <3> QED
      BY <3>6, <3>7
  <2>3. at[r] = "wait" /\ r = 0
    <3>1. at[r] = "wait"
      BY Halted
    <3> QED
      BY <2>2, <3>1
  <2>4. PICK q \in Members : q = From(r) /\ To(q) = r
    BY <2>1, Neighbour
  <2>5. RecvPlace(r) = SendPlace(q)
    BY <2>4, StillRing
  <2>6. SendPlace(q) = Size
    <3>1. at[q] \in {"wait", "closed"}
      BY Halted
    <3>2. CASE at[q] = "wait"
      <4>1. q = 0
        BY <2>2, <3>2
      <4> QED
        BY <3>2, <4>1, WaitingPlaces
    <3>3. CASE at[q] = "closed"
      BY <3>3 DEF SendPlace
    <3> QED
      BY <3>1, <3>2, <3>3
  <2>7. RecvPlace(r) < Size /\ Size \in Nat /\ RecvPlace(r) \in Nat
    BY <2>3, WaitingPlaces
  <2> QED
    BY <2>5, <2>6, <2>7
<1> QED
  BY <1>1, OutgoingInit, OutgoingStep, RelayInvAlways, PTL DEF RelaySpec
(***************************************************************************)
(* Bounded exchanges.  Where the operations of a call stand in its program:  *)
(* the k-th of the other parties is the one with rank k.                    *)
(***************************************************************************)
Rank(p, q) == IF q < p THEN q ELSE q - 1

Linked(m, p, q) == p # q /\ (m = "king" => p = pKing \/ q = pKing)

SendAt(m, p, q) ==
  IF m = "king" THEN IF p = pKing THEN 2 * (nP - 1) + 2 * Rank(p, q) - 1 ELSE 1
                ELSE Rank(p, q)

\* The flush that empties the buffer behind the send.
FlushAt(m, p, q) ==
  IF m = "king" THEN IF p = pKing THEN 2 * (nP - 1) + 2 * Rank(p, q) ELSE 2
  ELSE IF m = "direct" THEN nP - 1 + 2 * Rank(p, q) - 1
                       ELSE nP - 1 + Rank(p, q)

RecvAt(m, p, q) ==
  IF m = "king" THEN IF p = pKing THEN 2 * Rank(p, q) ELSE 3
  ELSE IF m = "direct" THEN nP - 1 + 2 * Rank(p, q)
                       ELSE 2 * (nP - 1) + 2 * Rank(p, q)

\* What operation op of party p with q stands at place k of its program s.
Stands(m, p, q, k, op) ==
  \/ op = "send" /\ k = SendAt(m, p, q)
  \/ op = "recv" /\ k = RecvAt(m, p, q)
  \/ op = "flush" /\ (k = FlushAt(m, p, q) \/ k = RecvAt(m, p, q) - 1)

OpNames == {"send", "flush", "recv"}

Entry(op, q) == [op |-> op, peer |-> q]

\* s is the program of party p in mode m.
IsProgram(m, p, s) ==
  /\ Len(s) \in Nat \ {0}
  /\ \A k \in 1 .. Len(s) : \E q \in Party, op \in OpNames :
       s[k] = Entry(op, q) /\ Linked(m, p, q) /\ Stands(m, p, q, k, op)
  /\ \A q \in Party : Linked(m, p, q) =>
       /\ SendAt(m, p, q) \in 1 .. Len(s) /\ s[SendAt(m, p, q)] = Entry("send", q)
       /\ FlushAt(m, p, q) \in 1 .. Len(s) /\ s[FlushAt(m, p, q)] = Entry("flush", q)
       /\ RecvAt(m, p, q) \in 1 .. Len(s) /\ s[RecvAt(m, p, q)] = Entry("recv", q)
       /\ SendAt(m, p, q) < FlushAt(m, p, q)

\* The loops visit the other parties in ascending order.
LEMMA OthersFacts ==
  ASSUME nP \in Nat \ {0, 1}, NEW p \in Party
  PROVE  /\ Others(p) \in Seq(Party) /\ Len(Others(p)) = nP - 1
         /\ \A k \in 1 .. nP - 1 : /\ Others(p)[k] \in Party /\ Others(p)[k] # p
                                   /\ Rank(p, Others(p)[k]) = k
         /\ \A q \in Party : q # p => /\ Rank(p, q) \in 1 .. nP - 1
                                      /\ Others(p)[Rank(p, q)] = q
<1> DEFINE s == Others(p)
<1>1. p \in 1 .. nP /\ nP - 1 \in Nat
  BY DEF Party
<1>2. s = [k \in 1 .. nP - 1 |-> IF k < p THEN k ELSE k + 1]
  BY DEF Others
<1> HIDE DEF s
<1>3. \A k \in 1 .. nP - 1 : /\ s[k] \in 1 .. nP /\ s[k] # p
                             /\ (IF s[k] < p THEN s[k] ELSE s[k] - 1) = k
  BY <1>1, <1>2
<1>4. s \in [1 .. nP - 1 -> 1 .. nP]
  BY <1>1, <1>2
<1>5. s \in Seq(1 .. nP) /\ Len(s) = nP - 1
  BY <1>1, <1>4
<1>6. \A q \in 1 .. nP : q # p => LET r == IF q < p THEN q ELSE q - 1
                                  IN  r \in 1 .. nP - 1 /\ s[r] = q
  BY <1>1, <1>2
<1> QED
  BY <1>3, <1>5, <1>6 DEF s, Rank, Party

\* The loop over one operation, and over two of them.
SingleLoop(s, p, op) ==
  /\ s \in Seq([op : OpNames, peer : Party]) /\ Len(s) = nP - 1
  /\ \A q \in Party : q # p => Rank(p, q) \in 1 .. nP - 1 /\ s[Rank(p, q)] = Entry(op, q)
  /\ \A k \in 1 .. nP - 1 : \E q \in Party :
       q # p /\ k = Rank(p, q) /\ s[k] = Entry(op, q)

PairLoop(s, p, a, b) ==
  /\ s \in Seq([op : OpNames, peer : Party]) /\ Len(s) = 2 * (nP - 1)
  /\ \A q \in Party : q # p =>
       /\ Rank(p, q) \in 1 .. nP - 1
       /\ s[2 * Rank(p, q) - 1] = Entry(a, q) /\ s[2 * Rank(p, q)] = Entry(b, q)
  /\ \A k \in 1 .. 2 * (nP - 1) : \E q \in Party :
       /\ q # p
       /\ \/ k = 2 * Rank(p, q) - 1 /\ s[k] = Entry(a, q)
          \/ k = 2 * Rank(p, q) /\ s[k] = Entry(b, q)

\* The loop over one operation visits every peer once.
LEMMA Singles ==
  ASSUME nP \in Nat \ {0, 1}, NEW p \in Party, NEW op \in OpNames
  PROVE  SingleLoop(ForEach(Others(p), <<op>>), p, op)
<1> DEFINE qs == Others(p)
           ops == <<op>>
           S == [op : OpNames, peer : Party]
           s == ForEach(Others(p), ops)
<1>1. /\ Len(qs) = nP - 1
      /\ \A k \in 1 .. nP - 1 : qs[k] \in Party /\ qs[k] # p /\ Rank(p, qs[k]) = k
      /\ \A q \in Party : q # p => Rank(p, q) \in 1 .. nP - 1 /\ qs[Rank(p, q)] = q
  BY OthersFacts
<1>2. Len(ops) = 1 /\ ops[1] = op
  OBVIOUS
<1>3. s = [k \in 1 .. Len(qs) * Len(ops) |->
             [op |-> ops[1 + ((k - 1) % Len(ops))], peer |-> qs[1 + ((k - 1) \div Len(ops))]]]
  BY DEF ForEach
<1> HIDE DEF qs, ops, s
<1>4. s = [k \in 1 .. nP - 1 |-> Entry(op, qs[k])]
  <2>1. Len(qs) * Len(ops) = nP - 1
    BY <1>1, <1>2
  <2>2. \A k \in 1 .. nP - 1 : 1 + ((k - 1) % Len(ops)) = 1 /\ 1 + ((k - 1) \div Len(ops)) = k
    BY <1>2
  <2> QED
    BY <1>2, <1>3, <2>1, <2>2 DEF Entry
<1>5. \A k \in 1 .. nP - 1 : s[k] = Entry(op, qs[k]) /\ s[k] \in S
  BY <1>1, <1>4 DEF Entry
<1>6. s \in Seq(S) /\ Len(s) = nP - 1
  <2> HIDE DEF S
  <2>1. s \in [1 .. nP - 1 -> S] /\ nP - 1 \in Nat
    BY <1>4, <1>5
  <2> QED
    BY <2>1
<1>7. \A q \in Party : q # p => Rank(p, q) \in 1 .. nP - 1 /\ s[Rank(p, q)] = Entry(op, q)
  BY <1>1, <1>5
<1>8. \A k \in 1 .. nP - 1 : \E q \in Party : q # p /\ k = Rank(p, q) /\ s[k] = Entry(op, q)
  BY <1>1, <1>5
<1> QED
  BY <1>6, <1>7, <1>8 DEF SingleLoop, s, ops

\* The loop over two operations visits every peer with both.
LEMMA Pairs ==
  ASSUME nP \in Nat \ {0, 1}, NEW p \in Party, NEW a \in OpNames, NEW b \in OpNames
  PROVE  PairLoop(ForEach(Others(p), <<a, b>>), p, a, b)
<1> DEFINE qs == Others(p)
           ops == <<a, b>>
           S == [op : OpNames, peer : Party]
           s == ForEach(Others(p), ops)
<1>1. /\ Len(qs) = nP - 1
      /\ \A k \in 1 .. nP - 1 : qs[k] \in Party /\ qs[k] # p /\ Rank(p, qs[k]) = k
      /\ \A q \in Party : q # p => Rank(p, q) \in 1 .. nP - 1 /\ qs[Rank(p, q)] = q
  BY OthersFacts
<1>2. Len(ops) = 2 /\ ops[1] = a /\ ops[2] = b
  OBVIOUS
<1>3. s = [k \in 1 .. Len(qs) * Len(ops) |->
             [op |-> ops[1 + ((k - 1) % Len(ops))], peer |-> qs[1 + ((k - 1) \div Len(ops))]]]
  BY DEF ForEach
<1> HIDE DEF qs, ops, s
<1>4. s = [k \in 1 .. 2 * (nP - 1) |-> Entry(ops[1 + ((k - 1) % 2)], qs[1 + ((k - 1) \div 2)])]
  <2>1. Len(qs) * Len(ops) = 2 * (nP - 1)
    BY <1>1, <1>2
  <2> QED
    BY <1>2, <1>3, <2>1 DEF Entry
<1>5. \A i \in 1 .. nP - 1 : /\ 2 * i - 1 \in 1 .. 2 * (nP - 1) /\ 2 * i \in 1 .. 2 * (nP - 1)
                             /\ 1 + ((2 * i - 2) % 2) = 1 /\ 1 + ((2 * i - 2) \div 2) = i
                             /\ 1 + ((2 * i - 1) % 2) = 2 /\ 1 + ((2 * i - 1) \div 2) = i
                             /\ (2 * i - 1) - 1 = 2 * i - 2
  OBVIOUS
<1>6. \A i \in 1 .. nP - 1 : s[2 * i - 1] = Entry(a, qs[i]) /\ s[2 * i] = Entry(b, qs[i])
  <2> TAKE i \in 1 .. nP - 1
  <2>1. s[2 * i - 1] = Entry(ops[1 + ((2 * i - 2) % 2)], qs[1 + ((2 * i - 2) \div 2)])
    BY <1>4, <1>5
  <2>2. s[2 * i] = Entry(ops[1 + ((2 * i - 1) % 2)], qs[1 + ((2 * i - 1) \div 2)])
    BY <1>4, <1>5
  <2> QED
    BY <1>2, <1>5, <2>1, <2>2
<1>7. \A k \in 1 .. 2 * (nP - 1) : \E i \in 1 .. nP - 1 : k = 2 * i - 1 \/ k = 2 * i
  <2> TAKE k \in 1 .. 2 * (nP - 1)
  <2> DEFINE i == (k + 1) \div 2
  <2>1. i \in 1 .. nP - 1 /\ (k = 2 * i - 1 \/ k = 2 * i)
    OBVIOUS
  <2> QED
    BY <2>1
<1>8. \A k \in 1 .. 2 * (nP - 1) : \E q \in Party :
        /\ q # p
        /\ \/ k = 2 * Rank(p, q) - 1 /\ s[k] = Entry(a, q)
           \/ k = 2 * Rank(p, q) /\ s[k] = Entry(b, q)
  <2> TAKE k \in 1 .. 2 * (nP - 1)
  <2>1. PICK i \in 1 .. nP - 1 : k = 2 * i - 1 \/ k = 2 * i
    BY <1>7
  <2>2. qs[i] \in Party /\ qs[i] # p /\ Rank(p, qs[i]) = i
    BY <1>1
  <2> QED
    BY <1>6, <2>1, <2>2
<1>9. \A q \in Party : q # p =>
        /\ Rank(p, q) \in 1 .. nP - 1
        /\ s[2 * Rank(p, q) - 1] = Entry(a, q) /\ s[2 * Rank(p, q)] = Entry(b, q)
  BY <1>1, <1>6
<1>10. s \in Seq(S) /\ Len(s) = 2 * (nP - 1)
  <2>1. \A k \in 1 .. 2 * (nP - 1) : s[k] \in S
    <3> TAKE k \in 1 .. 2 * (nP - 1)
    <3>1. PICK q \in Party : s[k] = Entry(a, q) \/ s[k] = Entry(b, q)
      BY <1>8
    <3> QED
      BY <3>1 DEF Entry
  <2> HIDE DEF S
  <2> DEFINE n == 2 * (nP - 1)
  <2>3. n \in Nat
    OBVIOUS
  <2>4. s = [k \in 1 .. n |-> s[k]]
    BY <1>4
  <2> HIDE DEF n
  <2>2. s \in [1 .. n -> S]
    BY <2>1, <2>4 DEF n
  <2>5. s \in Seq(S) /\ Len(s) = n
    BY <2>2, <2>3
  <2> QED
    BY <2>5 DEF n
<1> QED
  BY <1>8, <1>9, <1>10 DEF PairLoop, s, ops

\* Two programs, one after the other.
LEMMA OneAfterTheOther ==
  ASSUME NEW S, NEW s \in Seq(S), NEW t \in Seq(S)
  PROVE  /\ s \o t \in Seq(S) /\ Len(s \o t) = Len(s) + Len(t)
         /\ \A k \in 1 .. Len(s) : (s \o t)[k] = s[k]
         /\ \A k \in 1 .. Len(t) : (s \o t)[Len(s) + k] = t[k]
OBVIOUS

\* In a direct call a party sends to every peer, and then receives from every peer.
LEMMA DirectProgram ==
  ASSUME nP \in Nat \ {0, 1}, NEW p \in Party
  PROVE  IsProgram("direct", p, DirectCall(p)) /\ Len(DirectCall(p)) = 3 * (nP - 1)
<1> DEFINE s == ForEach(Others(p), <<"send">>)
           t == ForEach(Others(p), <<"flush", "recv">>)
           u == s \o t
           n == nP - 1
           m == "direct"
<1>0. "send" \in OpNames /\ "flush" \in OpNames /\ "recv" \in OpNames
  BY DEF OpNames
<1>1. /\ s \in Seq([op : OpNames, peer : Party]) /\ Len(s) = n
      /\ \A q \in Party : q # p => Rank(p, q) \in 1 .. n /\ s[Rank(p, q)] = Entry("send", q)
      /\ \A k \in 1 .. n : \E q \in Party : q # p /\ k = Rank(p, q) /\ s[k] = Entry("send", q)
  <2>1. SingleLoop(s, p, "send")
    BY <1>0, Singles
  <2> HIDE DEF s
  <2> QED
    BY <2>1 DEF SingleLoop
<1>2. /\ t \in Seq([op : OpNames, peer : Party]) /\ Len(t) = 2 * n
      /\ \A q \in Party : q # p =>
           /\ t[2 * Rank(p, q) - 1] = Entry("flush", q) /\ t[2 * Rank(p, q)] = Entry("recv", q)
      /\ \A k \in 1 .. 2 * n : \E q \in Party :
           /\ q # p
           /\ \/ k = 2 * Rank(p, q) - 1 /\ t[k] = Entry("flush", q)
              \/ k = 2 * Rank(p, q) /\ t[k] = Entry("recv", q)
  <2>1. PairLoop(t, p, "flush", "recv")
    BY <1>0, Pairs
  <2> HIDE DEF t
  <2> QED
    BY <2>1 DEF PairLoop
<1> HIDE DEF s, t
<1>3. /\ u \in Seq([op : OpNames, peer : Party]) /\ Len(u) = Len(s) + Len(t)
      /\ \A k \in 1 .. Len(s) : u[k] = s[k]
      /\ \A k \in 1 .. Len(t) : u[Len(s) + k] = t[k]
  <2> DEFINE S == [op : OpNames, peer : Party]
  <2>1. s \in Seq(S) /\ t \in Seq(S)
    BY <1>1, <1>2
  <2> HIDE DEF S
  <2> QED
    BY <2>1, OneAfterTheOther DEF S
<1>4. n \in Nat \ {0} /\ Len(u) = 3 * n
  BY <1>1, <1>2, <1>3
<1> HIDE DEF n, u
<1>5. \A q \in Party : q # p =>
        /\ Rank(p, q) \in 1 .. n /\ u[Rank(p, q)] = Entry("send", q)
        /\ u[n + 2 * Rank(p, q) - 1] = Entry("flush", q) /\ u[n + 2 * Rank(p, q)] = Entry("recv", q)
  <2> TAKE q \in Party
  <2> SUFFICES ASSUME q # p
               PROVE  /\ Rank(p, q) \in 1 .. n /\ u[Rank(p, q)] = Entry("send", q)
                      /\ u[n + 2 * Rank(p, q) - 1] = Entry("flush", q)
                      /\ u[n + 2 * Rank(p, q)] = Entry("recv", q)
    OBVIOUS
  <2> DEFINE r == Rank(p, q)
  <2>1. r \in 1 .. n /\ s[r] = Entry("send", q) /\ t[2 * r - 1] = Entry("flush", q) /\ t[2 * r] = Entry("recv", q)
    BY <1>1, <1>2
  <2> HIDE DEF r
  <2>2. 2 * r - 1 \in 1 .. 2 * n /\ 2 * r \in 1 .. 2 * n /\ n + (2 * r - 1) = n + 2 * r - 1
    BY <1>4, <2>1
  <2>3. u[r] = s[r] /\ u[n + (2 * r - 1)] = t[2 * r - 1] /\ u[n + 2 * r] = t[2 * r]
    BY <1>1, <1>2, <1>3, <2>1, <2>2
  <2> QED
    BY <2>1, <2>2, <2>3 DEF r
<1>6. /\ \A q : SendAt(m, p, q) = Rank(p, q) /\ FlushAt(m, p, q) = n + 2 * Rank(p, q) - 1
                /\ RecvAt(m, p, q) = n + 2 * Rank(p, q)
      /\ \A q : Linked(m, p, q) <=> p # q
  BY DEF SendAt, FlushAt, RecvAt, Linked, n
<1> HIDE DEF m
<1>7. \A k \in 1 .. Len(u) : \E q \in Party, op \in OpNames :
        u[k] = Entry(op, q) /\ Linked(m, p, q) /\ Stands(m, p, q, k, op)
  <2> TAKE k \in 1 .. Len(u)
  <2>1. CASE k \in 1 .. n
    <3>1. PICK q \in Party : q # p /\ k = Rank(p, q)
      BY <1>1, <2>1
    <3> QED
      BY <1>0, <1>5, <1>6, <3>1 DEF Stands
  <2>2. CASE k \in n + 1 .. 3 * n
    <3>1. k - n \in 1 .. 2 * n /\ k = n + (k - n)
      BY <1>4, <2>2
    <3>2. PICK q \in Party : q # p /\ (k - n = 2 * Rank(p, q) - 1 \/ k - n = 2 * Rank(p, q))
      BY <1>2, <3>1
    <3> DEFINE r == Rank(p, q)
    <3>3. r \in 1 .. n
      BY <1>5, <3>2
    <3>4. k = n + 2 * r - 1 \/ k = n + 2 * r
      <4> HIDE DEF r
      <4>1. k - n = 2 * r - 1 \/ k - n = 2 * r
        BY <3>2 DEF r
      <4> QED
        BY <1>4, <3>3, <4>1
    <3>5. \/ k = FlushAt(m, p, q) /\ u[k] = Entry("flush", q)
          \/ k = RecvAt(m, p, q) /\ u[k] = Entry("recv", q)
      BY <1>5, <1>6, <3>2, <3>4
    <3> QED
      BY <1>0, <1>6, <3>2, <3>5 DEF Stands
  <2> QED
    BY <1>4, <2>1, <2>2
<1>8. \A q \in Party : Linked(m, p, q) =>
       /\ SendAt(m, p, q) \in 1 .. Len(u) /\ u[SendAt(m, p, q)] = Entry("send", q)
       /\ FlushAt(m, p, q) \in 1 .. Len(u) /\ u[FlushAt(m, p, q)] = Entry("flush", q)
       /\ RecvAt(m, p, q) \in 1 .. Len(u) /\ u[RecvAt(m, p, q)] = Entry("recv", q)
       /\ SendAt(m, p, q) < FlushAt(m, p, q)
  BY <1>4, <1>5, <1>6
<1> QED
  <2>1. IsProgram(m, p, u)
    BY <1>4, <1>7, <1>8 DEF IsProgram
  <2>2. u = DirectCall(p)
    BY DEF DirectCall, RecvOps, u, s, t
  <2>3. m = "direct" /\ n = nP - 1
    BY DEF m, n
  <2> QED
    BY <1>4, <2>1, <2>2, <2>3

\* In a vectorised call it flushes every peer in between.
LEMMA VectorProgram ==
  ASSUME nP \in Nat \ {0, 1}, NEW p \in Party
  PROVE  IsProgram("vector", p, VectorCall(p)) /\ Len(VectorCall(p)) = 4 * (nP - 1)
<1> DEFINE S == [op : OpNames, peer : Party]
           s == ForEach(Others(p), <<"send">>)
           f == ForEach(Others(p), <<"flush">>)
           t == ForEach(Others(p), <<"flush", "recv">>)
           v == s \o f
           u == v \o t
           n == nP - 1
           m == "vector"
<1>0. "send" \in OpNames /\ "flush" \in OpNames /\ "recv" \in OpNames
  BY DEF OpNames
<1>1. /\ s \in Seq(S) /\ Len(s) = n
      /\ \A q \in Party : q # p => Rank(p, q) \in 1 .. n /\ s[Rank(p, q)] = Entry("send", q)
      /\ \A k \in 1 .. n : \E q \in Party : q # p /\ k = Rank(p, q)
  <2>1. SingleLoop(s, p, "send")
    BY <1>0, Singles
  <2> HIDE DEF s
  <2> QED
    BY <2>1 DEF SingleLoop
<1>2. /\ f \in Seq(S) /\ Len(f) = n
      /\ \A q \in Party : q # p => f[Rank(p, q)] = Entry("flush", q)
  <2>1. SingleLoop(f, p, "flush")
    BY <1>0, Singles
  <2> HIDE DEF f
  <2> QED
    BY <2>1 DEF SingleLoop
<1>3. /\ t \in Seq(S) /\ Len(t) = 2 * n
      /\ \A q \in Party : q # p =>
           /\ t[2 * Rank(p, q) - 1] = Entry("flush", q) /\ t[2 * Rank(p, q)] = Entry("recv", q)
      /\ \A k \in 1 .. 2 * n : \E q \in Party :
           q # p /\ (k = 2 * Rank(p, q) - 1 \/ k = 2 * Rank(p, q))
  <2>1. PairLoop(t, p, "flush", "recv")
    BY <1>0, Pairs
  <2> HIDE DEF t
  <2> QED
    BY <2>1 DEF PairLoop
<1> HIDE DEF S, s, f, t
<1>4. /\ v \in Seq(S) /\ Len(v) = Len(s) + Len(f)
      /\ \A k \in 1 .. Len(s) : v[k] = s[k]
      /\ \A k \in 1 .. Len(f) : v[Len(s) + k] = f[k]
  <2>1. s \in Seq(S) /\ f \in Seq(S)
    BY <1>1, <1>2
  <2> QED
    BY <2>1, OneAfterTheOther
<1> HIDE DEF v
<1>5. /\ u \in Seq(S) /\ Len(u) = Len(v) + Len(t)
      /\ \A k \in 1 .. Len(v) : u[k] = v[k]
      /\ \A k \in 1 .. Len(t) : u[Len(v) + k] = t[k]
  <2>1. v \in Seq(S) /\ t \in Seq(S)
    BY <1>3, <1>4
  <2> QED
    BY <2>1, OneAfterTheOther
<1>6. n \in Nat \ {0} /\ Len(v) = 2 * n /\ Len(u) = 4 * n
  BY <1>1, <1>2, <1>3, <1>4, <1>5
<1> HIDE DEF n, u
<1>7. \A q \in Party : q # p =>
        /\ Rank(p, q) \in 1 .. n
        /\ u[Rank(p, q)] = Entry("send", q) /\ u[n + Rank(p, q)] = Entry("flush", q)
        /\ u[2 * n + 2 * Rank(p, q) - 1] = Entry("flush", q)
        /\ u[2 * n + 2 * Rank(p, q)] = Entry("recv", q)
  <2> TAKE q \in Party
  <2> DEFINE r == Rank(p, q)
  <2> SUFFICES ASSUME q # p
               PROVE  /\ r \in 1 .. n
                      /\ u[r] = Entry("send", q) /\ u[n + r] = Entry("flush", q)
                      /\ u[2 * n + 2 * r - 1] = Entry("flush", q)
                      /\ u[2 * n + 2 * r] = Entry("recv", q)
    OBVIOUS
  <2>1. /\ r \in 1 .. n /\ s[r] = Entry("send", q) /\ f[r] = Entry("flush", q)
        /\ t[2 * r - 1] = Entry("flush", q) /\ t[2 * r] = Entry("recv", q)
    BY <1>1, <1>2, <1>3
  <2> HIDE DEF r
  <2>2. /\ 2 * r - 1 \in 1 .. 2 * n /\ 2 * r \in 1 .. 2 * n
        /\ 2 * n + (2 * r - 1) = 2 * n + 2 * r - 1
        /\ r \in 1 .. 2 * n /\ n + r \in 1 .. 2 * n
    BY <1>6, <2>1
  <2>3. /\ v[r] = s[r] /\ v[n + r] = f[r] /\ u[r] = v[r] /\ u[n + r] = v[n + r]
    BY <1>1, <1>2, <1>4, <1>5, <1>6, <2>1, <2>2
  <2>4. u[2 * n + (2 * r - 1)] = t[2 * r - 1] /\ u[2 * n + 2 * r] = t[2 * r]
    BY <1>3, <1>5, <1>6, <2>2
  <2> QED
    BY <2>1, <2>2, <2>3, <2>4
<1>8. /\ \A q : SendAt(m, p, q) = Rank(p, q) /\ FlushAt(m, p, q) = n + Rank(p, q)
                /\ RecvAt(m, p, q) = 2 * n + 2 * Rank(p, q)
      /\ \A q : Linked(m, p, q) <=> p # q
  BY DEF SendAt, FlushAt, RecvAt, Linked, n
<1> HIDE DEF m
<1>9. \A k \in 1 .. Len(u) : \E q \in Party, op \in OpNames :
        u[k] = Entry(op, q) /\ Linked(m, p, q) /\ Stands(m, p, q, k, op)
  <2> TAKE k \in 1 .. Len(u)
  <2>1. CASE k \in 1 .. n
    <3>1. PICK q \in Party : q # p /\ k = Rank(p, q)
      BY <1>1, <2>1
    <3> QED
      BY <1>0, <1>7, <1>8, <3>1 DEF Stands
  <2>2. CASE k \in n + 1 .. 2 * n
    <3>1. k - n \in 1 .. n /\ k = n + (k - n)
      BY <1>6, <2>2
    <3>2. PICK q \in Party : q # p /\ k - n = Rank(p, q)
      BY <1>1, <3>1
    <3>3. k = n + Rank(p, q)
      BY <3>1, <3>2
    <3> QED
      BY <1>0, <1>7, <1>8, <3>2, <3>3 DEF Stands
  <2>3. CASE k \in 2 * n + 1 .. 4 * n
    <3>1. k - 2 * n \in 1 .. 2 * n
      BY <1>6, <2>3
    <3>2. PICK q \in Party : q # p /\ (k - 2 * n = 2 * Rank(p, q) - 1 \/ k - 2 * n = 2 * Rank(p, q))
      BY <1>3, <3>1
    <3> DEFINE r == Rank(p, q)
    <3>3. r \in 1 .. n
      BY <1>7, <3>2
    <3>4. k = 2 * n + 2 * r - 1 \/ k = 2 * n + 2 * r
      <4> HIDE DEF r
      <4>1. k - 2 * n = 2 * r - 1 \/ k - 2 * n = 2 * r
        BY <3>2 DEF r
      <4> QED
        BY <1>6, <3>3, <4>1
    <3>6. /\ RecvAt(m, p, q) = 2 * n + 2 * r
          /\ u[2 * n + 2 * r - 1] = Entry("flush", q) /\ u[2 * n + 2 * r] = Entry("recv", q)
      BY <1>7, <1>8, <3>2
    <3>5. \/ k = RecvAt(m, p, q) - 1 /\ u[k] = Entry("flush", q)
          \/ k = RecvAt(m, p, q) /\ u[k] = Entry("recv", q)
      <4> HIDE DEF r
      <4> QED
        BY <1>6, <3>3, <3>4, <3>6
    <3> QED
      BY <1>0, <1>8, <3>2, <3>5 DEF Stands
  <2> QED
    BY <1>6, <2>1, <2>2, <2>3
<1>10. \A q \in Party : Linked(m, p, q) =>
       /\ SendAt(m, p, q) \in 1 .. Len(u) /\ u[SendAt(m, p, q)] = Entry("send", q)
       /\ FlushAt(m, p, q) \in 1 .. Len(u) /\ u[FlushAt(m, p, q)] = Entry("flush", q)
       /\ RecvAt(m, p, q) \in 1 .. Len(u) /\ u[RecvAt(m, p, q)] = Entry("recv", q)
       /\ SendAt(m, p, q) < FlushAt(m, p, q)
  BY <1>6, <1>7, <1>8
<1> QED
  <2>1. IsProgram(m, p, u)
    BY <1>6, <1>9, <1>10 DEF IsProgram
  <2>2. u = VectorCall(p)
    BY DEF VectorCall, RecvOps, u, v, s, f, t
  <2>3. m = "vector" /\ n = nP - 1
    BY DEF m, n
  <2> QED
    BY <1>6, <2>1, <2>2, <2>3

\* The king receives from every party, and then answers every one.
LEMMA KingProgram ==
  ASSUME nP \in Nat \ {0, 1}
  PROVE  IsProgram("king", pKing, KingCall(pKing)) /\ Len(KingCall(pKing)) = 4 * (nP - 1)
<1> DEFINE S == [op : OpNames, peer : Party]
           p == pKing
           s == ForEach(Others(p), <<"flush", "recv">>)
           t == ForEach(Others(p), <<"send", "flush">>)
           u == s \o t
           n == nP - 1
           m == "king"
<1>0. "send" \in OpNames /\ "flush" \in OpNames /\ "recv" \in OpNames
  BY DEF OpNames
<1>a. p \in Party
  BY DEF Party, pKing
<1>1. /\ s \in Seq(S) /\ Len(s) = 2 * n
      /\ \A q \in Party : q # p =>
           /\ Rank(p, q) \in 1 .. n
           /\ s[2 * Rank(p, q) - 1] = Entry("flush", q) /\ s[2 * Rank(p, q)] = Entry("recv", q)
      /\ \A k \in 1 .. 2 * n : \E q \in Party :
           q # p /\ (k = 2 * Rank(p, q) - 1 \/ k = 2 * Rank(p, q))
  <2> HIDE DEF p
  <2>1. PairLoop(s, p, "flush", "recv")
    BY <1>0, <1>a, Pairs
  <2> HIDE DEF s
  <2> QED
    BY <2>1 DEF PairLoop
<1>2. /\ t \in Seq(S) /\ Len(t) = 2 * n
      /\ \A q \in Party : q # p =>
           /\ t[2 * Rank(p, q) - 1] = Entry("send", q) /\ t[2 * Rank(p, q)] = Entry("flush", q)
  <2> HIDE DEF p
  <2>1. PairLoop(t, p, "send", "flush")
    BY <1>0, <1>a, Pairs
  <2> HIDE DEF t
  <2> QED
    BY <2>1 DEF PairLoop
<1> HIDE DEF S, s, t
<1>3. /\ u \in Seq(S) /\ Len(u) = Len(s) + Len(t)
      /\ \A k \in 1 .. Len(s) : u[k] = s[k]
      /\ \A k \in 1 .. Len(t) : u[Len(s) + k] = t[k]
  <2>1. s \in Seq(S) /\ t \in Seq(S)
    BY <1>1, <1>2
  <2> QED
    BY <2>1, OneAfterTheOther
<1>4. n \in Nat \ {0} /\ Len(u) = 4 * n
  BY <1>1, <1>2, <1>3
<1> HIDE DEF n, u, p
<1>5. \A q \in Party : q # p =>
        /\ Rank(p, q) \in 1 .. n
        /\ u[2 * Rank(p, q) - 1] = Entry("flush", q) /\ u[2 * Rank(p, q)] = Entry("recv", q)
        /\ u[2 * n + 2 * Rank(p, q) - 1] = Entry("send", q)
        /\ u[2 * n + 2 * Rank(p, q)] = Entry("flush", q)
  <2> TAKE q \in Party
  <2> DEFINE r == Rank(p, q)
  <2> SUFFICES ASSUME q # p
               PROVE  /\ r \in 1 .. n
                      /\ u[2 * r - 1] = Entry("flush", q) /\ u[2 * r] = Entry("recv", q)
                      /\ u[2 * n + 2 * r - 1] = Entry("send", q)
                      /\ u[2 * n + 2 * r] = Entry("flush", q)
    OBVIOUS
  <2>1. /\ r \in 1 .. n
        /\ s[2 * r - 1] = Entry("flush", q) /\ s[2 * r] = Entry("recv", q)
        /\ t[2 * r - 1] = Entry("send", q) /\ t[2 * r] = Entry("flush", q)
    BY <1>1, <1>2
  <2> HIDE DEF r
  <2>2. /\ 2 * r - 1 \in 1 .. 2 * n /\ 2 * r \in 1 .. 2 * n
        /\ 2 * n + (2 * r - 1) = 2 * n + 2 * r - 1
    BY <1>4, <2>1
  <2>3. u[2 * r - 1] = s[2 * r - 1] /\ u[2 * r] = s[2 * r]
    BY <1>1, <1>3, <2>2
  <2>4. u[2 * n + (2 * r - 1)] = t[2 * r - 1] /\ u[2 * n + 2 * r] = t[2 * r]
    BY <1>1, <1>2, <1>3, <2>2
  <2> QED
    BY <2>1, <2>2, <2>3, <2>4
<1>6. /\ \A q : SendAt(m, p, q) = 2 * n + 2 * Rank(p, q) - 1
                /\ FlushAt(m, p, q) = 2 * n + 2 * Rank(p, q)
                /\ RecvAt(m, p, q) = 2 * Rank(p, q)
      /\ \A q : Linked(m, p, q) <=> p # q
  BY DEF SendAt, FlushAt, RecvAt, Linked, n, p
<1> HIDE DEF m
<1>7. \A k \in 1 .. Len(u) : \E q \in Party, op \in OpNames :
        u[k] = Entry(op, q) /\ Linked(m, p, q) /\ Stands(m, p, q, k, op)
  <2> TAKE k \in 1 .. Len(u)
  <2>1. CASE k \in 1 .. 2 * n
    <3>1. PICK q \in Party : q # p /\ (k = 2 * Rank(p, q) - 1 \/ k = 2 * Rank(p, q))
      BY <1>1, <2>1
    <3>2. \/ k = RecvAt(m, p, q) - 1 /\ u[k] = Entry("flush", q)
          \/ k = RecvAt(m, p, q) /\ u[k] = Entry("recv", q)
      BY <1>5, <1>6, <3>1
    <3> QED
      BY <1>0, <1>6, <3>1, <3>2 DEF Stands
  <2>2. CASE k \in 2 * n + 1 .. 4 * n
    <3>1. k - 2 * n \in 1 .. 2 * n
      BY <1>4, <2>2
    <3>2. PICK q \in Party : q # p /\ (k - 2 * n = 2 * Rank(p, q) - 1 \/ k - 2 * n = 2 * Rank(p, q))
      BY <1>1, <3>1
    <3> DEFINE r == Rank(p, q)
    <3>3. r \in 1 .. n
      BY <1>5, <3>2
    <3>4. k = 2 * n + 2 * r - 1 \/ k = 2 * n + 2 * r
      <4> HIDE DEF r
      <4>1. k - 2 * n = 2 * r - 1 \/ k - 2 * n = 2 * r
        BY <3>2 DEF r
      <4> QED
        BY <1>4, <3>3, <4>1
    <3>5. \/ k = SendAt(m, p, q) /\ u[k] = Entry("send", q)
          \/ k = FlushAt(m, p, q) /\ u[k] = Entry("flush", q)
      BY <1>5, <1>6, <3>2, <3>4
    <3> QED
      BY <1>0, <1>6, <3>2, <3>5 DEF Stands
  <2> QED
    BY <1>4, <2>1, <2>2
<1>8. \A q \in Party : Linked(m, p, q) =>
       /\ SendAt(m, p, q) \in 1 .. Len(u) /\ u[SendAt(m, p, q)] = Entry("send", q)
       /\ FlushAt(m, p, q) \in 1 .. Len(u) /\ u[FlushAt(m, p, q)] = Entry("flush", q)
       /\ RecvAt(m, p, q) \in 1 .. Len(u) /\ u[RecvAt(m, p, q)] = Entry("recv", q)
       /\ SendAt(m, p, q) < FlushAt(m, p, q)
  <2> TAKE q \in Party
  <2> DEFINE r == Rank(p, q)
  <2> SUFFICES ASSUME q # p
               PROVE  /\ SendAt(m, p, q) \in 1 .. Len(u) /\ u[SendAt(m, p, q)] = Entry("send", q)
                      /\ FlushAt(m, p, q) \in 1 .. Len(u) /\ u[FlushAt(m, p, q)] = Entry("flush", q)
                      /\ RecvAt(m, p, q) \in 1 .. Len(u) /\ u[RecvAt(m, p, q)] = Entry("recv", q)
                      /\ SendAt(m, p, q) < FlushAt(m, p, q)
    BY <1>6
  <2>1. r \in 1 .. n
    BY <1>5
  <2>2. /\ SendAt(m, p, q) = 2 * n + 2 * r - 1 /\ FlushAt(m, p, q) = 2 * n + 2 * r
        /\ RecvAt(m, p, q) = 2 * r
    BY <1>6
  <2>3. /\ u[2 * r] = Entry("recv", q)
        /\ u[2 * n + 2 * r - 1] = Entry("send", q) /\ u[2 * n + 2 * r] = Entry("flush", q)
    BY <1>5
  <2> HIDE DEF r
  <2> QED
    BY <1>4, <2>1, <2>2, <2>3
<1> QED
  <2>1. IsProgram(m, p, u)
    BY <1>4, <1>7, <1>8 DEF IsProgram
  <2>2. u = KingCall(pKing)
    BY DEF KingCall, RecvOps, u, s, t, p
  <2>3. m = "king" /\ n = nP - 1 /\ p = pKing
    BY DEF m, n, p
  <2> QED
    BY <1>4, <2>1, <2>2, <2>3

\* Every other party sends to the king, and receives from it.
LEMMA SubjectProgram ==
  ASSUME nP \in Nat \ {0, 1}, NEW p \in Party, p # pKing
  PROVE  IsProgram("king", p, KingCall(p)) /\ Len(KingCall(p)) = 3
<1> DEFINE qs == <<pKing>>
           ops == <<"send">> \o RecvOps
           u == ForEach(qs, ops)
           m == "king"
<1>0. "send" \in OpNames /\ "flush" \in OpNames /\ "recv" \in OpNames /\ pKing \in Party
  BY DEF OpNames, pKing, Party
<1>1. Len(qs) = 1 /\ qs[1] = pKing
  OBVIOUS
<1>2. Len(ops) = 3 /\ ops[1] = "send" /\ ops[2] = "flush" /\ ops[3] = "recv"
  BY DEF RecvOps
<1>3. u = [k \in 1 .. Len(qs) * Len(ops) |->
             [op |-> ops[1 + ((k - 1) % Len(ops))], peer |-> qs[1 + ((k - 1) \div Len(ops))]]]
  BY DEF ForEach
<1> HIDE DEF qs, ops, u
<1>4. u = [k \in 1 .. 3 |-> Entry(ops[k], pKing)]
  <2>1. Len(qs) * Len(ops) = 3
    BY <1>1, <1>2
  <2>2. \A k \in 1 .. 3 : 1 + ((k - 1) % Len(ops)) = k /\ 1 + ((k - 1) \div Len(ops)) = 1
    BY <1>2
  <2> QED
    BY <1>1, <1>3, <2>1, <2>2 DEF Entry
<1>5. Len(u) = 3
  BY <1>4
<1>6. u[1] = Entry("send", pKing) /\ u[2] = Entry("flush", pKing) /\ u[3] = Entry("recv", pKing)
  BY <1>2, <1>4
<1>7. /\ \A q : SendAt(m, p, q) = 1 /\ FlushAt(m, p, q) = 2 /\ RecvAt(m, p, q) = 3
      /\ \A q : Linked(m, p, q) <=> q = pKing
  BY DEF SendAt, FlushAt, RecvAt, Linked
<1> HIDE DEF m
<1>8. \A k \in 1 .. Len(u) : \E q \in Party, op \in OpNames :
        u[k] = Entry(op, q) /\ Linked(m, p, q) /\ Stands(m, p, q, k, op)
  <2> TAKE k \in 1 .. Len(u)
  <2>1. \/ u[k] = Entry("send", pKing) /\ k = 1
        \/ u[k] = Entry("flush", pKing) /\ k = 2
        \/ u[k] = Entry("recv", pKing) /\ k = 3
    BY <1>5, <1>6
  <2> QED
    BY <1>0, <1>7, <2>1 DEF Stands
<1>9. \A q \in Party : Linked(m, p, q) =>
       /\ SendAt(m, p, q) \in 1 .. Len(u) /\ u[SendAt(m, p, q)] = Entry("send", q)
       /\ FlushAt(m, p, q) \in 1 .. Len(u) /\ u[FlushAt(m, p, q)] = Entry("flush", q)
       /\ RecvAt(m, p, q) \in 1 .. Len(u) /\ u[RecvAt(m, p, q)] = Entry("recv", q)
       /\ SendAt(m, p, q) < FlushAt(m, p, q)
  BY <1>5, <1>6, <1>7
<1> QED
  <2>1. IsProgram(m, p, u)
    BY <1>5, <1>8, <1>9 DEF IsProgram
  <2>2. u = KingCall(p)
    BY DEF KingCall, u, qs, ops
  <2>3. m = "king"
    BY DEF m
  <2> QED
    BY <1>5, <2>1, <2>2, <2>3

\* The program of every party in every mode is the one of its mode.
LEMMA ProgramFacts ==
  ASSUME NEW m \in Modes, NEW p \in Party
  PROVE  /\ IsProgram(m, p, Ops[m][p])
         /\ m = "direct" => Len(Ops[m][p]) = 3 * (nP - 1)
         /\ m = "vector" => Len(Ops[m][p]) = 4 * (nP - 1)
         /\ m = "king" => Len(Ops[m][p]) = IF p = pKing THEN 4 * (nP - 1) ELSE 3
<1>1. nP \in Nat \ {0, 1}
  BY BoundedExchangeAssumption
<1>2. CASE m = "direct"
  <2>1. Ops[m][p] = DirectCall(p)
    BY <1>2 DEF Ops
  <2> QED
    BY <1>1, <1>2, <2>1, DirectProgram
<1>3. CASE m = "vector"
  <2>1. Ops[m][p] = VectorCall(p)
    BY <1>3 DEF Ops
  <2> QED
    BY <1>1, <1>3, <2>1, VectorProgram
<1>4. CASE m = "king"
  <2>1. Ops[m][p] = KingCall(p)
    BY <1>4 DEF Ops
  <2>2. CASE p = pKing
    BY <1>1, <1>4, <2>1, <2>2, KingProgram
  <2>3. CASE p # pKing
    BY <1>1, <1>4, <2>1, <2>3, SubjectProgram
  <2> QED
    BY <2>2, <2>3
<1> QED
  BY <1>2, <1>3, <1>4 DEF Modes
-----------------------------------------------------------------------------
(* The inductive invariant.                                                  *)

\* What p has moved of its list to q, and from q, in the call it is in.
Held(k, j, a, l) == IF k > j THEN l ELSE IF k = j THEN a ELSE 0
MovedIn(p, j) == Held(pc[p], j, moved[p], setup.length)

\* And in all calls until now, counted from one list too many.
Tally(p, k) == call[p] * setup.length + MovedIn(p, k)
Sent(p, q) == Tally(p, SendAt(setup.mode, p, q))
Taken(p, q) == Tally(p, RecvAt(setup.mode, p, q))

ExchangeTypeOK ==
  /\ setup \in Setups
  /\ call \in [Party -> 1 .. numCalls + 1]
  /\ pc \in [Party -> Nat]
  /\ moved \in [Party -> Nat]
  /\ buffered \in [Party -> [Party -> Nat]]
  /\ socket \in [Party -> [Party -> Nat]]

\* Where a party is in its program.
PlaceInv ==
  \A p \in Party :
    /\ pc[p] \in 1 .. Len(Program(p))
    /\ moved[p] < setup.length
    /\ Program(p)[pc[p]].op = "flush" => moved[p] = 0
    /\ ~InCall(p) => pc[p] = 1 /\ moved[p] = 0

\* What is under way from p to q is what p has sent and q has not taken.
FlowInv ==
  \A p, q \in Party :
    buffered[p][q] + socket[p][q] =
      IF Linked(setup.mode, p, q) THEN Sent(p, q) - Taken(q, p) ELSE 0

RoomInv ==
  \A p, q \in Party : buffered[p][q] <= setup.bufCap /\ socket[p][q] <= setup.sockCap

\* What lies in a buffer belongs to this call, and is gone after the flush.
Unflushed(p, q) == IF pc[p] > FlushAt(setup.mode, p, q)
                   THEN 0 ELSE MovedIn(p, SendAt(setup.mode, p, q))

FlushedInv ==
  \A p, q \in Party : Linked(setup.mode, p, q) => buffered[p][q] <= Unflushed(p, q)

ExchangeInv == ExchangeTypeOK /\ PlaceInv /\ FlowInv /\ RoomInv /\ FlushedInv

-----------------------------------------------------------------------------
\* Products of a call and a length.
LEMMA Times ==
  ASSUME NEW c \in Nat, NEW l \in Nat
  PROVE  c * l \in Nat /\ (c + 1) * l = c * l + l
OBVIOUS

\* Elements of B bytes that fit into g bytes.
LEMMA FitInto ==
  ASSUME NEW B \in Nat \ {0}, NEW g \in Nat, NEW l \in Nat, l * B <= g
  PROVE  g \div B \in Nat /\ l <= g \div B
<1>1. PICK d \in Int, r \in 0 .. B - 1 : d = g \div B /\ g = B * d + r
  BY ModDiv
<1>2. \A k \in Int : k <= -1 => B * k <= -B
  OBVIOUS
<1>3. B * (d - l) = B * d - l * B /\ d - l \in Int
  BY <1>1
<1>4. ~(d - l <= -1)
  <2>1. B * d - l * B >= -r
    BY <1>1
  <2> QED
    BY <1>1, <1>2, <1>3, <2>1
<1>5. l <= d
  BY <1>1, <1>4
<1> QED
  BY <1>1, <1>5

\* A number that is an int stays what it is, and what is left of another is one.
LEMMA WrappedFacts ==
  ASSUME NEW v \in Nat
  PROVE  Wrapped(v) \in Int /\ (v <= IntMax => Wrapped(v) = v)
<1> DEFINE h == IntMax + 1
           m == 2 * h
<1>1. h \in Nat \ {0} /\ m \in Nat \ {0} /\ v + h \in Nat /\ IntMax = h - 1 /\ m = h + h
  BY BoundedExchangeAssumption
<1>2. Wrapped(v) = ((v + h) % m) - h
  <2>1. v + IntMax + 1 = v + h
    BY <1>1
  <2> QED
    BY <2>1 DEF Wrapped
<1> HIDE DEF m, h
<1>3. PICK a \in Int : a = v + h
  BY <1>1
<1>4. a % m \in Int
  BY <1>1, ModDiv
<1>5. ASSUME v <= IntMax
      PROVE  a % m = a
  <2>1. a \in 0 .. m - 1 /\ a = m * 0 + a
    BY <1>1, <1>3, <1>5
  <2> QED
    BY <1>1, <2>1, ModUnique
<1> QED
  BY <1>1, <1>2, <1>3, <1>4, <1>5

\* A socket takes something, and what is promised to fit fits into it.
LEMMA CapacityFacts ==
  ASSUME NEW c \in Cases
  PROVE  /\ Capacity(c) \in Nat \ {0}
         /\ /\ c.length * RingBytes <= c.limit
            /\ \/ c.mode = "direct" /\ c.length * RingBytes <= FixedRequest
               \/ c.mode = "vector" /\ c.length * RingBytes * 2 <= IntMax
            => c.length <= Capacity(c)
<1> DEFINE l == c.length
           v == l * RingBytes * 2
           request == IF c.mode = "vector" THEN VectorRequest(l) ELSE FixedRequest
           granted == IF request < c.limit THEN request ELSE c.limit
<1>1. /\ c.mode \in Modes /\ l \in Nat \ {0} /\ c.limit \in Nat /\ RingBytes <= c.limit
      /\ RingBytes \in Nat \ {0} /\ IntMax \in Nat
      /\ MinRequest \in Nat /\ RingBytes <= MinRequest
      /\ FixedRequest \in Nat /\ RingBytes <= FixedRequest
  BY BoundedExchangeAssumption
<1>2. Capacity(c) = granted \div RingBytes
  BY DEF Capacity
<1>3. l * RingBytes \in Nat /\ v \in Nat /\ v = l * RingBytes + l * RingBytes /\ 1 * RingBytes = RingBytes
  BY <1>1
<1>4. /\ VectorRequest(l) \in Nat /\ RingBytes <= VectorRequest(l)
      /\ v <= IntMax => l * RingBytes <= VectorRequest(l)
  <2>1. Wrapped(v) \in Int /\ (v <= IntMax => Wrapped(v) = v)
    BY <1>3, WrappedFacts
  <2>2. VectorRequest(l) = Larger(MinRequest, Wrapped(v))
    BY DEF VectorRequest
  <2> HIDE DEF v
  <2>3. PICK w \in Int : w = Wrapped(v)
    BY <2>1
  <2>4. PICK x \in Int : x = l * RingBytes /\ x \in Nat
    BY <1>3
  <2> QED
    BY <1>1, <1>3, <2>1, <2>2, <2>3, <2>4 DEF Larger
<1> HIDE DEF l, v
<1>5. request \in Nat /\ RingBytes <= request
  BY <1>1, <1>4
<1>6. granted \in Nat /\ RingBytes <= granted
  <2> HIDE DEF request
  <2> QED
    BY <1>1, <1>5
<1>7. granted \div RingBytes \in Nat /\ 1 <= granted \div RingBytes
  <2> HIDE DEF granted
  <2> QED
    BY <1>1, <1>3, <1>6, FitInto
<1>8. ASSUME l * RingBytes <= c.limit,
             \/ c.mode = "direct" /\ l * RingBytes <= FixedRequest
             \/ c.mode = "vector" /\ v <= IntMax
      PROVE  l <= granted \div RingBytes
  <2>1. l * RingBytes <= request
    BY <1>4, <1>8
  <2>2. l * RingBytes <= granted
    <3> HIDE DEF request
    <3> QED
      BY <1>8, <2>1
  <2> HIDE DEF granted
  <2> QED
    BY <1>1, <1>6, <2>2, FitInto
<1> HIDE DEF granted
<1>9. granted \div RingBytes # 0
  BY <1>7
<1> QED
  BY <1>2, <1>7, <1>8, <1>9 DEF l, v

\* What the setup of a run holds.
LEMMA SetupFacts ==
  ASSUME setup \in Setups
  PROVE  /\ setup.mode \in Modes /\ setup.length \in Nat \ {0}
         /\ setup.sockCap \in Nat \ {0} /\ setup.bufCap \in Nat \ {0}
         /\ Promised => setup.mode = "king" \/ setup.length <= setup.sockCap
<1>1. PICK c \in Cases :
        setup = [mode |-> c.mode, length |-> c.length, limit |-> c.limit, bufCap |-> c.bufCap,
                 sockCap |-> Capacity(c)]
  BY DEF Setups
<1>2. /\ setup.mode = c.mode /\ setup.length = c.length /\ setup.limit = c.limit
      /\ setup.bufCap = c.bufCap /\ setup.sockCap = Capacity(c)
  BY <1>1
<1>3. c.mode \in Modes /\ c.length \in Nat \ {0} /\ c.bufCap \in Nat \ {0}
  BY BoundedExchangeAssumption
<1>4. Promised => setup.mode = "king" \/ setup.length <= setup.sockCap
  BY <1>2, CapacityFacts DEF Promised
<1> QED
  BY <1>2, <1>3, <1>4, CapacityFacts

\* The programs of this run are those of its mode.
LEMMA RunPrograms ==
  ASSUME setup \in Setups, NEW p \in Party
  PROVE  /\ setup.mode \in Modes /\ setup.length \in Nat \ {0}
         /\ setup.sockCap \in Nat \ {0} /\ setup.bufCap \in Nat \ {0}
         /\ IsProgram(setup.mode, p, Program(p))
BY SetupFacts, ProgramFacts DEF Program

\* The operation a party is in stands where its program has it, and the
\* places of the other operations are others.
LEMMA Standing ==
  ASSUME ExchangeTypeOK, PlaceInv, NEW p \in Party
  PROVE  /\ pc[p] \in 1 .. Len(Program(p)) /\ PeerOf(p) \in Party
         /\ Program(p)[pc[p]].op \in OpNames
         /\ Linked(setup.mode, p, PeerOf(p))
         /\ Stands(setup.mode, p, PeerOf(p), pc[p], Program(p)[pc[p]].op)
         /\ \A q \in Party : Linked(setup.mode, p, q) =>
              /\ pc[p] = SendAt(setup.mode, p, q) =>
                   Program(p)[pc[p]].op = "send" /\ PeerOf(p) = q
              /\ pc[p] = FlushAt(setup.mode, p, q) =>
                   Program(p)[pc[p]].op = "flush" /\ PeerOf(p) = q
              /\ pc[p] = RecvAt(setup.mode, p, q) =>
                   Program(p)[pc[p]].op = "recv" /\ PeerOf(p) = q
         /\ \A q \in Party : Linked(setup.mode, p, q) =>
              /\ SendAt(setup.mode, p, q) \in 1 .. Len(Program(p))
              /\ FlushAt(setup.mode, p, q) \in 1 .. Len(Program(p))
              /\ RecvAt(setup.mode, p, q) \in 1 .. Len(Program(p))
              /\ SendAt(setup.mode, p, q) < FlushAt(setup.mode, p, q)
<1> DEFINE m == setup.mode
           s == Program(p)
<1>1. IsProgram(m, p, s)
  BY RunPrograms DEF ExchangeTypeOK
<1>2. pc[p] \in 1 .. Len(s) /\ PeerOf(p) = s[pc[p]].peer
  BY DEF PlaceInv, PeerOf
<1> HIDE DEF s, m
<1>3. \A k \in 1 .. Len(s) : \E q \in Party, op \in OpNames :
        s[k] = Entry(op, q) /\ Linked(m, p, q) /\ Stands(m, p, q, k, op)
  BY <1>1 DEF IsProgram
<1>4. PICK q \in Party, op \in OpNames :
        s[pc[p]] = Entry(op, q) /\ Linked(m, p, q) /\ Stands(m, p, q, pc[p], op)
  BY <1>2, <1>3
<1>5. s[pc[p]].op = op /\ PeerOf(p) = q
  BY <1>2, <1>4 DEF Entry
<1>6. \A r \in Party : Linked(m, p, r) =>
        /\ SendAt(m, p, r) \in 1 .. Len(s) /\ s[SendAt(m, p, r)] = Entry("send", r)
        /\ FlushAt(m, p, r) \in 1 .. Len(s) /\ s[FlushAt(m, p, r)] = Entry("flush", r)
        /\ RecvAt(m, p, r) \in 1 .. Len(s) /\ s[RecvAt(m, p, r)] = Entry("recv", r)
        /\ SendAt(m, p, r) < FlushAt(m, p, r)
  BY <1>1 DEF IsProgram
<1>7. \A r : /\ Entry("send", r).op = "send" /\ Entry("flush", r).op = "flush"
             /\ Entry("recv", r).op = "recv" /\ Entry("send", r).peer = r
             /\ Entry("flush", r).peer = r /\ Entry("recv", r).peer = r
  BY DEF Entry
<1>8. \A r \in Party : Linked(m, p, r) =>
        /\ pc[p] = SendAt(m, p, r) => s[pc[p]].op = "send" /\ PeerOf(p) = r
        /\ pc[p] = FlushAt(m, p, r) => s[pc[p]].op = "flush" /\ PeerOf(p) = r
        /\ pc[p] = RecvAt(m, p, r) => s[pc[p]].op = "recv" /\ PeerOf(p) = r
  BY <1>2, <1>6, <1>7
<1> QED
  BY <1>2, <1>4, <1>5, <1>6, <1>8 DEF s, m

\* The totals before and after an operation has moved d.
Grown(c, k, a, c2, k2, a2, l, j, d) ==
  c2 * l + Held(k2, j, a2, l) = c * l + Held(k, j, a, l) + d

\* The totals grow by what an operation moves, also when its end ends the call.
LEMMA Wrap ==
  ASSUME NEW c \in Nat, NEW l \in Nat \ {0}, NEW len \in Nat \ {0}, NEW k \in 1 .. len,
         NEW a \in 0 .. l - 1, NEW j \in 1 .. len,
         NEW c2, NEW k2, NEW a2,
         \/ a + 1 # l /\ a2 = a + 1 /\ k2 = k /\ c2 = c
         \/ a + 1 = l /\ a2 = 0 /\ k # len /\ k2 = k + 1 /\ c2 = c
         \/ a + 1 = l /\ a2 = 0 /\ k = len /\ k2 = 1 /\ c2 = c + 1
  PROVE  Grown(c, k, a, c2, k2, a2, l, j, IF j = k THEN 1 ELSE 0)
<1>1. c * l \in Nat /\ (c + 1) * l = c * l + l
  BY Times
<1> DEFINE x == c * l
           y == (c + 1) * l
<1>2. c2 * l = IF c2 = c THEN x ELSE y
  OBVIOUS
<1> HIDE DEF x, y
<1>3. x \in Nat /\ y = x + l
  BY <1>1 DEF x, y
<1>4. (IF c2 = c THEN x ELSE y) + (IF k2 > j THEN l ELSE IF k2 = j THEN a2 ELSE 0) =
        x + (IF k > j THEN l ELSE IF k = j THEN a ELSE 0) + (IF j = k THEN 1 ELSE 0)
  <2>1. CASE a + 1 # l /\ a2 = a + 1 /\ k2 = k /\ c2 = c
    BY <1>3, <2>1
  <2>2. CASE a + 1 = l /\ a2 = 0 /\ k # len /\ k2 = k + 1 /\ c2 = c
    BY <1>3, <2>2
  <2>3. CASE a + 1 = l /\ a2 = 0 /\ k = len /\ k2 = 1 /\ c2 = c + 1
    <3>1. (IF c2 = c THEN x ELSE y) = x + l
      BY <1>3, <2>3
    <3>2. (IF k2 > j THEN l ELSE IF k2 = j THEN a2 ELSE 0) = 0
      BY <2>3
    <3>3. l = (IF k > j THEN l ELSE IF k = j THEN a ELSE 0) + (IF j = k THEN 1 ELSE 0)
      BY <2>3
    <3> DEFINE b == IF k > j THEN l ELSE IF k = j THEN a ELSE 0
               d == IF j = k THEN 1 ELSE 0
    <3>4. b \in Int /\ d \in Int
      OBVIOUS
    <3>5. (x + l) + 0 = x + b + d
      <4> HIDE DEF b, d
      <4> QED
        BY <1>3, <3>3, <3>4 DEF b, d
    <3> QED
      BY <3>1, <3>2, <3>5
  <2> QED
    BY <2>1, <2>2, <2>3
<1> QED
  BY <1>2, <1>4 DEF x, Held, Grown

\* The same for an operation that moves nothing.
LEMMA WrapFlush ==
  ASSUME NEW c \in Nat, NEW l \in Nat \ {0}, NEW len \in Nat \ {0}, NEW k \in 1 .. len,
         NEW j \in 1 .. len, NEW c2, NEW k2,
         \/ k # len /\ k2 = k + 1 /\ c2 = c
         \/ k = len /\ k2 = 1 /\ c2 = c + 1,
         j # k
  PROVE  Grown(c, k, 0, c2, k2, 0, l, j, 0)
<1>1. c * l \in Nat /\ (c + 1) * l = c * l + l
  BY Times
<1> DEFINE x == c * l
           y == (c + 1) * l
<1>2. c2 * l = IF c2 = c THEN x ELSE y
  OBVIOUS
<1> HIDE DEF x, y
<1>3. x \in Nat /\ y = x + l
  BY <1>1 DEF x, y
<1>4. (IF c2 = c THEN x ELSE y) + (IF k2 > j THEN l ELSE IF k2 = j THEN 0 ELSE 0) =
        x + (IF k > j THEN l ELSE IF k = j THEN 0 ELSE 0)
  BY <1>3
<1>5. c2 * l + Held(k2, j, 0, l) = x + Held(k, j, 0, l)
  BY <1>2, <1>4 DEF Held
<1>6. x + Held(k, j, 0, l) \in Int
  BY <1>3 DEF Held
<1> QED
  BY <1>5, <1>6 DEF Grown, x

\* Where a unit of the list is moved.
LEMMA MoveStep ==
  ASSUME ExchangeTypeOK, PlaceInv, NEW p \in Party, InCall(p),
         Program(p)[pc[p]].op # "flush", Move(p), setup' = setup
  PROVE  /\ call' \in [Party -> 1 .. numCalls + 1] /\ pc' \in [Party -> Nat]
         /\ moved' \in [Party -> Nat] /\ PlaceInv'
         /\ \A r \in Party : r # p => call'[r] = call[r] /\ pc'[r] = pc[r] /\ moved'[r] = moved[r]
         /\ \/ moved[p] + 1 # setup.length /\ pc'[p] = pc[p] /\ moved'[p] = moved[p] + 1
            \/ /\ moved[p] + 1 = setup.length /\ moved'[p] = 0
               /\ pc'[p] = IF pc[p] = Len(Program(p)) THEN 1 ELSE pc[p] + 1
         /\ pc[p] # Len(Program(p)) => call'[p] = call[p]
         /\ \A j \in 1 .. Len(Program(p)) :
              Tally(p, j)' = Tally(p, j) + (IF j = pc[p] THEN 1 ELSE 0)
<1> DEFINE l == setup.length
           len == Len(Program(p))
<1>1. /\ setup.length \in Nat \ {0} /\ numCalls \in Nat
      /\ call[p] \in 1 .. numCalls /\ pc[p] \in 1 .. len /\ moved[p] \in Nat /\ moved[p] < l
  BY RunPrograms, BoundedExchangeAssumption DEF ExchangeTypeOK, PlaceInv, InCall
<1>2. /\ call \in [Party -> 1 .. numCalls + 1] /\ pc \in [Party -> Nat]
      /\ moved \in [Party -> Nat]
  BY DEF ExchangeTypeOK
<1>3. \/ /\ moved[p] + 1 # l /\ moved' = [moved EXCEPT ![p] = @ + 1]
         /\ call' = call /\ pc' = pc
      \/ /\ moved[p] + 1 = l /\ moved' = [moved EXCEPT ![p] = 0] /\ pc[p] # len
         /\ pc' = [pc EXCEPT ![p] = @ + 1] /\ call' = call
      \/ /\ moved[p] + 1 = l /\ moved' = [moved EXCEPT ![p] = 0] /\ pc[p] = len
         /\ pc' = [pc EXCEPT ![p] = 1] /\ call' = [call EXCEPT ![p] = @ + 1]
  BY DEF Move, Advance
<1>4. /\ call' \in [Party -> 1 .. numCalls + 1] /\ pc' \in [Party -> Nat]
      /\ moved' \in [Party -> Nat]
  <2>1. call[p] + 1 \in 1 .. numCalls + 1 /\ pc[p] + 1 \in Nat /\ 1 \in Nat
    BY <1>1
  <2>2. call' = call \/ call' = [call EXCEPT ![p] = call[p] + 1]
    BY <1>3
  <2>3. pc' = pc \/ pc' = [pc EXCEPT ![p] = pc[p] + 1] \/ pc' = [pc EXCEPT ![p] = 1]
    BY <1>3
  <2>4. moved' \in [Party -> Nat]
    <3>1. moved[p] + 1 \in Nat /\ 0 \in Nat
      BY <1>1
    <3>2. moved' = [moved EXCEPT ![p] = moved[p] + 1] \/ moved' = [moved EXCEPT ![p] = 0]
      BY <1>3
    <3> HIDE <1>3
    <3> QED
      BY <1>2, <3>1, <3>2
  <2> HIDE <1>3
  <2>5. call' \in [Party -> 1 .. numCalls + 1]
    BY <1>2, <2>1, <2>2
  <2>6. pc' \in [Party -> Nat]
    BY <1>2, <2>1, <2>3
  <2> QED
    BY <2>4, <2>5, <2>6
<1>5. \A r \in Party : r # p => call'[r] = call[r] /\ pc'[r] = pc[r] /\ moved'[r] = moved[r]
  BY <1>2, <1>3
<1>6. \/ moved[p] + 1 # l /\ moved'[p] = moved[p] + 1 /\ pc'[p] = pc[p] /\ call'[p] = call[p]
      \/ moved[p] + 1 = l /\ moved'[p] = 0 /\ pc[p] # len /\ pc'[p] = pc[p] + 1 /\ call'[p] = call[p]
      \/ moved[p] + 1 = l /\ moved'[p] = 0 /\ pc[p] = len /\ pc'[p] = 1 /\ call'[p] = call[p] + 1
  BY <1>2, <1>3
<1>7. len \in Nat \ {0}
  BY RunPrograms DEF ExchangeTypeOK, IsProgram
<1>8. \A r \in Party : Program(r)' = Program(r)
  BY DEF Program
<1>9. PlaceInv'
  <2> SUFFICES ASSUME NEW r \in Party
               PROVE  /\ pc'[r] \in 1 .. Len(Program(r))
                      /\ moved'[r] < l
                      /\ Program(r)[pc'[r]].op = "flush" => moved'[r] = 0
                      /\ ~(call'[r] <= numCalls) => pc'[r] = 1 /\ moved'[r] = 0
    BY <1>8 DEF PlaceInv, InCall
  <2>1. CASE r # p
    BY <1>5, <2>1 DEF PlaceInv, InCall
  <2>2. CASE r = p
    <3>1. pc'[p] \in 1 .. len /\ moved'[p] < l
      <4> HIDE DEF l, len
      <4> QED
        BY <1>1, <1>6, <1>7 DEF l
    <3>2. Program(p)[pc'[p]].op = "flush" => moved'[p] = 0
      BY <1>6
    <3>3. ~(call'[p] <= numCalls) => pc'[p] = 1 /\ moved'[p] = 0
      BY <1>1, <1>6
    <3> QED
      BY <2>2, <3>1, <3>2, <3>3
  <2> QED
    BY <2>1, <2>2
<1>10. \A j \in 1 .. len : Tally(p, j)' = Tally(p, j) + (IF j = pc[p] THEN 1 ELSE 0)
  <2> TAKE j \in 1 .. len
  <2>1. call'[p] * l + Held(pc'[p], j, moved'[p], l) =
          call[p] * l + Held(pc[p], j, moved[p], l) + (IF j = pc[p] THEN 1 ELSE 0)
    <3>1. call[p] \in Nat /\ moved[p] \in 0 .. l - 1
      BY <1>1
    <3> HIDE DEF l, len
    <3>2. l \in Nat \ {0}
      BY <1>1 DEF l
    <3> DEFINE c == call[p]
               k == pc[p]
               a == moved[p]
               c2 == call'[p]
               k2 == pc'[p]
               a2 == moved'[p]
    <3>3. /\ c \in Nat /\ len \in Nat \ {0} /\ k \in 1 .. len /\ a \in 0 .. l - 1
          /\ \/ a + 1 # l /\ a2 = a + 1 /\ k2 = k /\ c2 = c
             \/ a + 1 = l /\ a2 = 0 /\ k # len /\ k2 = k + 1 /\ c2 = c
             \/ a + 1 = l /\ a2 = 0 /\ k = len /\ k2 = 1 /\ c2 = c + 1
      BY <1>1, <1>6, <1>7, <3>1
    <3> HIDE DEF c, k, a, c2, k2, a2
    <3>4. Grown(c, k, a, c2, k2, a2, l, j, IF j = k THEN 1 ELSE 0)
      BY <3>2, <3>3, Wrap
    <3> QED
      BY <3>4 DEF Grown, c, k, a, c2, k2, a2
  <2> QED
    BY <2>1 DEF Tally, MovedIn
<1> QED
  BY <1>4, <1>5, <1>6, <1>9, <1>10

\* Where a flush has ended.
LEMMA AdvanceStep ==
  ASSUME ExchangeTypeOK, PlaceInv, NEW p \in Party, InCall(p),
         Program(p)[pc[p]].op = "flush", Advance(p), moved' = moved, setup' = setup
  PROVE  /\ call' \in [Party -> 1 .. numCalls + 1] /\ pc' \in [Party -> Nat] /\ PlaceInv'
         /\ moved[p] = 0
         /\ \A r \in Party : r # p => call'[r] = call[r] /\ pc'[r] = pc[r]
         /\ pc'[p] = IF pc[p] = Len(Program(p)) THEN 1 ELSE pc[p] + 1
         /\ \A j \in 1 .. Len(Program(p)) : j # pc[p] => Tally(p, j)' = Tally(p, j)
<1> DEFINE l == setup.length
           len == Len(Program(p))
<1>1. /\ setup.length \in Nat \ {0} /\ numCalls \in Nat
      /\ call[p] \in 1 .. numCalls /\ pc[p] \in 1 .. len /\ moved[p] = 0
  BY RunPrograms, BoundedExchangeAssumption DEF ExchangeTypeOK, PlaceInv, InCall
<1>2. /\ call \in [Party -> 1 .. numCalls + 1] /\ pc \in [Party -> Nat]
  BY DEF ExchangeTypeOK
<1>3. \/ pc[p] # len /\ pc' = [pc EXCEPT ![p] = @ + 1] /\ call' = call
      \/ pc[p] = len /\ pc' = [pc EXCEPT ![p] = 1] /\ call' = [call EXCEPT ![p] = @ + 1]
  BY DEF Advance
<1>4. /\ call' \in [Party -> 1 .. numCalls + 1] /\ pc' \in [Party -> Nat]
  <2>1. /\ call[p] + 1 \in 1 .. numCalls + 1
        /\ pc[p] + 1 \in Nat /\ 1 \in Nat
    BY <1>1
  <2> HIDE DEF l, len
  <2>2. CASE pc[p] # len
    BY <1>2, <1>3, <2>1, <2>2
  <2>3. CASE pc[p] = len
    BY <1>2, <1>3, <2>1, <2>3
  <2> QED
    BY <2>2, <2>3
<1>5. \A r \in Party : r # p => call'[r] = call[r] /\ pc'[r] = pc[r]
  BY <1>2, <1>3
<1>6. \/ pc[p] # len /\ pc'[p] = pc[p] + 1 /\ call'[p] = call[p]
      \/ pc[p] = len /\ pc'[p] = 1 /\ call'[p] = call[p] + 1
  BY <1>2, <1>3
<1>7. len \in Nat \ {0}
  BY RunPrograms DEF ExchangeTypeOK, IsProgram
<1>8. \A r \in Party : Program(r)' = Program(r)
  BY DEF Program
<1>9. PlaceInv'
  <2> SUFFICES ASSUME NEW r \in Party
               PROVE  /\ pc'[r] \in 1 .. Len(Program(r))
                      /\ moved[r] < l
                      /\ Program(r)[pc'[r]].op = "flush" => moved[r] = 0
                      /\ ~(call'[r] <= numCalls) => pc'[r] = 1 /\ moved[r] = 0
    BY <1>8 DEF PlaceInv, InCall
  <2>1. CASE r # p
    BY <1>5, <2>1 DEF PlaceInv, InCall
  <2>2. CASE r = p
    <3>1. pc'[p] \in 1 .. len /\ moved[p] < l
      <4> HIDE DEF l, len
      <4> QED
        BY <1>1, <1>6, <1>7 DEF l
    <3>2. ~(call'[p] <= numCalls) => pc'[p] = 1
      BY <1>1, <1>6
    <3> QED
      BY <1>1, <2>2, <3>1, <3>2
  <2> QED
    BY <2>1, <2>2
<1>10. \A j \in 1 .. len : j # pc[p] => Tally(p, j)' = Tally(p, j)
  <2> TAKE j \in 1 .. len
  <2> HAVE j # pc[p]
  <2>1. call'[p] * l + Held(pc'[p], j, 0, l) = call[p] * l + Held(pc[p], j, 0, l)
    <3>1. call[p] \in Nat
      BY <1>1
    <3> HIDE DEF l, len
    <3>2. l \in Nat \ {0}
      BY <1>1 DEF l
    <3> DEFINE c == call[p]
               k == pc[p]
               c2 == call'[p]
               k2 == pc'[p]
    <3>3. /\ c \in Nat /\ len \in Nat \ {0} /\ k \in 1 .. len /\ j # k
          /\ \/ k # len /\ k2 = k + 1 /\ c2 = c
             \/ k = len /\ k2 = 1 /\ c2 = c + 1
      BY <1>1, <1>6, <1>7, <3>1
    <3> HIDE DEF c, k, c2, k2
    <3>4. Grown(c, k, 0, c2, k2, 0, l, j, 0)
      BY <3>2, <3>3, WrapFlush
    <3>5. c * l + Held(k, j, 0, l) \in Int
      BY <3>2, <3>3 DEF Held
    <3> QED
      BY <3>4, <3>5 DEF Grown, c, k, c2, k2
  <2> QED
    BY <1>1, <2>1 DEF Tally, MovedIn
<1> QED
  BY <1>1, <1>4, <1>5, <1>6, <1>9, <1>10

\* A list that is behind its place is whole.
LEMMA HeldFacts ==
  ASSUME ExchangeTypeOK, PlaceInv, NEW p \in Party, NEW j \in Nat
  PROVE  /\ MovedIn(p, j) \in 0 .. setup.length
         /\ Tally(p, j) \in Nat /\ Tally(p, j) = call[p] * setup.length + MovedIn(p, j)
         /\ pc[p] > j => MovedIn(p, j) = setup.length
         /\ pc[p] = j => MovedIn(p, j) = moved[p]
         /\ pc[p] < j => MovedIn(p, j) = 0
<1>1. /\ setup.length \in Nat \ {0} /\ call[p] \in Nat /\ pc[p] \in Nat
      /\ moved[p] \in Nat /\ moved[p] < setup.length
  <2>1. setup \in Setups /\ call[p] \in 1 .. numCalls + 1 /\ pc[p] \in Nat /\ moved[p] \in Nat
    BY DEF ExchangeTypeOK
  <2> QED
    BY <2>1, RunPrograms, BoundedExchangeAssumption DEF PlaceInv
<1>2. call[p] * setup.length \in Nat
  BY <1>1, Times
<1>3. /\ MovedIn(p, j) \in 0 .. setup.length
      /\ pc[p] > j => MovedIn(p, j) = setup.length
      /\ pc[p] = j => MovedIn(p, j) = moved[p]
      /\ pc[p] < j => MovedIn(p, j) = 0
  BY <1>1 DEF MovedIn, Held
<1>4. Tally(p, j) = call[p] * setup.length + MovedIn(p, j)
  BY DEF Tally
<1> QED
  BY <1>2, <1>3, <1>4

\* The initial states satisfy the invariant.
LEMMA ExchangeStarts == ExchangeInit => ExchangeInv
<1> SUFFICES ASSUME ExchangeInit
             PROVE  ExchangeInv
  OBVIOUS
<1>1. nP \in Nat \ {0, 1} /\ numCalls \in Nat /\ setup \in Setups
  BY BoundedExchangeAssumption DEF ExchangeInit
<1>2. /\ \A p \in Party : call[p] = 1 /\ pc[p] = 1 /\ moved[p] = 0
      /\ \A p, q \in Party : buffered[p][q] = 0 /\ socket[p][q] = 0
  BY DEF ExchangeInit
<1>3. ExchangeTypeOK
  <2>1. 1 \in 1 .. numCalls + 1 /\ 1 \in Nat /\ 0 \in Nat
    BY <1>1
  <2> QED
    BY <1>1, <2>1 DEF ExchangeTypeOK, ExchangeInit
<1>4. PlaceInv
  <2> SUFFICES ASSUME NEW p \in Party
               PROVE  /\ pc[p] \in 1 .. Len(Program(p)) /\ moved[p] < setup.length
                      /\ pc[p] = 1 /\ moved[p] = 0
    BY DEF PlaceInv
  <2>1. Len(Program(p)) \in Nat \ {0} /\ setup.length \in Nat \ {0}
    BY <1>1, RunPrograms DEF IsProgram
  <2> QED
    BY <1>2, <2>1
<1>5. \A p, q \in Party : Linked(setup.mode, p, q) =>
        /\ Sent(p, q) = Taken(q, p) /\ Sent(p, q) \in Nat
        /\ MovedIn(p, SendAt(setup.mode, p, q)) = 0
  <2> TAKE p \in Party, q \in Party
  <2> SUFFICES ASSUME Linked(setup.mode, p, q)
               PROVE  /\ Sent(p, q) = Taken(q, p) /\ Sent(p, q) \in Nat
                      /\ MovedIn(p, SendAt(setup.mode, p, q)) = 0
    OBVIOUS
  <2>1. Linked(setup.mode, q, p)
    BY DEF Linked
  <2>2. SendAt(setup.mode, p, q) \in 1 .. Len(Program(p))
    BY <1>3, <1>4, Standing
  <2>3. RecvAt(setup.mode, q, p) \in 1 .. Len(Program(q))
    BY <1>3, <1>4, <2>1, Standing
  <2>4. SendAt(setup.mode, p, q) \in Nat /\ SendAt(setup.mode, p, q) >= 1
    BY <2>2
  <2>5. RecvAt(setup.mode, q, p) \in Nat /\ RecvAt(setup.mode, q, p) >= 1
    BY <2>3
  <2>6. MovedIn(p, SendAt(setup.mode, p, q)) = 0
    BY <1>2, <2>4 DEF MovedIn, Held
  <2>7. MovedIn(q, RecvAt(setup.mode, q, p)) = 0
    BY <1>2, <2>5 DEF MovedIn, Held
  <2>8. Sent(p, q) \in Nat
    BY <1>3, <1>4, <2>4, HeldFacts DEF Sent
  <2> QED
    BY <1>2, <2>6, <2>7, <2>8 DEF Sent, Taken, Tally
<1>6. FlowInv /\ FlushedInv
  BY <1>2, <1>5 DEF FlowInv, FlushedInv, Unflushed
<1>7. RoomInv
  <2> SUFFICES ASSUME NEW p \in Party
               PROVE  0 <= setup.bufCap /\ 0 <= setup.sockCap
    BY <1>2 DEF RoomInv
  <2> QED
    BY <1>1, RunPrograms
<1> QED
  BY <1>3, <1>4, <1>6, <1>7 DEF ExchangeInv

\* A send and a recv move one unit of what the party has sent to, or taken
\* from, the peer of the operation.
LEMMA MoveEffect ==
  ASSUME ExchangeTypeOK, PlaceInv, NEW p \in Party, InCall(p),
         NEW op \in {"send", "recv"}, Program(p)[pc[p]].op = op, Move(p), setup' = setup,
         NEW r \in Party, NEW t \in Party, Linked(setup.mode, r, t)
  PROVE  /\ Sent(r, t)' = Sent(r, t) + (IF r = p /\ t = PeerOf(p) /\ op = "send" THEN 1 ELSE 0)
         /\ Taken(r, t)' = Taken(r, t) + (IF r = p /\ t = PeerOf(p) /\ op = "recv" THEN 1 ELSE 0)
<1>1. PICK i \in 1 .. Len(Program(r)), j \in 1 .. Len(Program(r)) :
        i = SendAt(setup.mode, r, t) /\ j = RecvAt(setup.mode, r, t)
  BY Standing
<1>2. Sent(r, t) = Tally(r, i) /\ Taken(r, t) = Tally(r, j)
  BY <1>1 DEF Sent, Taken
<1>3. Sent(r, t)' = Tally(r, i)' /\ Taken(r, t)' = Tally(r, j)'
  BY <1>1 DEF Sent, Taken
<1>4. Tally(r, i) \in Nat /\ Tally(r, j) \in Nat
  <2>1. i \in Nat /\ j \in Nat
    BY <1>1
  <2> QED
    BY <2>1, HeldFacts
<1>5. CASE r # p
  <2>1. call'[r] = call[r] /\ pc'[r] = pc[r] /\ moved'[r] = moved[r]
    BY <1>5, MoveStep
  <2>2. Tally(r, i)' = Tally(r, i) /\ Tally(r, j)' = Tally(r, j)
    BY <2>1 DEF Tally, MovedIn
  <2> QED
    BY <1>2, <1>3, <1>4, <1>5, <2>2
<1>6. CASE r = p
  <2>1. /\ Tally(p, i)' = Tally(p, i) + (IF i = pc[p] THEN 1 ELSE 0)
        /\ Tally(p, j)' = Tally(p, j) + (IF j = pc[p] THEN 1 ELSE 0)
    BY <1>1, <1>6, MoveStep
  <2>2. (i = pc[p] <=> t = PeerOf(p) /\ op = "send") /\ (j = pc[p] <=> t = PeerOf(p) /\ op = "recv")
    <3>1. Stands(setup.mode, p, PeerOf(p), pc[p], op)
      BY Standing
    <3>2. /\ pc[p] = i => op = "send" /\ PeerOf(p) = t
          /\ pc[p] = j => op = "recv" /\ PeerOf(p) = t
      BY <1>1, <1>6, Standing
    <3> QED
      BY <1>1, <1>6, <3>1, <3>2 DEF Stands
  <2> QED
    BY <1>2, <1>3, <1>4, <1>6, <2>1, <2>2
<1> QED
  BY <1>5, <1>6

\* A flush leaves both as they are.
LEMMA AdvanceEffect ==
  ASSUME ExchangeTypeOK, PlaceInv, NEW p \in Party, InCall(p),
         Program(p)[pc[p]].op = "flush", Advance(p), moved' = moved, setup' = setup,
         NEW r \in Party, NEW t \in Party, Linked(setup.mode, r, t)
  PROVE  Sent(r, t)' = Sent(r, t) /\ Taken(r, t)' = Taken(r, t)
<1>1. PICK i \in 1 .. Len(Program(r)), j \in 1 .. Len(Program(r)) :
        i = SendAt(setup.mode, r, t) /\ j = RecvAt(setup.mode, r, t)
  BY Standing
<1>2. Sent(r, t) = Tally(r, i) /\ Taken(r, t) = Tally(r, j)
  BY <1>1 DEF Sent, Taken
<1>3. Sent(r, t)' = Tally(r, i)' /\ Taken(r, t)' = Tally(r, j)'
  BY <1>1 DEF Sent, Taken
<1>4. CASE r # p
  <2>1. call'[r] = call[r] /\ pc'[r] = pc[r] /\ moved'[r] = moved[r]
    BY <1>4, AdvanceStep
  <2>2. Tally(r, i)' = Tally(r, i) /\ Tally(r, j)' = Tally(r, j)
    BY <2>1 DEF Tally, MovedIn
  <2> QED
    BY <1>2, <1>3, <2>2
<1>5. CASE r = p
  <2>1. i # pc[p] /\ j # pc[p]
    BY <1>1, <1>5, Standing
  <2>2. Tally(p, i)' = Tally(p, i) /\ Tally(p, j)' = Tally(p, j)
    BY <1>1, <1>5, <2>1, AdvanceStep
  <2> QED
    BY <1>2, <1>3, <1>5, <2>2
<1> QED
  BY <1>4, <1>5

\* What may lie in a buffer grows with what is sent.
LEMMA MoveUnflushed ==
  ASSUME ExchangeTypeOK, PlaceInv, NEW p \in Party, InCall(p),
         NEW op \in {"send", "recv"}, Program(p)[pc[p]].op = op, Move(p), setup' = setup,
         NEW t \in Party, Linked(setup.mode, p, t)
  PROVE  /\ Unflushed(p, t) \in Nat /\ Unflushed(p, t)' \in Nat
         /\ Unflushed(p, t)' >= Unflushed(p, t) + (IF t = PeerOf(p) /\ op = "send" THEN 1 ELSE 0)
<1> DEFINE i == SendAt(setup.mode, p, t)
           f == FlushAt(setup.mode, p, t)
           k == pc[p]
           a == moved[p]
           l == setup.length
           len == Len(Program(p))
           k2 == pc'[p]
           a2 == moved'[p]
           d == IF t = PeerOf(p) /\ op = "send" THEN 1 ELSE 0
<1>1. /\ i \in 1 .. len /\ f \in 1 .. len /\ i < f /\ k \in 1 .. len /\ k # f
      /\ i = k <=> (t = PeerOf(p) /\ op = "send")
  <2>1. Stands(setup.mode, p, PeerOf(p), k, op)
    BY Standing
  <2>2. /\ i \in 1 .. len /\ f \in 1 .. len /\ i < f /\ k \in 1 .. len
        /\ k = i => op = "send" /\ PeerOf(p) = t
        /\ k = f => op = "flush"
    BY Standing
  <2>3. t = PeerOf(p) /\ op = "send" => k = i
    BY <2>1 DEF Stands
  <2> QED
    BY <2>2, <2>3
<1>2. \/ a + 1 # l /\ k2 = k /\ a2 = a + 1
      \/ a + 1 = l /\ a2 = 0 /\ k2 = IF k = len THEN 1 ELSE k + 1
  BY MoveStep
<1>3. l \in Nat \ {0} /\ a \in Nat /\ a < l /\ len \in Nat
  BY RunPrograms DEF ExchangeTypeOK, PlaceInv, IsProgram
<1>4. /\ Unflushed(p, t) = (IF k > f THEN 0 ELSE Held(k, i, a, l))
      /\ Unflushed(p, t)' = (IF k2 > f THEN 0 ELSE Held(k2, i, a2, l))
  BY DEF Unflushed, MovedIn
<1>5. d = IF i = k THEN 1 ELSE 0
  BY <1>1
<1> HIDE DEF i, f, k, a, l, k2, a2, d, len
<1>6. k \in Nat /\ i \in Nat /\ f \in Nat /\ len \in Nat /\ i >= 1 /\ f >= 1 /\ k >= 1
      /\ i <= len /\ f <= len /\ k <= len
  BY <1>1, <1>3
<1>7. Held(k, i, a, l) \in Nat
  BY <1>3 DEF Held
<1>8. CASE a + 1 # l /\ k2 = k /\ a2 = a + 1
  <2>1. Held(k2, i, a2, l) = Held(k, i, a, l) + d
    BY <1>3, <1>5, <1>6, <1>8 DEF Held
  <2> QED
    BY <1>1, <1>4, <1>5, <1>6, <1>7, <1>8, <2>1 DEF d
<1>9. CASE a + 1 = l /\ a2 = 0 /\ k # len /\ k2 = k + 1
  <2>1. Held(k2, i, a2, l) = Held(k, i, a, l) + d
    BY <1>3, <1>5, <1>6, <1>9 DEF Held
  <2> QED
    BY <1>1, <1>4, <1>5, <1>6, <1>7, <1>9, <2>1 DEF d
<1>10. CASE a + 1 = l /\ a2 = 0 /\ k = len /\ k2 = 1
  <2>1. k > f /\ d = 0
    BY <1>1, <1>5, <1>6, <1>10
  <2>2. Held(k2, i, a2, l) \in Nat
    BY <1>6, <1>10 DEF Held
  <2> QED
    BY <1>4, <2>1, <2>2 DEF d
<1> QED
  BY <1>2, <1>8, <1>9, <1>10

\* And is nothing once it is flushed.
LEMMA AdvanceUnflushed ==
  ASSUME ExchangeTypeOK, PlaceInv, NEW p \in Party, InCall(p),
         Program(p)[pc[p]].op = "flush", Advance(p), moved' = moved, setup' = setup,
         NEW t \in Party, Linked(setup.mode, p, t)
  PROVE  /\ Unflushed(p, t) \in Nat /\ Unflushed(p, t)' \in Nat
         /\ t = PeerOf(p) \/ Unflushed(p, t)' >= Unflushed(p, t)
<1> DEFINE i == SendAt(setup.mode, p, t)
           f == FlushAt(setup.mode, p, t)
           k == pc[p]
           l == setup.length
           len == Len(Program(p))
           k2 == pc'[p]
<1>1. /\ i \in 1 .. len /\ f \in 1 .. len /\ i < f /\ k \in 1 .. len /\ k # i
      /\ k = f => t = PeerOf(p)
  BY Standing
<1>2. k2 = (IF k = len THEN 1 ELSE k + 1) /\ moved[p] = 0
  BY AdvanceStep
<1>3. l \in Nat \ {0} /\ len \in Nat
  BY RunPrograms DEF ExchangeTypeOK, IsProgram
<1>4. /\ Unflushed(p, t) = (IF k > f THEN 0 ELSE Held(k, i, 0, l))
      /\ Unflushed(p, t)' = (IF k2 > f THEN 0 ELSE Held(k2, i, 0, l))
  BY <1>2 DEF Unflushed, MovedIn
<1> HIDE DEF i, f, k, l, k2, len
<1>5. k \in Nat /\ i \in Nat /\ f \in Nat /\ len \in Nat /\ i >= 1 /\ f >= 1 /\ k >= 1
      /\ i <= len /\ f <= len /\ k <= len
  BY <1>1, <1>3
<1>6. Held(k, i, 0, l) \in Nat /\ Held(k2, i, 0, l) \in Nat
  BY <1>3 DEF Held
<1>7. CASE k = f
  BY <1>1, <1>4, <1>6, <1>7
<1>8. CASE k # f /\ k # len
  <2>1. k2 = k + 1 /\ Held(k2, i, 0, l) = Held(k, i, 0, l)
    BY <1>1, <1>2, <1>3, <1>5, <1>8 DEF Held
  <2>2. k2 > f <=> k > f
    BY <1>5, <1>8, <2>1
  <2> QED
    BY <1>4, <1>6, <2>1, <2>2
<1>9. CASE k # f /\ k = len
  <2>1. k > f
    BY <1>5, <1>9
  <2> QED
    BY <1>4, <1>6, <2>1
<1> QED
  BY <1>7, <1>8, <1>9

\* The counts of a connection are numbers.
LEMMA CountsAreNumbers ==
  ASSUME ExchangeTypeOK, PlaceInv, NEW r \in Party, NEW t \in Party, Linked(setup.mode, r, t)
  PROVE  /\ Sent(r, t) \in Nat /\ Taken(r, t) \in Nat /\ Unflushed(r, t) \in Nat
<1>1. PICK i \in 1 .. Len(Program(r)), j \in 1 .. Len(Program(r)) :
        i = SendAt(setup.mode, r, t) /\ j = RecvAt(setup.mode, r, t)
  BY Standing
<1>2. i \in Nat /\ j \in Nat
  BY <1>1
<1>3. Tally(r, i) \in Nat /\ Tally(r, j) \in Nat /\ MovedIn(r, i) \in Nat
  BY <1>2, HeldFacts
<1> QED
  BY <1>1, <1>3 DEF Sent, Taken, Unflushed

\* A send puts one unit of its list into its buffer.
LEMMA BufferKeeps ==
  ASSUME ExchangeInv, NEW p \in Party, Buffer(p)
  PROVE  ExchangeInv'
<1> DEFINE q == PeerOf(p)
<1>1. /\ ExchangeTypeOK /\ PlaceInv /\ FlowInv /\ RoomInv /\ FlushedInv
  BY DEF ExchangeInv
<1>2. /\ InCall(p) /\ Program(p)[pc[p]].op = "send" /\ buffered[p][q] < setup.bufCap
      /\ buffered' = [buffered EXCEPT ![p][q] = @ + 1] /\ Move(p)
      /\ setup' = setup /\ socket' = socket
  BY DEF Buffer, Doing
<1>3. q \in Party /\ Linked(setup.mode, p, q) /\ setup.bufCap \in Nat
  BY <1>1, Standing, RunPrograms DEF ExchangeTypeOK
<1>4. /\ buffered \in [Party -> [Party -> Nat]] /\ socket \in [Party -> [Party -> Nat]]
      /\ \A r, t \in Party : buffered[r][t] \in Nat /\ socket[r][t] \in Nat
  BY <1>1 DEF ExchangeTypeOK
<1> HIDE DEF q
<1>5. \A r, t \in Party :
        buffered'[r][t] = buffered[r][t] + (IF r = p /\ t = q THEN 1 ELSE 0)
  BY <1>2, <1>3, <1>4
<1>6. ExchangeTypeOK'
  <2>1. buffered[p][q] + 1 \in Nat
    BY <1>3, <1>4
  <2>2. buffered' \in [Party -> [Party -> Nat]]
    BY <1>2, <1>3, <1>4, <2>1
  <2> QED
    BY <1>1, <1>2, <2>2, MoveStep DEF ExchangeTypeOK
<1>7. PlaceInv'
  BY <1>1, <1>2, MoveStep
<1>8. \A r, t \in Party : Linked(setup.mode, r, t) =>
        /\ Sent(r, t)' = Sent(r, t) + (IF r = p /\ t = q THEN 1 ELSE 0)
        /\ Taken(r, t)' = Taken(r, t) /\ Sent(r, t) \in Nat /\ Taken(r, t) \in Nat
  <2> TAKE r \in Party, t \in Party
  <2> SUFFICES ASSUME Linked(setup.mode, r, t)
               PROVE  /\ Sent(r, t)' = Sent(r, t) + (IF r = p /\ t = q THEN 1 ELSE 0)
                      /\ Taken(r, t)' = Taken(r, t) /\ Sent(r, t) \in Nat /\ Taken(r, t) \in Nat
    OBVIOUS
  <2>1. Sent(r, t) \in Nat /\ Taken(r, t) \in Nat
    BY <1>1, CountsAreNumbers
  <2>2. /\ Sent(r, t)' = Sent(r, t) + (IF r = p /\ t = q /\ "send" = "send" THEN 1 ELSE 0)
        /\ Taken(r, t)' = Taken(r, t) + (IF r = p /\ t = q /\ "send" = "recv" THEN 1 ELSE 0)
    BY <1>1, <1>2, MoveEffect DEF q
  <2> QED
    BY <2>1, <2>2
<1>9. FlowInv'
  <2> SUFFICES ASSUME NEW r \in Party, NEW t \in Party
               PROVE  buffered'[r][t] + socket[r][t] =
                        IF Linked(setup.mode, r, t) THEN Sent(r, t)' - Taken(t, r)' ELSE 0
    BY <1>2 DEF FlowInv
  <2>1. CASE Linked(setup.mode, r, t)
    <3>1. Linked(setup.mode, t, r)
      BY <2>1 DEF Linked
    <3>2. buffered[r][t] + socket[r][t] = Sent(r, t) - Taken(t, r)
      BY <1>1, <2>1 DEF FlowInv
    <3> QED
      BY <1>4, <1>5, <1>8, <2>1, <3>1, <3>2
  <2>2. CASE ~Linked(setup.mode, r, t)
    <3>1. ~(r = p /\ t = q)
      BY <1>3, <2>2
    <3> QED
      BY <1>1, <1>4, <1>5, <2>2, <3>1 DEF FlowInv
  <2> QED
    BY <2>1, <2>2
<1>10. RoomInv'
  BY <1>1, <1>2, <1>3, <1>4, <1>5 DEF RoomInv
<1>11. FlushedInv'
  <2> SUFFICES ASSUME NEW r \in Party, NEW t \in Party, Linked(setup.mode, r, t)
               PROVE  buffered'[r][t] <= Unflushed(r, t)'
    BY <1>2 DEF FlushedInv
  <2>1. buffered[r][t] <= Unflushed(r, t) /\ buffered[r][t] \in Nat
    BY <1>1, <1>4 DEF FlushedInv
  <2>2. CASE r = p
    <3>1. /\ Unflushed(p, t) \in Nat /\ Unflushed(p, t)' \in Nat
          /\ Unflushed(p, t)' >= Unflushed(p, t) + (IF t = q /\ "send" = "send" THEN 1 ELSE 0)
      BY <1>1, <1>2, <2>2, MoveUnflushed DEF q
    <3> QED
      BY <1>5, <2>1, <2>2, <3>1
  <2>3. CASE r # p
    <3>1. pc'[r] = pc[r] /\ moved'[r] = moved[r]
      BY <1>1, <1>2, <2>3, MoveStep
    <3>2. Unflushed(r, t)' = Unflushed(r, t)
      BY <1>2, <3>1 DEF Unflushed, MovedIn
    <3> QED
      BY <1>5, <2>1, <2>3, <3>2
  <2> QED
    BY <2>2, <2>3
<1> QED
  BY <1>6, <1>7, <1>9, <1>10, <1>11 DEF ExchangeInv

\* A recv takes one unit of its list from the socket.
LEMMA ReceiveKeeps ==
  ASSUME ExchangeInv, NEW p \in Party, Receive(p)
  PROVE  ExchangeInv'
<1> DEFINE q == PeerOf(p)
<1>1. /\ ExchangeTypeOK /\ PlaceInv /\ FlowInv /\ RoomInv /\ FlushedInv
  BY DEF ExchangeInv
<1>2. /\ InCall(p) /\ Program(p)[pc[p]].op = "recv" /\ socket[q][p] > 0
      /\ socket' = [socket EXCEPT ![q][p] = @ - 1] /\ Move(p)
      /\ setup' = setup /\ buffered' = buffered
  BY DEF Receive, Doing
<1>3. q \in Party /\ Linked(setup.mode, p, q) /\ Linked(setup.mode, q, p) /\ setup.sockCap \in Nat
  BY <1>1, Standing, RunPrograms DEF ExchangeTypeOK, Linked
<1>4. /\ buffered \in [Party -> [Party -> Nat]] /\ socket \in [Party -> [Party -> Nat]]
      /\ \A r, t \in Party : buffered[r][t] \in Nat /\ socket[r][t] \in Nat
  BY <1>1 DEF ExchangeTypeOK
<1> HIDE DEF q
<1>5. \A r, t \in Party :
        socket'[r][t] = socket[r][t] - (IF r = q /\ t = p THEN 1 ELSE 0)
  BY <1>2, <1>3, <1>4
<1>6. ExchangeTypeOK'
  <2>1. socket[q][p] - 1 \in Nat
    BY <1>2, <1>3, <1>4
  <2>2. socket' \in [Party -> [Party -> Nat]]
    BY <1>2, <1>3, <1>4, <2>1
  <2> QED
    BY <1>1, <1>2, <2>2, MoveStep DEF ExchangeTypeOK
<1>7. PlaceInv'
  BY <1>1, <1>2, MoveStep
<1>8. \A r, t \in Party : Linked(setup.mode, r, t) =>
        /\ Taken(r, t)' = Taken(r, t) + (IF r = p /\ t = q THEN 1 ELSE 0)
        /\ Sent(r, t)' = Sent(r, t) /\ Sent(r, t) \in Nat /\ Taken(r, t) \in Nat
  <2> TAKE r \in Party, t \in Party
  <2> SUFFICES ASSUME Linked(setup.mode, r, t)
               PROVE  /\ Taken(r, t)' = Taken(r, t) + (IF r = p /\ t = q THEN 1 ELSE 0)
                      /\ Sent(r, t)' = Sent(r, t) /\ Sent(r, t) \in Nat /\ Taken(r, t) \in Nat
    OBVIOUS
  <2>1. Sent(r, t) \in Nat /\ Taken(r, t) \in Nat
    BY <1>1, CountsAreNumbers
  <2>2. /\ Sent(r, t)' = Sent(r, t) + (IF r = p /\ t = q /\ "recv" = "send" THEN 1 ELSE 0)
        /\ Taken(r, t)' = Taken(r, t) + (IF r = p /\ t = q /\ "recv" = "recv" THEN 1 ELSE 0)
    BY <1>1, <1>2, MoveEffect DEF q
  <2> QED
    BY <2>1, <2>2
<1>9. FlowInv'
  <2> SUFFICES ASSUME NEW r \in Party, NEW t \in Party
               PROVE  buffered[r][t] + socket'[r][t] =
                        IF Linked(setup.mode, r, t) THEN Sent(r, t)' - Taken(t, r)' ELSE 0
    BY <1>2 DEF FlowInv
  <2>1. CASE Linked(setup.mode, r, t)
    <3>1. Linked(setup.mode, t, r)
      BY <2>1 DEF Linked
    <3>2. buffered[r][t] + socket[r][t] = Sent(r, t) - Taken(t, r)
      BY <1>1, <2>1 DEF FlowInv
    <3>3. Sent(r, t)' = Sent(r, t) /\ Sent(r, t) \in Nat
      BY <1>8, <2>1
    <3>4. /\ Taken(t, r)' = Taken(t, r) + (IF t = p /\ r = q THEN 1 ELSE 0)
          /\ Taken(t, r) \in Nat
      BY <1>8, <3>1
    <3>5. /\ socket'[r][t] = socket[r][t] - (IF r = q /\ t = p THEN 1 ELSE 0)
          /\ buffered[r][t] \in Nat /\ socket[r][t] \in Nat
      BY <1>4, <1>5
    <3> QED
      BY <2>1, <3>2, <3>3, <3>4, <3>5
  <2>2. CASE ~Linked(setup.mode, r, t)
    <3>1. ~(r = q /\ t = p)
      BY <1>3, <2>2
    <3> QED
      BY <1>1, <1>4, <1>5, <2>2, <3>1 DEF FlowInv
  <2> QED
    BY <2>1, <2>2
<1>10. RoomInv'
  BY <1>1, <1>2, <1>3, <1>4, <1>5 DEF RoomInv
<1>11. FlushedInv'
  <2> SUFFICES ASSUME NEW r \in Party, NEW t \in Party, Linked(setup.mode, r, t)
               PROVE  buffered[r][t] <= Unflushed(r, t)'
    BY <1>2 DEF FlushedInv
  <2>1. buffered[r][t] <= Unflushed(r, t) /\ buffered[r][t] \in Nat
    BY <1>1, <1>4 DEF FlushedInv
  <2>2. CASE r = p
    <3>1. /\ Unflushed(p, t) \in Nat /\ Unflushed(p, t)' \in Nat
          /\ Unflushed(p, t)' >= Unflushed(p, t) + (IF t = q /\ "recv" = "send" THEN 1 ELSE 0)
      BY <1>1, <1>2, <2>2, MoveUnflushed DEF q
    <3> QED
      BY <2>1, <2>2, <3>1
  <2>3. CASE r # p
    <3>1. pc'[r] = pc[r] /\ moved'[r] = moved[r]
      BY <1>1, <1>2, <2>3, MoveStep
    <3>2. Unflushed(r, t)' = Unflushed(r, t)
      BY <1>2, <3>1 DEF Unflushed, MovedIn
    <3> QED
      BY <2>1, <3>2
  <2> QED
    BY <2>2, <2>3
<1> QED
  BY <1>6, <1>7, <1>9, <1>10, <1>11 DEF ExchangeInv

\* One unit leaves a buffer for the socket.
LEMMA DrainKeeps ==
  ASSUME ExchangeInv, NEW p \in Party, Drain(p)
  PROVE  ExchangeInv'
<1> DEFINE q == PeerOf(p)
<1>1. /\ ExchangeTypeOK /\ PlaceInv /\ FlowInv /\ RoomInv /\ FlushedInv
  BY DEF ExchangeInv
<1>2. /\ buffered[p][q] = setup.bufCap \/ buffered[p][q] > 0
      /\ socket[p][q] < setup.sockCap
      /\ buffered' = [buffered EXCEPT ![p][q] = @ - 1]
      /\ socket' = [socket EXCEPT ![p][q] = @ + 1]
      /\ setup' = setup /\ call' = call /\ pc' = pc /\ moved' = moved
  BY DEF Drain, MustDrain
<1>3. q \in Party /\ setup.bufCap \in Nat \ {0} /\ setup.sockCap \in Nat
  BY <1>1, Standing, RunPrograms DEF ExchangeTypeOK
<1>4. /\ buffered \in [Party -> [Party -> Nat]] /\ socket \in [Party -> [Party -> Nat]]
      /\ \A r, t \in Party : buffered[r][t] \in Nat /\ socket[r][t] \in Nat
  BY <1>1 DEF ExchangeTypeOK
<1> HIDE DEF q
<1>5. \A r, t \in Party :
        /\ buffered'[r][t] = buffered[r][t] - (IF r = p /\ t = q THEN 1 ELSE 0)
        /\ socket'[r][t] = socket[r][t] + (IF r = p /\ t = q THEN 1 ELSE 0)
  BY <1>2, <1>3, <1>4
<1>6. ExchangeTypeOK'
  <2>1. buffered[p][q] - 1 \in Nat /\ socket[p][q] + 1 \in Nat
    <3>1. buffered[p][q] \in Nat /\ socket[p][q] \in Nat
      BY <1>3, <1>4
    <3>2. buffered[p][q] = setup.bufCap \/ buffered[p][q] > 0
      BY <1>2
    <3> QED
      BY <1>3, <3>1, <3>2
  <2>2. buffered' \in [Party -> [Party -> Nat]] /\ socket' \in [Party -> [Party -> Nat]]
    BY <1>2, <1>3, <1>4, <2>1
  <2> QED
    BY <1>1, <1>2, <2>2 DEF ExchangeTypeOK
<1>7. PlaceInv'
  BY <1>1, <1>2 DEF PlaceInv, Program, InCall
<1>8. \A r, t \in Party : /\ Sent(r, t)' = Sent(r, t) /\ Taken(r, t)' = Taken(r, t)
                          /\ Unflushed(r, t)' = Unflushed(r, t)
  BY <1>2 DEF Sent, Taken, Tally, Unflushed, MovedIn
<1>9. FlowInv'
  <2> SUFFICES ASSUME NEW r \in Party, NEW t \in Party
               PROVE  buffered'[r][t] + socket'[r][t] =
                        IF Linked(setup.mode, r, t) THEN Sent(r, t)' - Taken(t, r)' ELSE 0
    BY <1>2 DEF FlowInv
  <2>1. buffered'[r][t] + socket'[r][t] = buffered[r][t] + socket[r][t]
    BY <1>4, <1>5
  <2> QED
    BY <1>1, <1>8, <2>1 DEF FlowInv
<1>10. RoomInv'
  BY <1>1, <1>2, <1>3, <1>4, <1>5 DEF RoomInv
<1>11. FlushedInv'
  <2> SUFFICES ASSUME NEW r \in Party, NEW t \in Party, Linked(setup.mode, r, t)
               PROVE  buffered'[r][t] <= Unflushed(r, t)
    BY <1>2, <1>8 DEF FlushedInv
  <2>1. buffered[r][t] <= Unflushed(r, t) /\ buffered[r][t] \in Nat
    BY <1>1, <1>4 DEF FlushedInv
  <2>2. Unflushed(r, t) \in Nat
    BY <1>1, CountsAreNumbers
  <2> QED
    BY <1>5, <2>1, <2>2
<1> QED
  BY <1>6, <1>7, <1>9, <1>10, <1>11 DEF ExchangeInv

\* A flush ends with an empty buffer.
LEMMA FlushedKeeps ==
  ASSUME ExchangeInv, NEW p \in Party, Flushed(p)
  PROVE  ExchangeInv'
<1> DEFINE q == PeerOf(p)
<1>1. /\ ExchangeTypeOK /\ PlaceInv /\ FlowInv /\ RoomInv /\ FlushedInv
  BY DEF ExchangeInv
<1>2. /\ InCall(p) /\ Program(p)[pc[p]].op = "flush" /\ buffered[p][q] = 0 /\ Advance(p)
      /\ setup' = setup /\ moved' = moved /\ buffered' = buffered /\ socket' = socket
  BY DEF Flushed, Doing
<1> HIDE DEF q
<1>3. ExchangeTypeOK'
  BY <1>1, <1>2, AdvanceStep DEF ExchangeTypeOK
<1>4. PlaceInv'
  BY <1>1, <1>2, AdvanceStep
<1>5. FlowInv'
  <2> SUFFICES ASSUME NEW r \in Party, NEW t \in Party
               PROVE  buffered[r][t] + socket[r][t] =
                        IF Linked(setup.mode, r, t) THEN Sent(r, t)' - Taken(t, r)' ELSE 0
    BY <1>2 DEF FlowInv
  <2>1. CASE Linked(setup.mode, r, t)
    <3>1. Linked(setup.mode, t, r)
      BY <2>1 DEF Linked
    <3>2. Sent(r, t)' = Sent(r, t) /\ Taken(t, r)' = Taken(t, r)
      BY <1>1, <1>2, <2>1, <3>1, AdvanceEffect
    <3> QED
      BY <1>1, <2>1, <3>2 DEF FlowInv
  <2>2. CASE ~Linked(setup.mode, r, t)
    BY <1>1, <2>2 DEF FlowInv
  <2> QED
    BY <2>1, <2>2
<1>6. RoomInv'
  BY <1>1, <1>2 DEF RoomInv
<1>7. FlushedInv'
  <2> SUFFICES ASSUME NEW r \in Party, NEW t \in Party, Linked(setup.mode, r, t)
               PROVE  buffered[r][t] <= Unflushed(r, t)'
    BY <1>2 DEF FlushedInv
  <2>1. buffered[r][t] <= Unflushed(r, t) /\ buffered[r][t] \in Nat
    BY <1>1 DEF FlushedInv, ExchangeTypeOK
  <2>2. CASE r = p
    <3>1. /\ Unflushed(p, t) \in Nat /\ Unflushed(p, t)' \in Nat
          /\ t = q \/ Unflushed(p, t)' >= Unflushed(p, t)
      BY <1>1, <1>2, <2>2, AdvanceUnflushed DEF q
    <3> QED
      BY <1>2, <2>1, <2>2, <3>1
  <2>3. CASE r # p
    <3>1. pc'[r] = pc[r] /\ moved'[r] = moved[r]
      BY <1>1, <1>2, <2>3, AdvanceStep
    <3>2. Unflushed(r, t)' = Unflushed(r, t)
      BY <1>2, <3>1 DEF Unflushed, MovedIn
    <3> QED
      BY <2>1, <3>2
  <2> QED
    BY <2>2, <2>3
<1> QED
  BY <1>3, <1>4, <1>5, <1>6, <1>7 DEF ExchangeInv

\* The invariant of bounded exchanges.
THEOREM ExchangeInvAlways == ExchangeSpec => []ExchangeInv
<1>1. ExchangeInit => ExchangeInv
  BY ExchangeStarts
<1>2. ExchangeInv /\ [ExchangeNext]_exchangeVars => ExchangeInv'
  <2> SUFFICES ASSUME ExchangeInv, [ExchangeNext]_exchangeVars
               PROVE  ExchangeInv'
    OBVIOUS
  <2>1. CASE ExchangeNext
    <3>1. PICK p \in Party : Buffer(p) \/ Drain(p) \/ Flushed(p) \/ Receive(p)
      BY <2>1 DEF ExchangeNext, PartyStep
    <3> QED
      BY <3>1, BufferKeeps, DrainKeeps, FlushedKeeps, ReceiveKeeps
  <2>2. CASE UNCHANGED exchangeVars
    BY <2>2 DEF exchangeVars, ExchangeInv, ExchangeTypeOK, PlaceInv, FlowInv, RoomInv, FlushedInv,
       Program, InCall, Sent, Taken, Tally, MovedIn, Unflushed
  <2> QED
    BY <2>1, <2>2
<1> QED
  BY <1>1, <1>2, PTL DEF ExchangeSpec

\* Nothing is left in the buffers when everyone has returned.
THEOREM NothingLeftAlways == ExchangeSpec => []NothingLeft
<1>1. ExchangeInv => NothingLeft
  <2> SUFFICES ASSUME ExchangeInv, AllReturned, NEW p \in Party, NEW q \in Party
               PROVE  buffered[p][q] = 0 /\ socket[p][q] = 0
    BY DEF NothingLeft
  <2>1. ExchangeTypeOK /\ PlaceInv /\ FlowInv
    BY DEF ExchangeInv
  <2>2. buffered[p][q] \in Nat /\ socket[p][q] \in Nat
    BY <2>1 DEF ExchangeTypeOK
  <2>3. CASE Linked(setup.mode, p, q)
    <3>1. Linked(setup.mode, q, p)
      BY <2>3 DEF Linked
    <3>2. \A r \in Party : call[r] = numCalls + 1 /\ pc[r] = 1 /\ moved[r] = 0
      <4> TAKE r \in Party
      <4>1. ~InCall(r) /\ call[r] \in 1 .. numCalls + 1 /\ numCalls \in Nat
        BY <2>1, BoundedExchangeAssumption DEF AllReturned, ExchangeTypeOK
      <4>2. pc[r] = 1 /\ moved[r] = 0
        BY <2>1, <4>1 DEF PlaceInv
      <4> QED
        BY <4>1, <4>2 DEF InCall
    <3>3. /\ SendAt(setup.mode, p, q) \in Nat /\ SendAt(setup.mode, p, q) >= 1
          /\ RecvAt(setup.mode, q, p) \in Nat /\ RecvAt(setup.mode, q, p) >= 1
      <4>1. SendAt(setup.mode, p, q) \in 1 .. Len(Program(p))
        BY <2>1, <2>3, Standing
      <4>2. RecvAt(setup.mode, q, p) \in 1 .. Len(Program(q))
        BY <2>1, <3>1, Standing
      <4> QED
        BY <4>1, <4>2
    <3>4. /\ MovedIn(p, SendAt(setup.mode, p, q)) = 0
          /\ MovedIn(q, RecvAt(setup.mode, q, p)) = 0
      BY <3>2, <3>3 DEF MovedIn, Held
    <3>5. Sent(p, q) = Taken(q, p)
      BY <3>2, <3>4 DEF Sent, Taken, Tally
    <3>6. Sent(p, q) \in Nat
      BY <2>1, <2>3, CountsAreNumbers
    <3> QED
      BY <2>1, <2>2, <2>3, <3>5, <3>6 DEF FlowInv
  <2>4. CASE ~Linked(setup.mode, p, q)
    BY <2>1, <2>2, <2>4 DEF FlowInv
  <2> QED
    BY <2>3, <2>4
<1> QED
  BY <1>1, ExchangeInvAlways, PTL

\* Places of operations are numbers.
LEMMA Places ==
  ASSUME ExchangeTypeOK, PlaceInv, NEW p \in Party, NEW q \in Party, Linked(setup.mode, p, q)
  PROVE  /\ SendAt(setup.mode, p, q) \in Nat /\ SendAt(setup.mode, p, q) >= 1
         /\ FlushAt(setup.mode, p, q) \in Nat /\ RecvAt(setup.mode, p, q) \in Nat
<1>1. /\ SendAt(setup.mode, p, q) \in 1 .. Len(Program(p))
      /\ FlushAt(setup.mode, p, q) \in 1 .. Len(Program(p))
      /\ RecvAt(setup.mode, p, q) \in 1 .. Len(Program(p))
  BY Standing
<1> QED
  BY <1>1

\* The ranks of the other parties are the places of the loops.
LEMMA RankFacts ==
  ASSUME NEW p \in Party, NEW q \in Party, p # q
  PROVE  /\ Rank(p, q) \in 1 .. nP - 1 /\ nP \in Nat \ {0, 1}
         /\ \A r \in Party : r # p /\ Rank(p, r) < Rank(p, q) => r < q
<1>1. nP \in Nat \ {0, 1}
  BY BoundedExchangeAssumption
<1>2. Rank(p, q) \in 1 .. nP - 1
  BY <1>1, OthersFacts
<1>3. \A r \in Party : r # p /\ Rank(p, r) < Rank(p, q) => r < q
  BY <1>1 DEF Rank, Party
<1> QED
  BY <1>1, <1>2, <1>3
-----------------------------------------------------------------------------
(* Parties that cannot move.                                                 *)

\* A call more is a list more.
LEMMA TimesOrder ==
  ASSUME NEW a \in Nat, NEW b \in Nat, NEW l \in Nat
  PROVE  /\ a * l \in Nat /\ b * l \in Nat
         /\ a < b => a * l + l <= b * l
<1>1. a * l \in Nat /\ b * l \in Nat
  BY Times
<1>2. ASSUME a < b
      PROVE  a * l + l <= b * l
  <2>1. PICK d \in Nat : b = a + 1 + d
    <3>1. b - (a + 1) \in Nat /\ b = a + 1 + (b - (a + 1))
      BY <1>2
    <3> QED
      BY <3>1
  <2>2. b * l = a * l + l + d * l /\ d * l \in Nat
    BY <2>1
  <2> QED
    BY <1>1, <2>2
<1> QED
  BY <1>1, <1>2

\* What is under way from p to q, in numbers.
LEMMA UnderWay ==
  ASSUME ExchangeInv, NEW p \in Party, NEW q \in Party, Linked(setup.mode, p, q)
  PROVE  /\ buffered[p][q] \in Nat /\ socket[p][q] \in Nat
         /\ call[p] \in Nat /\ call[q] \in Nat /\ setup.length \in Nat \ {0}
         /\ MovedIn(p, SendAt(setup.mode, p, q)) \in 0 .. setup.length
         /\ MovedIn(q, RecvAt(setup.mode, q, p)) \in 0 .. setup.length
         /\ buffered[p][q] + socket[p][q] =
              (call[p] * setup.length + MovedIn(p, SendAt(setup.mode, p, q)))
                - (call[q] * setup.length + MovedIn(q, RecvAt(setup.mode, q, p)))
         /\ buffered[p][q] <= MovedIn(p, SendAt(setup.mode, p, q))
         /\ pc[p] > FlushAt(setup.mode, p, q) => buffered[p][q] = 0
<1>1. ExchangeTypeOK /\ PlaceInv /\ FlowInv /\ FlushedInv
  BY DEF ExchangeInv
<1>2. Linked(setup.mode, q, p)
  BY DEF Linked
<1>3. /\ buffered[p][q] \in Nat /\ socket[p][q] \in Nat /\ setup.length \in Nat \ {0}
      /\ call[p] \in Nat /\ call[q] \in Nat
  BY <1>1, RunPrograms DEF ExchangeTypeOK
<1>4. /\ MovedIn(p, SendAt(setup.mode, p, q)) \in 0 .. setup.length
      /\ Tally(p, SendAt(setup.mode, p, q))
           = call[p] * setup.length + MovedIn(p, SendAt(setup.mode, p, q))
  BY <1>1, HeldFacts, Places
<1>5. /\ MovedIn(q, RecvAt(setup.mode, q, p)) \in 0 .. setup.length
      /\ Tally(q, RecvAt(setup.mode, q, p))
           = call[q] * setup.length + MovedIn(q, RecvAt(setup.mode, q, p))
  BY <1>1, <1>2, HeldFacts, Places
<1>6. buffered[p][q] + socket[p][q] = Sent(p, q) - Taken(q, p)
  BY <1>1 DEF FlowInv
<1>7. buffered[p][q] <= IF pc[p] > FlushAt(setup.mode, p, q)
                        THEN 0 ELSE MovedIn(p, SendAt(setup.mode, p, q))
  BY <1>1 DEF FlushedInv, Unflushed
<1> QED
  BY <1>3, <1>4, <1>5, <1>6, <1>7 DEF Sent, Taken

\* What a party waits for when it cannot move.
LEMMA Waits ==
  ASSUME ExchangeInv, NEW p \in Party, InCall(p), ~CanMove(p)
  PROVE  /\ PeerOf(p) \in Party /\ Linked(setup.mode, p, PeerOf(p))
         /\ Linked(setup.mode, PeerOf(p), p)
         /\ setup.sockCap \in Nat \ {0}
         /\ \/ /\ Program(p)[pc[p]].op = "send" /\ pc[p] = SendAt(setup.mode, p, PeerOf(p))
               /\ buffered[p][PeerOf(p)] > 0 /\ socket[p][PeerOf(p)] >= setup.sockCap
            \/ /\ Program(p)[pc[p]].op = "flush"
               /\ \/ pc[p] = FlushAt(setup.mode, p, PeerOf(p))
                  \/ pc[p] = RecvAt(setup.mode, p, PeerOf(p)) - 1
               /\ buffered[p][PeerOf(p)] > 0 /\ socket[p][PeerOf(p)] >= setup.sockCap
            \/ /\ Program(p)[pc[p]].op = "recv" /\ pc[p] = RecvAt(setup.mode, p, PeerOf(p))
               /\ socket[PeerOf(p)][p] = 0
<1> DEFINE q == PeerOf(p)
           op == Program(p)[pc[p]].op
<1>1. ExchangeTypeOK /\ PlaceInv
  BY DEF ExchangeInv
<1>2. /\ q \in Party /\ op \in OpNames /\ Linked(setup.mode, p, q)
      /\ Stands(setup.mode, p, q, pc[p], op)
  BY <1>1, Standing
<1>3. /\ setup.sockCap \in Nat \ {0} /\ setup.bufCap \in Nat \ {0}
      /\ buffered[p][q] \in Nat /\ socket[p][q] \in Nat /\ socket[q][p] \in Nat
  BY <1>1, <1>2, RunPrograms DEF ExchangeTypeOK
<1>4. /\ op = "send" => ~(buffered[p][q] < setup.bufCap \/ socket[p][q] < setup.sockCap)
      /\ op = "flush" => ~(buffered[p][q] = 0 \/ socket[p][q] < setup.sockCap)
      /\ op = "recv" => ~(socket[q][p] > 0)
  BY DEF CanMove, Doing
<1>5. Linked(setup.mode, q, p)
  BY <1>2 DEF Linked
<1> HIDE DEF q, op
<1>6. \/ op = "send" /\ buffered[p][q] > 0 /\ socket[p][q] >= setup.sockCap
      \/ op = "flush" /\ buffered[p][q] > 0 /\ socket[p][q] >= setup.sockCap
      \/ op = "recv" /\ socket[q][p] = 0
  BY <1>2, <1>3, <1>4 DEF OpNames
<1> QED
  BY <1>2, <1>3, <1>5, <1>6 DEF Stands, q, op

\* Where a socket takes a list, a party in the least call that cannot move
\* waits for a party in the same call that has not flushed its list to it.
LEMMA LeastWaits ==
  ASSUME ExchangeInv, setup.mode # "king", setup.length <= setup.sockCap,
         NEW p \in Party, InCall(p), ~CanMove(p), \A r \in Party : call[p] <= call[r]
  PROVE  /\ PeerOf(p) \in Party /\ PeerOf(p) # p
         /\ pc[p] = RecvAt(setup.mode, p, PeerOf(p))
         /\ call[PeerOf(p)] = call[p]
         /\ pc[PeerOf(p)] <= FlushAt(setup.mode, PeerOf(p), p)
<1> DEFINE q == PeerOf(p)
           l == setup.length
           s == MovedIn(p, SendAt(setup.mode, p, q))
           t == MovedIn(q, RecvAt(setup.mode, q, p))
           u == MovedIn(q, SendAt(setup.mode, q, p))
           v == MovedIn(p, RecvAt(setup.mode, p, q))
           x == call[p] * l
           y == call[q] * l
<1>1. /\ q \in Party /\ Linked(setup.mode, p, q) /\ Linked(setup.mode, q, p) /\ p # q
      /\ ExchangeTypeOK /\ PlaceInv /\ setup.sockCap \in Nat \ {0}
      /\ call[p] \in Nat /\ call[q] \in Nat /\ l \in Nat \ {0} /\ call[p] <= call[q]
  BY Waits, UnderWay DEF ExchangeInv, Linked
<1>2. /\ buffered[p][q] \in Nat /\ socket[p][q] \in Nat /\ s \in 0 .. l /\ t \in 0 .. l
      /\ buffered[p][q] + socket[p][q] = (x + s) - (y + t)
  BY <1>1, UnderWay
<1>3. /\ buffered[q][p] \in Nat /\ socket[q][p] \in Nat /\ u \in 0 .. l /\ v \in 0 .. l
      /\ buffered[q][p] + socket[q][p] = (y + u) - (x + v)
      /\ buffered[q][p] <= u
      /\ pc[q] > FlushAt(setup.mode, q, p) => buffered[q][p] = 0
  BY <1>1, UnderWay
<1>4. x \in Nat /\ y \in Nat /\ (call[p] = call[q] => x = y) /\ (call[p] < call[q] => x + l <= y)
  BY <1>1, TimesOrder
<1>5. x <= y
  BY <1>1, <1>4
<1>6. ~(buffered[p][q] > 0 /\ socket[p][q] >= setup.sockCap)
  <2> HIDE DEF x, y, s, t, l, q
  <2> QED
    BY <1>1, <1>2, <1>4, <1>5 DEF l
<1>7. pc[p] = RecvAt(setup.mode, p, q) /\ socket[q][p] = 0
  BY <1>6, Waits
<1>8. v = moved[p] /\ v < l
  <2>1. RecvAt(setup.mode, p, q) \in Nat
    BY <1>1, Places
  <2> QED
    BY <1>1, <1>7, <2>1, HeldFacts DEF PlaceInv
<1>9. call[q] = call[p]
  <2> HIDE DEF x, y, u, v, l, q
  <2> QED
    BY <1>1, <1>3, <1>4, <1>7, <1>8
<1>10. pc[q] \in Nat /\ FlushAt(setup.mode, q, p) \in Nat /\ SendAt(setup.mode, q, p) \in Nat
  BY <1>1, Places DEF ExchangeTypeOK
<1>11. ASSUME pc[q] > FlushAt(setup.mode, q, p)
       PROVE  FALSE
  <2>1. pc[q] > SendAt(setup.mode, q, p)
    BY <1>1, <1>10, <1>11, Standing
  <2>2. u = l
    BY <1>1, <1>10, <2>1, HeldFacts
  <2> HIDE DEF x, y, u, v, l, q
  <2> QED
    BY <1>1, <1>3, <1>4, <1>7, <1>8, <1>9, <1>11, <2>2
<1>12. pc[q] <= FlushAt(setup.mode, q, p)
  <2> HIDE DEF q
  <2> QED
    BY <1>10, <1>11
<1> QED
  BY <1>1, <1>7, <1>9, <1>12

\* Then that party waits too, for a party before the one that waits for it.
LEMMA WaitsForLess ==
  ASSUME ExchangeInv, setup.mode # "king", setup.length <= setup.sockCap,
         NEW p \in Party, InCall(p), \A r \in Party : call[p] <= call[r] /\ ~CanMove(r)
  PROVE  /\ PeerOf(p) \in Party /\ call[PeerOf(p)] = call[p]
         /\ PeerOf(PeerOf(p)) \in Party /\ PeerOf(PeerOf(p)) < p
<1>1. /\ PeerOf(p) \in Party /\ PeerOf(p) # p /\ call[PeerOf(p)] = call[p]
      /\ pc[PeerOf(p)] <= FlushAt(setup.mode, PeerOf(p), p)
  BY LeastWaits
<1>2. PICK q \in Party : q = PeerOf(p)
  BY <1>1
<1>3. InCall(q) /\ \A r \in Party : call[q] <= call[r]
  BY <1>1, <1>2 DEF InCall
<1>4. PeerOf(q) \in Party /\ PeerOf(q) # q /\ pc[q] = RecvAt(setup.mode, q, PeerOf(q))
  BY <1>3, LeastWaits
<1>5. PICK r \in Party : r = PeerOf(q)
  BY <1>4
<1>6. setup.mode = "direct" \/ setup.mode = "vector"
  BY RunPrograms DEF ExchangeInv, ExchangeTypeOK, Modes
<1>7. RecvAt(setup.mode, q, r) <= FlushAt(setup.mode, q, p)
  BY <1>1, <1>2, <1>4, <1>5
<1>8. Rank(q, r) \in 1 .. nP - 1 /\ Rank(q, p) \in 1 .. nP - 1 /\ nP \in Nat \ {0, 1}
  BY <1>1, <1>2, <1>4, <1>5, RankFacts
<1>9. Rank(q, r) < Rank(q, p)
  <2>1. \/ nP - 1 + 2 * Rank(q, r) <= nP - 1 + 2 * Rank(q, p) - 1
        \/ 2 * (nP - 1) + 2 * Rank(q, r) <= nP - 1 + Rank(q, p)
    BY <1>6, <1>7 DEF RecvAt, FlushAt
  <2> DEFINE a == Rank(q, r)
             b == Rank(q, p)
  <2> HIDE DEF a, b
  <2>2. a \in 1 .. nP - 1 /\ b \in 1 .. nP - 1 /\ nP \in Nat \ {0, 1}
    BY <1>8 DEF a, b
  <2>3. nP - 1 + 2 * a <= nP - 1 + 2 * b - 1 \/ 2 * (nP - 1) + 2 * a <= nP - 1 + b
    BY <2>1 DEF a, b
  <2>4. a < b
    BY <2>2, <2>3
  <2> QED
    BY <2>4 DEF a, b
<1>10. r < p
  BY <1>1, <1>2, <1>4, <1>5, <1>9, RankFacts
<1> QED
  BY <1>1, <1>2, <1>4, <1>5, <1>10

\* The king is one of the parties, which are numbers.
LEMMA KingIsParty ==
  pKing \in Party /\ Party \subseteq Nat /\ numCalls \in Nat /\ nP \in Nat \ {0, 1}
BY BoundedExchangeAssumption DEF Party, pKing

\* Parties that send to one another all move on where a socket takes a list.
LEMMA HeadOnMoves ==
  ASSUME ExchangeInv, setup.mode # "king", setup.length <= setup.sockCap, ~AllReturned
  PROVE  \E p \in Party : CanMove(p)
<1> SUFFICES ASSUME \A p \in Party : ~CanMove(p)
             PROVE  FALSE
  OBVIOUS
<1>1. /\ \A p \in Party : call[p] \in Nat
      /\ Party \subseteq Nat /\ numCalls \in Nat
  <2>1. \A p \in Party : call[p] \in 1 .. numCalls + 1
    BY DEF ExchangeInv, ExchangeTypeOK
  <2> QED
    BY <2>1, KingIsParty
<1>2. PICK a \in Party : call[a] <= numCalls
  BY DEF AllReturned, InCall
<1>3. PICK b \in Party : \A r \in Party : call[b] <= call[r]
  <2> DEFINE S == {call[p] : p \in Party}
  <2>1. S \subseteq Nat /\ call[a] \in S
    BY <1>1
  <2>2. PICK c \in S : \A d \in S : c <= d
    <3> HIDE DEF S
    <3> QED
      BY <2>1, LeastNatural
  <2> QED
    BY <2>2
<1> DEFINE Least == {p \in Party : \A r \in Party : call[p] <= call[r]}
<1>4. \A p \in Least : InCall(p)
  <2> TAKE p \in Least
  <2>1. call[p] <= call[a] /\ call[p] \in Nat /\ call[a] \in Nat
    BY <1>1
  <2> QED
    BY <1>1, <1>2, <2>1 DEF InCall
<1>5. \A p \in Least : /\ PeerOf(p) \in Least /\ PeerOf(PeerOf(p)) \in Party
                       /\ PeerOf(PeerOf(p)) < p
  <2> TAKE p \in Least
  <2>1. /\ PeerOf(p) \in Party /\ call[PeerOf(p)] = call[p]
        /\ PeerOf(PeerOf(p)) \in Party /\ PeerOf(PeerOf(p)) < p
    BY <1>4, WaitsForLess
  <2> QED
    BY <2>1
<1>6. Least \subseteq Party /\ b \in Least
  BY <1>3
<1> HIDE DEF Least
<1> DEFINE T == {p + PeerOf(p) : p \in Least}
<1>7. T \subseteq Nat /\ b + PeerOf(b) \in T
  BY <1>1, <1>5, <1>6
<1>8. PICK p \in Least : \A d \in T : p + PeerOf(p) <= d
  <2>1. PICK c \in T : \A d \in T : c <= d
    <3> HIDE DEF T
    <3> QED
      BY <1>7, LeastNatural
  <2> QED
    BY <2>1
<1>9. /\ PeerOf(p) + PeerOf(PeerOf(p)) \in T
      /\ PeerOf(PeerOf(p)) < p /\ p \in Nat /\ PeerOf(p) \in Nat /\ PeerOf(PeerOf(p)) \in Nat
  BY <1>1, <1>5, <1>6
<1>10. p + PeerOf(p) <= PeerOf(p) + PeerOf(PeerOf(p))
  BY <1>8, <1>9
<1> QED
  BY <1>9, <1>10

\* The connection between the king and another party, in both directions.
LEMMA KingsLine ==
  ASSUME ExchangeInv, setup.mode = "king", NEW q \in Party, q # pKing
  PROVE  LET K == pKing
             l == setup.length
             x == call[K] * l
             y == call[q] * l
             s == MovedIn(K, SendAt("king", K, q))
             t == MovedIn(K, RecvAt("king", K, q))
         IN  /\ K \in Party /\ call[K] \in Nat /\ call[q] \in Nat /\ l \in Nat \ {0}
             /\ x \in Nat /\ y \in Nat /\ s \in 0 .. l /\ t \in 0 .. l
             /\ call[q] < call[K] => y + l <= x
             /\ call[K] < call[q] => x + l <= y
             /\ pc[q] \in {1, 2, 3} /\ moved[q] \in Nat /\ moved[q] < l
             /\ buffered[q][K] \in Nat /\ socket[q][K] \in Nat
             /\ buffered[K][q] \in Nat /\ socket[K][q] \in Nat
             /\ buffered[q][K] + socket[q][K] =
                  (y + (IF pc[q] = 1 THEN moved[q] ELSE l)) - (x + t)
             /\ buffered[K][q] + socket[K][q] =
                  (x + s) - (y + (IF pc[q] = 3 THEN moved[q] ELSE 0))
             /\ pc[q] = 3 => buffered[q][K] = 0
             /\ buffered[K][q] <= s
<1> DEFINE K == pKing
           l == setup.length
<1>1. K \in Party /\ Linked("king", K, q) /\ Linked("king", q, K) /\ ExchangeTypeOK /\ PlaceInv
  BY KingIsParty DEF Linked, ExchangeInv
<1>2. SendAt("king", q, K) = 1 /\ FlushAt("king", q, K) = 2 /\ RecvAt("king", q, K) = 3
  BY DEF SendAt, FlushAt, RecvAt
<1>3. pc[q] \in {1, 2, 3} /\ moved[q] \in Nat /\ moved[q] < l
  <2>1. Len(Program(q)) = 3
    BY ProgramFacts DEF Program, Modes
  <2>2. pc[q] \in 1 .. 3
    BY <1>1, <2>1 DEF PlaceInv
  <2> QED
    BY <1>1, <2>2 DEF PlaceInv, ExchangeTypeOK
<1>4. /\ MovedIn(q, 1) = IF pc[q] = 1 THEN moved[q] ELSE l
      /\ MovedIn(q, 3) = IF pc[q] = 3 THEN moved[q] ELSE 0
  BY <1>3 DEF MovedIn, Held
<1>5. /\ call[K] \in Nat /\ call[q] \in Nat /\ l \in Nat \ {0}
      /\ buffered[q][K] \in Nat /\ socket[q][K] \in Nat
      /\ buffered[q][K] + socket[q][K] =
           (call[q] * l + MovedIn(q, 1)) - (call[K] * l + MovedIn(K, RecvAt("king", K, q)))
      /\ MovedIn(K, RecvAt("king", K, q)) \in 0 .. l
      /\ pc[q] > 2 => buffered[q][K] = 0
  BY <1>1, <1>2, UnderWay
<1>6. /\ buffered[K][q] \in Nat /\ socket[K][q] \in Nat
      /\ buffered[K][q] + socket[K][q] =
           (call[K] * l + MovedIn(K, SendAt("king", K, q))) - (call[q] * l + MovedIn(q, 3))
      /\ MovedIn(K, SendAt("king", K, q)) \in 0 .. l
      /\ buffered[K][q] <= MovedIn(K, SendAt("king", K, q))
  BY <1>1, <1>2, UnderWay
<1>7. /\ call[K] * l \in Nat /\ call[q] * l \in Nat
      /\ call[q] < call[K] => call[q] * l + l <= call[K] * l
      /\ call[K] < call[q] => call[K] * l + l <= call[q] * l
  BY <1>5, TimesOrder
<1> QED
  BY <1>1, <1>3, <1>4, <1>5, <1>6, <1>7

\* What another party of the king waits for.
LEMMA SubjectWaits ==
  ASSUME ExchangeInv, setup.mode = "king", NEW q \in Party, q # pKing, InCall(q), ~CanMove(q)
  PROVE  \/ pc[q] \in {1, 2} /\ buffered[q][pKing] > 0 /\ socket[q][pKing] > 0
         \/ pc[q] = 3 /\ socket[pKing][q] = 0
<1>1. PeerOf(q) = pKing
  BY Waits DEF Linked
<1>2. /\ SendAt("king", q, pKing) = 1 /\ FlushAt("king", q, pKing) = 2
      /\ RecvAt("king", q, pKing) = 3 /\ 3 - 1 = 2
  BY DEF SendAt, FlushAt, RecvAt
<1>3. socket[q][pKing] \in Nat
  BY KingIsParty DEF ExchangeInv, ExchangeTypeOK
<1> QED
  BY <1>1, <1>2, <1>3, Waits

\* The king is not kept waiting by a party that it has not yet answered, nor
\* by one that it answers.
LEMMA KingMoves ==
  ASSUME ExchangeInv, setup.mode = "king", InCall(pKing), ~CanMove(pKing)
  PROVE  \E q \in Party : CanMove(q)
<1> SUFFICES ASSUME \A q \in Party : ~CanMove(q)
             PROVE  FALSE
  OBVIOUS
<1> DEFINE K == pKing
           q == PeerOf(K)
           n == nP - 1
           r == Rank(K, q)
<1>1. K \in Party /\ n \in Nat \ {0} /\ numCalls \in Nat
  BY KingIsParty
<1>2. /\ q \in Party /\ q # K /\ setup.sockCap \in Nat \ {0} /\ Linked("king", K, q)
      /\ \/ /\ pc[K] = SendAt("king", K, q)
            /\ buffered[K][q] > 0 /\ socket[K][q] >= setup.sockCap
         \/ /\ pc[K] = FlushAt("king", K, q) \/ pc[K] = RecvAt("king", K, q) - 1
            /\ buffered[K][q] > 0 /\ socket[K][q] >= setup.sockCap
         \/ pc[K] = RecvAt("king", K, q) /\ socket[q][K] = 0
  BY <1>1, Waits DEF Linked
<1>3. r \in 1 .. n
  BY <1>1, <1>2, RankFacts
<1>4. /\ SendAt("king", K, q) = 2 * n + 2 * r - 1 /\ FlushAt("king", K, q) = 2 * n + 2 * r
      /\ RecvAt("king", K, q) = 2 * r
  BY <1>2 DEF SendAt, FlushAt, RecvAt
<1>5. PICK y \in Party : y = q
  BY <1>2
<1> DEFINE l == setup.length
           a == call[K] * l
           b == call[q] * l
           s == MovedIn(K, SendAt("king", K, q))
           t == MovedIn(K, RecvAt("king", K, q))
<1>6. /\ call[K] \in Nat /\ call[q] \in Nat /\ l \in Nat \ {0}
      /\ a \in Nat /\ b \in Nat /\ s \in 0 .. l /\ t \in 0 .. l
      /\ call[q] < call[K] => b + l <= a
      /\ call[K] < call[q] => a + l <= b
      /\ pc[q] \in {1, 2, 3} /\ moved[q] \in Nat /\ moved[q] < l
      /\ buffered[q][K] \in Nat /\ socket[q][K] \in Nat
      /\ buffered[K][q] \in Nat /\ socket[K][q] \in Nat
      /\ buffered[q][K] + socket[q][K] = (b + (IF pc[q] = 1 THEN moved[q] ELSE l)) - (a + t)
      /\ buffered[K][q] + socket[K][q] = (a + s) - (b + (IF pc[q] = 3 THEN moved[q] ELSE 0))
      /\ pc[q] = 3 => buffered[q][K] = 0
      /\ buffered[K][q] <= s
  BY <1>2, <1>5, KingsLine
<1>7. /\ pc[K] \in Nat
      /\ pc[K] > 2 * r => t = l
      /\ pc[K] = 2 * r => t < l
      /\ pc[K] < 2 * n + 2 * r - 1 => s = 0
  <2>1. ExchangeTypeOK /\ PlaceInv /\ pc[K] \in Nat /\ moved[K] < l
    BY <1>1 DEF ExchangeInv, ExchangeTypeOK, PlaceInv
  <2>2. 2 * r \in Nat /\ 2 * n + 2 * r - 1 \in Nat
    BY <1>1, <1>3
  <2>3. t = MovedIn(K, 2 * r) /\ s = MovedIn(K, 2 * n + 2 * r - 1)
    BY <1>4
  <2> QED
    BY <1>1, <2>1, <2>2, <2>3, HeldFacts
<1>8. call[q] <= call[K] => InCall(q)
  BY <1>1, <1>6 DEF InCall
<1>9. InCall(q) => \/ pc[q] \in {1, 2} /\ buffered[q][K] > 0 /\ socket[q][K] > 0
                   \/ pc[q] = 3 /\ socket[K][q] = 0
  BY <1>2, <1>5, SubjectWaits
<1>13. call[q] = call[K] => a = b
  OBVIOUS
<1> HIDE DEF K, q, n, r, l, a, b, s, t
<1>14. /\ call[K] \in Nat /\ call[q] \in Nat /\ a \in Nat /\ b \in Nat /\ l \in Nat /\ t \in Nat
       /\ moved[q] \in Nat /\ moved[q] < l /\ pc[K] \in Nat
       /\ call[q] < call[K] => b + l <= a
  BY <1>6, <1>7
<1>15. call[q] <= call[K] => b <= a
  BY <1>13, <1>14
\* The king takes a party's list.
<1>10. ASSUME pc[K] = 2 * r, socket[q][K] = 0
       PROVE  FALSE
  <2>1. s = 0 /\ buffered[K][q] = 0 /\ t < l
    BY <1>1, <1>3, <1>6, <1>7, <1>10
  <2>2. call[q] <= call[K]
    BY <1>6, <2>1
  <2>3. pc[q] = 3 /\ socket[K][q] = 0 /\ buffered[q][K] = 0
    BY <1>6, <1>8, <1>9, <1>10, <2>2
  <2>4. b + l = a + t /\ a = b + moved[q]
    BY <1>6, <1>10, <2>1, <2>3
  <2> QED
    <3>1. CASE call[q] = call[K]
      BY <1>13, <1>14, <2>1, <2>4, <3>1
    <3>2. CASE call[q] < call[K]
      BY <1>14, <2>4, <3>2
    <3> QED
      BY <1>14, <2>2, <3>1, <3>2
\* The king answers a party.
<1>11. ASSUME pc[K] >= 2 * n + 2 * r - 1, buffered[K][q] > 0, socket[K][q] >= setup.sockCap
       PROVE  FALSE
  <2>1. t = l /\ socket[K][q] > 0
    <3>1. pc[K] > 2 * r
      BY <1>1, <1>3, <1>11, <1>14
    <3>2. socket[K][q] \in Nat
      BY <1>6
    <3> QED
      BY <1>2, <1>7, <1>11, <3>1, <3>2
  <2>2. call[q] <= call[K]
    BY <1>6, <1>11, <2>1
  <2>3. pc[q] \in {1, 2} /\ buffered[q][K] > 0 /\ socket[q][K] > 0
    BY <1>6, <1>8, <1>9, <2>1, <2>2
  <2>4. b <= a
    BY <1>15, <2>2
  <2> QED
    BY <1>6, <2>1, <2>3, <2>4
<1>12. ASSUME pc[K] = 2 * r - 1, buffered[K][q] > 0
       PROVE  FALSE
  BY <1>1, <1>3, <1>6, <1>7, <1>12
<1> QED
  <2>1. setup.sockCap \in Nat \ {0} /\ r \in Nat /\ n \in Nat
    BY <1>1, <1>2, <1>3
  <2>2. CASE pc[K] = 2 * r /\ socket[q][K] = 0
    BY <1>10, <2>2
  <2>3. CASE pc[K] = 2 * r - 1 /\ buffered[K][q] > 0
    BY <1>12, <2>3
  <2>4. CASE /\ pc[K] = 2 * n + 2 * r - 1 \/ pc[K] = 2 * n + 2 * r
             /\ buffered[K][q] > 0 /\ socket[K][q] >= setup.sockCap
    <3>1. pc[K] >= 2 * n + 2 * r - 1
      BY <2>1, <2>4
    <3> QED
      BY <1>11, <2>4, <3>1
  <2> QED
    BY <1>2, <1>4, <2>2, <2>3, <2>4

\* And it has answered everyone when it has returned.
LEMMA SubjectsMove ==
  ASSUME ExchangeInv, setup.mode = "king", ~InCall(pKing), NEW q \in Party, InCall(q)
  PROVE  CanMove(q)
<1> SUFFICES ASSUME ~CanMove(q)
             PROVE  FALSE
  OBVIOUS
<1> DEFINE K == pKing
           l == setup.length
           a == call[K] * l
           b == call[q] * l
           s == MovedIn(K, SendAt("king", K, q))
           t == MovedIn(K, RecvAt("king", K, q))
<1>1. K \in Party /\ q # K /\ numCalls \in Nat /\ ExchangeTypeOK /\ PlaceInv
  BY KingIsParty DEF ExchangeInv
<1>2. /\ call[K] \in Nat /\ call[q] \in Nat /\ l \in Nat \ {0}
      /\ a \in Nat /\ b \in Nat /\ s \in 0 .. l /\ t \in 0 .. l
      /\ call[q] < call[K] => b + l <= a
      /\ call[K] < call[q] => a + l <= b
      /\ pc[q] \in {1, 2, 3} /\ moved[q] \in Nat /\ moved[q] < l
      /\ buffered[q][K] \in Nat /\ socket[q][K] \in Nat
      /\ buffered[K][q] \in Nat /\ socket[K][q] \in Nat
      /\ buffered[q][K] + socket[q][K] = (b + (IF pc[q] = 1 THEN moved[q] ELSE l)) - (a + t)
      /\ buffered[K][q] + socket[K][q] = (a + s) - (b + (IF pc[q] = 3 THEN moved[q] ELSE 0))
      /\ pc[q] = 3 => buffered[q][K] = 0
      /\ buffered[K][q] <= s
  BY <1>1, KingsLine
<1>3. call[q] < call[K]
  BY <1>1, <1>2 DEF InCall
<1>4. s = 0
  <2>1. pc[K] = 1 /\ moved[K] = 0
    BY <1>1 DEF PlaceInv
  <2>2. Linked(setup.mode, K, q)
    BY <1>1 DEF Linked
  <2>3. SendAt("king", K, q) \in Nat /\ SendAt("king", K, q) >= 1
    BY <1>1, <2>2, Places
  <2> QED
    BY <2>1, <2>3 DEF MovedIn, Held
<1>5. \/ pc[q] \in {1, 2} /\ buffered[q][K] > 0 /\ socket[q][K] > 0
      \/ pc[q] = 3 /\ socket[K][q] = 0
  BY <1>1, SubjectWaits
<1> HIDE DEF K, l, a, b, s, t
<1>6. b + l <= a /\ buffered[K][q] = 0
  BY <1>2, <1>3, <1>4
<1>7. CASE pc[q] \in {1, 2} /\ buffered[q][K] > 0 /\ socket[q][K] > 0
  BY <1>2, <1>6, <1>7
<1>8. CASE pc[q] = 3 /\ socket[K][q] = 0
  BY <1>2, <1>4, <1>6, <1>8
<1> QED
  BY <1>5, <1>7, <1>8

\* Where the sockets hold what the benchmarks count on, the parties never all
\* wait for one another (online_evaluator_load_balanced.cpp:58,
\* vector_reconstruction.cpp:105): the safety part of EndsWhenPromised.
THEOREM NeverStuckAlways == ExchangeSpec => []NeverStuck
<1>1. ExchangeInv => NeverStuck
  <2> SUFFICES ASSUME ExchangeInv, Promised, ~AllReturned
               PROVE  \E p \in Party : CanMove(p)
    BY DEF NeverStuck
  <2>1. CASE setup.mode # "king"
    <3>1. setup.length <= setup.sockCap
      BY <2>1, SetupFacts DEF ExchangeInv, ExchangeTypeOK
    <3> QED
      BY <2>1, <3>1, HeadOnMoves
  <2>2. CASE setup.mode = "king" /\ InCall(pKing)
    <3>1. pKing \in Party
      BY KingIsParty
    <3> QED
      BY <2>2, <3>1, KingMoves
  <2>3. CASE setup.mode = "king" /\ ~InCall(pKing)
    <3>1. PICK p \in Party : InCall(p)
      BY DEF AllReturned
    <3> QED
      BY <2>3, <3>1, SubjectsMove
  <2> QED
    BY <2>1, <2>2, <2>3
<1> QED
  BY <1>1, ExchangeInvAlways, PTL
=============================================================================
