------------------------------ MODULE OpsProofs ------------------------------
(***************************************************************************)
(* Facts about the operators the models are built from, for the proofs about *)
(* the models: remainders, loops, the aggregation of shares, circuits and    *)
(* the material dealt for them.  A loop is a recursive function over the     *)
(* number of turns; a fact about it is proved by induction in the form "a    *)
(* non-empty set of naturals has a least element".                          *)
(***************************************************************************)
EXTENDS Preproc, TLAPS, FiniteSetTheorems, SequenceTheorems

\* Division with remainder by a modulus that need not be a numeral.
LEMMA ModDiv ==
  ASSUME NEW m \in Nat \ {0}, NEW a \in Int
  PROVE  /\ a % m \in 0 .. m - 1 /\ a \div m \in Int
         /\ a = m * (a \div m) + (a % m)
OBVIOUS

LEMMA ModUnique ==
  ASSUME NEW m \in Nat \ {0}, NEW a \in Int, NEW q \in Int, NEW r \in 0 .. m - 1,
         a = m * q + r
  PROVE  a % m = r
<1>1. PICK s \in Int, t \in 0 .. m - 1 : a = m * s + t /\ t = a % m
  BY ModDiv
<1>2. m * (q - s) = t - r
  BY <1>1
<1>3. \A d \in Int : (d >= 1 => m * d >= m) /\ (d <= -1 => m * d <= -m)
  OBVIOUS
<1>4. q - s \in Int /\ ~(q - s >= 1) /\ ~(q - s <= -1)
  BY <1>1, <1>2, <1>3
<1>5. q = s
  BY <1>4
<1>6. m * q = m * s /\ m * q \in Int
  BY <1>5
<1>7. r = t
  BY <1>1, <1>6
<1> QED
  BY <1>1, <1>7

\* Multiples of the modulus do not count.
LEMMA ModShift ==
  ASSUME NEW m \in Nat \ {0}, NEW a \in Int, NEW k \in Int
  PROVE  (a + m * k) % m = a % m
<1>1. PICK s \in Int, t \in 0 .. m - 1 : a = m * s + t /\ t = a % m
  BY ModDiv
<1>2. a + m * k = m * (s + k) + t
  BY <1>1
<1>3. s + k \in Int /\ a + m * k \in Int
  BY <1>1
<1> QED
  BY <1>1, <1>2, <1>3, ModUnique

\* The same remainder modulo m, kept as a name in the steps that only calculate.
Same(m, a, b) == a % m = b % m

\* Numbers with the same remainder differ by a multiple.
LEMMA SameByMultiple ==
  ASSUME NEW m \in Nat \ {0}, NEW a \in Int, NEW b \in Int
  PROVE  Same(m, a, b) <=> \E k \in Int : a = b + m * k
<1>1. ASSUME a % m = b % m
      PROVE  \E k \in Int : a = b + m * k
  <2> DEFINE k == (a \div m) - (b \div m)
  <2>1. k \in Int /\ a = b + m * k
    BY <1>1, ModDiv
  <2> QED
    BY <2>1
<1>2. ASSUME NEW k \in Int, a = b + m * k
      PROVE  a % m = b % m
  BY <1>2, ModShift
<1> QED
  BY <1>1, <1>2 DEF Same

\* Sums, differences and products respect remainders.
LEMMA SameOps ==
  ASSUME NEW m \in Nat \ {0}, NEW a \in Int, NEW b \in Int, NEW c \in Int, NEW d \in Int,
         Same(m, a, c), Same(m, b, d)
  PROVE  Same(m, a + b, c + d) /\ Same(m, a - b, c - d) /\ Same(m, a * b, c * d)
<1>1. PICK k \in Int : a = c + m * k
  BY SameByMultiple
<1>2. PICK l \in Int : b = d + m * l
  BY SameByMultiple
<1> DEFINE u1 == a + b
           w1 == c + d
           n1 == k + l
           u2 == a - b
           w2 == c - d
           n2 == k - l
           u3 == a * b
           w3 == c * d
           n3 == k * d + l * c + m * k * l
<1>3. u1 \in Int /\ w1 \in Int /\ n1 \in Int /\ u1 = w1 + m * n1
  BY <1>1, <1>2
<1>4. u2 \in Int /\ w2 \in Int /\ n2 \in Int /\ u2 = w2 + m * n2
  BY <1>1, <1>2
<1>5. u3 \in Int /\ w3 \in Int /\ n3 \in Int
  OBVIOUS
<1>6. u3 = w3 + m * n3
  BY <1>1, <1>2
<1> HIDE DEF u1, w1, n1, u2, w2, n2, u3, w3, n3
<1>7. Same(m, u1, w1) /\ Same(m, u2, w2) /\ Same(m, u3, w3)
  BY <1>3, <1>4, <1>5, <1>6, SameByMultiple
<1> QED
  BY <1>7 DEF u1, w1, u2, w2, u3, w3

LEMMA SameRemainder ==
  ASSUME NEW m \in Nat \ {0}, NEW a \in Int
  PROVE  a % m \in Int /\ Same(m, a % m, a) /\ Same(m, a, a)
BY DEF Same

\* Taking the remainder once is enough.
LEMMA ModMod ==
  ASSUME NEW m \in Nat \ {0}, NEW a \in Int
  PROVE  a % m \in Int /\ (a % m) % m = a % m
OBVIOUS

\* Nor does a remainder inside a sum or a difference count.
LEMMA ModInside ==
  ASSUME NEW m \in Nat \ {0}, NEW a \in Int, NEW b \in Int
  PROVE  /\ ((a % m) + b) % m = (a + b) % m
         /\ (a + (b % m)) % m = (a + b) % m
         /\ (a - (b % m)) % m = (a - b) % m
         /\ (a + b) % m \in Int /\ (a - b) % m \in Int
<1>1. /\ a % m \in Int /\ Same(m, a % m, a) /\ Same(m, a, a)
      /\ b % m \in Int /\ Same(m, b % m, b) /\ Same(m, b, b)
  BY SameRemainder
<1> DEFINE c == a % m
           d == b % m
<1>2. c \in Int /\ d \in Int /\ Same(m, c, a) /\ Same(m, d, b)
  BY <1>1
<1> HIDE DEF c, d
<1>3. Same(m, c + b, a + b)
  BY <1>1, <1>2, SameOps
<1>4. Same(m, a + d, a + b) /\ Same(m, a - d, a - b)
  BY <1>1, <1>2, SameOps
<1>5. a + b \in Int /\ a - b \in Int
  OBVIOUS
<1> QED
  BY <1>3, <1>4, <1>5 DEF Same, c, d

\* Every non-empty set of naturals has a least element: the intervals 1..m
\* with m in the set are well-founded under strict inclusion.
LEMMA LeastNatural ==
  ASSUME NEW T \in SUBSET Nat, T # {}
  PROVE  \E n \in T : \A m \in T : n <= m
<1>1. PICK b \in T : TRUE
  OBVIOUS
<1> DEFINE S == 1 .. b
           W == {1 .. m : m \in {k \in T : k <= b}}
<1>2. IsFiniteSet(S)
  BY FS_Interval
<1>3. W \subseteq FiniteSubsetsOf(S)
  <2>1. W \subseteq SUBSET S
    OBVIOUS
  <2> HIDE DEF S, W
  <2> QED
    BY <1>2, <2>1, FS_FiniteSubsetsOfFinite
<1>4. 1 .. b \in W
  OBVIOUS
<1>5. PICK w \in W : \A v \in W : <<v, w>> \notin StrictSubsetOrdering(S)
  <2>1. IsWellFoundedOn(StrictSubsetOrdering(S), FiniteSubsetsOf(S))
    BY FS_StrictSubsetOrderingWellFounded
  <2> HIDE DEF S, W
  <2> QED
    BY <1>3, <1>4, <2>1, WFMin
<1>6. PICK n \in T : n <= b /\ w = 1 .. n
  OBVIOUS
<1>7. SUFFICES ASSUME NEW m \in T, m < n
               PROVE  FALSE
  BY <1>6
<1>8. 1 .. m \in W
  BY <1>6, <1>7
<1>9. 1 .. m \subseteq 1 .. n /\ 1 .. m # 1 .. n
  <2>1. n \in 1 .. n /\ n \notin 1 .. m
    BY <1>7
  <2> QED
    BY <1>7, <2>1
<1>10. 1 .. m \in SUBSET S /\ 1 .. n \in SUBSET S
  BY <1>6, <1>7
<1>11. <<1 .. m, w>> \in StrictSubsetOrdering(S)
  BY <1>6, <1>9, <1>10 DEF StrictSubsetOrdering
<1> QED
  BY <1>5, <1>8, <1>11

\* Induction up to n.
LEMMA UpTo ==
  ASSUME NEW n \in Nat, NEW T, 0 \in T, \A k \in 1 .. n : k - 1 \in T => k \in T
  PROVE  \A k \in 0 .. n : k \in T
<1> DEFINE Bad == {k \in 0 .. n : k \notin T}
<1>1. SUFFICES ASSUME Bad # {}
               PROVE  FALSE
  OBVIOUS
<1>2. PICK j \in Bad : \A m \in Bad : j <= m
  <2>1. Bad \in SUBSET Nat
    OBVIOUS
  <2> HIDE DEF Bad
  <2> QED
    BY <1>1, <2>1, LeastNatural
<1>3. j \in 1 .. n /\ j - 1 \in 0 .. n /\ ~(j <= j - 1)
  BY <1>2
<1>4. j - 1 \in T
  BY <1>2, <1>3
<1> QED
  BY <1>2, <1>3, <1>4

\* g is the history of a loop of n turns, each a function of the state before it.
History(n, s, step, g) == g[0] = s /\ \A k \in 1 .. n : g[k] = step[k][g[k - 1]]

\* Every such loop has one.
LEMMA Recursion ==
  ASSUME NEW n \in Nat, NEW S, NEW s \in S, NEW step \in [1 .. n -> [S -> S]]
  PROVE  \E g \in [0 .. n -> S] : History(n, s, step, g)
<1> DEFINE Upto(j, g) == g[0] = s /\ \A k \in 1 .. j : g[k] = step[k][g[k - 1]]
           T == {j \in 0 .. n : \E g \in [0 .. j -> S] : Upto(j, g)}
<1>1. 0 \in T
  <2>1. [k \in 0 .. 0 |-> s] \in [0 .. 0 -> S] /\ Upto(0, [k \in 0 .. 0 |-> s])
    OBVIOUS
  <2> HIDE DEF Upto
  <2> QED
    BY <2>1
<1>2. ASSUME NEW j \in 1 .. n, j - 1 \in T
      PROVE  j \in T
  <2>1. PICK g \in [0 .. j - 1 -> S] : Upto(j - 1, g)
    BY <1>2
  <2> DEFINE h == [k \in 0 .. j |-> IF k = j THEN step[j][g[j - 1]] ELSE g[k]]
  <2>2. j - 1 \in 0 .. j - 1 /\ j \in 0 .. n /\ 0 \in 0 .. j /\ 0 # j
    OBVIOUS
  <2>3. step[j][g[j - 1]] \in S
    <3>1. g[j - 1] \in S
      BY <2>2
    <3> QED
      BY <3>1
  <2>4. h \in [0 .. j -> S]
    BY <2>3
  <2>5. h[0] = s
    BY <2>1, <2>2
  <2>6. \A k \in 1 .. j : h[k] = step[k][h[k - 1]]
    <3> TAKE k \in 1 .. j
    <3>1. k \in 0 .. j /\ k - 1 \in 0 .. j /\ k - 1 # j
      OBVIOUS
    <3>2. h[k - 1] = g[k - 1]
      BY <3>1
    <3>3. CASE k = j
      BY <3>1, <3>2, <3>3
    <3>4. CASE k # j
      <4>1. k \in 1 .. j - 1
        BY <3>4
      <4>2. h[k] = g[k] /\ g[k] = step[k][g[k - 1]]
        BY <2>1, <3>1, <3>4, <4>1
      <4> QED
        BY <3>2, <4>2
    <3> QED
      BY <3>3, <3>4
  <2>7. Upto(j, h)
    BY <2>5, <2>6
  <2> HIDE DEF h, Upto
  <2> QED
    BY <2>2, <2>4, <2>7
<1>3. n \in T
  <2>1. n \in 0 .. n
    OBVIOUS
  <2> HIDE DEF T
  <2> QED
    BY <1>1, <1>2, <2>1, UpTo
<1> QED
  BY <1>3 DEF History

\* The running sums exist and stay in the ring.
LEMMA RunningSums ==
  ASSUME NEW x \in [Party -> Int]
  PROVE  \E g \in [0 .. nP -> Ring] :
            /\ g[0] = 0
            /\ \A k \in 1 .. nP : g[k] = (g[k - 1] + x[k]) % RingSize
<1> DEFINE step == [k \in 1 .. nP |-> [a \in Ring |-> (a + x[k]) % RingSize]]
<1>1. nP \in Nat /\ RingSize \in Nat \ {0} /\ 0 \in Ring
  BY RingSumAssumption DEF Ring
<1>2. \A k \in 1 .. nP : x[k] \in Int
  BY DEF Party
<1>3. \A k \in 1 .. nP, a \in Ring : (a + x[k]) % RingSize \in Ring
  BY <1>1, <1>2 DEF Ring
<1>4. /\ step \in [1 .. nP -> [Ring -> Ring]]
      /\ \A k \in 1 .. nP, a \in Ring : step[k][a] = (a + x[k]) % RingSize
  BY <1>3
<1> HIDE DEF step
<1>5. PICK g \in [0 .. nP -> Ring] : History(nP, 0, step, g)
  BY <1>1, <1>4, Recursion
<1>6. \A k \in 1 .. nP : g[k] = (g[k - 1] + x[k]) % RingSize
  <2> TAKE k \in 1 .. nP
  <2>1. k - 1 \in 0 .. nP
    BY <1>1
  <2>2. g[k - 1] \in Ring
    BY <2>1
  <2> QED
    BY <1>4, <1>5, <2>2 DEF History
<1> QED
  BY <1>5, <1>6 DEF History

\* Partial is the function its recursive definition describes.
LEMMA PartialDef ==
  ASSUME NEW x \in [Party -> Int]
  PROVE  Partial(x) = [k \in 0 .. nP |->
            IF k = 0 THEN 0 ELSE (Partial(x)[k - 1] + x[k]) % RingSize]
<1> DEFINE Def(f) == [k \in 0 .. nP |->
                        IF k = 0 THEN 0 ELSE (f[k - 1] + x[k]) % RingSize]
<1>1. PICK g \in [0 .. nP -> Ring] :
            /\ g[0] = 0
            /\ \A k \in 1 .. nP : g[k] = (g[k - 1] + x[k]) % RingSize
  BY RunningSums
<1>2. g = Def(g)
  BY <1>1
<1>3. Partial(x) = CHOOSE f : f = Def(f)
  BY DEF Partial
<1> HIDE DEF Def
<1>4. Partial(x) = Def(Partial(x))
  BY <1>2, <1>3
<1> QED
  BY <1>4 DEF Def

\* The accumulator, step by step.
LEMMA PartialSteps ==
  ASSUME NEW x \in [Party -> Int]
  PROVE  /\ Partial(x)[0] = 0
         /\ \A k \in 1 .. nP : Partial(x)[k] = (Partial(x)[k - 1] + x[k]) % RingSize
         /\ \A k \in 0 .. nP : Partial(x)[k] \in Ring
<1> DEFINE f == Partial(x)
           T == {k \in 0 .. nP : f[k] \in Ring}
<1>1. /\ f[0] = 0
      /\ \A k \in 1 .. nP : f[k] = (f[k - 1] + x[k]) % RingSize
  <2>1. \A k \in 0 .. nP :
          f[k] = IF k = 0 THEN 0 ELSE (f[k - 1] + x[k]) % RingSize
    BY PartialDef
  <2>2. 0 \in 0 .. nP /\ \A k \in 1 .. nP : k \in 0 .. nP /\ k # 0
    BY RingSumAssumption
  <2> HIDE DEF f
  <2> QED
    BY <2>1, <2>2
<1> HIDE DEF f
<1>2. 0 \in T
  BY <1>1, RingSumAssumption DEF Ring
<1>3. ASSUME NEW k \in 1 .. nP, k - 1 \in T
      PROVE  k \in T
  <2>1. k \in 0 .. nP /\ x[k] \in Int /\ f[k - 1] \in Int
    BY <1>3, RingSumAssumption DEF Party, Ring
  <2>2. f[k] = (f[k - 1] + x[k]) % RingSize
    BY <1>1
  <2> QED
    BY <2>1, <2>2, RingSumAssumption DEF Ring
<1>4. \A k \in 0 .. nP : k \in T
  <2> HIDE DEF T
  <2> QED
    BY <1>2, <1>3, UpTo, RingSumAssumption
<1> QED
  BY <1>1, <1>4 DEF f

\* Aggregation yields a ring element.
LEMMA TotalInRing ==
  ASSUME NEW x \in [Party -> Int]
  PROVE  Total(x) \in Ring
BY PartialSteps, RingSumAssumption DEF Total

\* The element-wise aggregation of lists of length n is a list of length n.
LEMMA VecTotalInVec ==
  ASSUME NEW n \in Nat, NEW x \in [Party -> Vec(n)]
  PROVE  VecTotal(x, n) \in Vec(n)
<1>1. SUFFICES ASSUME NEW i \in 1 .. n
               PROVE  Total([p \in Party |-> x[p][i]]) \in Ring
  BY DEF VecTotal, Vec
<1>2. [p \in Party |-> x[p][i]] \in [Party -> Int]
  BY RingSumAssumption DEF Vec, Ring
<1> QED
  BY <1>2, TotalInRing

\* Party by party, z is the linear combination c * x + d * y up to multiples.
Combines(z, c, x, d, y) ==
  \A p \in Party : z[p] % RingSize = (c * x[p] + d * y[p]) % RingSize

\* Aggregation is linear: the shares of a linear combination may be computed
\* share by share, whether or not a share is reduced on the way.
LEMMA TotalLinear ==
  ASSUME NEW x \in [Party -> Int], NEW y \in [Party -> Int], NEW z \in [Party -> Int],
         NEW c \in Int, NEW d \in Int, Combines(z, c, x, d, y)
  PROVE  Total(z) = (c * Total(x) + d * Total(y)) % RingSize
<1> DEFINE X == Partial(x)
           Y == Partial(y)
           Z == Partial(z)
           Good(k) == Z[k] = (c * X[k] + d * Y[k]) % RingSize
           T == {k \in 0 .. nP : Good(k)}
<1>1. /\ X[0] = 0 /\ Y[0] = 0 /\ Z[0] = 0
      /\ \A k \in 1 .. nP : /\ X[k] = (X[k - 1] + x[k]) % RingSize
                            /\ Y[k] = (Y[k - 1] + y[k]) % RingSize
                            /\ Z[k] = (Z[k - 1] + z[k]) % RingSize
      /\ \A k \in 0 .. nP : X[k] \in Int /\ Y[k] \in Int /\ Z[k] \in Int
  BY PartialSteps, RingSumAssumption DEF Ring
<1> HIDE DEF X, Y, Z
<1>2. Good(0)
  BY <1>1, RingSumAssumption
<1>3. ASSUME NEW k \in 1 .. nP, Good(k - 1)
      PROVE  Good(k)
  <2>1. k \in Party /\ k - 1 \in 0 .. nP
    BY RingSumAssumption DEF Party
  <2>2. X[k - 1] \in Int /\ Y[k - 1] \in Int /\ Z[k - 1] \in Int
    BY <1>1, <2>1
  <2>3. x[k] \in Int /\ y[k] \in Int /\ z[k] \in Int
    BY <2>1
  <2>4. z[k] % RingSize = (c * x[k] + d * y[k]) % RingSize
    BY <2>1 DEF Combines
  <2>5. Z[k - 1] = (c * X[k - 1] + d * Y[k - 1]) % RingSize
    BY <1>3
  <2>6. /\ X[k] = (X[k - 1] + x[k]) % RingSize
        /\ Y[k] = (Y[k - 1] + y[k]) % RingSize
        /\ Z[k] = (Z[k - 1] + z[k]) % RingSize
    BY <1>1
  <2> DEFINE m == RingSize
             e == X[k - 1] + x[k]
             f == Y[k - 1] + y[k]
             s == c * X[k - 1] + d * Y[k - 1]
             t == c * x[k] + d * y[k]
  <2>7. m \in Nat \ {0} /\ e \in Int /\ f \in Int
    BY <2>2, <2>3, RingSumAssumption
  <2>8. /\ c * X[k - 1] \in Int /\ d * Y[k - 1] \in Int
        /\ c * x[k] \in Int /\ d * y[k] \in Int /\ c * e \in Int /\ d * f \in Int
    BY <2>2, <2>3, <2>7
  <2>9. s \in Int /\ t \in Int
    BY <2>8
  <2>10. s + t = c * e + d * f
    BY <2>2, <2>3
  <2> HIDE DEF m, e, f, s, t
  <2>11. X[k] = e % m /\ Y[k] = f % m /\ Z[k - 1] = s % m
    BY <2>5, <2>6 DEF m, e, f, s
  <2>12. X[k] \in Int /\ Y[k] \in Int /\ Same(m, X[k], e) /\ Same(m, Y[k], f)
    BY <2>7, <2>11, SameRemainder
  <2>13. Same(m, Z[k - 1], s) /\ Same(m, z[k], t) /\ Same(m, c, c) /\ Same(m, d, d)
    BY <2>4, <2>7, <2>9, <2>11, SameRemainder DEF Same, t, m
  <2>14. c * X[k] \in Int /\ d * Y[k] \in Int
    BY <2>12
  <2>15. Same(m, c * X[k], c * e) /\ Same(m, d * Y[k], d * f)
    BY <2>7, <2>12, <2>13, SameOps
  <2>16. Same(m, c * X[k] + d * Y[k], c * e + d * f)
    BY <2>7, <2>8, <2>14, <2>15, SameOps
  <2>17. Same(m, Z[k - 1] + z[k], s + t)
    BY <2>2, <2>3, <2>7, <2>9, <2>13, SameOps
  <2> QED
    BY <2>6, <2>10, <2>16, <2>17 DEF Same, m
<1>4. \A k \in 0 .. nP : Good(k)
  <2>1. nP \in Nat /\ 0 \in 0 .. nP /\ \A k \in 1 .. nP : k \in 0 .. nP
    BY RingSumAssumption
  <2> HIDE DEF Good
  <2>2. 0 \in T /\ \A k \in 1 .. nP : k - 1 \in T => k \in T
    BY <1>2, <1>3, <2>1
  <2> HIDE DEF T
  <2>3. \A k \in 0 .. nP : k \in T
    BY <2>1, <2>2, UpTo
  <2> QED
    BY <2>3 DEF T
<1> QED
  BY <1>4, RingSumAssumption DEF Total, X, Y, Z

\* When all parties but the last hold the same.
LEMMA TotalButLast ==
  ASSUME NEW s \in Int, NEW t \in Int
  PROVE  Total([p \in Party |-> IF p < nP THEN s ELSE t]) = ((nP - 1) * s + t) % RingSize
<1> DEFINE x == [p \in Party |-> IF p < nP THEN s ELSE t]
           X == Partial(x)
           Sum(k) == IF k < nP THEN k * s ELSE (nP - 1) * s + t
           Good(k) == X[k] = Sum(k) % RingSize
           T == {k \in 0 .. nP : Good(k)}
<1>1. nP \in Nat \ {0} /\ RingSize \in Nat \ {0}
  BY RingSumAssumption
<1>2. x \in [Party -> Int] /\ \A k \in 1 .. nP : x[k] = IF k < nP THEN s ELSE t
  BY DEF Party
<1> HIDE DEF x
<1>3. /\ X[0] = 0
      /\ \A k \in 1 .. nP : X[k] = (X[k - 1] + x[k]) % RingSize
  BY <1>2, PartialSteps
<1> HIDE DEF X
<1>4. Good(0)
  <2>1. 0 * s = 0 /\ 0 < nP /\ 0 % RingSize = 0
    BY <1>1
  <2> QED
    BY <1>3, <2>1
<1>5. ASSUME NEW k \in 1 .. nP, Good(k - 1)
      PROVE  Good(k)
  <2> DEFINE u == (k - 1) * s
  <2>1. k - 1 < nP /\ u \in Int /\ x[k] \in Int /\ u + x[k] = Sum(k)
    <3>1. k - 1 < nP /\ k \in Int
      BY <1>1
    <3>2. CASE k < nP
      <4>1. u + s = k * s
        OBVIOUS
      <4> QED
        BY <1>2, <3>1, <3>2, <4>1
    <3>3. CASE k = nP
      BY <1>1, <1>2, <3>1, <3>3
    <3> QED
      BY <1>1, <3>2, <3>3
  <2>2. X[k - 1] = u % RingSize
    BY <1>5, <2>1
  <2> HIDE DEF u, Sum
  <2>3. X[k] = ((u % RingSize) + x[k]) % RingSize
    BY <1>3, <2>2
  <2>4. ((u % RingSize) + x[k]) % RingSize = (u + x[k]) % RingSize
    BY <1>1, <2>1, ModInside
  <2> QED
    BY <2>1, <2>3, <2>4
<1>6. nP \in T
  <2>1. 0 \in T /\ \A k \in 1 .. nP : k - 1 \in T => k \in T
    BY <1>1, <1>4, <1>5
  <2>2. nP \in Nat /\ nP \in 0 .. nP
    BY <1>1
  <2> HIDE DEF T
  <2> QED
    BY <2>1, <2>2, UpTo
<1>7. X[nP] = ((nP - 1) * s + t) % RingSize
  <2>1. ~(nP < nP)
    BY <1>1
  <2> QED
    BY <1>6, <2>1
<1> QED
  BY <1>7 DEF Total, X, x

\* When one party alone contributes, the aggregation is its contribution.
LEMMA TotalOfOne ==
  ASSUME NEW q \in Party, NEW c \in Int, NEW x \in [Party -> Int],
         \A p \in Party : x[p] = IF p = q THEN c ELSE 0
  PROVE  Total(x) = c % RingSize
<1> DEFINE X == Partial(x)
           Good(k) == X[k] = IF k < q THEN 0 ELSE c % RingSize
           T == {k \in 0 .. nP : Good(k)}
<1>1. /\ X[0] = 0
      /\ \A k \in 1 .. nP : X[k] = (X[k - 1] + x[k]) % RingSize
  BY PartialSteps
<1> HIDE DEF X
<1>2. q \in 1 .. nP /\ RingSize \in Nat \ {0} /\ nP \in Nat \ {0}
  BY RingSumAssumption DEF Party
<1>3. Good(0)
  BY <1>1, <1>2
<1>4. c % RingSize \in Int /\ (c % RingSize) % RingSize = c % RingSize /\ 0 % RingSize = 0
  BY <1>2
<1>5. ASSUME NEW k \in 1 .. nP, Good(k - 1)
      PROVE  Good(k)
  <2>1. X[k] = (X[k - 1] + x[k]) % RingSize /\ x[k] = IF k = q THEN c ELSE 0
    BY <1>1 DEF Party
  <2>2. CASE k < q
    <3>1. X[k - 1] = 0 /\ x[k] = 0
      BY <1>2, <1>5, <2>1, <2>2
    <3> QED
      BY <1>4, <2>1, <2>2, <3>1
  <2>3. CASE k = q
    <3>1. X[k - 1] = 0 /\ x[k] = c
      BY <1>2, <1>5, <2>1, <2>3
    <3> QED
      BY <1>2, <2>1, <2>3, <3>1
  <2>4. CASE k > q
    <3>1. X[k - 1] = c % RingSize /\ x[k] = 0
      BY <1>2, <1>5, <2>1, <2>4
    <3>2. X[k] = (c % RingSize) % RingSize
      BY <1>4, <2>1, <3>1
    <3> QED
      BY <1>2, <1>4, <2>4, <3>2
  <2> QED
    BY <1>2, <2>2, <2>3, <2>4
<1>6. \A k \in 0 .. nP : Good(k)
  <2>1. nP \in Nat /\ 0 \in 0 .. nP /\ \A k \in 1 .. nP : k \in 0 .. nP
    BY RingSumAssumption
  <2> HIDE DEF Good
  <2>2. 0 \in T /\ \A k \in 1 .. nP : k - 1 \in T => k \in T
    BY <1>3, <1>5, <2>1
  <2> HIDE DEF T
  <2>3. \A k \in 0 .. nP : k \in T
    BY <2>1, <2>2, UpTo
  <2> QED
    BY <2>3 DEF T
<1> QED
  BY <1>2, <1>6 DEF Total, X
-----------------------------------------------------------------------------
\* g is the history of a loop that sets wire after wire by a rule, and the rule
\* of each wire looks at the wires below it only.
SetsWires(n, rule, g) == \A k \in 1 .. n : g[k] = [g[k - 1] EXCEPT ![k - 1] = rule[k][g[k - 1]]]

LooksBelow(n, S, rule) ==
  \A k \in 1 .. n : \A a, b \in [0 .. n - 1 -> S] :
     (\A w \in 0 .. k - 2 : a[w] = b[w]) => rule[k][a] = rule[k][b]

WiresHistory(n, S, rule, g) ==
  /\ n \in Nat /\ rule \in [1 .. n -> [[0 .. n - 1 -> S] -> S]]
  /\ g \in [0 .. n -> [0 .. n - 1 -> S]]
  /\ SetsWires(n, rule, g) /\ LooksBelow(n, S, rule)

Obeys(n, rule, v) == \A k \in 1 .. n : v[k - 1] = rule[k][v]

\* Then the loop ends in an assignment in which every wire obeys its rule.
LEMMA WireByWire ==
  ASSUME NEW n, NEW S, NEW rule, NEW g, WiresHistory(n, S, rule, g)
  PROVE  Obeys(n, rule, g[n])
<1>0. /\ n \in Nat /\ rule \in [1 .. n -> [[0 .. n - 1 -> S] -> S]]
      /\ g \in [0 .. n -> [0 .. n - 1 -> S]]
      /\ SetsWires(n, rule, g) /\ LooksBelow(n, S, rule)
  BY DEF WiresHistory
<1> USE <1>0
<1> DEFINE T == {j \in 0 .. n : \A k \in 0 .. j : \A w \in 0 .. k - 1 : g[j][w] = g[k][w]}
<1>1. 0 \in T
  OBVIOUS
<1>2. ASSUME NEW j \in 1 .. n, j - 1 \in T
      PROVE  j \in T
  <2>1. SUFFICES ASSUME NEW k \in 0 .. j, NEW w \in 0 .. k - 1
                 PROVE  g[j][w] = g[k][w]
    OBVIOUS
  <2>2. CASE k = j
    BY <2>2
  <2>3. CASE k # j
    <3>1. k \in 0 .. j - 1 /\ w # j - 1 /\ w \in 0 .. n - 1 /\ j - 1 \in 0 .. n
      BY <2>3
    <3>2. g[j - 1] \in [0 .. n - 1 -> S]
      BY <3>1
    <3>3. g[j] = [g[j - 1] EXCEPT ![j - 1] = rule[j][g[j - 1]]]
      BY DEF SetsWires
    <3>4. g[j][w] = g[j - 1][w]
      BY <3>1, <3>2, <3>3
    <3> QED
      BY <1>2, <3>1, <3>4
  <2> QED
    BY <2>2, <2>3
<1>3. \A j \in 0 .. n : j \in T
  <2> HIDE DEF T
  <2> QED
    BY <1>1, <1>2, UpTo
<1>4. \A k \in 0 .. n : \A w \in 0 .. k - 1 : g[n][w] = g[k][w]
  <2>1. n \in T
    BY <1>3
  <2> QED
    BY <2>1
<1> HIDE DEF T
<1>5. SUFFICES ASSUME NEW k \in 1 .. n
               PROVE  g[n][k - 1] = rule[k][g[n]]
  BY DEF Obeys
<1>6. k \in 0 .. n /\ k - 1 \in 0 .. n /\ k - 1 \in 0 .. k - 1 /\ k - 1 \in 0 .. n - 1
      /\ n \in 0 .. n
  OBVIOUS
<1>7. g[n] \in [0 .. n - 1 -> S] /\ g[k - 1] \in [0 .. n - 1 -> S]
  BY <1>6
<1>8. \A w \in 0 .. k - 2 : g[n][w] = g[k - 1][w]
  BY <1>4, <1>6
<1>9. rule[k][g[n]] = rule[k][g[k - 1]]
  BY <1>7, <1>8 DEF LooksBelow
<1>10. g[k][k - 1] = rule[k][g[k - 1]]
  <2>1. g[k] = [g[k - 1] EXCEPT ![k - 1] = rule[k][g[k - 1]]]
    BY DEF SetsWires
  <2> QED
    BY <1>6, <1>7, <2>1
<1> QED
  BY <1>4, <1>6, <1>9, <1>10

\* There is an assignment in which every wire obeys its rule.
LEMMA WiresRecursion ==
  ASSUME NEW n \in Nat, NEW S, NEW s \in S, NEW rule \in [1 .. n -> [[0 .. n - 1 -> S] -> S]],
         LooksBelow(n, S, rule)
  PROVE  \E v \in [0 .. n - 1 -> S] : Obeys(n, rule, v)
<1> DEFINE X == [0 .. n - 1 -> S]
           step == [k \in 1 .. n |-> [a \in X |-> [a EXCEPT ![k - 1] = rule[k][a]]]]
           start == [w \in 0 .. n - 1 |-> s]
<1>1. start \in X /\ step \in [1 .. n -> [X -> X]]
  <2>1. \A k \in 1 .. n, a \in X : [a EXCEPT ![k - 1] = rule[k][a]] \in X
    <3> TAKE k \in 1 .. n, a \in X
    <3>1. rule[k][a] \in S
      OBVIOUS
    <3> QED
      BY <3>1
  <2> QED
    BY <2>1
<1>2. \A k \in 1 .. n, a \in X : step[k][a] = [a EXCEPT ![k - 1] = rule[k][a]]
  OBVIOUS
<1> HIDE DEF X, step, start
<1>3. PICK g \in [0 .. n -> X] : History(n, start, step, g)
  BY <1>1, Recursion
<1>4. SetsWires(n, rule, g)
  BY <1>2, <1>3 DEF SetsWires, History
<1>5. WiresHistory(n, S, rule, g)
  BY <1>3, <1>4 DEF WiresHistory, X
<1>6. Obeys(n, rule, g[n])
  BY <1>5, WireByWire
<1>7. n \in 0 .. n
  OBVIOUS
<1> QED
  BY <1>3, <1>6, <1>7 DEF X

-----------------------------------------------------------------------------
\* out is what a loop has pushed of the first k elements of s, those at the
\* positions in keep, in their order.
PickedFrom(X, s, keep, k, out) ==
  /\ out \in Seq(X)
  /\ \E pos \in [1 .. Len(out) -> 1 .. k] :
       /\ \A i \in 1 .. Len(out) : pos[i] \in keep /\ out[i] = s[pos[i]]
       /\ \A i, j \in 1 .. Len(out) : i < j => pos[i] < pos[j]
       /\ \A j \in 1 .. k : j \in keep => \E i \in 1 .. Len(out) : pos[i] = j

\* An element behind the first k - 1 that is pushed or left.
LEMMA PickOne ==
  ASSUME NEW X, NEW s \in Seq(X), NEW keep, NEW k \in 1 .. Len(s), NEW out,
         PickedFrom(X, s, keep, k - 1, out)
  PROVE  /\ k \in keep => PickedFrom(X, s, keep, k, Append(out, s[k]))
         /\ k \notin keep => PickedFrom(X, s, keep, k, out)
<1> DEFINE m == Len(out)
<1>1. out \in Seq(X) /\ m \in Nat /\ s[k] \in X /\ k \in Nat
  BY DEF PickedFrom
<1>2. PICK pos \in [1 .. m -> 1 .. k - 1] :
         /\ \A i \in 1 .. m : pos[i] \in keep /\ out[i] = s[pos[i]]
         /\ \A i, j \in 1 .. m : i < j => pos[i] < pos[j]
         /\ \A j \in 1 .. k - 1 : j \in keep => \E i \in 1 .. m : pos[i] = j
  BY DEF PickedFrom
<1>3. /\ \A j \in 1 .. k : j = k \/ j \in 1 .. k - 1
      /\ \A j \in 1 .. k - 1 : j \in 1 .. k /\ j < k
      /\ k \in 1 .. k
  BY <1>1
<1>4. CASE k \notin keep
  <2>1. pos \in [1 .. m -> 1 .. k]
    BY <1>3
  <2>2. \A j \in 1 .. k : j \in keep => \E i \in 1 .. m : pos[i] = j
    BY <1>2, <1>3, <1>4
  <2> QED
    BY <1>1, <1>2, <1>4, <2>1, <2>2 DEF PickedFrom
<1>5. CASE k \in keep
  <2> DEFINE new == Append(out, s[k])
             at == [i \in 1 .. m + 1 |-> IF i = m + 1 THEN k ELSE pos[i]]
  <2>1. /\ new \in Seq(X) /\ Len(new) = m + 1
        /\ new[m + 1] = s[k] /\ \A i \in 1 .. m : new[i] = out[i]
    BY <1>1
  <2>2. /\ m + 1 \in 1 .. m + 1
        /\ \A i \in 1 .. m + 1 : i = m + 1 \/ i \in 1 .. m
        /\ \A i \in 1 .. m : i \in 1 .. m + 1 /\ i # m + 1
        /\ \A i, j \in 1 .. m + 1 : i < j => i \in 1 .. m
    BY <1>1
  <2> HIDE DEF new, m
  <2>3. at \in [1 .. m + 1 -> 1 .. k] /\ at[m + 1] = k /\ \A i \in 1 .. m : at[i] = pos[i]
    BY <1>3, <2>2
  <2> HIDE DEF at
  <2>4. \A i \in 1 .. m + 1 : at[i] \in keep /\ new[i] = s[at[i]]
    BY <1>2, <1>5, <2>1, <2>2, <2>3
  <2>5. \A i, j \in 1 .. m + 1 : i < j => at[i] < at[j]
    <3> TAKE i, j \in 1 .. m + 1
    <3> HAVE i < j
    <3>1. i \in 1 .. m
      BY <2>2
    <3>2. CASE j = m + 1
      BY <1>3, <2>3, <3>1, <3>2
    <3>3. CASE j \in 1 .. m
      BY <1>2, <2>3, <3>1, <3>3
    <3> QED
      BY <2>2, <3>2, <3>3
  <2>6. \A j \in 1 .. k : j \in keep => \E i \in 1 .. m + 1 : at[i] = j
    <3> TAKE j \in 1 .. k
    <3> HAVE j \in keep
    <3>1. CASE j = k
      BY <2>2, <2>3, <3>1
    <3>2. CASE j \in 1 .. k - 1
      <4>1. PICK i \in 1 .. m : pos[i] = j
        BY <1>2, <3>2
      <4> QED
        BY <2>2, <2>3, <4>1
    <3> QED
      BY <1>3, <3>1, <3>2
  <2>7. PickedFrom(X, s, keep, k, new)
    <3>1. /\ at \in [1 .. Len(new) -> 1 .. k]
          /\ \A i \in 1 .. Len(new) : at[i] \in keep /\ new[i] = s[at[i]]
          /\ \A i, j \in 1 .. Len(new) : i < j => at[i] < at[j]
          /\ \A j \in 1 .. k : j \in keep => \E i \in 1 .. Len(new) : at[i] = j
      BY <2>1, <2>3, <2>4, <2>5, <2>6
    <3> QED
      BY <2>1, <3>1 DEF PickedFrom
  <2> QED
    BY <1>5, <2>7 DEF new
<1> QED
  BY <1>4, <1>5

\* What a loop that pushes some elements ends with.
LEMMA PickedFacts ==
  ASSUME NEW X, NEW s \in Seq(X), NEW keep
  PROVE  PickedFrom(X, s, keep, Len(s), Picked(s, keep))
<1> DEFINE n == Len(s)
           S == Seq(X)
           step == [k \in 1 .. n |-> [a \in S |-> IF k \in keep THEN Append(a, s[k]) ELSE a]]
           Def(f) == [k \in 0 .. n |->
                        IF k = 0 THEN <<>>
                        ELSE IF k \in keep THEN Append(f[k - 1], s[k]) ELSE f[k - 1]]
           P == CHOOSE f : f = Def(f)
<1>1. n \in Nat /\ \A k \in 1 .. n : s[k] \in X
  OBVIOUS
<1>2. \A k \in 1 .. n : k \in 0 .. n /\ k - 1 \in 0 .. n /\ k # 0
  BY <1>1
<1>3. /\ step \in [1 .. n -> [S -> S]] /\ <<>> \in S
      /\ \A k \in 1 .. n, a \in S :
           step[k][a] = IF k \in keep THEN Append(a, s[k]) ELSE a
  BY <1>1
<1> HIDE DEF n, S, step
<1>4. PICK g \in [0 .. n -> S] : History(n, <<>>, step, g)
  BY <1>1, <1>3, Recursion
<1>5. g = Def(g)
  <2>1. \A k \in 0 .. n : g[k] = Def(g)[k]
    <3> TAKE k \in 0 .. n
    <3>1. CASE k = 0
      BY <1>4, <3>1 DEF History
    <3>2. CASE k # 0
      <4>1. k \in 1 .. n
        BY <1>1, <3>2
      <4>2. g[k] = step[k][g[k - 1]] /\ g[k - 1] \in S
        BY <1>2, <1>4, <4>1 DEF History
      <4> QED
        BY <1>3, <3>2, <4>1, <4>2
    <3> QED
      BY <3>1, <3>2
  <2> QED
    BY <2>1
<1>6. Picked(s, keep) = P[n]
  BY DEF Picked, n
<1> HIDE DEF Def
<1>7. P = Def(P)
  BY <1>5
<1> HIDE DEF P
<1>8. \A k \in 0 .. n :
         P[k] = IF k = 0 THEN <<>>
                ELSE IF k \in keep THEN Append(P[k - 1], s[k]) ELSE P[k - 1]
  BY <1>7 DEF Def
<1> DEFINE T == {k \in 0 .. n : PickedFrom(X, s, keep, k, P[k])}
<1>9. 0 \in T
  <2>1. 0 \in 0 .. n
    BY <1>1
  <2>2. P[0] = <<>>
    BY <1>8, <2>1
  <2>3. PickedFrom(X, s, keep, 0, <<>>)
    <3>1. <<>> \in Seq(X) /\ Len(<<>>) = 0 /\ 1 .. 0 = {}
      OBVIOUS
    <3>2. [i \in {} |-> i] \in [{} -> {}]
      OBVIOUS
    <3> QED
      BY <3>1, <3>2 DEF PickedFrom
  <2> QED
    BY <2>1, <2>2, <2>3
<1>10. ASSUME NEW k \in 1 .. n, k - 1 \in T
       PROVE  k \in T
  <2>1. PickedFrom(X, s, keep, k - 1, P[k - 1])
    BY <1>10
  <2>2. P[k] = IF k \in keep THEN Append(P[k - 1], s[k]) ELSE P[k - 1]
    BY <1>2, <1>8
  <2>3. PickedFrom(X, s, keep, k, P[k])
    BY <2>1, <2>2, PickOne DEF n
  <2> QED
    BY <1>2, <2>3
<1>11. n \in T
  <2>1. n \in 0 .. n
    BY <1>1
  <2> HIDE DEF T
  <2> QED
    BY <1>1, <1>9, <1>10, <2>1, UpTo
<1> QED
  BY <1>6, <1>11 DEF n

-----------------------------------------------------------------------------
\* What a circuit's gates are.
LEMMA GateFacts ==
  ASSUME NEW gs, IsCircuit(gs)
  PROVE  /\ Len(gs) \in Nat /\ Wires(gs) = 0 .. Len(gs) - 1
         /\ \A k \in 1 .. Len(gs) :
              /\ gs[k] \in GateRecord /\ gs[k].type \in Types /\ gs[k].cval \in Ring
              /\ gs[k].out = k - 1 /\ k - 1 \in Wires(gs)
              /\ \A w \in Reads(gs[k]) : w \in Wires(gs) /\ w \in 0 .. k - 2
              /\ gs[k].type # "kInp" => gs[k].in1 \in Reads(gs[k]) /\ gs[k].in2 \in Reads(gs[k])
<1>1. gs \in Seq(GateRecord) /\ Len(gs) \in Nat
  BY DEF IsCircuit
<1>2. ASSUME NEW k \in 1 .. Len(gs)
      PROVE  /\ gs[k] \in GateRecord /\ gs[k].type \in Types /\ gs[k].cval \in Ring
             /\ gs[k].in1 \in Nat /\ gs[k].in2 \in Nat
  <2>1. gs[k] \in GateRecord
    BY <1>1
  <2> QED
    BY <2>1 DEF GateRecord
<1>3. ASSUME NEW k \in 1 .. Len(gs)
      PROVE  /\ gs[k].out = k - 1
             /\ \A w \in Reads(gs[k]) : w \in Nat /\ w < k - 1
  <2>1. gs[k].out = k - 1 /\ \A w \in Reads(gs[k]) : w < k - 1
    BY DEF IsCircuit
  <2>2. \A w \in Reads(gs[k]) : w \in Nat
    BY <1>2 DEF Reads
  <2> QED
    BY <2>1, <2>2
<1>4. ASSUME NEW k \in 1 .. Len(gs)
      PROVE  /\ k - 1 \in Wires(gs)
             /\ \A w \in Reads(gs[k]) : w \in Wires(gs) /\ w \in 0 .. k - 2
  <2>1. k \in Nat /\ k \in Int /\ k - 1 \in 0 .. Len(gs) - 1
    BY <1>1
  <2>2. \A w \in Nat : w < k - 1 => w \in 0 .. Len(gs) - 1 /\ w \in 0 .. k - 2
    BY <1>1, <2>1
  <2> QED
    BY <1>3, <2>1, <2>2 DEF Wires
<1>5. ASSUME NEW k \in 1 .. Len(gs), gs[k].type # "kInp"
      PROVE  gs[k].in1 \in Reads(gs[k]) /\ gs[k].in2 \in Reads(gs[k])
  BY <1>5 DEF Reads
<1> QED
  BY <1>1, <1>2, <1>3, <1>4, <1>5 DEF Wires

\* A gate's level depends on the levels of the wires it reads.
LEMMA NewLevelFacts ==
  ASSUME NEW gs, IsCircuit(gs), NEW k \in 1 .. Len(gs)
  PROVE  /\ \A a \in [Wires(gs) -> Nat] : NewLevel(gs[k], a) \in Nat
         /\ \A a, b \in [Wires(gs) -> Nat] :
              (\A w \in Reads(gs[k]) : a[w] = b[w]) => NewLevel(gs[k], a) = NewLevel(gs[k], b)
<1>1. CASE gs[k].type = "kInp"
  BY <1>1 DEF NewLevel
<1>2. CASE gs[k].type # "kInp"
  <2>1. /\ gs[k].in1 \in Reads(gs[k]) /\ gs[k].in2 \in Reads(gs[k])
        /\ gs[k].in1 \in Wires(gs) /\ gs[k].in2 \in Wires(gs)
    BY <1>2, GateFacts
  <2>2. \A a \in [Wires(gs) -> Nat] : a[gs[k].in1] \in Nat /\ a[gs[k].in2] \in Nat
    BY <2>1
  <2> QED
    BY <1>2, <2>1, <2>2 DEF NewLevel, Higher
<1> QED
  BY <1>1, <1>2

\* orderGatesByLevel ends with every gate one level above the higher of its
\* inputs if it is interactive, and on the level of that input if not.
LEMMA LevelIsRule ==
  ASSUME NEW gs, IsCircuit(gs)
  PROVE  /\ GateLevel(gs) \in [Wires(gs) -> 0 .. Len(gs)]
         /\ \A k \in 1 .. Len(gs) : GateLevel(gs)[k - 1] = NewLevel(gs[k], GateLevel(gs))
<1> DEFINE n == Len(gs)
           S == [Wires(gs) -> Nat]
           rule == [k \in 1 .. n |-> [a \in S |-> NewLevel(gs[k], a)]]
           step == [k \in 1 .. n |-> [a \in S |-> [a EXCEPT ![k - 1] = NewLevel(gs[k], a)]]]
           zero == [w \in Wires(gs) |-> 0]
           Def(f) == [k \in 0 .. n |->
                        IF k = 0 THEN zero
                        ELSE [f[k - 1] EXCEPT ![gs[k].out] = NewLevel(gs[k], f[k - 1])]]
           L == LevelsAfter(gs)
<1>1. /\ n \in Nat /\ Wires(gs) = 0 .. n - 1
      /\ \A k \in 1 .. n : gs[k].out = k - 1 /\ k - 1 \in Wires(gs) /\ k - 1 \in 0 .. n
      /\ \A k \in 1 .. n : \A w \in Reads(gs[k]) : w \in Wires(gs) /\ w \in 0 .. k - 2
  BY GateFacts
<1>2. \A k \in 1 .. n : \A a \in S : NewLevel(gs[k], a) \in Nat
  BY NewLevelFacts
<1>3. /\ step \in [1 .. n -> [S -> S]] /\ zero \in S /\ rule \in [1 .. n -> [S -> Nat]]
      /\ \A k \in 1 .. n, a \in S : step[k][a] = [a EXCEPT ![k - 1] = rule[k][a]]
      /\ \A k \in 1 .. n, a \in S : rule[k][a] = NewLevel(gs[k], a)
  BY <1>1, <1>2
<1> HIDE DEF n, S, rule, step, zero
<1>4. PICK g \in [0 .. n -> S] : History(n, zero, step, g)
  BY <1>1, <1>3, Recursion
<1>5. g[0] = zero /\ \A k \in 1 .. n : g[k] = step[k][g[k - 1]]
  BY <1>4 DEF History
<1>6. \A k \in 1 .. n : /\ g[k - 1] \in S
                        /\ g[k] = [g[k - 1] EXCEPT ![k - 1] = NewLevel(gs[k], g[k - 1])]
  BY <1>1, <1>3, <1>5
<1>7. g = Def(g)
  <2>1. \A k \in 0 .. n : g[k] = Def(g)[k]
    <3> TAKE k \in 0 .. n
    <3>1. CASE k = 0
      BY <1>5, <3>1
    <3>2. CASE k # 0
      <4>1. k \in 1 .. n
        BY <1>1, <3>2
      <4>2. gs[k].out = k - 1
        BY <1>1, <4>1
      <4>3. g[k] = [g[k - 1] EXCEPT ![gs[k].out] = NewLevel(gs[k], g[k - 1])]
        BY <1>6, <4>1, <4>2
      <4> QED
        BY <3>2, <4>3
    <3> QED
      BY <3>1, <3>2
  <2> QED
    BY <2>1
<1>8. L = CHOOSE f : f = Def(f)
  BY DEF LevelsAfter, n, zero
<1> HIDE DEF Def, L
<1>9. L = Def(L)
  BY <1>7, <1>8
<1>10. /\ L[0] = zero
       /\ \A k \in 1 .. n : L[k] = [L[k - 1] EXCEPT ![k - 1] = NewLevel(gs[k], L[k - 1])]
       /\ L = [k \in 0 .. n |-> L[k]]
  <2>1. \A k \in 0 .. n :
           L[k] = IF k = 0 THEN zero
                  ELSE [L[k - 1] EXCEPT ![gs[k].out] = NewLevel(gs[k], L[k - 1])]
    BY <1>9 DEF Def
  <2>2. L = [k \in 0 .. n |-> L[k]]
    BY <1>9 DEF Def
  <2>3. ASSUME NEW k \in 1 .. n
        PROVE  L[k] = [L[k - 1] EXCEPT ![k - 1] = NewLevel(gs[k], L[k - 1])]
    <3>1. k \in 0 .. n /\ k # 0 /\ gs[k].out = k - 1
      BY <1>1
    <3> QED
      BY <2>1, <3>1
  <2>4. 0 \in 0 .. n
    BY <1>1
  <2> QED
    BY <2>1, <2>2, <2>3, <2>4
<1> DEFINE T == {k \in 0 .. n : L[k] \in [Wires(gs) -> 0 .. k]}
<1>11. \A k \in 0 .. n : k \in T
  <2>1. 0 \in T
    BY <1>1, <1>10 DEF zero
  <2>2. ASSUME NEW k \in 1 .. n, k - 1 \in T
        PROVE  k \in T
    <3>1. L[k - 1] \in [Wires(gs) -> 0 .. k - 1] /\ k - 1 \in Nat
      BY <2>2
    <3>2. L[k - 1] \in S
      BY <3>1 DEF S
    <3>3. NewLevel(gs[k], L[k - 1]) \in 0 .. k
      <4>1. CASE gs[k].type = "kInp"
        BY <4>1 DEF NewLevel
      <4>2. CASE gs[k].type # "kInp"
        <5>1. gs[k].in1 \in Wires(gs) /\ gs[k].in2 \in Wires(gs)
          BY <4>2, GateFacts DEF n
        <5>2. L[k - 1][gs[k].in1] \in 0 .. k - 1 /\ L[k - 1][gs[k].in2] \in 0 .. k - 1
          BY <3>1, <5>1
        <5> QED
          BY <4>2, <5>2 DEF NewLevel, Higher
      <4> QED
        BY <4>1, <4>2
    <3>4. L[k - 1] \in [Wires(gs) -> 0 .. k]
      BY <3>1
    <3>5. L[k] = [L[k - 1] EXCEPT ![k - 1] = NewLevel(gs[k], L[k - 1])]
      BY <1>10
    <3>6. L[k] \in [Wires(gs) -> 0 .. k]
      BY <3>3, <3>4, <3>5
    <3> QED
      BY <1>1, <3>6
  <2> HIDE DEF T
  <2> QED
    BY <1>1, <2>1, <2>2, UpTo
<1>12. L \in [0 .. n -> S] /\ L[n] \in [Wires(gs) -> 0 .. n]
  <2>1. \A k \in 0 .. n : L[k] \in S
    BY <1>11 DEF S
  <2> QED
    BY <1>1, <1>10, <1>11, <2>1
<1> HIDE DEF T
<1>13. S = [0 .. n - 1 -> Nat]
  BY <1>1 DEF S
<1>14. LooksBelow(n, Nat, rule)
  <2>1. SUFFICES ASSUME NEW k \in 1 .. n, NEW a \in S, NEW b \in S,
                        \A w \in 0 .. k - 2 : a[w] = b[w]
                 PROVE  rule[k][a] = rule[k][b]
    BY <1>13 DEF LooksBelow
  <2>2. \A w \in Reads(gs[k]) : a[w] = b[w]
    BY <1>1, <2>1
  <2>3. NewLevel(gs[k], a) = NewLevel(gs[k], b)
    BY <2>2, NewLevelFacts DEF n, S
  <2> QED
    BY <1>3, <2>3
<1>15. \A k \in 1 .. n : L[n][k - 1] = rule[k][L[n]]
  <2>1. \A k \in 1 .. n : k - 1 \in 0 .. n
    BY <1>1
  <2>2. \A k \in 1 .. n : L[k - 1] \in S
    BY <1>12, <2>1
  <2>3. SetsWires(n, rule, L)
    <3>1. SUFFICES ASSUME NEW k \in 1 .. n
                   PROVE  L[k] = [L[k - 1] EXCEPT ![k - 1] = rule[k][L[k - 1]]]
      BY DEF SetsWires
    <3>2. rule[k][L[k - 1]] = NewLevel(gs[k], L[k - 1])
      BY <1>3, <2>2
    <3>3. L[k] = [L[k - 1] EXCEPT ![k - 1] = NewLevel(gs[k], L[k - 1])]
      BY <1>10
    <3> QED
      BY <3>2, <3>3
  <2>4. n \in Nat /\ rule \in [1 .. n -> [[0 .. n - 1 -> Nat] -> Nat]]
    BY <1>1, <1>3, <1>13
  <2>5. L \in [0 .. n -> [0 .. n - 1 -> Nat]]
    BY <1>12, <1>13
  <2> HIDE DEF L
  <2> QED
    <3>1. WiresHistory(n, Nat, rule, L)
      BY <1>14, <2>3, <2>4, <2>5 DEF WiresHistory
    <3>2. Obeys(n, rule, L[n])
      BY ONLY <3>1, WireByWire
    <3> QED
      BY <3>2 DEF Obeys
<1>16. GateLevel(gs) = L[n] /\ L[n] \in S
  BY <1>1, <1>12 DEF GateLevel, L, n
<1> QED
  BY SMTT(20), <1>3, <1>12, <1>15, <1>16 DEF n

\* An input is never above the gate that reads it, and below an interactive one.
LEMMA ReadBelow ==
  ASSUME NEW gs, IsCircuit(gs), NEW k \in 1 .. Len(gs), NEW w \in Reads(gs[k])
  PROVE  /\ GateLevel(gs)[w] <= GateLevel(gs)[gs[k].out]
         /\ gs[k].type \in Interactive => GateLevel(gs)[w] < GateLevel(gs)[gs[k].out]
<1> DEFINE lev == GateLevel(gs)
<1>1. /\ gs[k].type # "kInp" /\ w \in {gs[k].in1, gs[k].in2}
      /\ gs[k].out = k - 1
      /\ gs[k].in1 \in Wires(gs) /\ gs[k].in2 \in Wires(gs)
  <2>1. gs[k].type # "kInp" /\ w \in {gs[k].in1, gs[k].in2}
    BY DEF Reads
  <2> QED
    BY <2>1, GateFacts
<1>2. lev \in [Wires(gs) -> 0 .. Len(gs)] /\ lev[k - 1] = NewLevel(gs[k], lev)
  BY LevelIsRule
<1> HIDE DEF lev
<1>3. lev[gs[k].in1] \in Nat /\ lev[gs[k].in2] \in Nat
  BY <1>1, <1>2
<1>4. lev[w] <= lev[k - 1] /\ (gs[k].type \in Interactive => lev[w] < lev[k - 1])
  BY <1>1, <1>2, <1>3 DEF NewLevel, Higher
<1> QED
  BY <1>1, <1>4 DEF lev

\* The depth is the highest level there is.
LEMMA DepthIsHighest ==
  ASSUME NEW gs, IsCircuit(gs)
  PROVE  Depth(gs) \in 0 .. Len(gs) /\ \A w \in Wires(gs) : GateLevel(gs)[w] \in 0 .. Depth(gs)
<1> DEFINE lev == GateLevel(gs)
           n == Len(gs)
           Bound == {d \in 0 .. n : \A w \in Wires(gs) : lev[w] <= d}
           Highest(d) == (\A w \in Wires(gs) : lev[w] <= d)
                         /\ (d = 0 \/ \E w \in Wires(gs) : lev[w] = d)
<1>1. n \in Nat /\ lev \in [Wires(gs) -> 0 .. n]
  BY LevelIsRule, GateFacts
<1>2. Depth(gs) = CHOOSE d \in 0 .. n : Highest(d)
  BY DEF Depth
<1> HIDE DEF lev, n
<1>3. \A w \in Wires(gs) : lev[w] \in 0 .. n
  BY <1>1
<1>4. Bound \in SUBSET Nat /\ n \in Bound
  BY <1>1, <1>3
<1>5. PICK d \in Bound : \A m \in Bound : d <= m
  <2> HIDE DEF Bound
  <2> QED
    BY <1>4, LeastNatural
<1>6. d \in 0 .. n /\ \A w \in Wires(gs) : lev[w] <= d
  BY <1>5
<1>7. d = 0 \/ \E w \in Wires(gs) : lev[w] = d
  <2>1. SUFFICES ASSUME d # 0, \A w \in Wires(gs) : lev[w] # d
                 PROVE  FALSE
    OBVIOUS
  <2>2. d - 1 \in 0 .. n /\ ~(d <= d - 1)
    BY <1>1, <1>6, <2>1
  <2>3. \A w \in Wires(gs) : lev[w] <= d - 1
    BY <1>1, <1>3, <1>6, <2>1
  <2>4. d - 1 \in Bound
    BY <2>2, <2>3
  <2> QED
    BY <1>5, <2>2, <2>4
<1>8. Highest(d)
  BY <1>6, <1>7
<1> HIDE DEF Highest
<1>9. Depth(gs) \in 0 .. n /\ Highest(Depth(gs))
  BY <1>2, <1>6, <1>8
<1>10. \A w \in Wires(gs) : lev[w] <= Depth(gs)
  BY <1>9 DEF Highest
<1>11. \A w \in Wires(gs) : lev[w] \in 0 .. Depth(gs)
  <2> TAKE w \in Wires(gs)
  <2>1. lev[w] \in 0 .. n /\ lev[w] <= Depth(gs) /\ Depth(gs) \in 0 .. n
    BY <1>3, <1>9, <1>10
  <2> QED
    BY <1>1, <2>1
<1> QED
  BY <1>9, <1>11 DEF lev, n
-----------------------------------------------------------------------------
\* level holds the gates of level d among the first k, in their order.
Collected(gs, lev, d, k, level) ==
  /\ level \in Seq(GateRecord)
  /\ \A i \in 1 .. Len(level) :
       \E j \in 1 .. k : level[i] = gs[j] /\ lev[j - 1] = d
  /\ \A i, j \in 1 .. Len(level) : i < j => level[i].out < level[j].out
  /\ \A j \in 1 .. k : lev[j - 1] = d => \E i \in 1 .. Len(level) : level[i] = gs[j]

\* Every level of gates_by_level holds its gates in the order they were added.
LEMMA PushedIsCollected ==
  ASSUME NEW gs, IsCircuit(gs), NEW lev, NEW d
  PROVE  Collected(gs, lev, d, Len(gs), Pushed(gs, lev, d))
<1> DEFINE n == Len(gs)
           keep == {k \in DOMAIN gs : lev[gs[k].out] = d}
           level == Pushed(gs, lev, d)
<1>1. /\ n \in Nat /\ gs \in Seq(GateRecord) /\ DOMAIN gs = 1 .. n
      /\ \A k \in 1 .. n : gs[k].out = k - 1
  BY GateFacts DEF IsCircuit
<1>2. \A k \in 1 .. n : k \in keep <=> lev[k - 1] = d
  BY <1>1
<1>3. level = Picked(gs, keep)
  BY DEF Pushed
<1> HIDE DEF n, keep, level
<1>4. PickedFrom(GateRecord, gs, keep, n, level)
  BY <1>1, <1>3, PickedFacts DEF n
<1>5. level \in Seq(GateRecord)
  BY <1>4 DEF PickedFrom
<1>6. PICK pos \in [1 .. Len(level) -> 1 .. n] :
         /\ \A i \in 1 .. Len(level) : pos[i] \in keep /\ level[i] = gs[pos[i]]
         /\ \A i, j \in 1 .. Len(level) : i < j => pos[i] < pos[j]
         /\ \A j \in 1 .. n : j \in keep => \E i \in 1 .. Len(level) : pos[i] = j
  BY <1>4 DEF PickedFrom
<1>7. \A i \in 1 .. Len(level) : \E j \in 1 .. n : level[i] = gs[j] /\ lev[j - 1] = d
  BY <1>2, <1>6
<1>8. \A i, j \in 1 .. Len(level) : i < j => level[i].out < level[j].out
  <2> TAKE i, j \in 1 .. Len(level)
  <2> HAVE i < j
  <2>1. pos[i] \in 1 .. n /\ pos[j] \in 1 .. n /\ pos[i] < pos[j]
    BY <1>6
  <2>2. level[i].out = pos[i] - 1 /\ level[j].out = pos[j] - 1
    BY <1>1, <1>6, <2>1
  <2> QED
    BY <2>1, <2>2
<1>9. \A j \in 1 .. n : lev[j - 1] = d => \E i \in 1 .. Len(level) : level[i] = gs[j]
  BY <1>2, <1>6
<1> QED
  BY <1>5, <1>7, <1>8, <1>9 DEF Collected, level, n

\* gates_by_level, level by level.
LEMMA LevelsFacts ==
  ASSUME NEW gs, IsCircuit(gs)
  PROVE  /\ Len(GatesByLevel(gs)) = Depth(gs) + 1
         /\ DOMAIN GatesByLevel(gs) = 1 .. Depth(gs) + 1
         /\ \A l \in 1 .. Depth(gs) + 1 :
              Collected(gs, GateLevel(gs), l - 1, Len(gs), GatesByLevel(gs)[l])
<1>1. Depth(gs) + 1 \in Nat
  BY DepthIsHighest, GateFacts
<1>2. /\ Len(GatesByLevel(gs)) = Depth(gs) + 1
      /\ DOMAIN GatesByLevel(gs) = 1 .. Depth(gs) + 1
      /\ \A l \in 1 .. Depth(gs) + 1 :
           GatesByLevel(gs)[l] = Pushed(gs, GateLevel(gs), l - 1)
  BY <1>1 DEF GatesByLevel
<1> QED
  BY <1>2, PushedIsCollected

\* In a level, a gate stands behind the gates that drive its inputs.
LEMMA InOrder ==
  ASSUME NEW gs, IsCircuit(gs), NEW lev, NEW d, NEW level,
         Collected(gs, lev, d, Len(gs), level),
         NEW i \in 1 .. Len(level), NEW j \in 1 .. Len(level), level[i].out \in Reads(level[j])
  PROVE  i < j
<1>1. PICK b \in 1 .. Len(gs) : level[j] = gs[b]
  BY DEF Collected
<1>2. level[i].out \in 0 .. b - 2 /\ level[j].out = b - 1
  BY <1>1, GateFacts
<1>3. level[i].out < level[j].out
  BY <1>2
<1>4. j < i => level[j].out < level[i].out
  BY DEF Collected
<1>5. i # j /\ ~(j < i)
  BY <1>2, <1>3, <1>4
<1>6. i \in Int /\ j \in Int
  OBVIOUS
<1> QED
  BY <1>5, <1>6
-----------------------------------------------------------------------------
\* The value of a gate other than a reconstruction is a natural, given naturals
\* on the wires it reads, and depends on nothing else.
LEMMA GateValueFacts ==
  ASSUME NEW gs, IsCircuit(gs), NEW k \in 1 .. Len(gs), gs[k].type # "kRec",
         NEW inputs \in [InputWires(gs) -> Ring]
  PROVE  /\ \A v : (\A w \in Reads(gs[k]) : v[w] \in Nat) => GateValue(gs[k], v, inputs) \in Nat
         /\ \A u, v : (\A w \in Reads(gs[k]) : u[w] = v[w])
                      => GateValue(gs[k], u, inputs) = GateValue(gs[k], v, inputs)
<1> DEFINE g == gs[k]
<1>1. /\ g.type \in Types /\ g.cval \in Ring
      /\ g.type # "kInp" => g.in1 \in Reads(g) /\ g.in2 \in Reads(g)
  BY GateFacts
<1>2. g.type = "kInp" => inputs[g.out] \in Ring
  <2>1. DOMAIN gs = 1 .. Len(gs)
    BY DEF IsCircuit
  <2> QED
    BY <2>1 DEF InputWires
<1>3. RingSize \in Nat \ {0} /\ \A x \in Ring : x \in Nat
  BY RingSumAssumption DEF Ring
<1>4. \A x, y \in Nat : /\ (x + y) % RingSize \in Nat /\ (x - y) % RingSize \in Nat
                        /\ (x * y) % RingSize \in Nat
  <2> TAKE x, y \in Nat
  <2>1. x + y \in Int /\ x - y \in Int /\ x * y \in Int
    OBVIOUS
  <2>2. \A z \in Int : z % RingSize \in Nat
    BY <1>3
  <2> QED
    BY <2>1, <2>2
<1>5. 0 \in Nat /\ 1 \in Nat /\ g.type # "kRec"
  OBVIOUS
<1> HIDE DEF g
<1>6. \A u, v : (\A w \in Reads(g) : u[w] = v[w]) => GateValue(g, u, inputs) = GateValue(g, v, inputs)
  BY <1>1, <1>5 DEF GateValue, Types
<1>7. ASSUME NEW v, \A w \in Reads(g) : v[w] \in Nat
      PROVE  GateValue(g, v, inputs) \in Nat
  <2>1. CASE g.type = "kInp"
    BY <1>2, <1>3, <2>1 DEF GateValue
  <2>2. CASE g.type = "kEqz"
    BY <1>5, <2>2 DEF GateValue
  <2>3. CASE g.type \in {"kAdd", "kSub", "kMul", "kConstAdd", "kConstMul"}
    <3>1. v[g.in1] \in Nat /\ v[g.in2] \in Nat /\ g.cval \in Nat
      BY <1>1, <1>3, <1>7, <2>3
    <3>2. /\ (v[g.in1] + v[g.in2]) % RingSize \in Nat /\ (v[g.in1] - v[g.in2]) % RingSize \in Nat
          /\ (v[g.in1] * v[g.in2]) % RingSize \in Nat
          /\ (v[g.in1] + g.cval) % RingSize \in Nat /\ (v[g.in1] * g.cval) % RingSize \in Nat
      BY <1>4, <3>1
    <3> QED
      BY <2>3, <3>2 DEF GateValue
  <2> QED
    BY <1>1, <1>5, <2>1, <2>2, <2>3 DEF Types
<1> QED
  BY <1>6, <1>7 DEF g

\* Meaning is the function its definition describes: there is one.
LEMMA MeaningIsRule ==
  ASSUME NEW gs, IsCircuit(gs), NEW inputs \in [InputWires(gs) -> Ring], NEW copies \in Nat
  PROVE  /\ Meaning(gs, inputs, copies) \in [Wires(gs) -> Nat]
         /\ \A k \in 1 .. Len(gs) :
              Meaning(gs, inputs, copies)[k - 1] =
                IF gs[k].type = "kRec"
                  THEN (copies * Meaning(gs, inputs, copies)[gs[k].in1]) % RingSize
                  ELSE GateValue(gs[k], Meaning(gs, inputs, copies), inputs)
<1> DEFINE n == Len(gs)
           S == [Wires(gs) -> Nat]
           Value(k, a) == IF gs[k].type = "kRec" THEN (copies * a[gs[k].in1]) % RingSize
                                                 ELSE GateValue(gs[k], a, inputs)
           rule == [k \in 1 .. n |-> [a \in S |-> Value(k, a)]]
           step == [k \in 1 .. n |-> [a \in S |-> [a EXCEPT ![k - 1] = Value(k, a)]]]
           zero == [w \in Wires(gs) |-> 0]
           Def(f) == [w \in Wires(gs) |->
                        IF gs[w + 1].type = "kRec" THEN (copies * f[gs[w + 1].in1]) % RingSize
                                                   ELSE GateValue(gs[w + 1], f, inputs)]
           M == Meaning(gs, inputs, copies)
<1>1. /\ n \in Nat /\ Wires(gs) = 0 .. n - 1
      /\ \A k \in 1 .. n : k - 1 \in Wires(gs) /\ k - 1 \in 0 .. n
      /\ \A k \in 1 .. n : \A w \in Reads(gs[k]) : w \in Wires(gs) /\ w \in 0 .. k - 2
      /\ \A k \in 1 .. n : gs[k].type = "kRec" => gs[k].in1 \in Reads(gs[k])
  BY GateFacts
<1>2. \A k \in 1 .. n : \A v : (\A w \in Reads(gs[k]) : v[w] \in Nat) => Value(k, v) \in Nat
  <2> TAKE k \in 1 .. n
  <2> TAKE v
  <2> HAVE \A w \in Reads(gs[k]) : v[w] \in Nat
  <2>1. CASE gs[k].type = "kRec"
    <3>1. v[gs[k].in1] \in Nat
      BY <1>1, <2>1
    <3>2. copies * v[gs[k].in1] \in Nat
      BY <3>1
    <3>3. (copies * v[gs[k].in1]) % RingSize \in Nat
      BY <3>2, RingSumAssumption
    <3> QED
      BY <2>1, <3>3
  <2>2. CASE gs[k].type # "kRec"
    BY <2>2, GateValueFacts
  <2> QED
    BY <2>1, <2>2
<1>3. \A k \in 1 .. n : \A u, v : (\A w \in Reads(gs[k]) : u[w] = v[w]) => Value(k, u) = Value(k, v)
  <2> TAKE k \in 1 .. n
  <2> TAKE u, v
  <2> HAVE \A w \in Reads(gs[k]) : u[w] = v[w]
  <2>1. CASE gs[k].type = "kRec"
    BY <1>1, <2>1
  <2>2. CASE gs[k].type # "kRec"
    BY <2>2, GateValueFacts
  <2> QED
    BY <2>1, <2>2
<1> HIDE DEF Value
<1>4. \A k \in 1 .. n : \A a \in S : Value(k, a) \in Nat
  BY <1>1, <1>2
<1>5. /\ step \in [1 .. n -> [S -> S]] /\ zero \in S /\ rule \in [1 .. n -> [S -> Nat]]
      /\ \A k \in 1 .. n, a \in S : step[k][a] = [a EXCEPT ![k - 1] = rule[k][a]]
      /\ \A k \in 1 .. n, a \in S : rule[k][a] = Value(k, a)
  BY <1>1, <1>4
<1>6. S = [0 .. n - 1 -> Nat]
  BY <1>1
<1> HIDE DEF n, S, rule, step, zero
<1>7. PICK h \in [0 .. n -> S] : History(n, zero, step, h)
  BY <1>1, <1>5, Recursion
<1>8. SetsWires(n, rule, h)
  <2>1. SUFFICES ASSUME NEW k \in 1 .. n
                 PROVE  h[k] = [h[k - 1] EXCEPT ![k - 1] = rule[k][h[k - 1]]]
    BY DEF SetsWires
  <2>2. h[k] = step[k][h[k - 1]] /\ h[k - 1] \in S
    BY <1>1, <1>7 DEF History
  <2> QED
    BY <1>5, <2>2
<1>9. LooksBelow(n, Nat, rule)
  <2>1. SUFFICES ASSUME NEW k \in 1 .. n, NEW a \in S, NEW b \in S,
                        \A w \in 0 .. k - 2 : a[w] = b[w]
                 PROVE  rule[k][a] = rule[k][b]
    BY <1>6 DEF LooksBelow
  <2>2. \A w \in Reads(gs[k]) : a[w] = b[w]
    BY <1>1, <2>1
  <2> QED
    BY <1>3, <1>5, <2>2
<1>10. \A k \in 1 .. n : h[n][k - 1] = rule[k][h[n]]
  <2>1. n \in Nat /\ rule \in [1 .. n -> [[0 .. n - 1 -> Nat] -> Nat]]
    BY <1>1, <1>5, <1>6
  <2>2. h \in [0 .. n -> [0 .. n - 1 -> Nat]]
    BY <1>6
  <2> QED
    <3>1. WiresHistory(n, Nat, rule, h)
      BY <1>8, <1>9, <2>1, <2>2 DEF WiresHistory
    <3>2. Obeys(n, rule, h[n])
      BY ONLY <3>1, WireByWire
    <3> QED
      BY <3>2 DEF Obeys
<1> DEFINE v == h[n]
<1>11. v \in S /\ \A k \in 1 .. n : v[k - 1] = Value(k, v)
  <2>1. n \in 0 .. n
    BY <1>1
  <2>2. v \in S
    BY <2>1
  <2> QED
    BY <1>5, <1>10, <2>2
<1>12. \A w \in Wires(gs) : w + 1 \in 1 .. n /\ (w + 1) - 1 = w
  BY <1>1
<1>13. \A f : Def(f) = [w \in Wires(gs) |-> Value(w + 1, f)]
  BY DEF Value
<1> HIDE DEF v, Def
<1>14. v = Def(v)
  <2>1. v = [w \in Wires(gs) |-> v[w]]
    BY <1>11 DEF S
  <2>2. \A w \in Wires(gs) : v[w] = Value(w + 1, v)
    <3> TAKE w \in Wires(gs)
    <3> DEFINE k == w + 1
    <3>1. k \in 1 .. n /\ k - 1 = w
      BY <1>12
    <3> HIDE DEF k
    <3>2. v[k - 1] = Value(k, v)
      BY <1>11, <3>1
    <3> QED
      BY <3>1, <3>2 DEF k
  <2>3. v = [w \in Wires(gs) |-> Value(w + 1, v)]
    BY <2>1, <2>2
  <2> QED
    BY <1>13, <2>3
<1>15. M = CHOOSE f : f = Def(f)
  BY DEF Meaning, Def
<1> HIDE DEF M
<1>16. M = Def(M)
  BY <1>14, <1>15
<1>17. M = [w \in Wires(gs) |-> Value(w + 1, M)]
  BY <1>13, <1>16
<1>18. ASSUME NEW k \in 1 .. n
       PROVE  M[k - 1] = Value(k, M)
  <2>1. M[k - 1] = Value((k - 1) + 1, M)
    BY <1>1, <1>17
  <2>2. (k - 1) + 1 = k
    OBVIOUS
  <2> QED
    BY <2>1, <2>2
<1> DEFINE T == {j \in 0 .. n : \A w \in 0 .. j - 1 : M[w] \in Nat}
<1>19. n \in T
  <2>1. 0 \in T /\ n \in 0 .. n
    BY <1>1
  <2>2. ASSUME NEW j \in 1 .. n, j - 1 \in T
        PROVE  j \in T
    <3>1. (j - 1) - 1 = j - 2 /\ \A w \in 0 .. (j - 1) - 1 : M[w] \in Nat
      BY <2>2
    <3>2. \A w \in Reads(gs[j]) : M[w] \in Nat
      <4>1. \A w \in 0 .. j - 2 : M[w] \in Nat
        BY <3>1
      <4> QED
        BY <1>1, <4>1
    <3>3. M[j - 1] \in Nat
      BY <1>2, <1>18, <3>2
    <3>4. \A w \in 0 .. j - 1 : w = j - 1 \/ w \in 0 .. (j - 1) - 1
      OBVIOUS
    <3>5. \A w \in 0 .. j - 1 : M[w] \in Nat
      BY <3>1, <3>3, <3>4
    <3> QED
      BY <1>1, <3>5
  <2> HIDE DEF T
  <2> QED
    BY <1>1, <2>1, <2>2, UpTo
<1>20. M \in [Wires(gs) -> Nat]
  BY <1>1, <1>17, <1>19
<1> QED
  BY <1>18, <1>20 DEF M, n, Value

-----------------------------------------------------------------------------
\* v has the meaning M on the wires of the levels below d.
Settled(gs, M, d, v) ==
  v \in [Wires(gs) -> Nat] /\ \A w \in Wires(gs) : GateLevel(gs)[w] < d => v[w] = M[w]

\* A gate of level d whose inputs have their meaning gets its own.
LEMMA GateSettles ==
  ASSUME NEW gs, IsCircuit(gs), Evaluable(gs), NEW inputs \in [InputWires(gs) -> Ring],
         NEW d \in Nat, NEW level, Collected(gs, GateLevel(gs), d, Len(gs), level),
         NEW k \in 1 .. Len(level), NEW v, Settled(gs, Meaning(gs, inputs, 1), d, v),
         \A i \in 1 .. k - 1 : v[level[i].out] = Meaning(gs, inputs, 1)[level[i].out]
  PROVE  /\ level[k].out \in Wires(gs)
         /\ GateValue(level[k], v, inputs) = Meaning(gs, inputs, 1)[level[k].out]
<1> DEFINE M == Meaning(gs, inputs, 1)
           lev == GateLevel(gs)
<1>1. PICK b \in 1 .. Len(gs) : level[k] = gs[b] /\ lev[b - 1] = d
  BY DEF Collected
<1>2. /\ gs[b].out = b - 1 /\ b - 1 \in Wires(gs)
      /\ \A w \in Reads(gs[b]) : w \in Wires(gs)
  BY GateFacts
<1>3. gs[b].type # "kRec"
  <2>1. DOMAIN gs = 1 .. Len(gs)
    BY DEF IsCircuit
  <2> QED
    BY <2>1 DEF Evaluable
<1>4. M[b - 1] = GateValue(gs[b], M, inputs)
  BY <1>3, MeaningIsRule
<1>5. \A w \in Wires(gs) : lev[w] \in Nat /\ w + 1 \in 1 .. Len(gs) /\ gs[w + 1].out = w
                           /\ (w + 1) - 1 = w
  <2>1. Wires(gs) = 0 .. Len(gs) - 1 /\ Len(gs) \in Nat
    BY GateFacts
  <2>2. \A w \in Wires(gs) : w + 1 \in 1 .. Len(gs) /\ (w + 1) - 1 = w
    BY <2>1
  <2>3. \A w \in Wires(gs) : gs[w + 1].out = (w + 1) - 1
    BY <2>2, GateFacts
  <2>4. \A w \in Wires(gs) : lev[w] \in Nat
    BY <2>1, LevelIsRule
  <2> QED
    BY <2>2, <2>3, <2>4
<1>6. ASSUME NEW w \in Reads(gs[b])
      PROVE  v[w] = M[w]
  <2>1. w \in Wires(gs) /\ lev[w] <= d
    BY <1>1, <1>2, <1>6, ReadBelow
  <2>2. CASE lev[w] < d
    BY <2>1, <2>2 DEF Settled
  <2>3. CASE lev[w] = d
    <3> DEFINE j == w + 1
    <3>1. j \in 1 .. Len(gs) /\ gs[j].out = w /\ j - 1 = w
      BY <1>5, <2>1
    <3>2. PICK i \in 1 .. Len(level) : level[i] = gs[j]
      BY <2>3, <3>1 DEF Collected
    <3>3. i < k
      <4>1. level[i].out \in Reads(level[k])
        BY <1>1, <3>1, <3>2
      <4> HIDE DEF lev
      <4> QED
        BY <4>1, InOrder
    <3>4. i \in 1 .. k - 1
      BY <3>3
    <3> QED
      BY <3>1, <3>2, <3>4
  <2> QED
    BY <1>5, <2>1, <2>2, <2>3
<1>7. GateValue(gs[b], v, inputs) = GateValue(gs[b], M, inputs)
  BY <1>3, <1>6, GateValueFacts
<1> QED
  BY <1>1, <1>2, <1>4, <1>7

\* Running a level front to back settles it.
LEMMA PassSettles ==
  ASSUME NEW gs, IsCircuit(gs), Evaluable(gs), NEW inputs \in [InputWires(gs) -> Ring],
         NEW d \in Nat, NEW level, Collected(gs, GateLevel(gs), d, Len(gs), level),
         NEW v, Settled(gs, Meaning(gs, inputs, 1), d, v)
  PROVE  Settled(gs, Meaning(gs, inputs, 1), d + 1, Pass(level, v, inputs)[Len(level)])
<1> DEFINE M == Meaning(gs, inputs, 1)
           lev == GateLevel(gs)
           m == Len(level)
           S == [Wires(gs) -> Nat]
           step == [k \in 1 .. m |->
                      [a \in S |-> [a EXCEPT ![level[k].out] = GateValue(level[k], a, inputs)]]]
           Def(f) == [k \in 0 .. m |->
                        IF k = 0 THEN v
                        ELSE [f[k - 1] EXCEPT ![level[k].out] =
                                GateValue(level[k], f[k - 1], inputs)]]
           P == Pass(level, v, inputs)
<1>1. /\ m \in Nat /\ v \in S
      /\ \A k \in 1 .. m : k \in 0 .. m /\ k - 1 \in 0 .. m /\ k # 0
  BY DEF Collected, Settled
<1>2. ASSUME NEW k \in 1 .. m
      PROVE  /\ level[k].out \in Wires(gs)
             /\ \A a \in S : GateValue(level[k], a, inputs) \in Nat
  <2>1. PICK b \in 1 .. Len(gs) : level[k] = gs[b]
    BY DEF Collected
  <2>2. gs[b].type # "kRec"
    <3>1. DOMAIN gs = 1 .. Len(gs)
      BY DEF IsCircuit
    <3> QED
      BY <3>1 DEF Evaluable
  <2>3. gs[b].out \in Wires(gs) /\ \A w \in Reads(gs[b]) : w \in Wires(gs)
    BY GateFacts
  <2>4. \A a \in S : \A w \in Reads(gs[b]) : a[w] \in Nat
    BY <2>3
  <2> QED
    BY <2>1, <2>2, <2>3, <2>4, GateValueFacts
<1>3. /\ step \in [1 .. m -> [S -> S]]
      /\ \A k \in 1 .. m, a \in S :
           step[k][a] = [a EXCEPT ![level[k].out] = GateValue(level[k], a, inputs)]
  BY <1>2
<1> HIDE DEF m, S, step, lev, M
<1>4. PICK g \in [0 .. m -> S] : History(m, v, step, g)
  BY <1>1, <1>3, Recursion
<1>5. g = Def(g)
  <2>1. \A k \in 0 .. m : g[k] = Def(g)[k]
    <3> TAKE k \in 0 .. m
    <3>1. CASE k = 0
      BY <1>4, <3>1 DEF History
    <3>2. CASE k # 0
      <4>1. k \in 1 .. m
        BY <1>1, <3>2
      <4>2. g[k] = step[k][g[k - 1]] /\ g[k - 1] \in S
        BY <1>1, <1>4, <4>1 DEF History
      <4> QED
        BY <1>3, <3>2, <4>1, <4>2
    <3> QED
      BY <3>1, <3>2
  <2> QED
    BY <2>1
<1>6. P = CHOOSE f : f = Def(f)
  BY DEF Pass, m
<1> HIDE DEF Def, P
<1>7. P = Def(P)
  BY <1>5, <1>6
<1>8. \A k \in 0 .. m :
         P[k] = IF k = 0 THEN v
                ELSE [P[k - 1] EXCEPT ![level[k].out] = GateValue(level[k], P[k - 1], inputs)]
  BY <1>7 DEF Def
<1> DEFINE Fine(k) == /\ Settled(gs, M, d, P[k])
                      /\ \A i \in 1 .. k : P[k][level[i].out] = M[level[i].out]
           T == {k \in 0 .. m : Fine(k)}
<1>9. 0 \in T
  <2>1. 0 \in 0 .. m
    BY <1>1
  <2>2. P[0] = v
    BY <1>8, <2>1
  <2> QED
    BY <2>1, <2>2 DEF M
<1>10. ASSUME NEW k \in 1 .. m, k - 1 \in T
       PROVE  k \in T
  <2> DEFINE o == level[k].out
             x == GateValue(level[k], P[k - 1], inputs)
  <2>1. Settled(gs, M, d, P[k - 1]) /\ \A i \in 1 .. k - 1 : P[k - 1][level[i].out] = M[level[i].out]
    BY <1>10
  <2>2. o \in Wires(gs) /\ x = M[o]
    BY <2>1, GateSettles DEF M, m
  <2>3. P[k] = [P[k - 1] EXCEPT ![o] = x]
    BY <1>1, <1>8
  <2>4. P[k - 1] \in S /\ x \in Nat
    <3>1. P[k - 1] \in S
      BY <2>1 DEF Settled, S
    <3> QED
      BY <1>2, <3>1
  <2> HIDE DEF x, o
  <2>5. P[k] \in S /\ P[k][o] = M[o]
        /\ \A w \in Wires(gs) : P[k][w] = P[k - 1][w] \/ P[k][w] = M[w]
    BY <2>2, <2>3, <2>4 DEF S
  <2>6. Settled(gs, M, d, P[k])
    BY <2>1, <2>5 DEF Settled, S
  <2>7. ASSUME NEW i \in 1 .. k
        PROVE  P[k][level[i].out] = M[level[i].out]
    <3>1. i = k \/ i \in 1 .. k - 1
      OBVIOUS
    <3>2. CASE i = k
      BY <2>5, <3>2 DEF o
    <3>3. CASE i \in 1 .. k - 1
      <4>1. i \in 1 .. m /\ P[k - 1][level[i].out] = M[level[i].out]
        BY <1>1, <2>1, <3>3
      <4> QED
        BY <1>2, <2>5, <4>1
    <3> QED
      BY <3>1, <3>2, <3>3
  <2> QED
    BY <1>1, <2>6, <2>7
<1>11. Fine(m)
  <2>1. m \in 0 .. m
    BY <1>1
  <2>2. m \in T
    <3> HIDE DEF T
    <3> QED
      BY <1>1, <1>9, <1>10, <2>1, UpTo
  <2> QED
    BY <2>2
<1>12. ASSUME NEW w \in Wires(gs), lev[w] < d + 1
       PROVE  P[m][w] = M[w]
  <2>1. lev[w] \in Nat /\ w \in 0 .. Len(gs) - 1 /\ Len(gs) \in Nat
    BY LevelIsRule, GateFacts DEF lev
  <2>2. lev[w] < d \/ lev[w] = d
    BY <1>12, <2>1
  <2>3. CASE lev[w] < d
    BY <1>11, <2>3 DEF Settled, lev
  <2>4. CASE lev[w] = d
    <3> DEFINE j == w + 1
    <3>1. j \in 1 .. Len(gs) /\ j - 1 = w
      BY <2>1
    <3>2. gs[j].out = w
      BY <3>1, GateFacts
    <3>3. PICK i \in 1 .. m : level[i] = gs[j]
      BY <2>4, <3>1 DEF Collected, m, lev
    <3> QED
      BY <1>11, <3>2, <3>3
  <2> QED
    BY <2>2, <2>3, <2>4
<1>13. P[m] \in [Wires(gs) -> Nat]
  BY <1>11 DEF Settled
<1> QED
  BY <1>12, <1>13 DEF Settled, P, m, lev, M

\* Running the levels one after the other settles every wire.
LEMMA WiresSettle ==
  ASSUME NEW gs, IsCircuit(gs), Evaluable(gs), NEW inputs \in [InputWires(gs) -> Ring]
  PROVE  \A w \in Wires(gs) :
            WiresAfter(gs, inputs)[Len(GatesByLevel(gs))][w] = Meaning(gs, inputs, 1)[w]
<1> DEFINE M == Meaning(gs, inputs, 1)
           levels == GatesByLevel(gs)
           m == Len(levels)
           zero == [w \in Wires(gs) |-> 0]
           Turn(l, a) == Pass(levels[l], a, inputs)[Len(levels[l])]
           Def(f) == [l \in 0 .. m |-> IF l = 0 THEN zero ELSE Turn(l, f[l - 1])]
           W == WiresAfter(gs, inputs)
<1>1. /\ m = Depth(gs) + 1 /\ Depth(gs) \in Nat /\ m \in Nat
      /\ \A w \in Wires(gs) : GateLevel(gs)[w] \in 0 .. Depth(gs)
  BY LevelsFacts, DepthIsHighest, GateFacts
<1>2. \A l \in 1 .. m : /\ Collected(gs, GateLevel(gs), l - 1, Len(gs), levels[l])
                        /\ l \in 0 .. m /\ l - 1 \in 0 .. m /\ l # 0 /\ l - 1 \in Nat
                        /\ (l - 1) + 1 = l
  BY <1>1, LevelsFacts
<1> HIDE DEF m, levels
<1>3. \A l \in 1 .. m : \A a : Settled(gs, M, l - 1, a) => Settled(gs, M, l, Turn(l, a))
  BY <1>2, PassSettles
<1>4. zero \in [Wires(gs) -> Nat] /\ Settled(gs, M, 0, zero)
  <2>1. \A w \in Wires(gs) : ~(GateLevel(gs)[w] < 0)
    BY <1>1
  <2> QED
    BY <2>1 DEF Settled
<1> DEFINE S == [Wires(gs) -> Nat]
           step == [l \in 1 .. m |-> [a \in S |-> IF Settled(gs, M, l - 1, a) THEN Turn(l, a) ELSE a]]
<1>5. /\ step \in [1 .. m -> [S -> S]] /\ zero \in S
      /\ \A l \in 1 .. m, a \in S :
           Settled(gs, M, l - 1, a) => step[l][a] = Turn(l, a)
  <2>1. \A l \in 1 .. m, a \in S : Settled(gs, M, l - 1, a) => Turn(l, a) \in S
    BY <1>3 DEF Settled
  <2> HIDE DEF Turn
  <2> QED
    BY <1>4, <2>1
<1> HIDE DEF S, step, zero, Turn, M
<1>6. PICK g \in [0 .. m -> S] : History(m, zero, step, g)
  BY <1>1, <1>5, Recursion
<1>7. g[0] = zero /\ \A l \in 1 .. m : g[l] = step[l][g[l - 1]] /\ g[l - 1] \in S
  BY <1>2, <1>6 DEF History
<1> DEFINE T == {l \in 0 .. m : Settled(gs, M, l, g[l])}
<1>8. \A l \in 0 .. m : l \in T
  <2>1. 0 \in T
    BY <1>1, <1>4, <1>7
  <2>2. ASSUME NEW l \in 1 .. m, l - 1 \in T
        PROVE  l \in T
    <3>1. Settled(gs, M, l - 1, g[l - 1])
      BY <2>2
    <3>2. g[l] = Turn(l, g[l - 1])
      BY <1>5, <1>7, <3>1
    <3>3. Settled(gs, M, l, g[l])
      BY <1>3, <3>1, <3>2
    <3> QED
      BY <1>2, <3>3
  <2> HIDE DEF T
  <2> QED
    BY <1>1, <2>1, <2>2, UpTo
<1>9. g = Def(g)
  <2>1. \A l \in 0 .. m : g[l] = Def(g)[l]
    <3> TAKE l \in 0 .. m
    <3>1. CASE l = 0
      BY <1>7, <3>1
    <3>2. CASE l # 0
      <4>1. l \in 1 .. m
        BY <1>1, <3>2
      <4>2. Settled(gs, M, l - 1, g[l - 1])
        BY <1>2, <1>8, <4>1
      <4>3. g[l] = Turn(l, g[l - 1])
        BY <1>5, <1>7, <4>1, <4>2
      <4> QED
        BY <3>2, <4>3
    <3> QED
      BY <3>1, <3>2
  <2> QED
    BY <2>1
<1> HIDE DEF T
<1>10. W = CHOOSE f : f = Def(f)
  BY DEF WiresAfter, Def, Turn, zero, m, levels
<1> HIDE DEF Def, W
<1>11. W = Def(W)
  BY <1>9, <1>10
<1>12. \A l \in 0 .. m : W[l] = IF l = 0 THEN zero ELSE Turn(l, W[l - 1])
  BY <1>11 DEF Def
<1> DEFINE U == {l \in 0 .. m : Settled(gs, M, l, W[l])}
<1>13. m \in U
  <2>1. 0 \in U /\ m \in 0 .. m
    BY <1>1, <1>4, <1>12
  <2>2. ASSUME NEW l \in 1 .. m, l - 1 \in U
        PROVE  l \in U
    <3>1. Settled(gs, M, l - 1, W[l - 1])
      BY <2>2
    <3>2. W[l] = Turn(l, W[l - 1])
      BY <1>2, <1>12
    <3>3. Settled(gs, M, l, W[l])
      BY <1>3, <3>1, <3>2
    <3> QED
      BY <1>2, <3>3
  <2> HIDE DEF U
  <2> QED
    BY <1>1, <2>1, <2>2, UpTo
<1>14. \A w \in Wires(gs) : GateLevel(gs)[w] < m
  <2> TAKE w \in Wires(gs)
  <2>1. GateLevel(gs)[w] \in 0 .. Depth(gs) /\ m = Depth(gs) + 1 /\ Depth(gs) \in Nat
    BY <1>1
  <2> QED
    BY <2>1
<1>15. \A w \in Wires(gs) : W[m][w] = M[w]
  BY <1>13, <1>14 DEF Settled
<1> QED
  BY <1>15 DEF W, M, m, levels
-----------------------------------------------------------------------------
\* A loop whose k-th turn is defined on the states Fine[k - 1] and leads to
\* Fine[k] has a history, which stays in them.
LEMMA Loop ==
  ASSUME NEW n \in Nat, NEW S, NEW Fine \in [0 .. n -> SUBSET S], NEW s \in Fine[0], NEW step,
         \A k \in 1 .. n : \A a \in Fine[k - 1] : step[k][a] \in Fine[k]
  PROVE  \E g \in [0 .. n -> S] : History(n, s, step, g) /\ \A k \in 0 .. n : g[k] \in Fine[k]
<1> DEFINE turn == [k \in 1 .. n |-> [a \in S |-> IF a \in Fine[k - 1] THEN step[k][a] ELSE s]]
<1>1. \A k \in 1 .. n : k \in 0 .. n /\ k - 1 \in 0 .. n
  OBVIOUS
<1>2. s \in S /\ \A k \in 0 .. n : \A a \in Fine[k] : a \in S
  OBVIOUS
<1>3. \A k \in 1 .. n : \A a \in S : (IF a \in Fine[k - 1] THEN step[k][a] ELSE s) \in S
  BY <1>1, <1>2
<1>4. /\ turn \in [1 .. n -> [S -> S]]
      /\ \A k \in 1 .. n : \A a \in S : a \in Fine[k - 1] => turn[k][a] = step[k][a]
  BY <1>3
<1> HIDE DEF turn
<1>5. PICK g \in [0 .. n -> S] : History(n, s, turn, g)
  BY <1>2, <1>4, Recursion
<1> DEFINE T == {k \in 0 .. n : g[k] \in Fine[k]}
<1>6. \A k \in 0 .. n : k \in T
  <2>1. 0 \in T
    BY <1>5 DEF History
  <2>2. ASSUME NEW k \in 1 .. n, k - 1 \in T
        PROVE  k \in T
    <3>1. g[k - 1] \in Fine[k - 1] /\ g[k] = turn[k][g[k - 1]]
      BY <1>5, <2>2 DEF History
    <3>2. g[k] = step[k][g[k - 1]]
      BY <1>1, <1>2, <1>4, <3>1
    <3>3. g[k] \in Fine[k]
      BY <3>1, <3>2
    <3> QED
      BY <1>1, <3>3
  <2> HIDE DEF T
  <2> QED
    BY <2>1, <2>2, UpTo
<1>7. \A k \in 1 .. n : g[k] = step[k][g[k - 1]]
  <2> TAKE k \in 1 .. n
  <2>1. g[k - 1] \in Fine[k - 1] /\ g[k] = turn[k][g[k - 1]]
    BY <1>1, <1>5, <1>6 DEF History
  <2> QED
    BY <1>1, <1>2, <1>4, <2>1
<1> QED
  BY <1>5, <1>6, <1>7 DEF History

\* out is the concatenation of the first m of parts, at the offsets off.
JoinedFrom(parts, m, off, out) ==
  /\ \A k \in 1 .. m : \A j \in 1 .. Len(parts[k]) :
       off[k] + j \in 1 .. Len(out) /\ out[off[k] + j] = parts[k][j]
  /\ \A i \in 1 .. Len(out) :
       \E k \in 1 .. m : \E j \in 1 .. Len(parts[k]) : i = off[k] + j

LEMMA JoinOne ==
  ASSUME NEW X, NEW n \in Nat, NEW parts, \A k \in 1 .. n : parts[k] \in Seq(X),
         NEW m \in 1 .. n, NEW out \in Seq(X), NEW off \in [1 .. n -> Nat],
         off[m] = Len(out), JoinedFrom(parts, m - 1, off, out)
  PROVE  JoinedFrom(parts, m, off, out \o parts[m])
<1> DEFINE new == out \o parts[m]
<1>1. /\ parts[m] \in Seq(X) /\ Len(out) \in Nat /\ Len(parts[m]) \in Nat /\ m \in Nat
      /\ new \in Seq(X) /\ Len(new) = Len(out) + Len(parts[m])
      /\ \A i \in 1 .. Len(out) : new[i] = out[i]
      /\ \A j \in 1 .. Len(parts[m]) : new[Len(out) + j] = parts[m][j]
  OBVIOUS
<1> HIDE DEF new
<1>2. ASSUME NEW k \in 1 .. m, NEW j \in 1 .. Len(parts[k])
      PROVE  off[k] + j \in 1 .. Len(new) /\ new[off[k] + j] = parts[k][j]
  <2>1. CASE k = m
    <3>1. j \in 1 .. Len(parts[m]) /\ off[k] = Len(out) /\ parts[k] = parts[m]
      BY <2>1
    <3>2. Len(out) + j \in 1 .. Len(new)
      BY <1>1, <3>1
    <3> QED
      BY <1>1, <3>1, <3>2
  <2>2. CASE k # m
    <3>1. k \in 1 .. m - 1
      BY <1>1, <2>2
    <3>2. off[k] + j \in 1 .. Len(out) /\ out[off[k] + j] = parts[k][j]
      BY <3>1 DEF JoinedFrom
    <3> QED
      BY SMTT(20), <1>1, <3>2
  <2> QED
    BY <2>1, <2>2
<1>3. ASSUME NEW i \in 1 .. Len(new)
      PROVE  \E k \in 1 .. m : \E j \in 1 .. Len(parts[k]) : i = off[k] + j
  <2>1. CASE i \in 1 .. Len(out)
    <3>1. PICK k \in 1 .. m - 1 : \E j \in 1 .. Len(parts[k]) : i = off[k] + j
      BY <2>1 DEF JoinedFrom
    <3>2. k \in 1 .. m
      BY <1>1
    <3> QED
      BY <3>1, <3>2
  <2>2. CASE i \notin 1 .. Len(out)
    <3>1. i - Len(out) \in 1 .. Len(parts[m]) /\ i = off[m] + (i - Len(out)) /\ m \in 1 .. m
      BY <1>1, <2>2
    <3> QED
      BY <3>1
  <2> QED
    BY <2>1, <2>2
<1> QED
  BY <1>2, <1>3 DEF JoinedFrom, new

\* A concatenation of parts, part by part.
JoinedUpTo(X, parts, J) ==
  /\ J[0] = <<>> /\ J[Len(parts)] = Joined(parts)
  /\ \A k \in 0 .. Len(parts) : J[k] \in Seq(X)
  /\ \A k \in 1 .. Len(parts) : J[k] = J[k - 1] \o parts[k]

LEMMA JoinedSteps ==
  ASSUME NEW X, NEW parts, Len(parts) \in Nat, \A k \in 1 .. Len(parts) : parts[k] \in Seq(X)
  PROVE  \E J : JoinedUpTo(X, parts, J)
<1> DEFINE n == Len(parts)
           S == Seq(X)
           step == [k \in 1 .. n |-> [a \in S |-> a \o parts[k]]]
           Def(f) == [k \in 0 .. n |-> IF k = 0 THEN <<>> ELSE f[k - 1] \o parts[k]]
           J == CHOOSE f : f = Def(f)
<1>1. n \in Nat /\ \A k \in 1 .. n : parts[k] \in Seq(X)
  OBVIOUS
<1>2. \A k \in 1 .. n : k \in 0 .. n /\ k - 1 \in 0 .. n /\ k # 0
  BY <1>1
<1>3. /\ step \in [1 .. n -> [S -> S]] /\ <<>> \in S
      /\ \A k \in 1 .. n, a \in S : step[k][a] = a \o parts[k] /\ a \o parts[k] \in S
  BY <1>1
<1>4. Joined(parts) = J[n]
  BY DEF Joined
<1> HIDE DEF n, step
<1>5. PICK g \in [0 .. n -> S] : History(n, <<>>, step, g)
  <2> HIDE DEF S
  <2> QED
    BY <1>1, <1>3, Recursion
<1>6. g = Def(g)
  <2>1. \A k \in 0 .. n : g[k] = Def(g)[k]
    <3> TAKE k \in 0 .. n
    <3>1. CASE k = 0
      BY <1>5, <3>1 DEF History
    <3>2. CASE k # 0
      <4>1. k \in 1 .. n
        BY <1>1, <3>2
      <4>2. g[k] = step[k][g[k - 1]] /\ g[k - 1] \in S
        BY <1>2, <1>5, <4>1 DEF History
      <4> QED
        BY <1>3, <3>2, <4>1, <4>2
    <3> QED
      BY <3>1, <3>2
  <2> QED
    BY <2>1
<1> HIDE DEF Def
<1>7. J = Def(J)
  BY <1>6
<1> HIDE DEF J
<1>8. \A k \in 0 .. n : J[k] = IF k = 0 THEN <<>> ELSE J[k - 1] \o parts[k]
  BY <1>7 DEF Def
<1> DEFINE Typed == {k \in 0 .. n : J[k] \in Seq(X)}
<1>9. \A k \in 0 .. n : k \in Typed
  <2>1. 0 \in Typed
    <3>1. 0 \in 0 .. n
      BY <1>1
    <3>2. J[0] = <<>>
      BY <1>8, <3>1
    <3>3. <<>> \in Seq(X)
      OBVIOUS
    <3> QED
      BY <3>1, <3>2, <3>3
  <2>2. ASSUME NEW k \in 1 .. n, k - 1 \in Typed
        PROVE  k \in Typed
    <3>1. J[k - 1] \in Seq(X) /\ parts[k] \in Seq(X)
      BY <1>1, <2>2
    <3>2. J[k] = J[k - 1] \o parts[k]
      BY <1>2, <1>8
    <3>3. J[k - 1] \o parts[k] \in Seq(X)
      BY <3>1
    <3>4. J[k] \in Seq(X)
      BY <3>2, <3>3
    <3> QED
      BY <1>2, <3>4
  <2> HIDE DEF Typed
  <2> QED
    BY <1>1, <2>1, <2>2, UpTo
<1>10. J[0] = <<>> /\ \A k \in 1 .. n : J[k] = J[k - 1] \o parts[k]
  <2>1. 0 \in 0 .. n
    BY <1>1
  <2> QED
    BY <1>2, <1>8, <2>1
<1>11. JoinedUpTo(X, parts, J)
  BY <1>4, <1>9, <1>10 DEF JoinedUpTo, n
<1> QED
  BY <1>11

LEMMA JoinedFacts ==
  ASSUME NEW X, NEW parts, Len(parts) \in Nat, \A k \in 1 .. Len(parts) : parts[k] \in Seq(X)
  PROVE  /\ Joined(parts) \in Seq(X)
         /\ \E off \in [1 .. Len(parts) -> Nat] :
              JoinedFrom(parts, Len(parts), off, Joined(parts))
<1> DEFINE n == Len(parts)
<1>1. PICK J : JoinedUpTo(X, parts, J)
  BY JoinedSteps
<1>2. n \in Nat /\ (\A k \in 1 .. n : parts[k] \in Seq(X)) /\ 0 \in 0 .. n /\ n \in 0 .. n
  OBVIOUS
<1>3. \A k \in 1 .. n : k \in 0 .. n /\ k - 1 \in 0 .. n
  BY <1>2
<1>4. /\ J[0] = <<>> /\ J[n] = Joined(parts) /\ \A k \in 0 .. n : J[k] \in Seq(X)
      /\ \A k \in 1 .. n : J[k] = J[k - 1] \o parts[k]
  BY <1>1 DEF JoinedUpTo
<1> DEFINE off == [k \in 1 .. n |-> Len(J[k - 1])]
           T == {k \in 0 .. n : JoinedFrom(parts, k, off, J[k])}
<1> HIDE DEF n
<1>5. off \in [1 .. n -> Nat] /\ \A k \in 1 .. n : off[k] = Len(J[k - 1])
  BY <1>3, <1>4
<1> HIDE DEF off
<1>6. n \in T
  <2>1. 0 \in T
    <3>1. JoinedFrom(parts, 0, off, <<>>)
      BY DEF JoinedFrom
    <3> QED
      BY <1>2, <1>4, <3>1
  <2>2. ASSUME NEW k \in 1 .. n, k - 1 \in T
        PROVE  k \in T
    <3>1. J[k - 1] \in Seq(X) /\ off[k] = Len(J[k - 1]) /\ J[k] = J[k - 1] \o parts[k]
      BY <1>3, <1>4, <1>5
    <3>2. JoinedFrom(parts, k - 1, off, J[k - 1])
      BY <2>2
    <3>3. JoinedFrom(parts, k, off, J[k - 1] \o parts[k])
      BY <1>2, <1>5, <3>1, <3>2, JoinOne
    <3> QED
      BY <1>3, <3>1, <3>3
  <2> HIDE DEF T
  <2> QED
    BY <1>2, <2>1, <2>2, UpTo
<1> QED
  BY <1>2, <1>4, <1>5, <1>6 DEF n

\* The elements of a concatenation are those of its parts.
PartsOf(X, parts) == Len(parts) \in Nat /\ \A k \in 1 .. Len(parts) : parts[k] \in Seq(X)

Gathers(X, parts, out) ==
  /\ out \in Seq(X)
  /\ \A k \in 1 .. Len(parts) : \A j \in 1 .. Len(parts[k]) :
       \E i \in 1 .. Len(out) : out[i] = parts[k][j]
  /\ \A i \in 1 .. Len(out) :
       \E k \in 1 .. Len(parts) : \E j \in 1 .. Len(parts[k]) : out[i] = parts[k][j]

LEMMA JoinedElements ==
  ASSUME NEW X, NEW parts, PartsOf(X, parts)
  PROVE  Gathers(X, parts, Joined(parts))
<1> DEFINE J == Joined(parts)
           n == Len(parts)
<1>1. PICK off \in [1 .. n -> Nat] : JoinedFrom(parts, n, off, J)
  BY JoinedFacts DEF PartsOf
<1>2. J \in Seq(X)
  BY JoinedFacts DEF PartsOf
<1> HIDE DEF J, n
<1>3. /\ \A k \in 1 .. n : \A j \in 1 .. Len(parts[k]) : \E i \in 1 .. Len(J) : J[i] = parts[k][j]
      /\ \A i \in 1 .. Len(J) : (\E k \in 1 .. n : \E j \in 1 .. Len(parts[k]) : J[i] = parts[k][j])
  <2>1. ASSUME NEW k \in 1 .. n, NEW j \in 1 .. Len(parts[k])
        PROVE  \E i \in 1 .. Len(J) : J[i] = parts[k][j]
    BY <1>1 DEF JoinedFrom
  <2>2. ASSUME NEW i \in 1 .. Len(J)
        PROVE  (\E k \in 1 .. n : \E j \in 1 .. Len(parts[k]) : J[i] = parts[k][j])
    <3>1. PICK k \in 1 .. n : \E j \in 1 .. Len(parts[k]) : i = off[k] + j
      BY <1>1 DEF JoinedFrom
    <3>2. PICK j \in 1 .. Len(parts[k]) : i = off[k] + j
      BY <3>1
    <3>3. J[off[k] + j] = parts[k][j]
      BY <1>1 DEF JoinedFrom
    <3> QED
      BY <3>2, <3>3
  <2> QED
    BY <2>1, <2>2
<1> QED
  BY <1>2, <1>3 DEF J, n, Gathers

\* No element occurs twice, and none in two parts.
Distinct(s) == \A i, j \in 1 .. Len(s) : s[i] = s[j] => i = j

Apart(parts) ==
  \A k, l \in 1 .. Len(parts) :
    (\E i \in 1 .. Len(parts[k]) : \E j \in 1 .. Len(parts[l]) : parts[k][i] = parts[l][j]) => k = l

\* The dealer computes the secret of an item from the items it needs.
Needs(item, x) ==
  \/ item[2] = "c" /\ x \in {<<item[1], "a">>, <<item[1], "b">>}
  \/ item[2] = "r1_bits" /\ x = <<item[1], "r1">>
  \/ item[2] = "r2_bits" /\ x = <<item[1], "r2">>

Ordered(s) == \A i \in 1 .. Len(s) : \A x : Needs(s[i], x) => \E j \in 1 .. Len(s) : j < i /\ s[j] = x

\* Both are inherited by a concatenation.
LEMMA JoinedInOrder ==
  ASSUME NEW X, NEW parts, PartsOf(X, parts), Apart(parts),
         \A k \in 1 .. Len(parts) : Distinct(parts[k]) /\ Ordered(parts[k])
  PROVE  Distinct(Joined(parts)) /\ Ordered(Joined(parts))
<1> DEFINE J == Joined(parts)
           n == Len(parts)
<1>1. PICK off \in [1 .. n -> Nat] : JoinedFrom(parts, n, off, J)
  BY JoinedFacts DEF PartsOf
<1>2. \A k \in 1 .. n : parts[k] \in Seq(X)
  BY DEF PartsOf
<1> HIDE DEF J
<1>3. ASSUME NEW i \in 1 .. Len(J), NEW j \in 1 .. Len(J), J[i] = J[j]
      PROVE  i = j
  <2>1. PICK k \in 1 .. n : \E a \in 1 .. Len(parts[k]) : i = off[k] + a
    BY <1>1 DEF JoinedFrom
  <2>2. PICK a \in 1 .. Len(parts[k]) : i = off[k] + a
    BY <2>1
  <2>3. PICK l \in 1 .. n : \E b \in 1 .. Len(parts[l]) : j = off[l] + b
    BY <1>1 DEF JoinedFrom
  <2>4. PICK b \in 1 .. Len(parts[l]) : j = off[l] + b
    BY <2>3
  <2>5. J[i] = parts[k][a] /\ J[j] = parts[l][b]
    BY <1>1, <2>2, <2>4 DEF JoinedFrom
  <2>6. k = l
    BY <1>3, <2>5 DEF Apart
  <2>7. a = b
    BY <1>3, <2>5, <2>6 DEF Distinct
  <2> QED
    BY <2>2, <2>4, <2>6, <2>7
<1>4. ASSUME NEW i \in 1 .. Len(J), NEW x, Needs(J[i], x)
      PROVE  \E j \in 1 .. Len(J) : j < i /\ J[j] = x
  <2>1. PICK k \in 1 .. n : \E a \in 1 .. Len(parts[k]) : i = off[k] + a
    BY <1>1 DEF JoinedFrom
  <2>2. PICK a \in 1 .. Len(parts[k]) : i = off[k] + a
    BY <2>1
  <2>3. J[i] = parts[k][a]
    BY <1>1, <2>2 DEF JoinedFrom
  <2>4. PICK b \in 1 .. Len(parts[k]) : b < a /\ parts[k][b] = x
    BY <1>4, <2>3 DEF Ordered
  <2>5. off[k] + b \in 1 .. Len(J) /\ J[off[k] + b] = x
    BY <1>1, <2>4 DEF JoinedFrom
  <2>6. off[k] + b < i
    BY <2>2, <2>4
  <2> QED
    BY <2>5, <2>6
<1> QED
  BY <1>3, <1>4 DEF Distinct, Ordered, J

\* One sequence after another.
LEMMA Concatenated ==
  ASSUME NEW X, NEW s \in Seq(X), NEW t \in Seq(X)
  PROVE  /\ s \o t \in Seq(X) /\ Len(s \o t) = Len(s) + Len(t)
         /\ Len(s) \in Nat /\ Len(t) \in Nat
         /\ \A i \in 1 .. Len(s) : (s \o t)[i] = s[i]
         /\ \A j \in 1 .. Len(t) : (s \o t)[Len(s) + j] = t[j]
OBVIOUS
-----------------------------------------------------------------------------
\* The gates of a level that have one of the types, as a subsequence of it.
LEMMA OfTypesFacts ==
  ASSUME NEW X, NEW level \in Seq(X), NEW types
  PROVE  /\ OfTypes(level, types) \in Seq(X)
         /\ \A i \in 1 .. Len(OfTypes(level, types)) :
              OfTypes(level, types)[i].type \in types
              /\ \E j \in 1 .. Len(level) : OfTypes(level, types)[i] = level[j]
         /\ \A j \in 1 .. Len(level) :
              level[j].type \in types =>
                \E i \in 1 .. Len(OfTypes(level, types)) : OfTypes(level, types)[i] = level[j]
<1> DEFINE keep == {k \in DOMAIN level : level[k].type \in types}
           out == Picked(level, keep)
<1>1. OfTypes(level, types) = out /\ DOMAIN level = 1 .. Len(level)
  BY DEF OfTypes
<1>2. \A k \in 1 .. Len(level) : k \in keep <=> level[k].type \in types
  BY <1>1
<1>3. PickedFrom(X, level, keep, Len(level), out)
  BY PickedFacts
<1> HIDE DEF keep, out
<1>4. out \in Seq(X)
  BY <1>3 DEF PickedFrom
<1>5. PICK pos \in [1 .. Len(out) -> 1 .. Len(level)] :
         /\ \A i \in 1 .. Len(out) : pos[i] \in keep /\ out[i] = level[pos[i]]
         /\ \A j \in 1 .. Len(level) : j \in keep => \E i \in 1 .. Len(out) : pos[i] = j
  BY <1>3 DEF PickedFrom
<1>6. \A i \in 1 .. Len(out) :
         out[i].type \in types /\ \E j \in 1 .. Len(level) : out[i] = level[j]
  BY <1>2, <1>5
<1>7. \A j \in 1 .. Len(level) :
         level[j].type \in types => \E i \in 1 .. Len(out) : out[i] = level[j]
  BY <1>2, <1>5
<1> QED
  BY <1>1, <1>4, <1>6, <1>7

\* They keep their order.
LEMMA OfTypesOrdered ==
  ASSUME NEW X, NEW level \in Seq(X), NEW types,
         NEW i \in 1 .. Len(OfTypes(level, types)), NEW j \in 1 .. Len(OfTypes(level, types)), i < j
  PROVE  \E a, b \in 1 .. Len(level) :
           a < b /\ OfTypes(level, types)[i] = level[a] /\ OfTypes(level, types)[j] = level[b]
<1> DEFINE keep == {k \in DOMAIN level : level[k].type \in types}
           out == Picked(level, keep)
<1>1. OfTypes(level, types) = out
  BY DEF OfTypes
<1>2. PickedFrom(X, level, keep, Len(level), out)
  BY PickedFacts
<1> HIDE DEF keep, out
<1>3. PICK pos \in [1 .. Len(out) -> 1 .. Len(level)] :
         /\ \A k \in 1 .. Len(out) : pos[k] \in keep /\ out[k] = level[pos[k]]
         /\ \A k, l \in 1 .. Len(out) : k < l => pos[k] < pos[l]
  BY <1>2 DEF PickedFrom
<1> QED
  BY <1>1, <1>3

\* What is needed of the powers of two: there are at least as many words as
\* twice their bits.
LEMMA WordFacts ==
  ASSUME WordsAreBits
  PROVE  /\ RINGSIZEBITS \in Nat \ {0} /\ RINGSIZEBITS < RingSize /\ 2 * RINGSIZEBITS <= RingSize
         /\ \A j \in 0 .. RINGSIZEBITS : 2 ^ j \in Nat \ {0}
         /\ \A j \in Bits : 2 ^ j \in Nat \ {0} /\ 2 ^ (j + 1) = 2 * 2 ^ j
<1> DEFINE B == RINGSIZEBITS
           pow(j) == 2 ^ j
           T == {j \in 0 .. B : pow(j) \in Nat /\ pow(j) >= j + 1 /\ pow(j) >= 2 * j}
<1>1. /\ B \in Nat \ {0} /\ RingSize = pow(B) /\ pow(0) = 1
      /\ \A j \in Bits : pow(j + 1) = 2 * pow(j)
  BY DEF WordsAreBits
<1>2. Bits = 0 .. B - 1
  BY DEF Bits
<1> HIDE DEF B, pow
<1>3. 0 \in T
  BY <1>1
<1>4. ASSUME NEW k \in 1 .. B, k - 1 \in T
      PROVE  k \in T
  <2>1. k - 1 \in Bits /\ (k - 1) + 1 = k
    BY <1>1, <1>2
  <2>2. pow(k) = 2 * pow(k - 1)
    BY <1>1, <2>1
  <2>3. pow(k - 1) \in Nat /\ pow(k - 1) >= k
    BY <1>4, <2>1
  <2> QED
    BY <1>1, <2>2, <2>3
<1>5. \A j \in 0 .. B : j \in T
  <2> HIDE DEF T
  <2> QED
    BY <1>1, <1>3, <1>4, UpTo
<1>6. \A j \in 0 .. B : pow(j) \in Nat \ {0}
  BY <1>1, <1>5
<1>7. B \in 0 .. B /\ \A j \in Bits : j \in 0 .. B
  BY <1>1, <1>2
<1>8. pow(B) >= B + 1 /\ pow(B) >= 2 * B /\ pow(B) \in Nat
  BY <1>5, <1>7
<1>9. B < RingSize /\ 2 * B <= RingSize
  BY <1>1, <1>8
<1> QED
  BY <1>1, <1>6, <1>7, <1>9 DEF B, pow

\* What GateItems deals for a gate.
ItemTuples == {<<w, name>> : w \in Nat, name \in {"a", "b", "c", "r1", "r2"}}
              \cup {<<w, name, j>> : w \in Nat, name \in {"r1_bits", "r2_bits"}, j \in Nat}

\* The items of gate g are in the set m.
HasItems(g, m) ==
  /\ g.type = "kMul" => \A n \in {"a", "b", "c"} : <<g.out, n>> \in m
  /\ g.type = "kEqz" =>
       /\ \A n \in {"r1", "r2"} : <<g.out, n>> \in m
       /\ \A j \in Bits : <<g.out, "r1_bits", j>> \in m /\ <<g.out, "r2_bits", j>> \in m

\* An item of g has one of these forms.
IsItemOf(g, item) ==
  \/ g.type = "kMul" /\ item \in {<<g.out, "a">>, <<g.out, "b">>, <<g.out, "c">>}
  \/ g.type = "kEqz" /\ \/ item \in {<<g.out, "r1">>, <<g.out, "r2">>}
                        \/ \E j \in Bits : item \in {<<g.out, "r1_bits", j>>, <<g.out, "r2_bits", j>>}

LEMMA GateItemsFacts ==
  ASSUME WordsAreBits, NEW g \in GateRecord
  PROVE  /\ GateItems(g) \in Seq(ItemTuples)
         /\ HasItems(g, {GateItems(g)[i] : i \in 1 .. Len(GateItems(g))})
         /\ \A i \in 1 .. Len(GateItems(g)) : IsItemOf(g, GateItems(g)[i])
         /\ Distinct(GateItems(g)) /\ Ordered(GateItems(g))
<1> DEFINE s == GateItems(g)
           B == RINGSIZEBITS
           w == g.out
<1>1. w \in Nat /\ B \in Nat \ {0} /\ Bits = 0 .. B - 1
  BY WordFacts DEF GateRecord, Bits
<1>2. CASE g.type = "kMul"
  <2>1. s = << <<w, "a">>, <<w, "b">>, <<w, "c">> >>
    BY <1>2 DEF GateItems
  <2>2. /\ Len(s) = 3 /\ 1 \in 1 .. 3 /\ 2 \in 1 .. 3 /\ 3 \in 1 .. 3
        /\ s[1] = <<w, "a">> /\ s[2] = <<w, "b">> /\ s[3] = <<w, "c">>
    BY <2>1
  <2>3. s \in Seq(ItemTuples)
    <3>1. <<w, "a">> \in ItemTuples /\ <<w, "b">> \in ItemTuples /\ <<w, "c">> \in ItemTuples
      BY <1>1 DEF ItemTuples
    <3> QED
      BY <2>1, <3>1
  <2>4. HasItems(g, {s[i] : i \in 1 .. Len(s)})
    BY <1>2, <2>2 DEF HasItems
  <2>5. \A i \in 1 .. 3 : i = 1 \/ i = 2 \/ i = 3
    OBVIOUS
  <2>6. Distinct(s)
    <3>1. <<w, "a">> # <<w, "b">> /\ <<w, "a">> # <<w, "c">> /\ <<w, "b">> # <<w, "c">>
      OBVIOUS
    <3> QED
      BY <2>2, <2>5, <3>1 DEF Distinct
  <2>7. Ordered(s)
    <3>1. ASSUME NEW i \in 1 .. 3, NEW x, Needs(s[i], x)
          PROVE  i = 3 /\ (x = s[1] \/ x = s[2])
      BY <2>2, <2>5, <3>1 DEF Needs
    <3> QED
      BY <2>2, <3>1 DEF Ordered
  <2> QED
    BY <1>2, <2>2, <2>3, <2>4, <2>5, <2>6, <2>7 DEF IsItemOf
<1>3. CASE g.type = "kEqz"
  <2> DEFINE f1 == [j \in 1 .. B |-> <<w, "r1_bits", j - 1>>]
             f2 == [j \in 1 .. B |-> <<w, "r2_bits", j - 1>>]
             a1 == << <<w, "r1">> >>
             a2 == << <<w, "r2">> >>
  <2>1. s = a1 \o f1 \o a2 \o f2
    BY <1>3 DEF GateItems
  <2>2. /\ a1 \in Seq(ItemTuples) /\ Len(a1) = 1 /\ a1[1] = <<w, "r1">>
        /\ a2 \in Seq(ItemTuples) /\ Len(a2) = 1 /\ a2[1] = <<w, "r2">>
    BY <1>1 DEF ItemTuples
  <2>3. /\ f1 \in Seq(ItemTuples) /\ Len(f1) = B
        /\ \A j \in 1 .. B : f1[j] = <<w, "r1_bits", j - 1>>
        /\ f2 \in Seq(ItemTuples) /\ Len(f2) = B
        /\ \A j \in 1 .. B : f2[j] = <<w, "r2_bits", j - 1>>
    <3>1. \A j \in 1 .. B : <<w, "r1_bits", j - 1>> \in ItemTuples /\ <<w, "r2_bits", j - 1>> \in ItemTuples
      BY <1>1 DEF ItemTuples
    <3> QED
      <4>1. DOMAIN f1 = 1 .. B /\ DOMAIN f2 = 1 .. B /\ B \in Nat
        BY <1>1
      <4>2. f1 \in [1 .. B -> ItemTuples] /\ f2 \in [1 .. B -> ItemTuples]
        BY <3>1
      <4>3. /\ \A j \in 1 .. B : f1[j] = <<w, "r1_bits", j - 1>>
            /\ \A j \in 1 .. B : f2[j] = <<w, "r2_bits", j - 1>>
        OBVIOUS
      <4> HIDE DEF f1, f2
      <4> QED
        BY <4>1, <4>2, <4>3
  <2> HIDE DEF f1, f2, a1, a2
  <2>4. /\ s \in Seq(ItemTuples) /\ Len(s) = 2 * B + 2
        /\ s[1] = a1[1]
        /\ \A j \in 1 .. B : s[j + 1] = f1[j]
        /\ s[B + 2] = a2[1]
        /\ \A j \in 1 .. B : s[B + 2 + j] = f2[j]
    <3>1. a1 \o f1 \in Seq(ItemTuples) /\ Len(a1 \o f1) = B + 1
          /\ (a1 \o f1)[1] = a1[1] /\ \A j \in 1 .. B : (a1 \o f1)[j + 1] = f1[j]
      <4>1. 1 \in 1 .. 1 /\ \A j \in 1 .. B : 1 + j = j + 1
        BY <1>1
      <4>2. a1 \o f1 \in Seq(ItemTuples) /\ Len(a1 \o f1) = 1 + B
            /\ (a1 \o f1)[1] = a1[1] /\ \A j \in 1 .. B : (a1 \o f1)[1 + j] = f1[j]
        <5>1. a1 \o f1 \in Seq(ItemTuples) /\ Len(a1 \o f1) = Len(a1) + Len(f1)
            /\ (\A i \in 1 .. Len(a1) : (a1 \o f1)[i] = a1[i])
            /\ \A j \in 1 .. Len(f1) : (a1 \o f1)[Len(a1) + j] = f1[j]
          <6>1. a1 \in Seq(ItemTuples) /\ f1 \in Seq(ItemTuples)
            BY <2>2, <2>3
          <6> QED
            BY <6>1, Concatenated
        <5> QED
          BY <2>2, <2>3, <4>1, <5>1
      <4> QED
        BY <1>1, <4>1, <4>2
    <3> DEFINE l == a1 \o f1
    <3> HIDE DEF l
    <3>2. l \o a2 \in Seq(ItemTuples) /\ Len(l \o a2) = B + 2
          /\ (l \o a2)[B + 2] = a2[1] /\ \A i \in 1 .. B + 1 : (l \o a2)[i] = l[i]
      <4>1. l \in Seq(ItemTuples) /\ Len(l) = B + 1
        BY <3>1 DEF l
      <4>2. 1 \in 1 .. 1 /\ (B + 1) + 1 = B + 2
        BY <1>1
      <4>3. l \o a2 \in Seq(ItemTuples) /\ Len(l \o a2) = (B + 1) + 1
            /\ (l \o a2)[(B + 1) + 1] = a2[1] /\ \A i \in 1 .. B + 1 : (l \o a2)[i] = l[i]
        <5>1. l \o a2 \in Seq(ItemTuples) /\ Len(l \o a2) = Len(l) + Len(a2)
            /\ (\A i \in 1 .. Len(l) : (l \o a2)[i] = l[i])
            /\ \A j \in 1 .. Len(a2) : (l \o a2)[Len(l) + j] = a2[j]
          BY <2>2, <4>1, Concatenated
        <5> QED
          BY <2>2, <4>1, <4>2, <5>1
      <4> QED
        BY <4>2, <4>3
    <3> DEFINE m == l \o a2
    <3> HIDE DEF m
    <3>3. m \in Seq(ItemTuples) /\ Len(m) = B + 2
      BY <3>2 DEF m
    <3>4. m \o f2 \in Seq(ItemTuples) /\ Len(m \o f2) = 2 * B + 2
          /\ (\A j \in 1 .. B : (m \o f2)[B + 2 + j] = f2[j])
          /\ \A i \in 1 .. B + 2 : (m \o f2)[i] = m[i]
      <4>1. B + 2 + B = 2 * B + 2
        BY <1>1
      <4>2. m \o f2 \in Seq(ItemTuples) /\ Len(m \o f2) = B + 2 + B
            /\ (\A j \in 1 .. B : (m \o f2)[B + 2 + j] = f2[j])
            /\ \A i \in 1 .. B + 2 : (m \o f2)[i] = m[i]
        <5>1. m \o f2 \in Seq(ItemTuples) /\ Len(m \o f2) = Len(m) + Len(f2)
            /\ (\A i \in 1 .. Len(m) : (m \o f2)[i] = m[i])
            /\ \A j \in 1 .. Len(f2) : (m \o f2)[Len(m) + j] = f2[j]
          <6>1. m \in Seq(ItemTuples) /\ f2 \in Seq(ItemTuples)
            BY <2>3, <3>3
          <6> QED
            BY <6>1, Concatenated
        <5> QED
          BY <2>3, <3>3, <5>1
      <4> QED
        BY <4>1, <4>2
    <3>5. s = m \o f2
      BY <2>1 DEF l, m
    <3>6. 1 \in 1 .. B + 1 /\ 1 \in 1 .. B + 2 /\ B + 2 \in 1 .. B + 2
          /\ \A j \in 1 .. B : j + 1 \in 1 .. B + 1 /\ j + 1 \in 1 .. B + 2
      BY <1>1
    <3>7. \A i \in 1 .. B + 1 : i \in 1 .. B + 2 /\ s[i] = l[i]
      <4>1. \A i \in 1 .. B + 1 : i \in 1 .. B + 2
        BY <1>1
      <4> QED
        BY <3>2, <3>4, <3>5, <4>1 DEF m
    <3>8. s[1] = a1[1] /\ \A j \in 1 .. B : s[j + 1] = f1[j]
      BY <3>1, <3>6, <3>7 DEF l
    <3>9. s[B + 2] = a2[1]
      BY <3>2, <3>4, <3>5, <3>6 DEF m
    <3> QED
      BY <3>4, <3>5, <3>8, <3>9
  <2>5. /\ 1 \in 1 .. Len(s) /\ B + 2 \in 1 .. Len(s)
        /\ \A j \in Bits : /\ j + 2 \in 1 .. Len(s) /\ s[j + 2] = <<w, "r1_bits", j>>
                           /\ B + 3 + j \in 1 .. Len(s) /\ s[B + 3 + j] = <<w, "r2_bits", j>>
    <3>1. 1 \in 1 .. Len(s) /\ B + 2 \in 1 .. Len(s)
      BY <1>1, <2>4
    <3>2. ASSUME NEW j \in Bits
          PROVE  /\ j + 2 \in 1 .. Len(s) /\ s[j + 2] = <<w, "r1_bits", j>>
                 /\ B + 3 + j \in 1 .. Len(s) /\ s[B + 3 + j] = <<w, "r2_bits", j>>
      <4>1. j + 1 \in 1 .. B /\ (j + 1) + 1 = j + 2 /\ B + 2 + (j + 1) = B + 3 + j /\ (j + 1) - 1 = j
            /\ j + 2 \in 1 .. 2 * B + 2 /\ B + 3 + j \in 1 .. 2 * B + 2
        BY <1>1
      <4>2. s[(j + 1) + 1] = <<w, "r1_bits", (j + 1) - 1>>
            /\ s[B + 2 + (j + 1)] = <<w, "r2_bits", (j + 1) - 1>>
        BY <2>3, <2>4, <4>1
      <4> QED
        BY <2>4, <4>1, <4>2
    <3> QED
      BY <3>1, <3>2
  <2>6. HasItems(g, {s[i] : i \in 1 .. Len(s)})
    BY <1>3, <2>2, <2>4, <2>5 DEF HasItems
  <2>8. \A i \in 1 .. Len(s) :
          \/ i = 1 \/ i = B + 2
          \/ (i - 2 \in Bits /\ (i - 2) + 2 = i)
          \/ (i - B - 3 \in Bits /\ B + 3 + (i - B - 3) = i)
    BY <1>1, <2>4
  <2>9. /\ s[1] = <<w, "r1">> /\ s[B + 2] = <<w, "r2">>
        /\ \A i \in 1 .. Len(s) : i - 2 \in Bits => s[i] = <<w, "r1_bits", i - 2>>
        /\ \A i \in 1 .. Len(s) : i - B - 3 \in Bits => s[i] = <<w, "r2_bits", i - B - 3>>
    <3>1. \A i \in 1 .. Len(s) : (i - 2) + 2 = i /\ B + 3 + (i - B - 3) = i
      BY <1>1, <2>4
    <3> QED
      BY <2>2, <2>4, <2>5, <3>1
  <2>10. ASSUME NEW i \in 1 .. Len(s), NEW k \in 1 .. Len(s), s[i] = s[k]
         PROVE  i = k
    <3>1. i \in Int /\ k \in Int /\ Len(s) \in Int
      BY <1>1, <2>4
    <3>2. CASE i = 1
      <4>1. k # B + 2 /\ k - 2 \notin Bits /\ k - B - 3 \notin Bits
        BY <2>9, <2>10, <3>2
      <4> QED
        BY <2>8, <3>2, <4>1
    <3>3. CASE i = B + 2
      <4>1. k # 1 /\ k - 2 \notin Bits /\ k - B - 3 \notin Bits
        BY <2>9, <2>10, <3>3
      <4> QED
        BY <2>8, <3>3, <4>1
    <3>4. CASE i - 2 \in Bits
      <4>1. k # 1 /\ k # B + 2 /\ k - B - 3 \notin Bits
        BY <2>9, <2>10, <3>4
      <4>2. k - 2 \in Bits
        BY <2>8, <4>1
      <4>3. i - 2 = k - 2
        BY <2>9, <2>10, <3>4, <4>2
      <4> QED
        BY <3>1, <4>3
    <3>5. CASE i - B - 3 \in Bits
      <4>1. k # 1 /\ k # B + 2 /\ k - 2 \notin Bits
        BY <2>9, <2>10, <3>5
      <4>2. k - B - 3 \in Bits
        BY <2>8, <4>1
      <4>3. i - B - 3 = k - B - 3
        BY <2>9, <2>10, <3>5, <4>2
      <4> QED
        BY <1>1, <3>1, <4>3
    <3> QED
      BY <2>8, <3>2, <3>3, <3>4, <3>5
  <2>11. ASSUME NEW i \in 1 .. Len(s), NEW x, Needs(s[i], x)
         PROVE  \E j \in 1 .. Len(s) : j < i /\ s[j] = x
    <3>1. i # 1 /\ i # B + 2
      BY <2>9, <2>11 DEF Needs
    <3>2. CASE i - 2 \in Bits
      <4>1. x = s[1]
        BY <2>9, <2>11, <3>2 DEF Needs
      <4> QED
        BY <2>5, <3>1, <4>1
    <3>3. CASE i - B - 3 \in Bits
      <4>1. x = s[B + 2]
        BY <2>9, <2>11, <3>3 DEF Needs
      <4>2. B + 2 < i
        BY <1>1, <3>3
      <4> QED
        BY <2>5, <4>1, <4>2
    <3> QED
      BY <2>8, <3>1, <3>2, <3>3
  <2>7. ASSUME NEW i \in 1 .. Len(s)
        PROVE  IsItemOf(g, s[i])
    <3>1. \/ i = 1 \/ i = B + 2
          \/ (i - 2 \in Bits /\ (i - 2) + 2 = i)
          \/ (i - B - 3 \in Bits /\ B + 3 + (i - B - 3) = i)
      BY <2>8
    <3>2. CASE i = 1 \/ i = B + 2
      BY <1>3, <2>2, <2>4, <3>2 DEF IsItemOf
    <3>3. CASE i - 2 \in Bits /\ (i - 2) + 2 = i
      <4>1. s[i] = <<w, "r1_bits", i - 2>>
        BY <2>5, <3>3
      <4> QED
        BY <1>3, <3>3, <4>1 DEF IsItemOf
    <3>4. CASE i - B - 3 \in Bits /\ B + 3 + (i - B - 3) = i
      <4>1. s[i] = <<w, "r2_bits", i - B - 3>>
        BY <2>5, <3>4
      <4> QED
        BY <1>3, <3>4, <4>1 DEF IsItemOf
    <3> QED
      BY <3>1, <3>2, <3>3, <3>4
  <2> QED
    BY <2>4, <2>6, <2>7, <2>10, <2>11 DEF Distinct, Ordered
<1>4. CASE g.type # "kMul" /\ g.type # "kEqz"
  <2>1. s = <<>>
    BY <1>4 DEF GateItems
  <2> QED
    BY <1>4, <2>1 DEF HasItems, Distinct, Ordered
<1> QED
  BY <1>2, <1>3, <1>4

\* An item names the output wire of its gate.
LEMMA ItemOfGate ==
  ASSUME NEW g, NEW item, IsItemOf(g, item)
  PROVE  item[1] = g.out
BY DEF IsItemOf

LEMMA HasItemsMonotone ==
  ASSUME NEW g, NEW m, NEW n, m \subseteq n, HasItems(g, m)
  PROVE  HasItems(g, n)
BY DEF HasItems

\* The items of a level are those of its gates, and those of the circuit are
\* those of all its gates.
LEMMA LevelItemsFacts ==
  ASSUME WordsAreBits, NEW level \in Seq(GateRecord)
  PROVE  /\ LevelItems(level) \in Seq(ItemTuples)
         /\ Distinct([k \in DOMAIN level |-> level[k].out]) =>
              Distinct(LevelItems(level)) /\ Ordered(LevelItems(level))
         /\ \A k \in 1 .. Len(level) :
              HasItems(level[k], {LevelItems(level)[i] : i \in 1 .. Len(LevelItems(level))})
         /\ \A i \in 1 .. Len(LevelItems(level)) :
              \E k \in 1 .. Len(level) : IsItemOf(level[k], LevelItems(level)[i])
<1> DEFINE parts == [k \in DOMAIN level |-> GateItems(level[k])]
           n == Len(level)
           out == LevelItems(level)
           m == {out[i] : i \in 1 .. Len(out)}
<1>1. /\ Len(parts) = n /\ n \in Nat
      /\ \A k \in 1 .. n : parts[k] = GateItems(level[k]) /\ level[k] \in GateRecord
  OBVIOUS
<1>2. out = Joined(parts)
  BY DEF LevelItems
<1> HIDE DEF parts, out
<1>3. /\ \A k \in 1 .. n : parts[k] \in Seq(ItemTuples)
      /\ \A k \in 1 .. n : HasItems(level[k], {parts[k][i] : i \in 1 .. Len(parts[k])})
      /\ \A k \in 1 .. n : \A i \in 1 .. Len(parts[k]) : IsItemOf(level[k], parts[k][i])
      /\ \A k \in 1 .. n : Distinct(parts[k]) /\ Ordered(parts[k])
  BY <1>1, GateItemsFacts
<1>7. ASSUME Distinct([k \in DOMAIN level |-> level[k].out])
      PROVE  Distinct(out) /\ Ordered(out)
  <2>1. \A k, l \in 1 .. n : level[k].out = level[l].out => k = l
    BY <1>1, <1>7 DEF Distinct
  <2>2. ASSUME NEW k \in 1 .. n, NEW l \in 1 .. n,
               NEW i \in 1 .. Len(parts[k]), NEW j \in 1 .. Len(parts[l]), parts[k][i] = parts[l][j]
        PROVE  k = l
    <3>1. IsItemOf(level[k], parts[k][i]) /\ IsItemOf(level[l], parts[k][i])
      BY <1>3, <2>2
    <3>2. level[k].out = level[l].out
      BY <3>1, ItemOfGate
    <3> QED
      BY <2>1, <3>2
  <2>3. Apart(parts)
    BY <1>1, <2>2 DEF Apart
  <2>4. PartsOf(ItemTuples, parts)
    BY <1>1, <1>3 DEF PartsOf
  <2> QED
    BY <1>1, <1>2, <1>3, <2>3, <2>4, JoinedInOrder
<1>4. /\ out \in Seq(ItemTuples)
      /\ \A k \in 1 .. n : \A j \in 1 .. Len(parts[k]) :
              \E i \in 1 .. Len(out) : out[i] = parts[k][j]
      /\ \A i \in 1 .. Len(out) :
              \E k \in 1 .. n : \E j \in 1 .. Len(parts[k]) : out[i] = parts[k][j]
  <2>1. Gathers(ItemTuples, parts, Joined(parts))
    <3>1. PartsOf(ItemTuples, parts)
      BY <1>1, <1>3 DEF PartsOf
    <3> QED
      BY <3>1, JoinedElements
  <2> QED
    <3>1. Gathers(ItemTuples, parts, out) /\ Len(parts) = n
      BY <1>1, <1>2, <2>1
    <3> QED
      BY ONLY <3>1 DEF Gathers
<1>5. ASSUME NEW k \in 1 .. n
      PROVE  HasItems(level[k], m)
  <2>1. ASSUME NEW x \in {parts[k][i] : i \in 1 .. Len(parts[k])}
        PROVE  x \in m
    <3>1. PICK j \in 1 .. Len(parts[k]) : x = parts[k][j]
      OBVIOUS
    <3>2. PICK i \in 1 .. Len(out) : out[i] = parts[k][j]
      BY <1>4
    <3> QED
      BY <3>1, <3>2
  <2>2. {parts[k][i] : i \in 1 .. Len(parts[k])} \subseteq m
    BY <2>1
  <2> QED
    BY <1>3, <2>2, HasItemsMonotone
<1>6. ASSUME NEW i \in 1 .. Len(out)
      PROVE  \E k \in 1 .. n : IsItemOf(level[k], out[i])
  BY <1>3, <1>4
<1> QED
  BY <1>4, <1>5, <1>6, <1>7 DEF out

LEMMA ItemsFacts ==
  ASSUME WordsAreBits, NEW gs, IsCircuit(gs)
  PROVE  /\ Items(gs) \in Seq(ItemTuples)
         /\ \A k \in 1 .. Len(gs) : HasItems(gs[k], ItemSet(gs))
         /\ \A item \in ItemSet(gs) : \E k \in 1 .. Len(gs) : IsItemOf(gs[k], item)
         /\ Distinct(Items(gs)) /\ Ordered(Items(gs))
<1> DEFINE levels == GatesByLevel(gs)
           n == Len(levels)
           parts == [l \in DOMAIN levels |-> LevelItems(levels[l])]
           out == Items(gs)
<1>1. /\ n \in Nat /\ DOMAIN levels = 1 .. n /\ n = Depth(gs) + 1 /\ gs \in Seq(GateRecord)
      /\ \A l \in 1 .. n : Collected(gs, GateLevel(gs), l - 1, Len(gs), levels[l])
  BY LevelsFacts, DepthIsHighest, GateFacts DEF IsCircuit
<1>2. \A l \in 1 .. n :
         /\ levels[l] \in Seq(GateRecord)
         /\ \A i \in 1 .. Len(levels[l]) : \E k \in 1 .. Len(gs) : levels[l][i] = gs[k]
  BY <1>1 DEF Collected
<1>3. \A k \in 1 .. Len(gs) :
         \E l \in 1 .. n : \E i \in 1 .. Len(levels[l]) : levels[l][i] = gs[k]
  <2> TAKE k \in 1 .. Len(gs)
  <2>1. GateLevel(gs)[k - 1] \in 0 .. n - 1
    BY <1>1, GateFacts, DepthIsHighest
  <2> DEFINE l == GateLevel(gs)[k - 1] + 1
  <2>2. l \in 1 .. n /\ GateLevel(gs)[k - 1] = l - 1
    BY <1>1, <2>1
  <2> HIDE DEF l
  <2>3. Collected(gs, GateLevel(gs), l - 1, Len(gs), levels[l])
    BY <1>1, <2>2
  <2>4. \E i \in 1 .. Len(levels[l]) : levels[l][i] = gs[k]
    BY <2>2, <2>3 DEF Collected
  <2> QED
    BY <2>2, <2>4
<1>4. Len(parts) = n /\ \A l \in 1 .. n : parts[l] = LevelItems(levels[l])
  BY <1>1
<1>5. out = Joined(parts)
  BY DEF Items
<1> HIDE DEF levels, n, parts, out
<1>6. \A l \in 1 .. n :
         /\ parts[l] \in Seq(ItemTuples)
         /\ \A k \in 1 .. Len(levels[l]) :
              HasItems(levels[l][k], {parts[l][i] : i \in 1 .. Len(parts[l])})
         /\ \A i \in 1 .. Len(parts[l]) :
              \E k \in 1 .. Len(levels[l]) : IsItemOf(levels[l][k], parts[l][i])
         /\ Distinct(parts[l]) /\ Ordered(parts[l])
  <2> TAKE l \in 1 .. n
  <2> DEFINE level == levels[l]
  <2>1. level \in Seq(GateRecord) /\ parts[l] = LevelItems(level)
    BY <1>2, <1>4
  <2>3. \A i, j \in 1 .. Len(level) : i < j => level[i].out < level[j].out
    BY <1>1 DEF Collected
  <2> HIDE DEF level
  <2>4. \A i \in 1 .. Len(level) : level[i].out \in Nat
    <3>1. \A i \in 1 .. Len(level) : level[i] \in GateRecord
      BY <2>1
    <3> QED
      BY <3>1 DEF GateRecord
  <2>5. \A i, j \in 1 .. Len(level) : level[i].out = level[j].out => i = j
    <3> TAKE i, j \in 1 .. Len(level)
    <3> HAVE level[i].out = level[j].out
    <3>1. ~(i < j) /\ ~(j < i)
      BY <2>3, <2>4
    <3> QED
      BY <3>1
  <2>6. Distinct([k \in DOMAIN level |-> level[k].out])
    BY <2>1, <2>5 DEF Distinct
  <2>2. /\ LevelItems(level) \in Seq(ItemTuples)
        /\ \A k \in 1 .. Len(level) :
              HasItems(level[k], {LevelItems(level)[i] : i \in 1 .. Len(LevelItems(level))})
        /\ \A i \in 1 .. Len(LevelItems(level)) :
              \E k \in 1 .. Len(level) : IsItemOf(level[k], LevelItems(level)[i])
        /\ Distinct(LevelItems(level)) /\ Ordered(LevelItems(level))
    BY <2>1, <2>6, LevelItemsFacts
  <2> QED
    BY <2>1, <2>2 DEF level
<1>11. ASSUME NEW l \in 1 .. n, NEW m \in 1 .. n,
              NEW i \in 1 .. Len(parts[l]), NEW j \in 1 .. Len(parts[m]), parts[l][i] = parts[m][j]
       PROVE  l = m
  <2> DEFINE item == parts[l][i]
  <2>1. PICK k \in 1 .. Len(levels[l]) : IsItemOf(levels[l][k], item)
    BY <1>6
  <2>2. PICK k2 \in 1 .. Len(levels[m]) : IsItemOf(levels[m][k2], item)
    BY <1>6, <1>11
  <2>3. levels[l][k].out = levels[m][k2].out
    BY <2>1, <2>2, ItemOfGate
  <2> HIDE DEF item
  <2>4. PICK a \in 1 .. Len(gs) : levels[l][k] = gs[a] /\ GateLevel(gs)[a - 1] = l - 1
    BY <1>1 DEF Collected
  <2>5. PICK b \in 1 .. Len(gs) : levels[m][k2] = gs[b] /\ GateLevel(gs)[b - 1] = m - 1
    BY <1>1 DEF Collected
  <2>6. gs[a].out = a - 1 /\ gs[b].out = b - 1
    BY GateFacts
  <2>7. a - 1 = b - 1
    BY <2>3, <2>4, <2>5, <2>6
  <2>8. l - 1 = m - 1
    BY <2>4, <2>5, <2>7
  <2> QED
    BY <2>8
<1>12. PartsOf(ItemTuples, parts) /\ Apart(parts)
  BY <1>1, <1>4, <1>6, <1>11 DEF PartsOf, Apart
<1>13. Distinct(out) /\ Ordered(out)
  BY <1>4, <1>5, <1>6, <1>12, JoinedInOrder
<1>7. /\ out \in Seq(ItemTuples)
      /\ \A k \in 1 .. n : \A j \in 1 .. Len(parts[k]) :
              \E i \in 1 .. Len(out) : out[i] = parts[k][j]
      /\ \A i \in 1 .. Len(out) :
              \E k \in 1 .. n : \E j \in 1 .. Len(parts[k]) : out[i] = parts[k][j]
  <2>1. Gathers(ItemTuples, parts, Joined(parts))
    <3>1. PartsOf(ItemTuples, parts)
      BY <1>1, <1>4, <1>6 DEF PartsOf
    <3> QED
      BY <3>1, JoinedElements
  <2> QED
    BY <1>4, <1>5, <2>1 DEF Gathers
<1>8. ItemSet(gs) = {out[i] : i \in 1 .. Len(out)}
  <2>1. DOMAIN out = 1 .. Len(out)
    BY <1>7
  <2> QED
    BY <2>1 DEF ItemSet, out
<1>9. ASSUME NEW k \in 1 .. Len(gs)
      PROVE  HasItems(gs[k], ItemSet(gs))
  <2>1. PICK l \in 1 .. n : \E i \in 1 .. Len(levels[l]) : levels[l][i] = gs[k]
    BY <1>3
  <2>2. HasItems(gs[k], {parts[l][i] : i \in 1 .. Len(parts[l])})
    BY <1>6, <2>1
  <2>3. {parts[l][i] : i \in 1 .. Len(parts[l])} \subseteq ItemSet(gs)
    BY <1>7, <1>8
  <2> QED
    BY <2>2, <2>3, HasItemsMonotone
<1>10. ASSUME NEW item \in ItemSet(gs)
       PROVE  \E k \in 1 .. Len(gs) : IsItemOf(gs[k], item)
  <2>1. PICK i \in 1 .. Len(out) : item = out[i]
    BY <1>8
  <2>2. PICK l \in 1 .. n : \E j \in 1 .. Len(parts[l]) : item = parts[l][j]
    BY <1>7, <2>1
  <2>3. PICK k \in 1 .. Len(levels[l]) : IsItemOf(levels[l][k], item)
    BY <1>6, <2>2
  <2> QED
    BY <1>2, <2>3
<1> QED
  BY <1>7, <1>9, <1>10, <1>13 DEF out
-----------------------------------------------------------------------------
LEMMA CountUpTo ==
  ASSUME NEW k \in Nat \ {0}, NEW T, T \subseteq 1 .. k, k \in T
  PROVE  Cardinality(T) \in 1 .. k
<1>1. IsFiniteSet(1 .. k) /\ Cardinality(1 .. k) = k
  BY FS_Interval
<1>2. IsFiniteSet(T) /\ Cardinality(T) <= k
  BY <1>1, FS_Subset
<1>3. Cardinality(T) \in Nat
  BY <1>2, FS_CardinalityType
<1>4. Cardinality(T) # 0
  BY <1>2, FS_EmptySet
<1> QED
  BY <1>2, <1>3, <1>4

\* Draws of a stream that is long enough are words.
LEMMA DrawsTyped ==
  ASSUME NEW items, NEW n \in Nat, DOMAIN items = 1 .. n,
         NEW stream \in Seq(Ring), Len(stream) >= n, NEW k \in 1 .. n
  PROVE  /\ stream[k] \in Ring
         /\ IsRandom(items[k]) => OwnDraw(items, stream, k) \in Ring
         /\ items[k][2] = "r2" => DealerDraw(items, stream, k) \in Ring
<1>1. k \in Nat \ {0} /\ k \in 1 .. k /\ \A i \in 1 .. k : i \in 1 .. Len(stream)
  OBVIOUS
<1>2. \A i \in 1 .. k : stream[i] \in Ring
  BY <1>1
<1>3. ASSUME IsRandom(items[k])
      PROVE  OwnDraw(items, stream, k) \in Ring
  <2> DEFINE T == {j \in 1 .. k : IsRandom(items[j])}
  <2>1. T \subseteq 1 .. k /\ k \in T
    BY <1>1, <1>3
  <2>2. OwnDraw(items, stream, k) = stream[Cardinality(T)]
    BY DEF OwnDraw
  <2> HIDE DEF T
  <2>3. Cardinality(T) \in 1 .. k
    BY <1>1, <2>1, CountUpTo
  <2> QED
    BY <1>2, <2>2, <2>3
<1>4. ASSUME items[k][2] = "r2"
      PROVE  DealerDraw(items, stream, k) \in Ring
  <2> DEFINE T == {j \in 1 .. k : items[j][2] = "r2"}
  <2>1. T \subseteq 1 .. k /\ k \in T
    BY <1>1, <1>4
  <2>2. DealerDraw(items, stream, k) = stream[Cardinality(T)]
    BY DEF DealerDraw
  <2> HIDE DEF T
  <2>3. Cardinality(T) \in 1 .. k
    BY <1>1, <2>1, CountUpTo
  <2> QED
    BY <1>2, <2>2, <2>3
<1> QED
  BY <1>1, <1>2, <1>3, <1>4

\* The values dealt at random are words.
LEMMA DealtValueTyped ==
  ASSUME NEW items, NEW n \in Nat, DOMAIN items = 1 .. n,
         NEW stream \in Seq(Ring), Len(stream) >= n,
         NEW item \in {items[k] : k \in DOMAIN items}, IsRandom(item)
  PROVE  DealtValue(items, stream)[item] \in Ring
<1> DEFINE k == IndexOf(items, item)
<1>1. k \in 1 .. n /\ items[k] = item
  BY DEF IndexOf
<1>2. item[2] # "r2"
  BY DEF IsRandom
<1>3. DealtValue(items, stream)[item] =
        ((nP - 1) * stream[k] + OwnDraw(items, stream, k)) % RingSize
  BY <1>2 DEF DealtValue
<1> HIDE DEF k
<1>4. stream[k] \in Ring /\ OwnDraw(items, stream, k) \in Ring
  BY <1>1, DrawsTyped
<1> DEFINE d == OwnDraw(items, stream, k)
           v == stream[k]
<1>5. d \in Int /\ v \in Int /\ RingSize \in Nat \ {0} /\ nP - 1 \in Int
  BY <1>4, RingSumAssumption DEF Ring
<1> HIDE DEF d, v
<1>6. (nP - 1) * v \in Int
  BY <1>5
<1> DEFINE w == (nP - 1) * v + d
<1>7. w \in Int
  BY <1>5, <1>6
<1>8. DealtValue(items, stream)[item] = w % RingSize
  BY <1>3 DEF d, v
<1> HIDE DEF w
<1>9. w % RingSize \in Ring
  BY <1>5, <1>7 DEF Ring
<1> QED
  BY <1>8, <1>9

\* The secret of an item is a number.
LEMMA SecretTyped ==
  ASSUME WordsAreBits, NEW g, NEW item, IsItemOf(g, item), ~IsRandom(item),
         NEW value, \A i : IsRandom(i) /\ IsItemOf(g, i) => value[i] \in Ring,
         NEW draw, item[2] = "r2" => draw \in Ring
  PROVE  SecretOf(item, value, draw) \in Int
<1> DEFINE w == g.out
<1>1. RINGSIZEBITS \in Nat \ {0} /\ RingSize \in Nat \ {0} /\ \A j \in Bits : 2 ^ j \in Nat \ {0}
  BY RingSumAssumption, WordFacts
<1>2. \/ g.type = "kMul" /\ item = <<w, "c">>
      \/ g.type = "kEqz" /\ \/ item = <<w, "r2">>
                            \/ \E j \in Bits : item \in {<<w, "r1_bits", j>>, <<w, "r2_bits", j>>}
  BY DEF IsItemOf, IsRandom
<1>3. CASE g.type = "kMul" /\ item = <<w, "c">>
  <2> DEFINE a == value[<<w, "a">>]
             b == value[<<w, "b">>]
  <2>1. item[1] = w /\ item[2] = "c"
    BY <1>3
  <2>2. a \in Ring /\ b \in Ring
    <3>1. IsItemOf(g, <<w, "a">>) /\ IsItemOf(g, <<w, "b">>)
      BY <1>3 DEF IsItemOf
    <3>2. IsRandom(<<w, "a">>) /\ IsRandom(<<w, "b">>)
      BY DEF IsRandom
    <3> QED
      BY <3>1, <3>2
  <2>3. SecretOf(item, value, draw) = (a * b) % RingSize
    BY <2>1 DEF SecretOf
  <2> HIDE DEF a, b
  <2>4. a * b \in Int
    BY <2>2, <1>1 DEF Ring
  <2>5. (a * b) % RingSize \in Int
    BY <1>1, <2>4
  <2> QED
    BY <2>3, <2>5
<1>4. CASE item = <<w, "r2">>
  <2>1. item[2] = "r2"
    BY <1>4
  <2>2. SecretOf(item, value, draw) = draw % RINGSIZEBITS
    BY <2>1 DEF SecretOf
  <2>3. draw \in Int
    BY <1>1, <2>1 DEF Ring
  <2> QED
    BY <1>1, <2>2, <2>3
<1>5. ASSUME g.type = "kEqz", NEW j \in Bits, item = <<w, "r1_bits", j>>
      PROVE  SecretOf(item, value, draw) \in Int
  <2>1. item[1] = w /\ item[2] = "r1_bits" /\ item[3] = j
    BY <1>5
  <2> DEFINE r == value[<<w, "r1">>]
             d == 2 ^ j
  <2>2. r \in Ring
    <3>1. IsItemOf(g, <<w, "r1">>)
      BY <1>5 DEF IsItemOf
    <3>2. IsRandom(<<w, "r1">>)
      BY DEF IsRandom
    <3> QED
      BY <3>1, <3>2
  <2>3. SecretOf(item, value, draw) = (r \div d) % 2
    BY <2>1 DEF SecretOf, Bit
  <2>4. d \in Nat \ {0}
    BY <1>1
  <2> HIDE DEF r, d
  <2>5. r \div d \in Int
    BY <1>1, <2>2, <2>4 DEF Ring
  <2>6. (r \div d) % 2 \in Int
    BY <2>5
  <2> QED
    BY <2>3, <2>6
<1>6. ASSUME NEW j \in Bits, item = <<w, "r2_bits", j>>
      PROVE  SecretOf(item, value, draw) \in Int
  <2>1. item[2] = "r2_bits"
    BY <1>6
  <2> QED
    BY <2>1 DEF SecretOf
<1> QED
  BY <1>2, <1>3, <1>4, <1>5, <1>6

\* The dealer's secrets are numbers.
LEMMA DealtSecretTyped ==
  ASSUME WordsAreBits, NEW gs, IsCircuit(gs),
         NEW stream \in Seq(Ring), Len(stream) >= Len(Items(gs)),
         NEW k \in DOMAIN Items(gs), ~IsRandom(Items(gs)[k])
  PROVE  SecretOf(Items(gs)[k], DealtValue(Items(gs), stream),
                  DealerDraw(Items(gs), stream, k)) \in Int
<1> DEFINE items == Items(gs)
           n == Len(items)
           value == DealtValue(items, stream)
<1>1. n \in Nat /\ DOMAIN items = 1 .. n /\ ItemSet(gs) = {items[i] : i \in DOMAIN items}
  BY ItemsFacts DEF ItemSet
<1>2. k \in 1 .. n /\ items[k] \in ItemSet(gs) /\ Len(stream) >= n /\ ~IsRandom(items[k])
  BY <1>1
<1>3. PICK b \in 1 .. Len(gs) : IsItemOf(gs[b], items[k])
  BY <1>2, ItemsFacts
<1>4. HasItems(gs[b], ItemSet(gs))
  BY ItemsFacts
<1>5. ASSUME NEW i, IsItemOf(gs[b], i)
      PROVE  i \in ItemSet(gs)
  BY <1>4, <1>5 DEF HasItems, IsItemOf
<1> HIDE DEF items, n
<1>6. items[k][2] = "r2" => DealerDraw(items, stream, k) \in Ring
  BY <1>1, <1>2, DrawsTyped
<1>7. ASSUME NEW i, IsRandom(i) /\ IsItemOf(gs[b], i)
      PROVE  value[i] \in Ring
  <2>1. i \in {items[j] : j \in DOMAIN items} /\ IsRandom(i)
    BY <1>1, <1>5, <1>7
  <2> QED
    BY <1>1, <1>2, <2>1, DealtValueTyped
<1> HIDE DEF value
<1>8. SecretOf(items[k], value, DealerDraw(items, stream, k)) \in Int
  BY <1>2, <1>3, <1>6, <1>7, SecretTyped
<1> QED
  BY <1>8 DEF items, value

\* Every dealt share is a word.
LEMMA DealtTyped ==
  ASSUME WordsAreBits, NEW gs, IsCircuit(gs),
         NEW stream \in Seq(Ring), Len(stream) >= Len(Items(gs)),
         NEW k \in DOMAIN Items(gs), NEW p \in Party
  PROVE  DealtShares(Items(gs), stream)[k][p] \in Ring
<1> DEFINE items == Items(gs)
           n == Len(items)
           value == DealtValue(items, stream)
<1>1. n \in Nat /\ DOMAIN items = 1 .. n
  BY ItemsFacts
<1>2. k \in 1 .. n /\ Len(stream) >= n
  BY <1>1
<1>3. DealtShares(items, stream)[k][p] =
        IF p < nP THEN stream[k] ELSE LastShare(items, stream, k)
  BY DEF DealtShares
<1>4. ~IsRandom(items[k]) => SecretOf(items[k], value, DealerDraw(items, stream, k)) \in Int
  BY DealtSecretTyped
<1> HIDE DEF items, n
<1>5. /\ stream[k] \in Ring
      /\ IsRandom(items[k]) => OwnDraw(items, stream, k) \in Ring
  BY <1>1, <1>2, DrawsTyped
<1>6. LastShare(items, stream, k) \in Ring
  <2>1. CASE IsRandom(items[k])
    BY <1>5, <2>1 DEF LastShare
  <2>2. CASE ~IsRandom(items[k])
    <3> DEFINE s == SecretOf(items[k], value, DealerDraw(items, stream, k))
               v == stream[k]
    <3>1. s \in Int
      BY <1>4, <2>2
    <3>2. LastShare(items, stream, k) = (s - (nP - 1) * v) % RingSize
      BY <2>2 DEF LastShare
    <3>3. v \in Int /\ RingSize \in Nat \ {0} /\ nP - 1 \in Int
      BY <1>5, RingSumAssumption DEF Ring
    <3> HIDE DEF s, v
    <3>4. (nP - 1) * v \in Int
      BY <3>3
    <3>5. s - (nP - 1) * v \in Int
      BY <3>1, <3>4
    <3> QED
      BY <3>2, <3>3, <3>5 DEF Ring
  <2> QED
    BY <2>1, <2>2
<1> QED
  BY <1>3, <1>5, <1>6 DEF items

\* No item is dealt twice, so an item has one index.
LEMMA IndexFacts ==
  ASSUME WordsAreBits, NEW gs, IsCircuit(gs)
  PROVE  /\ \A k \in DOMAIN Items(gs) : IndexOf(Items(gs), Items(gs)[k]) = k
         /\ \A item \in ItemSet(gs) : /\ IndexOf(Items(gs), item) \in DOMAIN Items(gs)
                                      /\ Items(gs)[IndexOf(Items(gs), item)] = item
<1> DEFINE items == Items(gs)
<1>1. /\ DOMAIN items = 1 .. Len(items) /\ Distinct(items)
      /\ \A item \in ItemSet(gs) : \E k \in DOMAIN items : items[k] = item
  BY ItemsFacts DEF ItemSet
<1> HIDE DEF items
<1>2. \A k \in DOMAIN items : IndexOf(items, items[k]) = k
  BY <1>1 DEF IndexOf, Distinct
<1>3. \A item \in ItemSet(gs) : IndexOf(items, item) \in DOMAIN items /\ items[IndexOf(items, item)] = item
  BY <1>1 DEF IndexOf
<1> QED
  BY <1>2, <1>3 DEF items

\* What the dealt shares of an item add up to.
LEMMA DealtTotal ==
  ASSUME WordsAreBits, NEW gs, IsCircuit(gs),
         NEW stream \in Seq(Ring), Len(stream) >= Len(Items(gs)),
         NEW k \in DOMAIN Items(gs)
  PROVE  Total(DealtShares(Items(gs), stream)[k]) =
           IF IsRandom(Items(gs)[k])
           THEN ((nP - 1) * stream[k] + OwnDraw(Items(gs), stream, k)) % RingSize
           ELSE SecretOf(Items(gs)[k], DealtValue(Items(gs), stream),
                         DealerDraw(Items(gs), stream, k)) % RingSize
<1> DEFINE items == Items(gs)
           n == Len(items)
           v == stream[k]
           t == LastShare(items, stream, k)
           m == (nP - 1) * v
           s == SecretOf(items[k], DealtValue(items, stream), DealerDraw(items, stream, k))
<1>1. n \in Nat /\ DOMAIN items = 1 .. n /\ k \in 1 .. n /\ Len(stream) >= n
  BY ItemsFacts
<1>2. ~IsRandom(items[k]) => s \in Int
  BY DealtSecretTyped
<1>3. DealtShares(items, stream)[k] = [p \in Party |-> IF p < nP THEN v ELSE t]
  BY DEF DealtShares
<1> HIDE DEF items, n
<1>4. v \in Ring /\ (IsRandom(items[k]) => OwnDraw(items, stream, k) \in Ring)
  BY <1>1, DrawsTyped
<1>5. /\ IsRandom(items[k]) => t = OwnDraw(items, stream, k)
      /\ ~IsRandom(items[k]) => t = (s - m) % RingSize
  BY DEF LastShare
<1>6. RingSize \in Nat \ {0} /\ nP - 1 \in Int /\ \A a \in Ring : a \in Int
  BY RingSumAssumption DEF Ring
<1> HIDE DEF v, t, s
<1>7. v \in Int /\ m \in Int
  BY <1>4, <1>6
<1>8. CASE IsRandom(items[k])
  <2>1. t \in Int
    BY <1>4, <1>5, <1>6, <1>8
  <2>2. Total([p \in Party |-> IF p < nP THEN v ELSE t]) = ((nP - 1) * v + t) % RingSize
    BY <1>7, <2>1, TotalButLast
  <2> QED
    BY <1>3, <1>5, <1>8, <2>2 DEF items, v
<1>9. CASE ~IsRandom(items[k])
  <2>1. s \in Int /\ t = (s - m) % RingSize
    BY <1>2, <1>5, <1>9
  <2>2. t \in Int
    BY <1>6, <1>7, <2>1, ModInside
  <2>3. Total([p \in Party |-> IF p < nP THEN v ELSE t]) = (m + t) % RingSize
    BY <1>7, <2>2, TotalButLast
  <2> HIDE DEF m
  <2>4. s - m \in Int /\ m + (s - m) = s
    BY <1>7, <2>1
  <2>5. (m + ((s - m) % RingSize)) % RingSize = (m + (s - m)) % RingSize
    BY <1>6, <1>7, <2>4, ModInside
  <2>6. (m + t) % RingSize = s % RingSize
    BY <2>1, <2>4, <2>5
  <2> QED
    BY <1>3, <1>9, <2>3, <2>6 DEF items, s
<1> QED
  BY <1>8, <1>9

\* The random values and the r2 are what DealtValue says.
LEMMA DealtTotalIsValue ==
  ASSUME WordsAreBits, NEW gs, IsCircuit(gs),
         NEW stream \in Seq(Ring), Len(stream) >= Len(Items(gs)),
         NEW item \in ItemSet(gs), IsRandom(item) \/ item[2] = "r2"
  PROVE  /\ Total(DealtShares(Items(gs), stream)[IndexOf(Items(gs), item)])
              = DealtValue(Items(gs), stream)[item]
         /\ item[2] = "r2" => DealtValue(Items(gs), stream)[item] \in Bits
         /\ DealtValue(Items(gs), stream)[item] \in Ring
<1> DEFINE items == Items(gs)
           k == IndexOf(items, item)
           d == DealerDraw(items, stream, k)
           B == RINGSIZEBITS
<1>1. k \in DOMAIN items /\ items[k] = item /\ item \in {items[i] : i \in DOMAIN items}
  BY IndexFacts DEF ItemSet
<1>2. DOMAIN items = 1 .. Len(items) /\ Len(items) \in Nat
  BY ItemsFacts
<1>3. CASE IsRandom(item)
  <2>1. item[2] # "r2"
    BY <1>3 DEF IsRandom
  <2>2. DealtValue(items, stream)[item] = ((nP - 1) * stream[k] + OwnDraw(items, stream, k)) % RingSize
    BY <1>1, <2>1 DEF DealtValue
  <2>3. Total(DealtShares(items, stream)[k]) = ((nP - 1) * stream[k] + OwnDraw(items, stream, k)) % RingSize
    BY <1>1, <1>3, DealtTotal
  <2>4. DealtValue(items, stream)[item] \in Ring
    BY <1>1, <1>2, <1>3, DealtValueTyped
  <2> QED
    BY <2>1, <2>2, <2>3, <2>4
<1>4. CASE item[2] = "r2"
  <2>1. ~IsRandom(item)
    BY <1>4 DEF IsRandom
  <2>2. DealtValue(items, stream)[item] = d % B
    BY <1>1, <1>4 DEF DealtValue
  <2>3. SecretOf(item, DealtValue(items, stream), d) = d % B
    BY <1>4 DEF SecretOf
  <2>4. Total(DealtShares(items, stream)[k]) = (d % B) % RingSize
    BY <1>1, <2>1, <2>3, DealtTotal
  <2>5. d \in Int /\ B \in Nat \ {0} /\ RingSize \in Nat \ {0} /\ B < RingSize
    <3>1. d \in Ring
      BY <1>1, <1>2, <1>4, DrawsTyped
    <3> QED
      BY <3>1, RingSumAssumption, WordFacts DEF Ring
  <2> HIDE DEF d
  <2>6. d % B \in 0 .. B - 1
    BY <2>5
  <2>7. d % B \in Ring /\ (d % B) % RingSize = d % B
    <3> DEFINE r == d % B
               m == RingSize
               b == RINGSIZEBITS
    <3>1. r \in Int /\ 0 <= r /\ r < b /\ b < m /\ b \in Int /\ m \in Nat \ {0}
      BY <2>5, <2>6
    <3> HIDE DEF r, m, b
    <3>2. r \in 0 .. m - 1
      BY <3>1
    <3>3. r % m = r
      BY <3>1, <3>2
    <3> QED
      BY <3>2, <3>3 DEF Ring, r, m
  <2> QED
    BY <2>2, <2>4, <2>6, <2>7 DEF Bits
<1> QED
  BY <1>3, <1>4
-----------------------------------------------------------------------------
\* What the parties' shares of an item add up to.
DealtSum(gs, stream, item) == Total(DealtShares(Items(gs), stream)[IndexOf(Items(gs), item)])

LEMMA DealtSumFacts ==
  ASSUME WordsAreBits, NEW gs, IsCircuit(gs),
         NEW stream \in Seq(Ring), Len(stream) >= Len(Items(gs)), NEW item \in ItemSet(gs)
  PROVE  /\ IsRandom(item) \/ item[2] = "r2" =>
              /\ DealtSum(gs, stream, item) = DealtValue(Items(gs), stream)[item]
              /\ DealtSum(gs, stream, item) \in Ring
         /\ item[2] = "r2" => DealtSum(gs, stream, item) \in Bits
         /\ ~IsRandom(item) =>
              \E d : DealtSum(gs, stream, item) = SecretOf(item, DealtValue(Items(gs), stream), d) % RingSize
<1> DEFINE items == Items(gs)
           k == IndexOf(items, item)
<1>1. k \in DOMAIN items /\ items[k] = item
  BY IndexFacts
<1>2. ~IsRandom(item) =>
        DealtSum(gs, stream, item)
          = SecretOf(item, DealtValue(items, stream), DealerDraw(items, stream, k)) % RingSize
  BY <1>1, DealtTotal DEF DealtSum
<1>3. IsRandom(item) \/ item[2] = "r2" =>
        /\ DealtSum(gs, stream, item) = DealtValue(items, stream)[item]
        /\ DealtValue(items, stream)[item] \in Ring
        /\ item[2] = "r2" => DealtValue(items, stream)[item] \in Bits
  BY DealtTotalIsValue DEF DealtSum
<1> HIDE DEF items, k
<1>4. IsRandom(item) \/ item[2] = "r2" =>
        /\ DealtSum(gs, stream, item) = DealtValue(items, stream)[item]
        /\ DealtSum(gs, stream, item) \in Ring
  BY <1>3
<1>5. item[2] = "r2" => DealtSum(gs, stream, item) \in Bits
  BY <1>3
<1>6. ~IsRandom(item) => \E d :
        DealtSum(gs, stream, item) = SecretOf(item, DealtValue(items, stream), d) % RingSize
  BY <1>2
<1> QED
  BY <1>4, <1>5, <1>6 DEF items

\* The dealt material is related as the online phase needs it.
LEMMA RelatedDealt ==
  ASSUME WordsAreBits, NEW gs, IsCircuit(gs),
         NEW stream \in Seq(Ring), Len(stream) >= Len(Items(gs)),
         NEW s, \A item \in ItemSet(gs) : s[item] = DealtSum(gs, stream, item)
  PROVE  Related(gs, s)
<1> DEFINE V == DealtValue(Items(gs), stream)
           M == ItemSet(gs)
<1>1. \A item \in M : /\ IsRandom(item) \/ item[2] = "r2" => s[item] = V[item] /\ s[item] \in Ring
                      /\ item[2] = "r2" => s[item] \in Bits
                      /\ ~IsRandom(item) => \E d : s[item] = SecretOf(item, V, d) % RingSize
  BY DealtSumFacts
<1>2. /\ RingSize \in Nat \ {0} /\ RINGSIZEBITS \in Nat \ {0} /\ RINGSIZEBITS < RingSize
      /\ \A j \in Bits : 2 ^ j \in Nat \ {0}
  BY RingSumAssumption, WordFacts
<1>3. \A x \in 0 .. 1 : x % RingSize = x
  <2>1. 1 < RingSize
    BY <1>2
  <2> QED
    BY <1>2, <2>1
<1>4. \A x, y \in Ring : ((x * y) % RingSize) % RingSize = (x * y) % RingSize
  <2>1. \A x, y \in Ring : x * y \in Int
    BY <1>2 DEF Ring
  <2> HIDE DEF V, M
  <2> QED
    BY <1>2, <2>1, ModMod
<1>5. \A v \in Ring, j \in Bits : Bit(v, j) \in 0 .. 1
  <2>1. SUFFICES ASSUME NEW v \in Ring, NEW j \in Bits
                 PROVE  Bit(v, j) \in 0 .. 1
    OBVIOUS
  <2> DEFINE p == 2 ^ j
  <2>2. p \in Nat \ {0} /\ v \in Int
    BY <1>2 DEF Ring
  <2> HIDE DEF p
  <2>3. v \div p \in Int
    BY <2>2, ModDiv
  <2>4. (v \div p) % 2 \in 0 .. 1
    BY <2>3
  <2> QED
    BY <2>4 DEF Bit, p
<1> HIDE DEF V, M
<1>6. ASSUME NEW g, HasItems(g, M), g.type = "kMul"
      PROVE  s[<<g.out, "c">>] = (s[<<g.out, "a">>] * s[<<g.out, "b">>]) % RingSize
  <2> DEFINE a == <<g.out, "a">>
             b == <<g.out, "b">>
             c == <<g.out, "c">>
  <2>1. a \in M /\ b \in M /\ c \in M
    BY <1>6 DEF HasItems
  <2>2. IsRandom(a) /\ IsRandom(b) /\ ~IsRandom(c)
    BY DEF IsRandom
  <2>3. s[a] = V[a] /\ s[a] \in Ring /\ s[b] = V[b] /\ s[b] \in Ring
    BY <1>1, <2>1, <2>2
  <2>4. PICK d : s[c] = SecretOf(c, V, d) % RingSize
    BY <1>1, <2>1, <2>2
  <2>5. SecretOf(c, V, d) = (V[a] * V[b]) % RingSize
    BY DEF SecretOf
  <2> HIDE DEF a, b, c
  <2> QED
    BY <1>4, <2>3, <2>4, <2>5 DEF a, b, c
<1>7. ASSUME NEW g, HasItems(g, M), g.type = "kEqz"
      PROVE  /\ s[<<g.out, "r2">>] \in Bits
             /\ \A j \in Bits :
                  /\ s[<<g.out, "r1_bits", j>>] = Bit(s[<<g.out, "r1">>], j)
                  /\ s[<<g.out, "r2_bits", j>>] = IF j = s[<<g.out, "r2">>] THEN 1 ELSE 0
  <2> DEFINE r == <<g.out, "r1">>
             t == <<g.out, "r2">>
  <2>1. r \in M /\ t \in M
    BY <1>7 DEF HasItems
  <2>2. IsRandom(r) /\ t[2] = "r2"
    BY DEF IsRandom
  <2>3. s[r] = V[r] /\ s[r] \in Ring /\ s[t] = V[t] /\ s[t] \in Bits
    BY <1>1, <2>1, <2>2
  <2>4. ASSUME NEW j \in Bits
        PROVE  /\ s[<<g.out, "r1_bits", j>>] = Bit(s[r], j)
               /\ s[<<g.out, "r2_bits", j>>] = IF j = s[t] THEN 1 ELSE 0
    <3> DEFINE x == <<g.out, "r1_bits", j>>
               y == <<g.out, "r2_bits", j>>
    <3>1. x \in M /\ y \in M
      BY <1>7, <2>4 DEF HasItems
    <3>2. ~IsRandom(x) /\ ~IsRandom(y)
      BY DEF IsRandom
    <3>3. PICK d : s[x] = SecretOf(x, V, d) % RingSize
      BY <1>1, <3>1, <3>2
    <3>4. PICK e : s[y] = SecretOf(y, V, e) % RingSize
      BY <1>1, <3>1, <3>2
    <3>5. SecretOf(x, V, d) = Bit(V[r], j)
      BY DEF SecretOf
    <3>6. SecretOf(y, V, e) = IF j = V[t] % RINGSIZEBITS THEN 1 ELSE 0
      BY DEF SecretOf
    <3> HIDE DEF x, y, r, t
    <3>7. s[x] = Bit(s[r], j)
      BY <1>3, <1>5, <2>3, <3>3, <3>5
    <3>8. V[t] % RINGSIZEBITS = V[t]
      <4>1. V[t] \in Nat /\ V[t] < RINGSIZEBITS
        BY <1>2, <2>3 DEF Bits
      <4> QED
        BY <1>2, <4>1
    <3>9. s[y] = IF j = s[t] THEN 1 ELSE 0
      BY <1>3, <2>3, <3>4, <3>6, <3>8
    <3> QED
      BY <3>7, <3>9 DEF x, y
  <2> QED
    BY <2>3, <2>4
<1>8. \A k \in DOMAIN gs : HasItems(gs[k], M)
  <2>1. \A k \in 1 .. Len(gs) : HasItems(gs[k], M)
    BY ItemsFacts DEF M
  <2>2. DOMAIN gs = 1 .. Len(gs)
    <3>1. gs \in Seq(GateRecord)
      BY DEF IsCircuit
    <3> HIDE DEF M
    <3> QED
      BY <3>1
  <2> QED
    BY <2>1, <2>2
<1> QED
  BY <1>6, <1>7, <1>8 DEF Related
-----------------------------------------------------------------------------
(* What the online phase computes from words and shares.                     *)

\* The quotient of a division is the only number that leaves a remainder.
LEMMA DivUnique ==
  ASSUME NEW m \in Nat \ {0}, NEW a \in Int, NEW q \in Int, NEW r \in 0 .. m - 1,
         a = m * q + r
  PROVE  a \div m = q
<1> DEFINE s == a \div m
           t == a % m
<1>1. s \in Int /\ t \in 0 .. m - 1 /\ a = m * s + t
  BY ModDiv
<1> HIDE DEF s, t
<1>2. m * (q - s) = t - r
  BY <1>1
<1>3. \A d \in Int : (d >= 1 => m * d >= m) /\ (d <= -1 => m * d <= -m)
  OBVIOUS
<1>4. q - s \in Int /\ ~(q - s >= 1) /\ ~(q - s <= -1)
  BY <1>1, <1>2, <1>3
<1>5. q = s
  BY <1>1, <1>4
<1> QED
  BY <1>5 DEF s

\* Dividing by m and then by two is dividing by twice m.
LEMMA HalfOfQuotient ==
  ASSUME NEW m \in Nat \ {0}, NEW v \in Int
  PROVE  /\ v \div (2 * m) \in Int
         /\ v \div m = 2 * (v \div (2 * m)) + ((v \div m) % 2)
<1> DEFINE q == v \div m
           r == v % m
           h == q \div 2
           b == q % 2
<1>1. q \in Int /\ r \in 0 .. m - 1 /\ v = m * q + r
  BY ModDiv
<1> HIDE DEF q, r
<1>2. h \in Int /\ b \in 0 .. 1 /\ q = 2 * h + b
  BY <1>1
<1> HIDE DEF h, b
<1>3. m * q = (2 * m) * h + m * b
  BY <1>1, <1>2
<1>4. m * b + r \in 0 .. 2 * m - 1
  <2>1. b = 0 \/ b = 1
    BY <1>2
  <2> QED
    BY <1>1, <2>1
<1>5. v = (2 * m) * h + (m * b + r)
  <2>1. m * q \in Int /\ m * b \in Int /\ (2 * m) * h \in Int
    BY <1>1, <1>2
  <2> QED
    BY <1>1, <1>3, <2>1
<1>6. v \div (2 * m) = h
  <2> DEFINE n == 2 * m
             t == m * b + r
  <2>1. n \in Nat \ {0} /\ t \in 0 .. n - 1 /\ v = n * h + t
    BY <1>4, <1>5
  <2> HIDE DEF n, t
  <2>2. v \div n = h
    BY <1>2, <2>1, DivUnique
  <2> QED
    BY <2>2 DEF n
<1> QED
  BY <1>2, <1>6 DEF q, b

\* A word is determined by its bits.
LEMMA BitsDetermine ==
  ASSUME WordsAreBits, NEW u \in Ring, NEW v \in Ring, \A j \in Bits : Bit(u, j) = Bit(v, j)
  PROVE  u = v
<1> DEFINE B == RINGSIZEBITS
           pow(j) == 2 ^ j
           U(j) == u \div pow(j)
           V(j) == v \div pow(j)
           T == {k \in 0 .. B : U(B - k) = V(B - k)}
<1>1. /\ B \in Nat \ {0} /\ RingSize = pow(B) /\ pow(0) = 1
      /\ \A j \in 0 .. B : pow(j) \in Nat \ {0}
      /\ \A j \in 0 .. B - 1 : pow(j + 1) = 2 * pow(j)
  BY WordFacts DEF WordsAreBits, Bits
<1>2. \A j \in 0 .. B - 1 : U(j) % 2 = V(j) % 2
  BY DEF Bit, Bits
<1> HIDE DEF B, pow
<1>3. u \in 0 .. pow(B) - 1 /\ v \in 0 .. pow(B) - 1
  BY <1>1 DEF Ring
<1>4. \A a \in 0 .. pow(B) - 1 : a \div pow(B) = 0
  <2> DEFINE m == pow(B)
  <2>1. m \in Nat \ {0}
    BY <1>1
  <2> HIDE DEF m
  <2>2. \A a \in 0 .. m - 1 : a \in Int /\ a = m * 0 + a
    BY <2>1
  <2>3. \A a \in 0 .. m - 1 : a \div m = 0
    BY <2>1, <2>2, DivUnique
  <2> QED
    BY <2>3 DEF m
<1>5. 0 \in T
  BY <1>1, <1>3, <1>4
<1>6. ASSUME NEW k \in 1 .. B, k - 1 \in T
      PROVE  k \in T
  <2> DEFINE j == B - k
  <2>1. j \in 0 .. B - 1 /\ B - (k - 1) = j + 1 /\ j \in 0 .. B
    BY <1>1
  <2>2. U(j + 1) = V(j + 1)
    BY <1>6, <2>1
  <2> HIDE DEF j
  <2> DEFINE m == pow(j)
  <2>3. m \in Nat \ {0} /\ pow(j + 1) = 2 * m
    BY <1>1, <2>1
  <2>4. u \in Int /\ v \in Int
    BY <1>1, <1>3
  <2> HIDE DEF m
  <2>5. /\ u \div m = 2 * (u \div (2 * m)) + ((u \div m) % 2)
        /\ v \div m = 2 * (v \div (2 * m)) + ((v \div m) % 2)
    BY <2>3, <2>4, HalfOfQuotient
  <2>6. u \div (2 * m) = v \div (2 * m)
    BY <2>2, <2>3
  <2>7. (u \div m) % 2 = (v \div m) % 2
    BY <1>2, <2>1 DEF m
  <2>8. U(j) = V(j)
    BY <2>5, <2>6, <2>7 DEF m
  <2> QED
    BY <2>8 DEF j
<1>7. B \in T
  <2>1. B \in 0 .. B
    BY <1>1
  <2> HIDE DEF T
  <2> QED
    BY <1>1, <1>5, <1>6, <2>1, UpTo
<1>8. U(0) = V(0)
  BY <1>1, <1>7
<1>9. \A a \in Int : a \div 1 = a
  OBVIOUS
<1>10. u \in Int /\ v \in Int
  BY <1>1, <1>3
<1> QED
  BY <1>1, <1>8, <1>9, <1>10

\* When every party holds the same.
LEMMA TotalOfSame ==
  ASSUME NEW c \in Int
  PROVE  Total([p \in Party |-> c]) = (nP * c) % RingSize
<1>1. Total([p \in Party |-> IF p < nP THEN c ELSE c]) = ((nP - 1) * c + c) % RingSize
  BY TotalButLast
<1>2. [p \in Party |-> IF p < nP THEN c ELSE c] = [p \in Party |-> c]
  OBVIOUS
<1>3. (nP - 1) * c + c = nP * c
  BY RingSumAssumption
<1> QED
  BY <1>1, <1>2, <1>3

\* z is c times x and d times y and, on party q alone, k.
SumsUp(z, c, x, d, y, q, k) ==
  \A p \in Party : z[p] % RingSize = (c * x[p] + d * y[p] + IF p = q THEN k ELSE 0) % RingSize

\* The shares of a sum of three terms, the last of which one party adds.
LEMMA TotalOfSum ==
  ASSUME NEW x \in [Party -> Int], NEW y \in [Party -> Int], NEW c \in Int, NEW d \in Int,
         NEW k \in Int, NEW z \in [Party -> Int], NEW q \in Party, SumsUp(z, c, x, d, y, q, k)
  PROVE  Total(z) = (c * Total(x) + d * Total(y) + k) % RingSize
<1> DEFINE w == [p \in Party |-> c * x[p] + d * y[p]]
           o == [p \in Party |-> IF p = q THEN k ELSE 0]
           m == RingSize
<1>1. m \in Nat \ {0}
  BY RingSumAssumption
<1>2. /\ w \in [Party -> Int] /\ o \in [Party -> Int]
      /\ \A p \in Party : w[p] = c * x[p] + d * y[p]
      /\ \A p \in Party : o[p] = IF p = q THEN k ELSE 0
  OBVIOUS
<1> HIDE DEF w, o
<1>3. Total(w) = (c * Total(x) + d * Total(y)) % RingSize
  <2>1. Combines(w, c, x, d, y)
    BY <1>2 DEF Combines
  <2> QED
    BY <1>2, <2>1, TotalLinear
<1>4. Total(o) = k % RingSize
  BY <1>2, TotalOfOne
<1>5. Total(z) = (1 * Total(w) + 1 * Total(o)) % RingSize
  <2>1. \A p \in Party : 1 * w[p] + 1 * o[p] = c * x[p] + d * y[p] + IF p = q THEN k ELSE 0
    BY <1>2
  <2>2. Combines(z, 1, w, 1, o)
    BY <2>1 DEF Combines, SumsUp
  <2>3. 1 \in Int /\ w \in [Party -> Int] /\ o \in [Party -> Int] /\ z \in [Party -> Int]
    BY <1>2
  <2> QED
    BY ONLY <2>2, <2>3, TotalLinear
<1> DEFINE W == c * Total(x) + d * Total(y)
           a == W % m
           b == k % m
<1>6. W \in Int
  <2>1. Total(x) \in Int /\ Total(y) \in Int
    BY TotalInRing, <1>1 DEF Ring
  <2> QED
    BY <2>1
<1>7. Total(z) = (a + b) % m
  <2>1. a \in Int /\ b \in Int
    BY <1>1, <1>6
  <2>2. Total(w) = a /\ Total(o) = b
    BY <1>3, <1>4
  <2> QED
    BY <1>5, <2>1, <2>2
<1> HIDE DEF W, m
<1>8. a \in Int /\ Same(m, a, W) /\ b \in Int /\ Same(m, b, k)
  BY <1>1, <1>6, SameRemainder
<1> HIDE DEF a, b
<1>9. Same(m, a + b, W + k)
  BY <1>1, <1>6, <1>8, SameOps
<1> QED
  BY <1>7, <1>9 DEF Same, W, m

\* The shares of a product, from the opened e and d.
ProductShares(z, a, b, c, e, d) ==
  \A p \in Party :
    z[p] = (c[p] + e * b[p] + d * a[p] + IF p = 1 THEN e * d ELSE 0) % RingSize

\* The opened e and d, and the triple.
OpenedWith(x, y, e, d, a, b, c) ==
  /\ Same(RingSize, e, x - Total(a)) /\ Same(RingSize, d, y - Total(b))
  /\ Same(RingSize, Total(c), Total(a) * Total(b))

AddUpToProduct(z, x, y) == Total(z) = (x * y) % RingSize

\* Beaver's multiplication: from the opened x - a and y - b and shares of a, b
\* and a * b, shares of x * y.
LEMMA BeaverTriple ==
  ASSUME NEW x \in Int, NEW y \in Int, NEW e \in Int, NEW d \in Int,
         NEW a \in [Party -> Int], NEW b \in [Party -> Int], NEW c \in [Party -> Int],
         OpenedWith(x, y, e, d, a, b, c),
         NEW z \in [Party -> Int], ProductShares(z, a, b, c, e, d)
  PROVE  AddUpToProduct(z, x, y)
<1> DEFINE m == RingSize
           A == Total(a)
           B == Total(b)
           C == Total(c)
           u == [p \in Party |-> c[p] + e * b[p]]
<1>1. m \in Nat \ {0} /\ 1 \in Party
  BY RingSumAssumption DEF Party
<1>2. A \in Int /\ B \in Int /\ C \in Int
  BY <1>1, TotalInRing DEF Ring
<1>3. u \in [Party -> Int] /\ \A p \in Party : u[p] = c[p] + e * b[p]
  OBVIOUS
<1> HIDE DEF u
<1>4. Total(u) = (1 * C + e * B) % m
  <2>1. \A p \in Party : u[p] = 1 * c[p] + e * b[p]
    BY <1>3
  <2>2. Combines(u, 1, c, e, b)
    BY <2>1 DEF Combines
  <2> QED
    BY <1>3, <2>2, TotalLinear
<1> DEFINE ed == e * d
           U == Total(u)
<1>5. Total(z) = (1 * U + d * A + ed) % m
  <2>1. ed \in Int
    OBVIOUS
  <2>2. \A p \in Party : z[p] = (1 * u[p] + d * a[p] + IF p = 1 THEN ed ELSE 0) % m
    BY <1>3 DEF ProductShares
  <2> HIDE DEF ed
  <2>3. \A p \in Party : 1 * u[p] + d * a[p] + (IF p = 1 THEN ed ELSE 0) \in Int
    BY <1>3, <2>1
  <2>4. \A p \in Party : z[p] % RingSize = (1 * u[p] + d * a[p] + IF p = 1 THEN ed ELSE 0) % RingSize
    <3> TAKE p \in Party
    <3> DEFINE r == 1 * u[p] + d * a[p] + (IF p = 1 THEN ed ELSE 0)
    <3>1. r \in Int /\ z[p] = r % m
      BY <2>2, <2>3
    <3> HIDE DEF r
    <3>2. z[p] % m = r % m
      BY <1>1, <3>1, ModMod
    <3> QED
      BY <3>2 DEF r
  <2>5. 1 \in Int
    OBVIOUS
  <2>6. SumsUp(z, 1, u, d, a, 1, ed)
    BY <2>4 DEF SumsUp
  <2>7. PICK f \in Int : f = ed
    BY <2>1
  <2>8. SumsUp(z, 1, u, d, a, 1, f)
    BY <2>6, <2>7
  <2>9. Total(z) = (1 * Total(u) + d * Total(a) + f) % RingSize
    <3>1. /\ 1 \in Party /\ 1 \in Int /\ f \in Int /\ d \in Int
          /\ u \in [Party -> Int] /\ a \in [Party -> Int] /\ z \in [Party -> Int]
      BY <1>1, <1>3, <2>5
    <3> QED
      BY ONLY <3>1, <2>8, TotalOfSum
  <2> QED
    BY <2>7, <2>9
<1>6. U \in Int /\ Same(m, U, C + e * B)
  <2> DEFINE r == C + e * B
  <2>1. r \in Int /\ 1 * C + e * B = r
    BY <1>2
  <2> HIDE DEF r
  <2>2. U = r % m
    BY <1>4, <2>1
  <2>3. U \in Int /\ Same(m, U, r)
    BY <1>1, <2>1, <2>2, SameRemainder
  <2> QED
    BY <2>3 DEF r
<1> HIDE DEF m, A, B, C, U
<1>7. Same(m, e, x - A) /\ Same(m, d, y - B) /\ Same(m, C, A * B)
  BY DEF m, A, B, C, OpenedWith
<1>8. /\ A * B \in Int /\ x - A \in Int /\ y - B \in Int /\ e * B \in Int /\ d * A \in Int
      /\ e * d \in Int /\ (x - A) * B \in Int /\ (y - B) * A \in Int /\ (x - A) * (y - B) \in Int
  BY <1>2
<1>9. Same(m, A, A) /\ Same(m, B, B)
  BY <1>1, <1>2, SameRemainder
<1>10. Same(m, e * B, (x - A) * B) /\ Same(m, d * A, (y - B) * A)
  BY <1>1, <1>2, <1>7, <1>8, <1>9, SameOps
<1>11. Same(m, e * d, (x - A) * (y - B))
  BY <1>1, <1>7, <1>8, SameOps
<1> DEFINE t1 == A * B
           t2 == (x - A) * B
           t3 == (y - B) * A
           t4 == (x - A) * (y - B)
           s2 == e * B
           s3 == d * A
           s4 == e * d
<1>12. t1 + t2 + t3 + t4 = x * y
  BY <1>2
<1>13. /\ t1 \in Int /\ t2 \in Int /\ t3 \in Int /\ t4 \in Int
       /\ s2 \in Int /\ s3 \in Int /\ s4 \in Int
       /\ Same(m, C, t1) /\ Same(m, s2, t2) /\ Same(m, s3, t3) /\ Same(m, s4, t4)
       /\ Same(m, U, C + s2) /\ Total(z) = (1 * U + s3 + s4) % m
  BY <1>5, <1>6, <1>7, <1>8, <1>10, <1>11
<1> HIDE DEF t1, t2, t3, t4, s2, s3, s4
<1>14. Same(m, C + s2, t1 + t2) /\ C + s2 \in Int /\ t1 + t2 \in Int
  BY <1>1, <1>2, <1>13, SameOps
<1>15. Same(m, U, t1 + t2)
  BY <1>13, <1>14 DEF Same
<1>16. Same(m, U + s3, t1 + t2 + t3) /\ U + s3 \in Int /\ t1 + t2 + t3 \in Int
  BY <1>1, <1>6, <1>13, <1>14, <1>15, SameOps
<1>17. Same(m, U + s3 + s4, t1 + t2 + t3 + t4)
  BY <1>1, <1>13, <1>16, SameOps
<1>18. 1 * U + s3 + s4 = U + s3 + s4
  BY <1>6
<1> QED
  BY <1>12, <1>13, <1>17, <1>18 DEF Same, m, AddUpToProduct

LEMMA BitRange ==
  ASSUME WordsAreBits, NEW v \in Int, NEW j \in Bits
  PROVE  Bit(v, j) \in 0 .. 1
<1> DEFINE p == 2 ^ j
<1>1. p \in Nat \ {0}
  BY WordFacts
<1> HIDE DEF p
<1>2. v \div p \in Int
  BY <1>1, ModDiv
<1>3. (v \div p) % 2 \in 0 .. 1
  BY <1>2
<1> QED
  BY <1>3 DEF Bit, p

\* In how many of their first k bits two words differ.
Differing(u, v, k) == {j \in 0 .. k - 1 : Bit(u, j) # Bit(v, j)}

Distance(u, v, k) == Cardinality(Differing(u, v, k))

LEMMA DifferingFacts ==
  ASSUME NEW u, NEW v, NEW k \in Nat
  PROVE  /\ IsFiniteSet(Differing(u, v, k))
         /\ Distance(u, v, k) \in 0 .. k
         /\ Distance(u, v, k) = k => Differing(u, v, k) = 0 .. k - 1
<1> DEFINE S == 0 .. k - 1
           D == Differing(u, v, k)
<1>1. IsFiniteSet(S) /\ Cardinality(S) = k
  <2>1. 0 \in Int /\ k - 1 \in Int
    OBVIOUS
  <2>2. IsFiniteSet(0 .. k - 1) /\ Cardinality(0 .. k - 1) = IF 0 > k - 1 THEN 0 ELSE k - 1 - 0 + 1
    BY <2>1, FS_Interval
  <2> QED
    BY <2>2
<1>2. D \in SUBSET S
  BY DEF Differing
<1> HIDE DEF S, D
<1>3. IsFiniteSet(D) /\ Cardinality(D) <= k /\ (Cardinality(D) = k => D = S)
  BY <1>1, <1>2, FS_Subset
<1>4. Cardinality(D) \in Nat
  BY <1>3, FS_CardinalityType
<1> QED
  BY <1>3, <1>4 DEF Distance, D, S

\* One more bit counts if it differs.
LEMMA DistanceStep ==
  ASSUME NEW u, NEW v, NEW k \in Nat \ {0}, NEW l, l = k - 1
  PROVE  Distance(u, v, k) = Distance(u, v, l) + (IF Bit(u, l) # Bit(v, l) THEN 1 ELSE 0)
<1> DEFINE D == Differing(u, v, l)
           E == Differing(u, v, k)
<1>1. l \in Nat /\ \A j : j \in 0 .. k - 1 <=> j \in 0 .. l - 1 \/ j = l
  OBVIOUS
<1>2. IsFiniteSet(D) /\ Cardinality(D) \in Nat
  BY <1>1, DifferingFacts DEF Distance
<1>3. l \notin D
  BY <1>1 DEF Differing
<1>4. CASE Bit(u, l) # Bit(v, l)
  <2>1. E = D \cup {l}
    BY <1>1, <1>4 DEF Differing
  <2> HIDE DEF D, E
  <2>2. Cardinality(D \cup {l}) = Cardinality(D) + 1
    BY <1>2, <1>3, FS_AddElement
  <2> QED
    BY <1>4, <2>1, <2>2 DEF Distance, D, E
<1>5. CASE Bit(u, l) = Bit(v, l)
  <2>1. E = D
    BY <1>1, <1>5 DEF Differing
  <2> HIDE DEF D, E
  <2>2. Cardinality(E) = Cardinality(D) + 0
    BY <1>2, <2>1
  <2> QED
    BY <1>5, <2>2 DEF Distance, D, E
<1> QED
  BY <1>4, <1>5

\* The distance of equal words, and of words with a bit in common.
LEMMA DistanceAtEnds ==
  ASSUME NEW u, NEW v, NEW k \in Nat
  PROVE  /\ Distance(u, v, k) = 0 <=> \A j \in 0 .. k - 1 : Bit(u, j) = Bit(v, j)
         /\ (\E j \in 0 .. k - 1 : Bit(u, j) = Bit(v, j)) => Distance(u, v, k) # k
         /\ Distance(u, v, 0) = 0
<1>1. ASSUME NEW i \in Nat
      PROVE  Distance(u, v, i) = 0 <=> Differing(u, v, i) = {}
  BY DifferingFacts, FS_EmptySet DEF Distance
<1>2. Distance(u, v, k) = 0 <=> \A j \in 0 .. k - 1 : Bit(u, j) = Bit(v, j)
  BY <1>1 DEF Differing
<1>3. ASSUME NEW j \in 0 .. k - 1, Bit(u, j) = Bit(v, j)
      PROVE  Distance(u, v, k) # k
  <2>1. j \notin Differing(u, v, k)
    BY <1>3 DEF Differing
  <2> QED
    BY <2>1, DifferingFacts
<1>4. Distance(u, v, 0) = 0
  BY <1>1 DEF Differing
<1> QED
  BY <1>2, <1>3, <1>4

\* The running sums of eqzEvaluate: s[p][j] is what party p has after j bits of
\* the public m1 and its shares r[j][p] of the bits of r1.
SumsBits(s, m1, r) ==
  \A p \in Party :
    /\ s[p] \in [0 .. RINGSIZEBITS -> Int]
    /\ s[p][0] = 0
    /\ \A j \in 1 .. RINGSIZEBITS :
         s[p][j] = (s[p][j - 1] + (IF p = 1 THEN Bit(m1, j - 1) ELSE 0)
                      + r[j - 1][p] - 2 * Bit(m1, j - 1) * r[j - 1][p]) % RingSize

\* r[j] are shares of the bits of r1.
BitsShared(r, r1) == \A j \in Bits : r[j] \in [Party -> Int] /\ Total(r[j]) = Bit(r1, j)

\* What a turn of the loop does: z is x plus the exclusive or of the public b and y.
AddsBit(z, x, b, y) ==
  \A p \in Party : z[p] = (x[p] + (IF p = 1 THEN b ELSE 0) + y[p] - 2 * b * y[p]) % RingSize

\* The shares of a sum and a bit y become those of the sum and whether y is b.
LEMMA SumOfBits ==
  ASSUME NEW x \in [Party -> Int], NEW y \in [Party -> Int], NEW z \in [Party -> Int],
         NEW b \in 0 .. 1, Total(y) \in 0 .. 1, AddsBit(z, x, b, y)
  PROVE  Total(z) = (Total(x) + (IF b # Total(y) THEN 1 ELSE 0)) % RingSize
<1> DEFINE e == 1 - 2 * b
           a == Total(y)
<1>1. RingSize \in Nat \ {0} /\ 1 \in Party /\ e \in Int /\ b \in Int
  BY RingSumAssumption DEF Party
<1>2. \A p \in Party : z[p] % RingSize = (1 * x[p] + e * y[p] + IF p = 1 THEN b ELSE 0) % RingSize
  <2> TAKE p \in Party
  <2> DEFINE w == 1 * x[p] + e * y[p] + IF p = 1 THEN b ELSE 0
  <2>1. x[p] \in Int /\ y[p] \in Int /\ (b = 0 \/ b = 1)
    OBVIOUS
  <2>2. x[p] + (IF p = 1 THEN b ELSE 0) + y[p] - 2 * b * y[p] = w /\ w \in Int
    BY <2>1
  <2>3. z[p] = w % RingSize
    BY <2>2 DEF AddsBit
  <2> HIDE DEF w
  <2>4. z[p] % RingSize = w % RingSize
    BY <1>1, <2>2, <2>3, ModMod
  <2> QED
    BY <2>4 DEF w
<1>3. SumsUp(z, 1, x, e, y, 1, b)
  BY <1>2 DEF SumsUp
<1> HIDE DEF e
<1>4. PICK f \in Int, h \in Int : f = e /\ h = b
  BY <1>1
<1>5. SumsUp(z, 1, x, f, y, 1, h)
  BY <1>3, <1>4
<1>6. Total(z) = (1 * Total(x) + f * Total(y) + h) % RingSize
  <2>1. /\ 1 \in Party /\ 1 \in Int /\ f \in Int /\ h \in Int
        /\ x \in [Party -> Int] /\ y \in [Party -> Int] /\ z \in [Party -> Int]
    BY <1>1
  <2> QED
    BY ONLY <2>1, <1>5, TotalOfSum
<1>7. e * a + b = IF b # a THEN 1 ELSE 0
  <2>1. (b = 0 \/ b = 1) /\ (a = 0 \/ a = 1)
    OBVIOUS
  <2> QED
    BY <2>1 DEF e
<1>8. Total(x) \in Int /\ a \in Int
  BY <1>1, TotalInRing DEF Ring
<1> DEFINE t == Total(x)
<1>9. Total(z) = (1 * t + e * a + b) % RingSize /\ 1 * t + e * a + b = t + (IF b # a THEN 1 ELSE 0)
  BY <1>1, <1>4, <1>6, <1>7, <1>8
<1> QED
  BY <1>9

\* They add up to the number of bits in which m1 and r1 differ.
LEMMA SumsAddUp ==
  ASSUME WordsAreBits, NEW m1 \in Int, NEW r1 \in Int,
         NEW r, BitsShared(r, r1), NEW s, SumsBits(s, m1, r)
  PROVE  \A j \in 0 .. RINGSIZEBITS :
            Total([p \in Party |-> s[p][j]]) = Distance(m1, r1, j) % RingSize
<1> DEFINE B == RINGSIZEBITS
           X(j) == [p \in Party |-> s[p][j]]
           T == {j \in 0 .. B : Total(X(j)) = Distance(m1, r1, j) % RingSize}
<1>1. B \in Nat \ {0} /\ RingSize \in Nat \ {0} /\ 1 \in Party
  BY WordFacts, RingSumAssumption DEF Party
<1>2. \A j \in 1 .. B : j - 1 \in Bits /\ j - 1 \in 0 .. B /\ j \in 0 .. B
  BY <1>1 DEF Bits
<1>3. \A j \in 0 .. B : X(j) \in [Party -> Int] /\ \A p \in Party : X(j)[p] = s[p][j]
  BY DEF SumsBits
<1>4. 0 \in T
  <2>1. \A p \in Party : X(0)[p] = 0
    BY <1>1, <1>3 DEF SumsBits
  <2>2. X(0) = [p \in Party |-> 0]
    BY <2>1
  <2>3. Total([p \in Party |-> 0]) = (nP * 0) % RingSize
    <3>1. 0 \in Int
      OBVIOUS
    <3> QED
      BY ONLY <3>1, TotalOfSame
  <2>4. nP * 0 = 0 /\ 0 % RingSize = 0
    BY <1>1, RingSumAssumption
  <2> QED
    <3>1. Distance(m1, r1, 0) = 0
      BY DistanceAtEnds
    <3> QED
      BY <1>1, <2>2, <2>3, <2>4, <3>1
<1>5. ASSUME NEW j \in 1 .. B, j - 1 \in T
      PROVE  j \in T
  <2> DEFINE b == Bit(m1, j - 1)
             y == r[j - 1]
             a == Bit(r1, j - 1)
             x == X(j - 1)
             z == X(j)
             D == Distance(m1, r1, j - 1)
             E == Distance(m1, r1, j)
  <2>1. b \in 0 .. 1 /\ a \in 0 .. 1 /\ Total(y) = a /\ y \in [Party -> Int]
    BY <1>2, BitRange DEF BitsShared
  <2>2. x \in [Party -> Int] /\ z \in [Party -> Int] /\ Total(x) = D % RingSize
    BY <1>2, <1>3, <1>5
  <2>3. \A p \in Party : z[p] = (x[p] + (IF p = 1 THEN b ELSE 0) + y[p] - 2 * b * y[p]) % RingSize
    BY <1>2, <1>3 DEF SumsBits
  <2>4. E = D + (IF b # a THEN 1 ELSE 0) /\ D \in Int /\ E \in Int
    <3>1. j \in Nat \ {0} /\ j - 1 \in Nat /\ j \in Nat
      BY <1>1
    <3>2. E = D + (IF b # a THEN 1 ELSE 0)
      <4> DEFINE l == j - 1
      <4>1. j \in Nat \ {0} /\ l = j - 1
        BY <3>1
      <4> HIDE DEF l
      <4>2. Distance(m1, r1, j) = Distance(m1, r1, l) + (IF Bit(m1, l) # Bit(r1, l) THEN 1 ELSE 0)
        BY <4>1, DistanceStep
      <4> QED
        BY <4>2 DEF l
    <3>3. D \in 0 .. j - 1 /\ E \in 0 .. j
      BY <3>1, DifferingFacts
    <3> QED
      BY <3>1, <3>2, <3>3
  <2> HIDE DEF b, y, a, x, z, D, E, X
  <2> DEFINE d == IF b # a THEN 1 ELSE 0
             t == D % RingSize
  <2>5. PICK f \in 0 .. 1 : f = b
    BY <2>1
  <2>6. AddsBit(z, x, f, y)
    BY <2>3, <2>5 DEF AddsBit
  <2>7. Total(z) = (Total(x) + (IF f # Total(y) THEN 1 ELSE 0)) % RingSize
    <3>1. /\ x \in [Party -> Int] /\ y \in [Party -> Int] /\ z \in [Party -> Int]
          /\ f \in 0 .. 1 /\ Total(y) \in 0 .. 1
      BY <2>1, <2>2
    <3> QED
      BY ONLY <2>6, <3>1, SumOfBits
  <2>8. t \in Int /\ d \in Int
    BY <1>1, <2>4
  <2>9. Total(z) = (t + d) % RingSize
    BY <2>1, <2>2, <2>5, <2>7
  <2> HIDE DEF d
  <2>10. Total(z) = (D + d) % RingSize
    BY <1>1, <2>4, <2>8, <2>9, ModInside
  <2>11. Total(z) = E % RingSize
    BY <2>4, <2>10 DEF d
  <2> QED
    BY <1>2, <2>11 DEF z, E
<1> HIDE DEF T, X
<1>6. \A j \in 0 .. B : j \in T
  BY <1>1, <1>4, <1>5, UpTo
<1> QED
  BY <1>6 DEF T, X, B

\* What an equality test of x opens: x + r1, then its distance from r1 plus r2.
OpenedForZero(x, r1, r2, m1, m2) ==
  /\ m1 = (x + r1) % RingSize
  /\ m2 = (Distance(m1, r1, RINGSIZEBITS) + r2) % RingSize

TellsZero(x, r2, m2) == m2 % RINGSIZEBITS = r2 <=> x = 0

\* The bit of r2 that the opened distance selects is set exactly when x is zero,
\* unless x + r1 and r1 differ in all their bits.
LEMMA DistanceTells ==
  ASSUME WordsAreBits, NEW x \in Ring, NEW r1 \in Ring, NEW r2 \in Bits,
         NEW m1, NEW m2, OpenedForZero(x, r1, r2, m1, m2),
         NEW j \in Bits, Bit(m1, j) = Bit(r1, j)
  PROVE  TellsZero(x, r2, m2)
<1> DEFINE B == RINGSIZEBITS
           R == RingSize
           D == Distance(m1, r1, B)
<1>0. m1 = (x + r1) % R /\ m2 = (D + r2) % R
  BY DEF OpenedForZero
<1>1. B \in Nat \ {0} /\ 2 * B <= R /\ R \in Nat \ {0} /\ Bits = 0 .. B - 1
  BY WordFacts, RingSumAssumption DEF Bits
<1>2. x \in 0 .. R - 1 /\ r1 \in 0 .. R - 1 /\ m1 \in 0 .. R - 1 /\ m1 \in Ring
  BY <1>0, <1>1 DEF Ring
<1>3. /\ D \in 0 .. B /\ D # B
      /\ D = 0 <=> \A i \in 0 .. B - 1 : Bit(m1, i) = Bit(r1, i)
  <2>1. B \in Nat /\ j \in 0 .. B - 1 /\ Bit(m1, j) = Bit(r1, j)
    BY <1>1
  <2> HIDE DEF B
  <2>2. D \in 0 .. B
    BY <2>1, DifferingFacts
  <2>3. /\ D = 0 <=> \A i \in 0 .. B - 1 : Bit(m1, i) = Bit(r1, i)
        /\ (\E i \in 0 .. B - 1 : Bit(m1, i) = Bit(r1, i)) => D # B
    BY <2>1, DistanceAtEnds
  <2> QED
    BY <2>1, <2>2, <2>3
<1>4. D = 0 <=> m1 = r1
  BY <1>1, <1>2, <1>3, BitsDetermine
<1> HIDE DEF B, R, D
<1>5. m1 = r1 <=> x = 0
  <2>1. CASE x + r1 < R
    <3>1. m1 = x + r1
      BY <1>0, <1>1, <1>2, <2>1
    <3> QED
      BY <1>2, <3>1
  <2>2. CASE ~(x + r1 < R)
    <3> DEFINE t == x + r1 - R
    <3>1. t \in 0 .. R - 1 /\ x + r1 = R * 1 + t /\ x + r1 \in Int
      BY <1>1, <1>2, <2>2
    <3> HIDE DEF t
    <3>2. (x + r1) % R = t
      <4>1. R \in Nat \ {0} /\ 1 \in Int /\ t \in 0 .. R - 1 /\ x + r1 \in Int
        BY <1>1, <3>1
      <4> QED
        BY ONLY <3>1, <4>1, ModUnique
    <3>3. m1 = t
      BY <1>0, <3>2
    <3>4. t # r1 /\ x # 0
      BY <1>1, <1>2, <2>2 DEF t
    <3> QED
      BY <3>3, <3>4
  <2> QED
    BY <2>1, <2>2
<1>6. r2 \in 0 .. B - 1 /\ D \in 0 .. B - 1
  BY <1>1, <1>3
<1>7. m2 = D + r2
  <2> DEFINE a == D + r2
  <2>1. a \in 0 .. R - 1
    BY <1>1, <1>6
  <2>2. m2 = a % R
    BY <1>0
  <2> HIDE DEF a
  <2>3. a % R = a
    BY <1>1, <2>1
  <2> QED
    BY <2>2, <2>3 DEF a
<1>8. m2 % B = r2 <=> D = 0
  <2>1. CASE D + r2 < B
    <3> DEFINE a == D + r2
    <3>1. a \in 0 .. B - 1
      BY <1>1, <1>6, <2>1
    <3>2. a = r2 <=> D = 0
      BY <1>1, <1>6
    <3> HIDE DEF a
    <3>3. a % B = a
      BY <1>1, <3>1
    <3>4. m2 = a
      BY <1>7 DEF a
    <3> QED
      BY <3>2, <3>3, <3>4
  <2>2. CASE ~(D + r2 < B)
    <3> DEFINE t == D + r2 - B
    <3>1. t \in 0 .. B - 1 /\ m2 = B * 1 + t /\ m2 \in Int
      BY <1>1, <1>6, <1>7, <2>2
    <3> HIDE DEF t
    <3>2. m2 % B = t
      <4>1. B \in Nat \ {0} /\ 1 \in Int
        BY <1>1
      <4> QED
        BY ONLY <3>1, <4>1, ModUnique
    <3>3. t # r2 /\ D # 0
      BY <1>1, <1>6, <2>2 DEF t
    <3> QED
      BY <3>2, <3>3
  <2> QED
    BY <2>1, <2>2
<1> QED
  BY <1>4, <1>5, <1>8 DEF B, TellsZero

\* When the parties of a set hold the same and the others nothing.
LEMMA TotalOfSet ==
  ASSUME NEW O, O \subseteq Party, NEW c \in Int
  PROVE  /\ Cardinality(O) \in Nat
         /\ Total([p \in Party |-> IF p \in O THEN c ELSE 0]) = (Cardinality(O) * c) % RingSize
<1> DEFINE x == [p \in Party |-> IF p \in O THEN c ELSE 0]
           X == Partial(x)
           Some(k) == {p \in O : p <= k}
           N(k) == Cardinality(Some(k))
           m == RingSize
           T == {k \in 0 .. nP : N(k) \in Nat /\ X[k] = (N(k) * c) % m}
<1>1. nP \in Nat \ {0} /\ m \in Nat \ {0} /\ \A p \in O : p \in Nat /\ p >= 1 /\ p <= nP
  <2>1. \A p \in O : p \in Party
    OBVIOUS
  <2> QED
    BY <2>1, RingSumAssumption DEF Party
<1>2. /\ X[0] = 0
      /\ \A k \in 1 .. nP : X[k] = (X[k - 1] + x[k]) % m
      /\ \A k \in 1 .. nP : x[k] = IF k \in O THEN c ELSE 0
  <2>1. x \in [Party -> Int]
    OBVIOUS
  <2> QED
    BY <2>1, PartialSteps DEF Party
<1> HIDE DEF x, X
<1>3. IsFiniteSet(O) /\ \A k \in Nat : IsFiniteSet(Some(k)) /\ N(k) \in Nat
  <2>1. IsFiniteSet(O)
    <3>1. IsFiniteSet(1 .. nP)
      BY <1>1, FS_Interval
    <3> QED
      BY <3>1, FS_Subset DEF Party
  <2> QED
    BY <2>1, FS_Subset, FS_CardinalityType
<1>4. \A k \in 1 .. nP : N(k) = N(k - 1) + IF k \in O THEN 1 ELSE 0
  <2> TAKE k \in 1 .. nP
  <2>1. IsFiniteSet(Some(k - 1)) /\ k \notin Some(k - 1)
    BY <1>1, <1>3
  <2>2. CASE k \in O
    <3>1. Some(k) = Some(k - 1) \cup {k}
      <4>1. \A p \in O : p <= k <=> p <= k - 1 \/ p = k
        BY <1>1
      <4> QED
        BY <2>2, <4>1
    <3> HIDE DEF Some
    <3> QED
      BY <2>1, <2>2, <3>1, FS_AddElement
  <2>3. CASE k \notin O
    <3>1. Some(k) = Some(k - 1)
      BY <1>1, <2>3
    <3>2. N(k - 1) \in Nat
      BY <1>1, <1>3
    <3> HIDE DEF Some
    <3> QED
      BY <2>3, <3>1, <3>2
  <2> QED
    BY <2>2, <2>3
<1>5. N(0) = 0
  <2>1. Some(0) = {}
    BY <1>1
  <2> HIDE DEF Some
  <2> QED
    BY <2>1, FS_EmptySet
<1>6. Some(nP) = O
  BY <1>1
<1> HIDE DEF N, m
<1>7. 0 \in T
  BY <1>1, <1>2, <1>5
<1>8. ASSUME NEW k \in 1 .. nP, k - 1 \in T
      PROVE  k \in T
  <2> DEFINE a == N(k - 1)
             b == IF k \in O THEN c ELSE 0
             u == a * c
  <2>1. a \in Nat /\ b \in Int /\ X[k - 1] = u % m /\ X[k] = (X[k - 1] + b) % m /\ u \in Int
    BY <1>2, <1>8
  <2>2. N(k) \in Nat /\ N(k) * c = u + b
    <3>1. CASE k \in O
      <4>1. N(k) = a + 1
        BY <1>4, <3>1
      <4> HIDE DEF a
      <4> QED
        BY <2>1, <3>1, <4>1
    <3>2. CASE k \notin O
      <4>1. N(k) = a
        BY <1>4, <2>1, <3>2
      <4> HIDE DEF a
      <4> QED
        BY <2>1, <3>2, <4>1
    <3> QED
      BY <3>1, <3>2
  <2> HIDE DEF a, b, u
  <2>3. X[k] = (u + b) % m
    <3>1. ((u % m) + b) % m = (u + b) % m
      BY <1>1, <2>1, ModInside
    <3> QED
      BY <2>1, <3>1
  <2> QED
    BY <2>2, <2>3
<1> HIDE DEF T
<1>9. nP \in T
  BY <1>1, <1>7, <1>8, UpTo
<1> QED
  BY <1>6, <1>9 DEF T, N, Total, X, x, m

=============================================================================
