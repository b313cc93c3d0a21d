----------------------------- MODULE SharesProofs -----------------------------
(***************************************************************************)
(* Shares and their secrets for any number of parties, variables and        *)
(* constants, and any ring of even size.  All of it rests on one fact about  *)
(* the aggregation loop, TotalLinear.                                       *)
(***************************************************************************)
EXTENDS Shares, OpsProofs
-----------------------------------------------------------------------------
(***************************************************************************)
(* The inductive invariant.  Slot 0 stays zero, so that the sum of what the  *)
(* parties hold is all there is to say of secret().                         *)
(***************************************************************************)

\* What the parties hold of v.
Held(v) == [p \in Party |-> as[p][v]]

HeldAddsUp == \A v \in Var : linear[v] => Total(Held(v)) = value[v]

IInv == TypeOK /\ SlotsAgree /\ HeldAddsUp
-----------------------------------------------------------------------------

\* What the assumptions say of the ring.
LEMMA RingFacts ==
  /\ RingSize \in Nat \ {0} /\ RingSize \div 2 \in Nat /\ RingSize >= 2
  /\ 0 \in Ring /\ 1 \in Ring
  /\ \A x \in Ring : x \in Int /\ x \in Nat /\ x % RingSize = x
  /\ \A x \in Int : x % RingSize \in Ring
BY RingSumAssumption, SharesAssumption DEF Ring

\* The operators of the share types stay in the ring.
LEMMA OperatorsTyped ==
  /\ \A x, y \in Ring : Plus(x, y) \in Ring /\ Minus(x, y) \in Ring
  /\ \A c \in Consts : Times(c) \in [Ring -> Ring]
  /\ \A k \in Amounts : ShiftLeft(k) \in [Ring -> Ring]
  /\ \A k \in Amounts : ShiftRight(k) \in [Ring -> Ring]
  /\ TopBit \in [Ring -> Ring]
<1>1. ASSUME NEW c \in Int
      PROVE  Times(c) \in [Ring -> Ring]
  BY RingFacts DEF Times
<1>2. \A x, y \in Ring : Plus(x, y) \in Ring
  BY RingFacts DEF Plus
<1>3. \A x, y \in Ring : Minus(x, y) \in Ring
  <2> TAKE x, y \in Ring
  <2>1. RingSize - 1 \in Int
    BY RingFacts
  <2>2. Times(RingSize - 1)[y] \in Ring
    BY <1>1, <2>1
  <2> QED
    BY <1>2, <2>2 DEF Minus
<1>4. \A c \in Consts : c \in Int
  BY RingFacts, SharesAssumption
<1>5. \A k \in Amounts : 2 ^ k \in Int /\ 2 ^ k > 0
  BY SharesAssumption
<1>6. ASSUME NEW k \in Amounts
      PROVE  ShiftLeft(k) \in [Ring -> Ring]
  BY <1>5, RingFacts DEF ShiftLeft
<1>7. ASSUME NEW k \in Amounts
      PROVE  ShiftRight(k) \in [Ring -> Ring]
  <2>1. \A x \in Nat, d \in Int : d > 0 => x \div d \in Nat /\ x \div d <= x
    OBVIOUS
  <2>2. \A x \in Ring : x \div (2 ^ k) \in Ring
    <3> TAKE x \in Ring
    <3> DEFINE d == 2 ^ k
    <3>1. d \in Int /\ d > 0
      BY <1>5
    <3> HIDE DEF d
    <3>2. x \div d \in Nat /\ x \div d <= x
      BY <2>1, <3>1, RingFacts
    <3>3. x \div d \in Ring
      BY <3>2, RingFacts DEF Ring
    <3> QED
      BY <3>3 DEF d
  <2> QED
    BY <2>2 DEF ShiftRight
<1>8. TopBit \in [Ring -> Ring]
  BY RingFacts DEF TopBit
<1> QED
  BY <1>1, <1>2, <1>3, <1>4, <1>6, <1>7, <1>8
-----------------------------------------------------------------------------
\* Scaling every share scales the secret: multiplication by a constant and the
\* shift to the left.
LEMMA TotalScaled ==
  ASSUME NEW c \in Int, NEW x \in [Party -> Ring], NEW z \in [Party -> Ring],
         \A p \in Party : z[p] = (x[p] * c) % RingSize
  PROVE  Total(z) = (Total(x) * c) % RingSize
<1>1. x \in [Party -> Int] /\ z \in [Party -> Int]
  BY RingFacts
<1>2. Total(x) \in Int
  BY <1>1, TotalInRing, RingFacts
<1>3. \A p \in Party : z[p] % RingSize = (c * x[p] + 0 * x[p]) % RingSize
  <2> TAKE p \in Party
  <2>1. x[p] \in Int /\ z[p] \in Ring
    BY <1>1
  <2>2. x[p] * c = c * x[p] + 0 * x[p]
    BY <2>1
  <2>3. z[p] = (x[p] * c) % RingSize /\ z[p] % RingSize = z[p]
    BY <2>1, RingFacts
  <2> QED
    BY <2>2, <2>3
<1>4. Total(z) = (c * Total(x) + 0 * Total(x)) % RingSize
  <2>1. Combines(z, c, x, 0, x)
    BY <1>3 DEF Combines
  <2> QED
    BY <1>1, <2>1, TotalLinear
<1>5. c * Total(x) + 0 * Total(x) = Total(x) * c
  BY <1>2
<1> QED
  BY <1>4, <1>5

\* Adding share by share adds the secrets.
LEMMA TotalPlus ==
  ASSUME NEW x \in [Party -> Ring], NEW y \in [Party -> Ring], NEW z \in [Party -> Ring],
         \A p \in Party : z[p] = Plus(x[p], y[p])
  PROVE  Total(z) = Plus(Total(x), Total(y))
<1>1. x \in [Party -> Int] /\ y \in [Party -> Int] /\ z \in [Party -> Int]
  BY RingFacts
<1>2. Total(x) \in Int /\ Total(y) \in Int
  BY <1>1, TotalInRing, RingFacts
<1>3. \A p \in Party : z[p] % RingSize = (1 * x[p] + 1 * y[p]) % RingSize
  <2> TAKE p \in Party
  <2>1. x[p] \in Int /\ y[p] \in Int /\ z[p] \in Ring
    BY <1>1
  <2>2. 1 * x[p] + 1 * y[p] = x[p] + y[p]
    BY <2>1
  <2>3. z[p] = (x[p] + y[p]) % RingSize /\ z[p] % RingSize = z[p]
    BY <2>1, RingFacts DEF Plus
  <2> QED
    BY <2>2, <2>3
<1>4. Total(z) = (1 * Total(x) + 1 * Total(y)) % RingSize
  <2>1. Combines(z, 1, x, 1, y)
    BY <1>3 DEF Combines
  <2> QED
    BY <1>1, <2>1, TotalLinear
<1>5. 1 * Total(x) + 1 * Total(y) = Total(x) + Total(y)
  BY <1>2
<1> QED
  BY <1>4, <1>5 DEF Plus

\* Subtraction through R(-1) subtracts the secrets.
LEMMA TotalMinus ==
  ASSUME NEW x \in [Party -> Ring], NEW y \in [Party -> Ring], NEW z \in [Party -> Ring],
         \A p \in Party : z[p] = Minus(x[p], y[p])
  PROVE  Total(z) = (Total(x) + RingSize - Total(y)) % RingSize
<1> DEFINE n == [p \in Party |-> (y[p] * (RingSize - 1)) % RingSize]
           t == Total(y)
           s == Total(x)
<1>1. n \in [Party -> Ring] /\ \A p \in Party : n[p] = (y[p] * (RingSize - 1)) % RingSize
  BY RingFacts
<1>2. x \in [Party -> Int] /\ y \in [Party -> Int] /\ RingSize - 1 \in Int
  BY RingFacts
<1>3. s \in Int /\ t \in Int
  BY <1>2, TotalInRing, RingFacts
<1>4. Total(n) = (t * (RingSize - 1)) % RingSize
  BY <1>1, <1>2, TotalScaled
<1>5. \A p \in Party : z[p] = Plus(x[p], n[p])
  BY DEF Minus, Times
<1>6. Total(z) = Plus(s, Total(n))
  BY <1>1, <1>5, TotalPlus
<1> HIDE DEF n, s, t
<1> DEFINE m == RingSize
           u == t * (m - 1)
           w == s + m - t
<1>7. m \in Nat \ {0} /\ u \in Int /\ w \in Int /\ s + u \in Int /\ t - 1 \in Int
  BY <1>3, RingFacts
<1>8. s + u = w + m * (t - 1)
  BY <1>3, <1>7
<1>9. Total(z) = (s + (u % m)) % m
  BY <1>4, <1>6 DEF Plus
<1> HIDE DEF m, u, w
<1>10. u % m \in Int /\ Same(m, u % m, u) /\ Same(m, s, s)
  BY <1>3, <1>7, SameRemainder
<1>11. Same(m, s + (u % m), s + u)
  BY <1>3, <1>7, <1>10, SameOps
<1>12. Same(m, s + u, w)
  BY <1>7, <1>8, SameByMultiple
<1> QED
  BY <1>9, <1>11, <1>12 DEF Same, m, w, s, t

\* A constant that one party adds is added to the secret once.
LEMMA TotalOneAdds ==
  ASSUME NEW q \in Party, NEW c \in Ring, NEW x \in [Party -> Ring], NEW z \in [Party -> Ring],
         \A p \in Party : z[p] = IF p = q THEN Plus(x[p], c) ELSE x[p]
  PROVE  Total(z) = Plus(Total(x), c)
<1> DEFINE y == [p \in Party |-> IF p = q THEN c ELSE 0]
<1>1. y \in [Party -> Ring] /\ \A p \in Party : y[p] = IF p = q THEN c ELSE 0
  BY RingFacts
<1> HIDE DEF y
<1>2. y \in [Party -> Int] /\ c \in Int /\ c % RingSize = c
  BY <1>1, RingFacts
<1>3. Total(y) = c
  BY <1>1, <1>2, TotalOfOne
<1>4. \A p \in Party : z[p] = Plus(x[p], y[p])
  <2> TAKE p \in Party
  <2>1. x[p] \in Ring /\ Plus(x[p], 0) = x[p]
    BY RingFacts DEF Plus
  <2> QED
    BY <1>1, <2>1
<1> QED
  BY <1>1, <1>3, <1>4, TotalPlus
-----------------------------------------------------------------------------
LEMMA PartyIsNode ==
  0 \in Node /\ \A p \in Party : p \in Node /\ p # 0
BY RingSumAssumption DEF Party, Node

\* The secret of a TPShare is the sum over the parties' slots.
LEMMA SecretIsSum ==
  ASSUME NEW t \in [Node -> Ring], t[0] = 0
  PROVE  secret(t) = Total([p \in Party |-> t[p]])
<1> DEFINE x == [p \in Party |-> t[p]]
<1>1. x \in [Party -> Int]
  BY RingFacts DEF Node, Party
<1> HIDE DEF x
<1>2. Total(x) \in Ring
  BY <1>1, TotalInRing
<1>3. secret(t) = (t[0] + Total(x)) % RingSize
  BY DEF secret, Plus, x
<1>4. 0 + Total(x) = Total(x) /\ Total(x) % RingSize = Total(x)
  BY <1>2, RingFacts
<1> QED
  BY <1>3, <1>4 DEF x

LEMMA HeldTyped ==
  ASSUME TypeOK, NEW v \in Var
  PROVE  Held(v) \in [Party -> Ring] /\ \A p \in Party : Held(v)[p] = as[p][v]
<1>1. as \in [Party -> [Var -> Ring]]
  BY DEF TypeOK
<1> QED
  BY <1>1 DEF Held

\* The two parts of SharesAddUp, the parties' and the dealer's.
LEMMA InvariantGivesSums ==
  ASSUME IInv
  PROVE  SharesAddUp
<1>1. TypeOK /\ SlotsAgree /\ HeldAddsUp
  BY DEF IInv
<1>2. ASSUME NEW v \in Var, linear[v]
      PROVE  Total([p \in Party |-> as[p][v]]) = value[v]
  BY <1>1, <1>2 DEF HeldAddsUp, Held
<1>3. ASSUME NEW v \in Var, linear[v], ~moved[v]
      PROVE  secret(tp[v]) = value[v]
  <2>1. tp[v] \in [Node -> Ring] /\ tp[v][0] = 0
    BY <1>1 DEF TypeOK
  <2>2. [p \in Party |-> tp[v][p]] = [p \in Party |-> as[p][v]]
    BY <1>1, <1>3 DEF SlotsAgree, getAS
  <2> QED
    BY <1>2, <1>3, <2>1, <2>2, SecretIsSum
<1> QED
  BY <1>2, <1>3 DEF SharesAddUp

LEMMA InitEstablishes ==
  Init => IInv
<1> SUFFICES ASSUME Init
             PROVE  IInv
  OBVIOUS
<1>1. \A v \in Var : tp[v] \in [Node -> Ring] /\ tp[v][0] = 0
  BY DEF Init
<1>2. \A v \in Var : secret(tp[v]) = Total([p \in Party |-> tp[v][p]])
  BY <1>1, SecretIsSum
<1>3. as = [p \in Party |-> [v \in Var |-> tp[v][p]]]
  BY DEF Init, getAS
<1>4. \A v \in Var : \A p \in Party : tp[v][p] \in Ring
  BY <1>1, PartyIsNode
<1>5. \A v \in Var : secret(tp[v]) \in Ring
  <2> TAKE v \in Var
  <2>1. [p \in Party |-> tp[v][p]] \in [Party -> Int]
    BY <1>4, RingFacts
  <2> QED
    BY <1>2, <2>1, TotalInRing
<1>6. TypeOK
  <2>1. as \in [Party -> [Var -> Ring]]
    BY <1>3, <1>4
  <2>2. value \in [Var -> Ring]
    BY <1>5 DEF Init
  <2> QED
    BY <2>1, <2>2 DEF Init, TypeOK
<1>7. SlotsAgree
  BY <1>3 DEF SlotsAgree, getAS
<1>8. HeldAddsUp
  <2>1. \A v \in Var : Held(v) = [p \in Party |-> tp[v][p]]
    BY <1>3 DEF Held
  <2> QED
    BY <1>2, <2>1 DEF HeldAddsUp, Init
<1> QED
  BY <1>6, <1>7, <1>8 DEF IInv
-----------------------------------------------------------------------------
\* One operator on one share: what the dealer does in every slot, the party
\* does to its own.
LEMMA ApplyKeeps ==
  ASSUME IInv, NEW v \in Var, NEW f \in [Ring -> Ring], NEW isLinear \in BOOLEAN,
         Apply(v, f, isLinear),
         isLinear => \A x, z \in [Party -> Ring] :
                        (\A p \in Party : z[p] = f[x[p]]) => Total(z) = f[Total(x)],
         0 \in Ring
  PROVE  IInv'
<1>1. TypeOK /\ SlotsAgree /\ HeldAddsUp
  BY DEF IInv
<1>2. /\ tp' = [tp EXCEPT ![v] = SlotsOf(tp[v], f)]
      /\ as' = [p \in Party |-> [as[p] EXCEPT ![v] = f[as[p][v]]]]
      /\ linear' = [linear EXCEPT ![v] = linear[v] /\ isLinear]
      /\ value' = [value EXCEPT ![v] = IF linear[v] /\ isLinear THEN f[value[v]] ELSE 0]
      /\ moved' = moved
  BY <1>1 DEF Apply, TypeOK
<1>3. /\ tp[v] \in [Node -> Ring] /\ tp[v][0] = 0 /\ value[v] \in Ring
      /\ \A p \in Party : as[p] \in [Var -> Ring] /\ p \in Node /\ p # 0
      /\ 0 \in Node
  BY <1>1, PartyIsNode DEF TypeOK
<1>4. SlotsOf(tp[v], f) \in [Node -> Ring] /\ SlotsOf(tp[v], f)[0] = 0
  BY <1>3 DEF SlotsOf
<1>5. TypeOK'
  <2>1. tp' \in [Var -> {t \in [Node -> Ring] : t[0] = 0}]
    BY <1>1, <1>2, <1>4 DEF TypeOK
  <2>2. as' \in [Party -> [Var -> Ring]]
    BY <1>2, <1>3
  <2>3. value' \in [Var -> Ring]
    BY <1>1, <1>2, <1>3 DEF TypeOK
  <2>4. linear' \in [Var -> BOOLEAN] /\ moved' \in [Var -> BOOLEAN]
    BY <1>1, <1>2 DEF TypeOK
  <2> QED
    BY <2>1, <2>2, <2>3, <2>4 DEF TypeOK
<1>6. SlotsAgree'
  <2>1. SUFFICES ASSUME NEW w \in Var, ~moved[w], NEW p \in Party
                 PROVE  as'[p][w] = tp'[w][p]
    BY <1>2 DEF SlotsAgree, getAS
  <2>2. as[p][w] = tp[w][p]
    BY <1>1, <2>1 DEF SlotsAgree, getAS
  <2>3. CASE w = v
    <3>1. as'[p][v] = f[as[p][v]]
      BY <1>2, <1>3
    <3>2. tp'[v][p] = f[tp[v][p]]
      BY <1>1, <1>2, <1>3 DEF SlotsOf, TypeOK
    <3> QED
      BY <2>2, <2>3, <3>1, <3>2
  <2>4. CASE w # v
    BY <1>1, <1>2, <1>3, <2>2, <2>4 DEF TypeOK
  <2> QED
    BY <2>3, <2>4
<1>7. HeldAddsUp'
  <2>1. SUFFICES ASSUME NEW w \in Var, linear'[w]
                 PROVE  Total(Held(w)') = value'[w]
    BY DEF HeldAddsUp
  <2>2. Held(w) \in [Party -> Ring] /\ \A p \in Party : Held(w)[p] = as[p][w]
    BY <1>1, HeldTyped
  <2>3. Held(w)' \in [Party -> Ring] /\ \A p \in Party : Held(w)'[p] = as'[p][w]
    BY <1>5 DEF TypeOK, Held
  <2>4. CASE w = v
    <3>1. linear[v] /\ isLinear
      BY <1>1, <1>2, <2>1, <2>4 DEF TypeOK
    <3>2. \A p \in Party : Held(w)'[p] = f[Held(w)[p]]
      BY <1>2, <1>3, <2>2, <2>3, <2>4
    <3>3. Total(Held(w)') = f[Total(Held(w))]
      BY <2>2, <2>3, <3>1, <3>2
    <3>4. Total(Held(w)) = value[v]
      BY <1>1, <2>4, <3>1 DEF HeldAddsUp
    <3>5. value'[v] = f[value[v]]
      BY <1>1, <1>2, <3>1 DEF TypeOK
    <3> QED
      BY <2>4, <3>3, <3>4, <3>5
  <2>5. CASE w # v
    <3>1. Held(w)' = Held(w)
      BY <1>2, <1>3, <2>5 DEF Held
    <3>2. linear[w] /\ value'[w] = value[w]
      BY <1>1, <1>2, <2>1, <2>5 DEF TypeOK
    <3> QED
      BY <1>1, <3>1, <3>2 DEF HeldAddsUp
  <2> QED
    BY <2>4, <2>5
<1> QED
  BY <1>5, <1>6, <1>7 DEF IInv

\* g, share by share, is h on the secrets.
Lifts(g, h) ==
  \A x, y, z \in [Party -> Ring] :
     (\A p \in Party : z[p] = g[x[p]][y[p]]) => Total(z) = h[Total(x)][Total(y)]

\* v becomes g of v and w, in every slot but the dealer's and at every party.
Combine(v, w, g) ==
  /\ tp' = [tp EXCEPT ![v] =
              [i \in Node |-> IF i = 0 THEN tp[v][0] ELSE g[tp[v][i]][tp[w][i]]]]
  /\ as' = [p \in Party |-> [as[p] EXCEPT ![v] = g[as[p][v]][as[p][w]]]]

\* A step from two shares, which may be the same one: x += x and x -= x.
LEMMA CombineKeeps ==
  ASSUME IInv, NEW v \in Var, NEW w \in Var,
         NEW g \in [Ring -> [Ring -> Ring]], NEW h \in [Ring -> [Ring -> Ring]],
         Combine(v, w, g), Meets(v, w, h[value[v]][value[w]]), Lifts(g, h)
  PROVE  IInv'
<1>1. TypeOK /\ SlotsAgree /\ HeldAddsUp
  BY DEF IInv
<1>2. /\ linear' = [linear EXCEPT ![v] = linear[v] /\ linear[w]]
      /\ value' = [value EXCEPT ![v] = IF linear[v] /\ linear[w]
                                       THEN h[value[v]][value[w]] ELSE 0]
      /\ moved' = [moved EXCEPT ![v] = moved[v] \/ moved[w]]
  BY <1>1 DEF Meets, TypeOK
<1>3. /\ tp[v] \in [Node -> Ring] /\ tp[v][0] = 0 /\ tp[w] \in [Node -> Ring]
      /\ value[v] \in Ring /\ value[w] \in Ring
      /\ \A p \in Party : as[p] \in [Var -> Ring] /\ p \in Node /\ p # 0
      /\ 0 \in Node /\ 0 \in Ring
  BY <1>1, PartyIsNode, RingFacts DEF TypeOK
<1> DEFINE slots == [i \in Node |-> IF i = 0 THEN tp[v][0] ELSE g[tp[v][i]][tp[w][i]]]
<1>4. slots \in [Node -> Ring] /\ slots[0] = 0
  BY <1>3
<1>5. \A p \in Party : slots[p] = g[tp[v][p]][tp[w][p]]
  BY <1>3
<1>6. tp' = [tp EXCEPT ![v] = slots]
  BY DEF Combine
<1>6a. \A p \in Party : as'[p] = [as[p] EXCEPT ![v] = g[as[p][v]][as[p][w]]]
  BY DEF Combine
<1>6b. as' = [p \in Party |-> as'[p]]
  BY DEF Combine
<1>6c. \A p \in Party : /\ as'[p] \in [Var -> Ring]
                       /\ as'[p][v] = g[as[p][v]][as[p][w]]
                       /\ \A u \in Var \ {v} : as'[p][u] = as[p][u]
  <2> TAKE p \in Party
  <2>1. as[p] \in [Var -> Ring] /\ as'[p] = [as[p] EXCEPT ![v] = g[as[p][v]][as[p][w]]]
    BY <1>3, <1>6a
  <2>2. as[p][v] \in Ring /\ as[p][w] \in Ring
    BY <1>3
  <2>3. g[as[p][v]][as[p][w]] \in Ring
    BY <2>2
  <2> QED
    BY <2>1, <2>3
<1> HIDE DEF slots
<1>7. TypeOK'
  <2>1. tp' \in [Var -> {t \in [Node -> Ring] : t[0] = 0}]
    BY <1>1, <1>4, <1>6 DEF TypeOK
  <2>2. as' \in [Party -> [Var -> Ring]]
    BY <1>6b, <1>6c
  <2>3. value' \in [Var -> Ring]
    BY <1>1, <1>2, <1>3 DEF TypeOK
  <2>4. linear' \in [Var -> BOOLEAN] /\ moved' \in [Var -> BOOLEAN]
    BY <1>1, <1>2 DEF TypeOK
  <2> QED
    BY <2>1, <2>2, <2>3, <2>4 DEF TypeOK
<1>8. SlotsAgree'
  <2>1. SUFFICES ASSUME NEW u \in Var, ~moved'[u], NEW p \in Party
                 PROVE  as'[p][u] = tp'[u][p]
    BY DEF SlotsAgree, getAS
  <2>2. CASE u = v
    <3>1. ~moved[v] /\ ~moved[w]
      BY <1>1, <1>2, <2>1, <2>2 DEF TypeOK
    <3>2. as[p][v] = tp[v][p] /\ as[p][w] = tp[w][p]
      BY <1>1, <3>1 DEF SlotsAgree, getAS
    <3>3. as'[p][v] = g[as[p][v]][as[p][w]]
      BY <1>6c
    <3>4. tp'[v][p] = g[tp[v][p]][tp[w][p]]
      BY <1>1, <1>5, <1>6 DEF TypeOK
    <3> QED
      BY <2>2, <3>2, <3>3, <3>4
  <2>3. CASE u # v
    <3>1. ~moved[u]
      BY <1>1, <1>2, <2>1, <2>3 DEF TypeOK
    <3>2. as[p][u] = tp[u][p]
      BY <1>1, <3>1 DEF SlotsAgree, getAS
    <3>3. as'[p][u] = as[p][u] /\ tp'[u] = tp[u]
      BY <1>1, <1>6c, <1>6, <2>3 DEF TypeOK
    <3> QED
      BY <3>2, <3>3
  <2> QED
    BY <2>2, <2>3
<1>9. HeldAddsUp'
  <2>1. SUFFICES ASSUME NEW u \in Var, linear'[u]
                 PROVE  Total(Held(u)') = value'[u]
    BY DEF HeldAddsUp
  <2>2. \A a \in Var : Held(a) \in [Party -> Ring] /\ \A p \in Party : Held(a)[p] = as[p][a]
    BY <1>1, HeldTyped
  <2>3. Held(u)' \in [Party -> Ring] /\ \A p \in Party : Held(u)'[p] = as'[p][u]
    BY <1>7 DEF TypeOK, Held
  <2>4. CASE u = v
    <3>1. linear[v] /\ linear[w]
      BY <1>1, <1>2, <2>1, <2>4 DEF TypeOK
    <3>2. \A p \in Party : Held(u)'[p] = g[Held(v)[p]][Held(w)[p]]
      BY <1>6c, <2>2, <2>3, <2>4
    <3>3. Total(Held(u)') = h[Total(Held(v))][Total(Held(w))]
      BY <2>2, <2>3, <3>2 DEF Lifts
    <3>4. Total(Held(v)) = value[v] /\ Total(Held(w)) = value[w]
      BY <1>1, <3>1 DEF HeldAddsUp
    <3>5. value'[v] = h[value[v]][value[w]]
      BY <1>1, <1>2, <3>1 DEF TypeOK
    <3> QED
      BY <2>4, <3>3, <3>4, <3>5
  <2>5. CASE u # v
    <3>1. Held(u)' = Held(u)
      BY <1>6c, <2>5 DEF Held
    <3>2. linear[u] /\ value'[u] = value[u]
      BY <1>1, <1>2, <2>1, <2>5 DEF TypeOK
    <3> QED
      BY <1>1, <3>1, <3>2 DEF HeldAddsUp
  <2> QED
    BY <2>4, <2>5
<1> QED
  BY <1>7, <1>8, <1>9 DEF IInv

LEMMA CopyKeeps ==
  ASSUME IInv, NEW v \in Var, NEW w \in Var, Copy(v, w)
  PROVE  IInv'
<1>1. TypeOK /\ SlotsAgree /\ HeldAddsUp
  BY DEF IInv
<1>2. /\ tp' = [tp EXCEPT ![v] = tp[w]]
      /\ as' = [p \in Party |-> [as[p] EXCEPT ![v] = as[p][w]]]
      /\ value' = [value EXCEPT ![v] = value[w]]
      /\ linear' = [linear EXCEPT ![v] = linear[w]]
      /\ moved' = [moved EXCEPT ![v] = moved[w]]
  BY DEF Copy
<1>3. TypeOK'
  BY <1>1, <1>2 DEF TypeOK
<1>4. ASSUME NEW u \in Var
      PROVE  LET a == IF u = v THEN w ELSE u
             IN  /\ tp'[u] = tp[a] /\ value'[u] = value[a]
                 /\ linear'[u] = linear[a] /\ moved'[u] = moved[a]
                 /\ \A p \in Party : as'[p][u] = as[p][a]
  BY <1>1, <1>2 DEF TypeOK
<1>5. SlotsAgree'
  <2> SUFFICES ASSUME NEW u \in Var, ~moved'[u], NEW p \in Party
               PROVE  as'[p][u] = tp'[u][p]
    BY DEF SlotsAgree, getAS
  <2>1. PICK a \in Var : tp'[u] = tp[a] /\ moved'[u] = moved[a] /\ as'[p][u] = as[p][a]
    BY <1>4
  <2>2. as[p][a] = tp[a][p]
    BY <1>1, <2>1 DEF SlotsAgree, getAS
  <2> QED
    BY <2>1, <2>2
<1>6. HeldAddsUp'
  <2>1. SUFFICES ASSUME NEW u \in Var, linear'[u]
                 PROVE  Total(Held(u)') = value'[u]
    BY DEF HeldAddsUp
  <2> DEFINE a == IF u = v THEN w ELSE u
  <2>2. a \in Var /\ linear[a] /\ value'[u] = value[a]
    BY <1>4, <2>1
  <2>3. Held(u)' = Held(a)
    BY <1>4 DEF Held
  <2> HIDE DEF a
  <2> QED
    BY <1>1, <2>2, <2>3 DEF HeldAddsUp
<1> QED
  BY <1>3, <1>5, <1>6 DEF IInv

LEMMA AddConstantKeeps ==
  ASSUME IInv, NEW v \in Var, NEW q \in Party, AddConstant(v, q)
  PROVE  IInv'
<1>1. TypeOK /\ SlotsAgree /\ HeldAddsUp
  BY DEF IInv
<1>2. PICK c \in Consts :
        /\ as' = [as EXCEPT ![q][v] = Plus(as[q][v], c)]
        /\ value' = [value EXCEPT ![v] = IF linear[v] THEN Plus(value[v], c) ELSE 0]
        /\ moved' = [moved EXCEPT ![v] = TRUE]
        /\ tp' = tp /\ linear' = linear
  BY DEF AddConstant
<1>3. c \in Ring /\ as[q][v] \in Ring /\ value[v] \in Ring /\ 0 \in Ring
  BY <1>1, SharesAssumption, RingFacts DEF TypeOK
<1>4. Plus(as[q][v], c) \in Ring /\ Plus(value[v], c) \in Ring
  BY <1>3, OperatorsTyped
<1>5. TypeOK'
  <2>1. as' \in [Party -> [Var -> Ring]]
    BY <1>1, <1>2, <1>4 DEF TypeOK
  <2>2. value' \in [Var -> Ring]
    BY <1>1, <1>2, <1>3, <1>4 DEF TypeOK
  <2> QED
    BY <1>1, <1>2, <2>1, <2>2 DEF TypeOK
<1>6. \A p \in Party : \A u \in Var :
         as'[p][u] = IF p = q /\ u = v THEN Plus(as[p][u], c) ELSE as[p][u]
  BY <1>1, <1>2 DEF TypeOK
<1>7. SlotsAgree'
  <2>1. SUFFICES ASSUME NEW u \in Var, ~moved'[u], NEW p \in Party
                 PROVE  as'[p][u] = tp'[u][p]
    BY DEF SlotsAgree, getAS
  <2>2. u # v /\ ~moved[u]
    BY <1>1, <1>2, <2>1 DEF TypeOK
  <2>3. as[p][u] = tp[u][p] /\ tp' = tp
    BY <1>1, <1>2, <2>2 DEF SlotsAgree, getAS
  <2>4. as'[p][u] = as[p][u]
    BY <1>6, <2>2
  <2> QED
    BY <2>3, <2>4
<1>8. HeldAddsUp'
  <2>1. SUFFICES ASSUME NEW u \in Var, linear[u]
                 PROVE  Total(Held(u)') = value'[u]
    BY <1>2 DEF HeldAddsUp
  <2>2. Held(u) \in [Party -> Ring] /\ \A p \in Party : Held(u)[p] = as[p][u]
    BY <1>1, HeldTyped
  <2>3. Held(u)' \in [Party -> Ring] /\ \A p \in Party : Held(u)'[p] = as'[p][u]
    BY <1>5 DEF TypeOK, Held
  <2>4. Total(Held(u)) = value[u]
    BY <1>1, <2>1 DEF HeldAddsUp
  <2>5. CASE u = v
    <3>1. \A p \in Party : Held(u)'[p] = IF p = q THEN Plus(Held(u)[p], c) ELSE Held(u)[p]
      BY <1>6, <2>2, <2>3, <2>5
    <3>2. Total(Held(u)') = Plus(Total(Held(u)), c)
      BY <1>3, <2>2, <2>3, <3>1, TotalOneAdds
    <3>3. value'[v] = Plus(value[v], c)
      BY <1>1, <1>2, <2>1, <2>5 DEF TypeOK
    <3> QED
      BY <2>4, <2>5, <3>2, <3>3
  <2>6. CASE u # v
    <3>1. Held(u)' = Held(u)
      BY <1>6, <2>6 DEF Held
    <3>2. value'[u] = value[u]
      BY <1>1, <1>2, <2>6 DEF TypeOK
    <3> QED
      BY <2>4, <3>1, <3>2
  <2> QED
    BY <2>5, <2>6
<1> QED
  BY <1>5, <1>7, <1>8 DEF IInv
-----------------------------------------------------------------------------
\* Which operator does what.
LEMMA NextKeeps ==
  IInv /\ [Next]_vars => IInv'
<1>1. SUFFICES ASSUME IInv, [Next]_vars
               PROVE  IInv'
  OBVIOUS
<1>2. \A f \in [Ring -> Ring], v \in Var, l \in BOOLEAN :
        /\ Apply(v, f, l)
        /\ l => \A x, z \in [Party -> Ring] :
                  (\A p \in Party : z[p] = f[x[p]]) => Total(z) = f[Total(x)]
        => IInv'
  BY <1>1, ApplyKeeps, RingFacts
<1>3. \A x \in [Party -> Ring] : Total(x) \in Ring
  <2> TAKE x \in [Party -> Ring]
  <2>1. x \in [Party -> Int]
    BY RingFacts
  <2> QED
    BY <2>1, TotalInRing
<1>4. ASSUME NEW c \in Int, NEW f \in [Ring -> Ring], f = [x \in Ring |-> (x * c) % RingSize]
      PROVE  \A x, z \in [Party -> Ring] :
               (\A p \in Party : z[p] = f[x[p]]) => Total(z) = f[Total(x)]
  <2> TAKE x, z \in [Party -> Ring]
  <2>1. HAVE \A p \in Party : z[p] = f[x[p]]
  <2>2. \A p \in Party : z[p] = (x[p] * c) % RingSize
    BY <1>4, <2>1
  <2>3. Total(z) = (Total(x) * c) % RingSize
    BY <2>2, TotalScaled
  <2> QED
    BY <1>3, <1>4, <2>3
<1>5. ASSUME NEW v \in Var, Multiply(v)
      PROVE  IInv'
  <2>1. PICK c \in Consts : Apply(v, Times(c), TRUE)
    BY <1>5 DEF Multiply
  <2>2. c \in Int /\ Times(c) \in [Ring -> Ring]
    BY SharesAssumption, RingFacts, OperatorsTyped
  <2>3. Times(c) = [x \in Ring |-> (x * c) % RingSize]
    BY DEF Times
  <2> QED
    BY <1>2, <1>4, <2>1, <2>2, <2>3
<1>6. ASSUME NEW v \in Var, Shl(v)
      PROVE  IInv'
  <2>1. PICK k \in Amounts : Apply(v, ShiftLeft(k), TRUE)
    BY <1>6 DEF Shl
  <2> DEFINE c == 2 ^ k
  <2>2. c \in Int /\ ShiftLeft(k) \in [Ring -> Ring]
    BY SharesAssumption, OperatorsTyped
  <2>3. ShiftLeft(k) = [x \in Ring |-> (x * c) % RingSize]
    BY DEF ShiftLeft
  <2> HIDE DEF c
  <2> QED
    BY <1>2, <1>4, <2>1, <2>2, <2>3
<1>7. ASSUME NEW v \in Var, Shr(v)
      PROVE  IInv'
  BY <1>2, <1>7, OperatorsTyped DEF Shr
<1>8. ASSUME NEW v \in Var, Shift(v)
      PROVE  IInv'
  BY <1>2, <1>8, OperatorsTyped DEF Shift
<1>9. ASSUME NEW v \in Var, NEW w \in Var, AddTo(v, w)
      PROVE  IInv'
  <2> DEFINE g == [x \in Ring |-> [y \in Ring |-> Plus(x, y)]]
  <2>1. g \in [Ring -> [Ring -> Ring]] /\ \A x, y \in Ring : g[x][y] = Plus(x, y)
    BY OperatorsTyped
  <2> HIDE DEF g
  <2>2. TypeOK /\ value[v] \in Ring /\ value[w] \in Ring
    BY <1>1 DEF IInv, TypeOK
  <2>3. \A i \in Node : tp[v][i] \in Ring /\ tp[w][i] \in Ring
    BY <2>2 DEF TypeOK
  <2>4. \A p \in Party : as[p][v] \in Ring /\ as[p][w] \in Ring
    BY <2>2 DEF TypeOK
  <2>5. Combine(v, w, g)
    <3>1. tp' = [tp EXCEPT ![v] =
                  [i \in Node |-> IF i = 0 THEN tp[v][0] ELSE g[tp[v][i]][tp[w][i]]]]
      <4>1. [i \in Node |-> IF i = 0 THEN tp[v][0] ELSE g[tp[v][i]][tp[w][i]]] =
            [i \in Node |-> IF i = 0 THEN tp[v][0] ELSE Plus(tp[v][i], tp[w][i])]
        BY <2>1, <2>3
      <4> QED
        BY <1>9, <4>1 DEF AddTo
    <3>2. as' = [p \in Party |-> [as[p] EXCEPT ![v] = g[as[p][v]][as[p][w]]]]
      BY <1>9, <2>1, <2>2, <2>4 DEF AddTo, TypeOK
    <3> QED
      BY <3>1, <3>2 DEF Combine
  <2>6. Meets(v, w, g[value[v]][value[w]])
    BY <1>9, <2>1, <2>2 DEF AddTo
  <2>7. Lifts(g, g)
    <3>1. SUFFICES ASSUME NEW x \in [Party -> Ring], NEW y \in [Party -> Ring],
                          NEW z \in [Party -> Ring],
                          \A p \in Party : z[p] = g[x[p]][y[p]]
                   PROVE  Total(z) = g[Total(x)][Total(y)]
      BY DEF Lifts
    <3>2. \A p \in Party : z[p] = Plus(x[p], y[p])
      BY <2>1, <3>1
    <3>3. Total(z) = Plus(Total(x), Total(y))
      BY <3>2, TotalPlus
    <3> QED
      BY <1>3, <2>1, <3>3
  <2> QED
    BY <1>1, <2>1, <2>5, <2>6, <2>7, CombineKeeps
<1>10. ASSUME NEW v \in Var, NEW w \in Var, SubtractFrom(v, w)
       PROVE  IInv'
  <2> DEFINE g == [x \in Ring |-> [y \in Ring |-> Minus(x, y)]]
             h == [x \in Ring |-> [y \in Ring |-> (x + RingSize - y) % RingSize]]
  <2>1. g \in [Ring -> [Ring -> Ring]] /\ \A x, y \in Ring : g[x][y] = Minus(x, y)
    BY OperatorsTyped
  <2>2. /\ h \in [Ring -> [Ring -> Ring]]
        /\ \A x, y \in Ring : h[x][y] = (x + RingSize - y) % RingSize
    BY RingFacts
  <2> HIDE DEF g, h
  <2>3. TypeOK /\ value[v] \in Ring /\ value[w] \in Ring
    BY <1>1 DEF IInv, TypeOK
  <2>4. \A i \in Node : tp[v][i] \in Ring /\ tp[w][i] \in Ring
    BY <2>3 DEF TypeOK
  <2>5. \A p \in Party : as[p][v] \in Ring /\ as[p][w] \in Ring
    BY <2>3 DEF TypeOK
  <2>6. Combine(v, w, g)
    <3>1. tp' = [tp EXCEPT ![v] =
                  [i \in Node |-> IF i = 0 THEN tp[v][0] ELSE g[tp[v][i]][tp[w][i]]]]
      <4>1. [i \in Node |-> IF i = 0 THEN tp[v][0] ELSE g[tp[v][i]][tp[w][i]]] =
            [i \in Node |-> IF i = 0 THEN tp[v][0] ELSE Minus(tp[v][i], tp[w][i])]
        BY <2>1, <2>4
      <4> QED
        BY <1>10, <4>1 DEF SubtractFrom
    <3>2. as' = [p \in Party |-> [as[p] EXCEPT ![v] = g[as[p][v]][as[p][w]]]]
      BY <1>10, <2>1, <2>3, <2>5 DEF SubtractFrom, TypeOK
    <3> QED
      BY <3>1, <3>2 DEF Combine
  <2>7. Meets(v, w, h[value[v]][value[w]])
    BY <1>10, <2>2, <2>3 DEF SubtractFrom
  <2>8. Lifts(g, h)
    <3>1. SUFFICES ASSUME NEW x \in [Party -> Ring], NEW y \in [Party -> Ring],
                          NEW z \in [Party -> Ring],
                          \A p \in Party : z[p] = g[x[p]][y[p]]
                   PROVE  Total(z) = h[Total(x)][Total(y)]
      BY DEF Lifts
    <3>2. \A p \in Party : z[p] = Minus(x[p], y[p])
      BY <2>1, <3>1
    <3>3. Total(z) = (Total(x) + RingSize - Total(y)) % RingSize
      BY <3>2, TotalMinus
    <3> QED
      BY <1>3, <2>2, <3>3
  <2> QED
    BY <1>1, <2>1, <2>2, <2>6, <2>7, <2>8, CombineKeeps
<1>11. CASE UNCHANGED vars
  BY <1>1, <1>11 DEF vars, IInv, TypeOK, SlotsAgree, HeldAddsUp, Held
<1>12. CASE Next
  BY <1>1, <1>5, <1>6, <1>7, <1>8, <1>9, <1>10, <1>12, CopyKeeps, AddConstantKeeps DEF Next
<1> QED
  BY <1>1, <1>11, <1>12
-----------------------------------------------------------------------------
\* The shares are typed, slot 0 of a TPShare stays zero, and the parties hold
\* their slots, which add up to the value, in every reachable state.
THEOREM Invariance == Spec => []IInv
<1>1. Init => IInv
  BY InitEstablishes
<1>2. IInv /\ [Next]_vars => IInv'
  BY NextKeeps
<1> QED
  BY <1>1, <1>2, PTL DEF Spec

\* Any sequence of the share operators, aliased or not, keeps the dealer's
\* TPShare and the parties' AddShares in step (sharing.h:40-231).
THEOREM SlotsAgreeAlways == Spec => []SlotsAgree
<1>1. IInv => SlotsAgree
  BY DEF IInv
<1> QED
  BY <1>1, Invariance, PTL

\* Shares under linear operators keep adding up to their value, and secret()
\* returns it (sharing.h:40-231).
THEOREM SharesAddUpAlways == Spec => []SharesAddUp
<1>1. IInv => SharesAddUp
  BY InvariantGivesSums
<1> QED
  BY <1>1, Invariance, PTL
=============================================================================
