----------------------------- MODULE OnlineProofs -----------------------------
(***************************************************************************)
(* Proofs about SecureEval and Online, for every circuit, number of parties, *)
(* ring, mode and build of send.  In the evaluation with abstract calls every *)
(* party computes its share of every wire in closed form, whatever the pace  *)
(* of the others, and the shares add up to the plaintext values.  The parties *)
(* that run evaluateCircuit over the channels keep their program and the     *)
(* calls of reconstruct in step, so they take the steps of that evaluation.  *)
(***************************************************************************)
EXTENDS Online, OpsProofs
-----------------------------------------------------------------------------
(* The inductive invariant of SecureEval: what every party computes, in     *)
(* closed form.                                                             *)

\* Each process takes itself for the owner of all inputs or of none.
OneSided(c) ==
  c.random \/ \A p \in Party : \/ \A k \in 1 .. numInputs : c.owner[p][k] = p
                               \/ \A k \in 1 .. numInputs : c.owner[p][k] # p

\* What is opened for gate g when S[w] holds the shares of wire w.
OpenedE(g, S) == Total([q \in Party |-> (S[g.in1][q] - Mine(q, g, "a")) % RingSize])
OpenedD(g, S) == Total([q \in Party |-> (S[g.in2][q] - Mine(q, g, "b")) % RingSize])
OpenedM1(g, S) == Total([q \in Party |-> (S[g.in1][q] + Mine(q, g, "r1")) % RingSize])
OpenedM2(g, S) == Total([q \in Party |-> Hamming(q, g, OpenedM1(g, S))])

\* The share of the wire of g that p comes to hold.
ShareBy(g, S, p) ==
  CASE g.type = "kInp" -> InputsOf(p).share[InputNo(g.out)]
    [] g.type = "kMul" -> Product(p, g, OpenedE(g, S), OpenedD(g, S))
    [] g.type = "kEqz" -> preproc[p][<<g.out, "r2_bits", OpenedM2(g, S) % RINGSIZEBITS>>]
    [] g.type = "kRec" -> Total(S[g.in1])
    [] OTHER           -> LocalValue(p, g, [w \in Reads(g) |-> S[w][p]])

\* The shares of every wire, from the inputs and the material alone.
WireShares == LET S[w \in Wires(gates)] == [p \in Party |-> ShareBy(gates[w + 1], S, p)]
              IN  S

\* The list p passes to the call of stage s, and what the call returns.
CallList(p, s) ==
  ListFor(p, s, [w \in Wires(gates) |-> WireShares[w][p]],
          [i \in DOMAIN OfType(s.level, "kEqz") |-> OpenedM1(OfType(s.level, "kEqz")[i], WireShares)])

CallSum(s) == VecTotal([p \in Party |-> CallList(p, s)], ListLength(s))

TypeInv ==
  /\ IsCase(given) /\ stream \in Streams
  /\ preproc = LET dealt == DealtShares(ItemOrder, stream)
               IN  [p \in Party |-> [item \in Material |-> dealt[IndexOf(ItemOrder, item)][p]]]
  /\ wires \in [Party -> [Wires(gates) -> Ring]]
  /\ pc \in [Party -> 1 .. Len(Program) + 1]
  /\ arg \in [Party -> [1 .. numCalls -> Seq(Ring)]]
  /\ res \in [Party -> [1 .. numCalls -> Seq(Ring)]]
  /\ outvals \in [Party -> Seq(Ring)]

\* A wire that p has come past holds p's share of it.
WiresInv ==
  \A p \in Party : \A k \in DOMAIN gates :
    pc[p] > SetIn(gates[k]) => wires[p][gates[k].out] = WireShares[gates[k].out][p]

\* The calls that p has entered and left.
CallsInv ==
  \A p \in Party : \A c \in 1 .. numCalls :
    /\ arg[p][c] # <<>> => arg[p][c] = CallList(p, Program[Rounds[c]])
    /\ res[p][c] = IF Rounds[c] < pc[p] THEN CallSum(Program[Rounds[c]]) ELSE <<>>

OutputsInv ==
  \A p \in Party :
    outvals[p] = IF outputs # <<>> /\ ~Running(p) THEN CallSum(Stage("outputs", 0)) ELSE <<>>

EvalShares == TypeInv /\ WiresInv /\ CallsInv /\ OutputsInv

(* The inductive invariant of Online, next to Net!IInv.                     *)

GivenTyped == /\ IsCase(given)
              /\ stream \in Seq(Ring) /\ Len(stream) >= numInputs

SharesTyped == /\ preproc \in [Party -> [Material -> Ring]]
               /\ wires \in [Party -> [Wires(gates) -> Ring]]

\* The program and the calls of p are in step: p has made exactly the calls of
\* the stages behind it, and is inside reconstruct only at a stage that calls it.
AtCall(p) == /\ \A c \in 1 .. numCalls : c < call[p] <=> Rounds[c] < pc[p]
             /\ phase[p] # "idle" => Running(p) /\ IsRound(Here(p))

EvalInv == /\ GivenTyped /\ SharesTyped
           /\ pc \in [Party -> 1 .. Len(Program) + 1]
           /\ \A p \in Party : AtCall(p)
-----------------------------------------------------------------------------

\* The proofs about the loops, for the calls of the program.
NetP == INSTANCE ReconstructProofs
          WITH numCalls <- numCalls, numShares <- numShares, viaKing <- ViaKing

-----------------------------------------------------------------------------
(* The program of the parties.                                               *)

LEMMA LevelFacts ==
  /\ Len(Levels) \in Nat /\ DOMAIN Levels = 1 .. Len(Levels) /\ 1 \in 1 .. Len(Levels)
  /\ \A l \in 1 .. Len(Levels) :
       Collected(gates, LevelOf, l - 1, Len(gates), Levels[l]) /\ Levels[l] \in Seq(GateRecord)
<1>1. IsCircuit(gates)
  BY SecureEvalAssumption
<1> DEFINE n == Depth(gates) + 1
<1>2. n \in Nat /\ 1 \in 1 .. n
  BY <1>1, DepthIsHighest, GateFacts
<1>3. /\ Len(Levels) = n /\ DOMAIN Levels = 1 .. n
      /\ \A l \in 1 .. n : Collected(gates, LevelOf, l - 1, Len(gates), Levels[l])
  BY <1>1, LevelsFacts DEF Levels, LevelOf
<1> HIDE DEF n
<1>4. \A l \in 1 .. n : Levels[l] \in Seq(GateRecord)
  BY <1>3 DEF Collected
<1> QED
  BY <1>2, <1>3, <1>4

\* The gates of a level and a type are gates of the circuit, of that type.
LEMMA OfTypeFacts ==
  ASSUME NEW l \in 1 .. Len(Levels), NEW type
  PROVE  /\ OfType(l, type) \in Seq(GateRecord)
         /\ Len(OfType(l, type)) \in Nat
         /\ OfType(l, type) # <<>> => Len(OfType(l, type)) # 0
         /\ \A i \in 1 .. Len(OfType(l, type)) :
              /\ OfType(l, type)[i].type = type
              /\ \E k \in 1 .. Len(gates) : OfType(l, type)[i] = gates[k]
<1> DEFINE level == Levels[l]
           s == OfTypes(level, {type})
<1>1. /\ level \in Seq(GateRecord)
      /\ \A j \in 1 .. Len(level) : \E k \in 1 .. Len(gates) : level[j] = gates[k]
  BY LevelFacts DEF Collected
<1>2. OfType(l, type) = s
  BY DEF OfType
<1> HIDE DEF level
<1>3. /\ s \in Seq(GateRecord)
      /\ \A i \in 1 .. Len(s) :
           s[i].type \in {type} /\ \E j \in 1 .. Len(level) : s[i] = level[j]
  <2> DEFINE types == {type}
  <2>1. level \in Seq(GateRecord)
    BY <1>1
  <2> HIDE DEF types
  <2>2. /\ OfTypes(level, types) \in Seq(GateRecord)
        /\ \A i \in 1 .. Len(OfTypes(level, types)) :
              OfTypes(level, types)[i].type \in types
              /\ \E j \in 1 .. Len(level) : OfTypes(level, types)[i] = level[j]
    BY <2>1, OfTypesFacts
  <2> QED
    BY <2>2 DEF types
<1> HIDE DEF s
<1>4. Len(s) \in Nat /\ (s # <<>> => Len(s) # 0)
  BY <1>3
<1>5. \A i \in 1 .. Len(s) : s[i].type = type /\ \E k \in 1 .. Len(gates) : s[i] = gates[k]
  BY <1>1, <1>3
<1> QED
  BY <1>2, <1>3, <1>4, <1>5

\* s holds the gates of the given types on level l, in the order of their wires.
IsGroup(s, l, types) ==
  /\ s \in Seq(GateRecord) /\ Len(s) \in Nat /\ DOMAIN s = 1 .. Len(s)
  /\ \A i \in 1 .. Len(s) :
       s[i].type \in types /\ \E k \in 1 .. Len(gates) : s[i] = gates[k] /\ LevelOf[k - 1] = l - 1
  /\ \A i, j \in 1 .. Len(s) : i < j => s[i].out < s[j].out
  /\ \A k \in 1 .. Len(gates) :
       LevelOf[k - 1] = l - 1 /\ gates[k].type \in types => \E i \in 1 .. Len(s) : s[i] = gates[k]

LEMMA GroupFacts ==
  ASSUME NEW l \in 1 .. Len(Levels), NEW types
  PROVE  IsGroup(OfTypes(Levels[l], types), l, types)
<1> DEFINE level == Levels[l]
           s == OfTypes(level, types)
<1>1. Collected(gates, LevelOf, l - 1, Len(gates), level) /\ level \in Seq(GateRecord)
  BY LevelFacts
<1> HIDE DEF level
<1>2. /\ s \in Seq(GateRecord)
      /\ \A i \in 1 .. Len(s) : s[i].type \in types /\ \E j \in 1 .. Len(level) : s[i] = level[j]
      /\ \A j \in 1 .. Len(level) :
           level[j].type \in types => \E i \in 1 .. Len(s) : s[i] = level[j]
  BY <1>1, OfTypesFacts
<1>3. \A i, j \in 1 .. Len(s) : i < j => s[i].out < s[j].out
  <2> TAKE i, j \in 1 .. Len(s)
  <2> HAVE i < j
  <2>1. PICK a, b \in 1 .. Len(level) : a < b /\ s[i] = level[a] /\ s[j] = level[b]
    BY <1>1, OfTypesOrdered
  <2>2. level[a].out < level[b].out
    BY <1>1, <2>1 DEF Collected
  <2> QED
    BY <2>1, <2>2
<1>4. Len(s) \in Nat /\ DOMAIN s = 1 .. Len(s)
  BY <1>2
<1> HIDE DEF s
<1>5. \A i \in 1 .. Len(s) :
        s[i].type \in types /\ \E k \in 1 .. Len(gates) : s[i] = gates[k] /\ LevelOf[k - 1] = l - 1
  <2> TAKE i \in 1 .. Len(s)
  <2>1. PICK j \in 1 .. Len(level) : s[i] = level[j]
    BY <1>2
  <2>2. \E k \in 1 .. Len(gates) : level[j] = gates[k] /\ LevelOf[k - 1] = l - 1
    BY <1>1 DEF Collected
  <2> QED
    BY <1>2, <2>1, <2>2
<1>6. \A k \in 1 .. Len(gates) :
        LevelOf[k - 1] = l - 1 /\ gates[k].type \in types => \E i \in 1 .. Len(s) : s[i] = gates[k]
  <2> TAKE k \in 1 .. Len(gates)
  <2> HAVE LevelOf[k - 1] = l - 1 /\ gates[k].type \in types
  <2>1. PICK j \in 1 .. Len(level) : level[j] = gates[k]
    BY <1>1 DEF Collected
  <2> QED
    BY <1>2, <2>1
<1>7. IsGroup(s, l, types)
  BY <1>2, <1>3, <1>4, <1>5, <1>6 DEF IsGroup
<1> QED
  BY <1>7 DEF s, level

\* No two of them drive the same wire.
LEMMA GroupWires ==
  ASSUME NEW s, NEW l, NEW types, IsGroup(s, l, types),
         NEW i \in 1 .. Len(s), NEW j \in 1 .. Len(s), s[i].out = s[j].out
  PROVE  i = j
<1>1. \A k \in 1 .. Len(s) : s[k].out \in Nat
  <2>1. \A k \in 1 .. Len(s) : s[k] \in GateRecord
    BY DEF IsGroup
  <2> QED
    BY <2>1 DEF GateRecord
<1>2. ~(s[i].out < s[j].out) /\ ~(s[j].out < s[i].out)
  BY <1>1
<1>3. ~(i < j) /\ ~(j < i)
  BY <1>2 DEF IsGroup
<1>4. i \in Int /\ j \in Int
  OBVIOUS
<1> QED
  BY <1>3, <1>4

\* The stages there can be.
ValidStage(s) ==
  /\ s \in [kind : {"inputs", "mult", "eqz1", "eqz2", "rec", "local", "outputs"}, level : Nat]
  /\ s.kind = "inputs" => s.level = 1
  /\ s.kind = "outputs" => s.level = 0 /\ outputs # <<>>
  /\ s.kind # "outputs" => s.level \in 1 .. Len(Levels)
  /\ s.kind = "mult" => OfType(s.level, "kMul") # <<>>
  /\ s.kind \in {"eqz1", "eqz2"} => OfType(s.level, "kEqz") # <<>>
  /\ s.kind = "rec" => OfType(s.level, "kRec") # <<>>

ValidStages == {s \in [kind : {"inputs", "mult", "eqz1", "eqz2", "rec", "local", "outputs"},
                       level : Nat] : ValidStage(s)}

\* Their order.
Place(kind) == CASE kind = "mult" -> 0 [] kind = "eqz1" -> 1 [] kind = "eqz2" -> 2
                 [] kind = "rec" -> 3 [] OTHER -> 4

Rank(s) == CASE s.kind = "inputs"  -> 0
             [] s.kind = "outputs" -> 6 * (Len(Levels) + 1)
             [] OTHER              -> 6 * s.level + Place(s.kind)

LEMMA RankFacts ==
  ASSUME NEW s \in ValidStages
  PROVE  /\ Rank(s) \in Nat
         /\ s.kind = "inputs" => Rank(s) = 0
         /\ s.kind = "outputs" => Rank(s) = 6 * (Len(Levels) + 1)
         /\ s.kind = "mult" => Rank(s) = 6 * s.level
         /\ s.kind = "eqz1" => Rank(s) = 6 * s.level + 1
         /\ s.kind = "eqz2" => Rank(s) = 6 * s.level + 2
         /\ s.kind = "rec" => Rank(s) = 6 * s.level + 3
         /\ s.kind = "local" => Rank(s) = 6 * s.level + 4
<1>1. /\ s.kind \in {"inputs", "mult", "eqz1", "eqz2", "rec", "local", "outputs"}
      /\ s.level \in Nat
  BY DEF ValidStages
<1>2. Len(Levels) \in Nat
  BY LevelFacts
<1> QED
  BY <1>1, <1>2 DEF Rank, Place

LEMMA RankTells ==
  ASSUME NEW s \in ValidStages, NEW t \in ValidStages, Rank(s) = Rank(t)
  PROVE  s = t
<1>1. /\ s.kind \in {"inputs", "mult", "eqz1", "eqz2", "rec", "local", "outputs"}
      /\ t.kind \in {"inputs", "mult", "eqz1", "eqz2", "rec", "local", "outputs"}
      /\ s.level \in Nat /\ t.level \in Nat
      /\ s = [kind |-> s.kind, level |-> s.level] /\ t = [kind |-> t.kind, level |-> t.level]
  BY DEF ValidStages
<1>2. /\ s.kind = "inputs" => s.level = 1
      /\ t.kind = "inputs" => t.level = 1
      /\ s.kind = "outputs" => s.level = 0
      /\ t.kind = "outputs" => t.level = 0
      /\ s.kind # "outputs" => 1 <= s.level /\ s.level <= Len(Levels)
      /\ t.kind # "outputs" => 1 <= t.level /\ t.level <= Len(Levels)
      /\ Len(Levels) \in Nat
  BY LevelFacts DEF ValidStages, ValidStage
<1>3. s.kind = t.kind /\ s.level = t.level
  <2> DEFINE k == s.kind
             m == t.kind
             a == s.level
             b == t.level
             n == Len(Levels)
             x == Rank(s)
             y == Rank(t)
  <2>1. /\ k = "inputs" => x = 0
        /\ k = "outputs" => x = 6 * (n + 1)
        /\ k = "mult" => x = 6 * a
        /\ k = "eqz1" => x = 6 * a + 1
        /\ k = "eqz2" => x = 6 * a + 2
        /\ k = "rec" => x = 6 * a + 3
        /\ k = "local" => x = 6 * a + 4
    BY RankFacts
  <2>2. /\ m = "inputs" => y = 0
        /\ m = "outputs" => y = 6 * (n + 1)
        /\ m = "mult" => y = 6 * b
        /\ m = "eqz1" => y = 6 * b + 1
        /\ m = "eqz2" => y = 6 * b + 2
        /\ m = "rec" => y = 6 * b + 3
        /\ m = "local" => y = 6 * b + 4
    BY RankFacts
  <2>3. x = y
    OBVIOUS
  <2> HIDE DEF k, m, a, b, n, x, y
  <2>4. k = m /\ a = b
    BY <1>1, <1>2, <2>1, <2>2, <2>3 DEF k, m, a, b, n
  <2> QED
    BY <2>4 DEF k, m, a, b
<1> QED
  BY <1>1, <1>3

\* q is the part of the program that has the stages from rank a to below rank b:
\* all of them, in their order.
Segment(q, a, b) ==
  /\ q \in Seq(ValidStages)
  /\ \A i \in 1 .. Len(q) : a <= Rank(q[i]) /\ Rank(q[i]) < b
  /\ \A i, j \in 1 .. Len(q) : i < j => Rank(q[i]) < Rank(q[j])
  /\ \A s \in ValidStages : a <= Rank(s) /\ Rank(s) < b => \E i \in 1 .. Len(q) : q[i] = s

LEMMA EmptySegment ==
  ASSUME NEW a, NEW b, \A s \in ValidStages : ~(a <= Rank(s) /\ Rank(s) < b)
  PROVE  Segment(<<>>, a, b)
BY DEF Segment

LEMMA OneSegment ==
  ASSUME NEW s \in ValidStages
  PROVE  Segment(<<s>>, Rank(s), Rank(s) + 1)
<1>1. Rank(s) \in Nat
  BY RankFacts
<1> DEFINE q == <<s>>
<1>2. q \in Seq(ValidStages) /\ Len(q) = 1 /\ q[1] = s
  OBVIOUS
<1> HIDE DEF q
<1>3. \A t \in ValidStages : Rank(s) <= Rank(t) /\ Rank(t) < Rank(s) + 1 => t = s
  <2> TAKE t \in ValidStages
  <2> HAVE Rank(s) <= Rank(t) /\ Rank(t) < Rank(s) + 1
  <2>1. Rank(t) \in Nat
    BY RankFacts
  <2>2. Rank(t) = Rank(s)
    BY <1>1, <2>1
  <2> QED
    BY <2>2, RankTells
<1>4. \A i \in 1 .. 1 : i = 1
  OBVIOUS
<1>5. /\ \A i \in 1 .. Len(q) : Rank(s) <= Rank(q[i]) /\ Rank(q[i]) < Rank(s) + 1
      /\ \A i, j \in 1 .. Len(q) : i < j => Rank(q[i]) < Rank(q[j])
  BY <1>1, <1>2, <1>4
<1>6. \A t \in ValidStages :
        Rank(s) <= Rank(t) /\ Rank(t) < Rank(s) + 1 => \E i \in 1 .. Len(q) : q[i] = t
  BY <1>2, <1>3
<1> QED
  BY <1>2, <1>5, <1>6 DEF Segment, q

LEMMA SegmentsInTurn ==
  ASSUME NEW a \in Nat, NEW b \in Nat, NEW c \in Nat, a <= b, b <= c,
         NEW s, NEW t, Segment(s, a, b), Segment(t, b, c)
  PROVE  Segment(s \o t, a, c)
<1>1. s \in Seq(ValidStages) /\ t \in Seq(ValidStages)
  BY DEF Segment
<1> DEFINE q == s \o t
<1>2. /\ q \in Seq(ValidStages) /\ Len(q) = Len(s) + Len(t)
      /\ Len(s) \in Nat /\ Len(t) \in Nat
      /\ \A i \in 1 .. Len(s) : q[i] = s[i]
      /\ \A j \in 1 .. Len(t) : q[Len(s) + j] = t[j]
  BY <1>1, Concatenated
<1> HIDE DEF q
<1>3. ASSUME NEW i \in 1 .. Len(q)
      PROVE  \/ i \in 1 .. Len(s) /\ q[i] = s[i] /\ a <= Rank(q[i]) /\ Rank(q[i]) < b
             \/ /\ i - Len(s) \in 1 .. Len(t) /\ q[i] = t[i - Len(s)]
                /\ b <= Rank(q[i]) /\ Rank(q[i]) < c
  <2>1. CASE i \in 1 .. Len(s)
    BY <1>2, <2>1 DEF Segment
  <2>2. CASE i \notin 1 .. Len(s)
    <3>1. i - Len(s) \in 1 .. Len(t) /\ i = Len(s) + (i - Len(s))
      BY <1>2, <2>2
    <3>2. q[i] = t[i - Len(s)]
      BY <1>2, <3>1
    <3> QED
      BY <3>1, <3>2 DEF Segment
  <2> QED
    BY <2>1, <2>2
<1>4. \A i \in 1 .. Len(q) : q[i] \in ValidStages /\ Rank(q[i]) \in Nat
  BY <1>2, RankFacts
<1>5. \A i \in 1 .. Len(q) : a <= Rank(q[i]) /\ Rank(q[i]) < c
  BY <1>3, <1>4
<1>6. ASSUME NEW i \in 1 .. Len(q), NEW j \in 1 .. Len(q), i < j
      PROVE  Rank(q[i]) < Rank(q[j])
  <2>1. CASE i \in 1 .. Len(s) /\ j \in 1 .. Len(s)
    BY <1>2, <1>6, <2>1 DEF Segment
  <2>2. CASE i \in 1 .. Len(s) /\ j \notin 1 .. Len(s)
    <3>1. Rank(q[i]) < b \/ i - Len(s) \in 1 .. Len(t)
      BY <1>3
    <3>2. b <= Rank(q[j])
      BY <1>3, <2>2
    <3>3. ~(i - Len(s) \in 1 .. Len(t))
      BY <1>2, <2>2
    <3> QED
      BY <1>4, <3>1, <3>2, <3>3
  <2>3. CASE i \notin 1 .. Len(s)
    <3>1. j \notin 1 .. Len(s)
      BY <1>2, <1>6, <2>3
    <3>2. /\ i - Len(s) \in 1 .. Len(t) /\ q[i] = t[i - Len(s)]
          /\ j - Len(s) \in 1 .. Len(t) /\ q[j] = t[j - Len(s)]
      BY <1>3, <2>3, <3>1
    <3>3. i - Len(s) < j - Len(s)
      BY <1>2, <1>6
    <3> QED
      BY <3>2, <3>3 DEF Segment
  <2> QED
    BY <2>1, <2>2, <2>3
<1>7. ASSUME NEW x \in ValidStages, a <= Rank(x), Rank(x) < c
      PROVE  \E i \in 1 .. Len(q) : q[i] = x
  <2>1. Rank(x) \in Nat
    BY RankFacts
  <2>2. CASE Rank(x) < b
    <3>1. PICK i \in 1 .. Len(s) : s[i] = x
      BY <1>7, <2>2 DEF Segment
    <3> QED
      BY <1>2, <3>1
  <2>3. CASE b <= Rank(x)
    <3>1. PICK j \in 1 .. Len(t) : t[j] = x
      BY <1>7, <2>3 DEF Segment
    <3>2. Len(s) + j \in 1 .. Len(q) /\ q[Len(s) + j] = x
      BY <1>2, <3>1
    <3> QED
      BY <3>2
  <2> QED
    BY <2>1, <2>2, <2>3
<1> QED
  BY <1>2, <1>5, <1>6, <1>7 DEF Segment, q

LEMMA AtRank ==
  ASSUME NEW l \in 1 .. Len(Levels), NEW s \in ValidStages
  PROVE  /\ Rank(s) = 6 * l => s = Stage("mult", l)
         /\ Rank(s) = 6 * l + 1 => s = Stage("eqz1", l)
         /\ Rank(s) = 6 * l + 2 => s = Stage("eqz2", l)
         /\ Rank(s) = 6 * l + 3 => s = Stage("rec", l)
         /\ Rank(s) = 6 * l + 4 => s = Stage("local", l)
         /\ Rank(s) # 6 * l + 5
         /\ Rank(s) < 6 => s = Stage("inputs", 1)
         /\ Rank(s) >= 6 * (Len(Levels) + 1) => s = Stage("outputs", 0)
<1> DEFINE k == s.kind
           a == s.level
           n == Len(Levels)
           x == Rank(s)
<1>1. /\ k \in {"inputs", "mult", "eqz1", "eqz2", "rec", "local", "outputs"}
      /\ a \in Nat /\ s = Stage(k, a)
  BY DEF ValidStages, Stage
<1>2. /\ k = "inputs" => a = 1
      /\ k = "outputs" => a = 0
      /\ k # "outputs" => 1 <= a /\ a <= n
      /\ n \in Nat /\ l \in Nat /\ 1 <= l /\ l <= n
  BY LevelFacts DEF ValidStages, ValidStage
<1>3. /\ k = "inputs" => x = 0
      /\ k = "outputs" => x = 6 * (n + 1)
      /\ k = "mult" => x = 6 * a
      /\ k = "eqz1" => x = 6 * a + 1
      /\ k = "eqz2" => x = 6 * a + 2
      /\ k = "rec" => x = 6 * a + 3
      /\ k = "local" => x = 6 * a + 4
  BY RankFacts
<1> HIDE DEF k, a, n, x
<1>4. /\ x = 6 * l => k = "mult" /\ a = l
      /\ x = 6 * l + 1 => k = "eqz1" /\ a = l
      /\ x = 6 * l + 2 => k = "eqz2" /\ a = l
  BY <1>1, <1>2, <1>3
<1>5. /\ x = 6 * l + 3 => k = "rec" /\ a = l
      /\ x = 6 * l + 4 => k = "local" /\ a = l
      /\ x # 6 * l + 5
  BY <1>1, <1>2, <1>3
<1>6. /\ x < 6 => k = "inputs" /\ a = 1
      /\ x >= 6 * (n + 1) => k = "outputs" /\ a = 0
  BY <1>1, <1>2, <1>3
<1> QED
  BY <1>1, <1>4, <1>5, <1>6 DEF k, a, n, x

\* A stage that the program has or leaves out.
LEMMA MaybeSegment ==
  ASSUME NEW s, NEW r \in Nat, \A t \in ValidStages : Rank(t) = r => t = s,
         s \in ValidStages => Rank(s) = r
  PROVE  /\ s \in ValidStages => Segment(<<s>>, r, r + 1)
         /\ s \notin ValidStages => Segment(<<>>, r, r + 1)
<1>1. CASE s \in ValidStages
  BY <1>1, OneSegment
<1>2. CASE s \notin ValidStages
  <2>1. \A t \in ValidStages : ~(r <= Rank(t) /\ Rank(t) < r + 1)
    <3> TAKE t \in ValidStages
    <3>1. Rank(t) \in Nat /\ (Rank(t) = r => t = s)
      BY RankFacts
    <3> QED
      BY <1>2, <3>1
  <2> QED
    BY <1>2, <2>1, EmptySegment
<1> QED
  BY <1>1, <1>2

LEMMA TwoInTurn ==
  ASSUME NEW X, NEW s \in X, NEW t \in X
  PROVE  <<s>> \o <<t>> = <<s, t>> /\ <<>> \o <<>> = <<>>
<1> DEFINE a == <<s>>
           b == <<t>>
           c == <<s, t>>
<1>1. /\ a \in Seq(X) /\ b \in Seq(X) /\ Len(a) = 1 /\ Len(b) = 1 /\ a[1] = s /\ b[1] = t
      /\ c \in Seq(X) /\ Len(c) = 2 /\ c[1] = s /\ c[2] = t
  OBVIOUS
<1> HIDE DEF a, b, c
<1> DEFINE q == a \o b
<1>2. /\ q \in Seq(X) /\ Len(q) = Len(a) + Len(b)
      /\ \A i \in 1 .. Len(a) : q[i] = a[i]
      /\ \A j \in 1 .. Len(b) : q[Len(a) + j] = b[j]
  <2>1. a \in Seq(X) /\ b \in Seq(X)
    BY <1>1
  <2> QED
    BY ONLY <2>1, Concatenated
<1> HIDE DEF q
<1>4. Len(q) = 2 /\ q[1] = s /\ q[2] = t
  <2>1. 1 \in 1 .. 1 /\ 1 + 1 = 2
    OBVIOUS
  <2> QED
    BY <1>1, <1>2, <2>1
<1>5. \A i \in 1 .. 2 : i = 1 \/ i = 2
  OBVIOUS
<1>6. q = c
  BY <1>1, <1>2, <1>4, <1>5, SMTT(20)
<1>7. <<>> \o <<>> = <<>>
  OBVIOUS
<1> QED
  BY <1>6, <1>7 DEF q, a, b, c

LEMMA LevelSegment ==
  ASSUME NEW l \in 1 .. Len(Levels)
  PROVE  Segment(LevelProgram(l), 6 * l, 6 * (l + 1))
<1> DEFINE m == IF OfType(l, "kMul") = <<>> THEN <<>> ELSE << Stage("mult", l) >>
           e == IF OfType(l, "kEqz") = <<>> THEN <<>> ELSE << Stage("eqz1", l), Stage("eqz2", l) >>
           r == IF OfType(l, "kRec") = <<>> THEN <<>> ELSE << Stage("rec", l) >>
           o == << Stage("local", l) >>
           k == 6 * l
<1>1. l \in Nat /\ k \in Nat /\ k + 1 \in Nat /\ k + 2 \in Nat /\ k + 3 \in Nat /\ k + 4 \in Nat
      /\ k + 5 \in Nat /\ k + 6 \in Nat /\ 6 * (l + 1) = k + 6
  BY LevelFacts
<1>2. /\ Stage("mult", l) \in ValidStages <=> OfType(l, "kMul") # <<>>
      /\ Stage("eqz1", l) \in ValidStages <=> OfType(l, "kEqz") # <<>>
      /\ Stage("eqz2", l) \in ValidStages <=> OfType(l, "kEqz") # <<>>
      /\ Stage("rec", l) \in ValidStages <=> OfType(l, "kRec") # <<>>
      /\ Stage("local", l) \in ValidStages
  BY <1>1 DEF ValidStages, ValidStage, Stage
<1>3. /\ Stage("mult", l) \in ValidStages => Rank(Stage("mult", l)) = k
      /\ Stage("eqz1", l) \in ValidStages => Rank(Stage("eqz1", l)) = k + 1
      /\ Stage("eqz2", l) \in ValidStages => Rank(Stage("eqz2", l)) = k + 2
      /\ Stage("rec", l) \in ValidStages => Rank(Stage("rec", l)) = k + 3
      /\ Stage("local", l) \in ValidStages => Rank(Stage("local", l)) = k + 4
  BY DEF Rank, Place, Stage
<1>4. \A t \in ValidStages :
        /\ Rank(t) = k => t = Stage("mult", l)
        /\ Rank(t) = k + 1 => t = Stage("eqz1", l)
        /\ Rank(t) = k + 2 => t = Stage("eqz2", l)
        /\ Rank(t) = k + 3 => t = Stage("rec", l)
        /\ Rank(t) = k + 4 => t = Stage("local", l)
        /\ Rank(t) # k + 5
  BY AtRank
<1>5. LevelProgram(l) = m \o e \o r \o o
  BY DEF LevelProgram
<1> HIDE DEF k
<1>6. Segment(m, k, k + 1)
  <2>1. /\ Stage("mult", l) \in ValidStages => Segment(<< Stage("mult", l) >>, k, k + 1)
        /\ Stage("mult", l) \notin ValidStages => Segment(<<>>, k, k + 1)
    BY <1>1, <1>3, <1>4, MaybeSegment
  <2> QED
    BY <1>2, <2>1
<1>7. Segment(e, k + 1, k + 3)
  <2> DEFINE s == Stage("eqz1", l)
             t == Stage("eqz2", l)
             c == k + 1
  <2>1. c + 1 = k + 2 /\ c + 2 = k + 3 /\ c \in Nat /\ c + 1 \in Nat /\ (c + 1) + 1 = c + 2
        /\ c <= c + 1 /\ c + 1 <= c + 2 /\ c + 2 \in Nat
    BY <1>1
  <2>2. /\ s \in ValidStages => Rank(s) = c
        /\ t \in ValidStages => Rank(t) = c + 1
        /\ \A x \in ValidStages : (Rank(x) = c => x = s) /\ (Rank(x) = c + 1 => x = t)
    BY <1>3, <1>4, <2>1
  <2>3. s \in ValidStages <=> t \in ValidStages
    BY <1>2
  <2> HIDE DEF s, t, c
  <2>4. <<s>> \o <<t>> = <<s, t>> /\ <<>> \o <<>> = <<>>
    <3> DEFINE X == {s, t}
    <3>1. s \in X /\ t \in X
      OBVIOUS
    <3> HIDE DEF X
    <3> QED
      BY <3>1, TwoInTurn
  <2>5. /\ s \in ValidStages => Segment(<<s>>, c, c + 1)
        /\ s \notin ValidStages => Segment(<<>>, c, c + 1)
    BY <2>1, <2>2, MaybeSegment
  <2>6. /\ t \in ValidStages => Segment(<<t>>, c + 1, (c + 1) + 1)
        /\ t \notin ValidStages => Segment(<<>>, c + 1, (c + 1) + 1)
    <3> DEFINE d == c + 1
    <3>1. /\ t \in ValidStages => Rank(t) = d
          /\ \A x \in ValidStages : Rank(x) = d => x = t
          /\ d \in Nat
      BY <2>1, <2>2
    <3> HIDE DEF d
    <3>2. /\ t \in ValidStages => Segment(<<t>>, d, d + 1)
          /\ t \notin ValidStages => Segment(<<>>, d, d + 1)
      BY <3>1, MaybeSegment
    <3> QED
      BY <3>2 DEF d
  <2>7. s \in ValidStages => Segment(<<s>> \o <<t>>, c, c + 2)
    BY <2>1, <2>3, <2>5, <2>6, SegmentsInTurn
  <2>8. s \notin ValidStages => Segment(<<>> \o <<>>, c, c + 2)
    BY <2>1, <2>3, <2>5, <2>6, SegmentsInTurn
  <2>9. s \in ValidStages <=> OfType(l, "kEqz") # <<>>
    BY <1>2 DEF s
  <2>10. Segment(e, c, c + 2)
    BY <2>4, <2>7, <2>8, <2>9 DEF s, t
  <2> QED
    BY <2>1, <2>10 DEF c
<1>8. Segment(r, k + 3, k + 4)
  <2> DEFINE d == k + 3
             s == Stage("rec", l)
  <2>1. d \in Nat /\ d + 1 = k + 4 /\ (s \in ValidStages => Rank(s) = d)
        /\ \A t \in ValidStages : Rank(t) = d => t = s
    BY <1>1, <1>3, <1>4
  <2>2. s \in ValidStages <=> OfType(l, "kRec") # <<>>
    BY <1>2
  <2> HIDE DEF d, s
  <2>3. /\ s \in ValidStages => Segment(<<s>>, d, d + 1)
        /\ s \notin ValidStages => Segment(<<>>, d, d + 1)
    BY <2>1, MaybeSegment
  <2>4. Segment(r, d, d + 1)
    BY <2>2, <2>3 DEF s
  <2> QED
    BY <2>1, <2>4 DEF d
<1>9. Segment(o, k + 4, k + 5)
  <2> DEFINE d == k + 4
             s == Stage("local", l)
  <2>1. d \in Nat /\ d + 1 = k + 5 /\ (s \in ValidStages => Rank(s) = d)
        /\ (\A t \in ValidStages : Rank(t) = d => t = s) /\ s \in ValidStages
    BY <1>1, <1>2, <1>3, <1>4
  <2> HIDE DEF d, s
  <2>2. Segment(<<s>>, d, d + 1)
    BY <2>1, MaybeSegment
  <2> QED
    BY <2>1, <2>2 DEF s, d
<1>10. Segment(<<>>, k + 5, k + 6)
  <2>1. \A t \in ValidStages : ~(k + 5 <= Rank(t) /\ Rank(t) < k + 6)
    <3> TAKE t \in ValidStages
    <3>1. Rank(t) \in Nat /\ Rank(t) # k + 5
      BY <1>4, RankFacts
    <3> QED
      BY <1>1, <3>1
  <2> QED
    BY <2>1, EmptySegment
<1> HIDE DEF m, e, r, o
<1>11. k <= k + 1 /\ k + 1 <= k + 3 /\ k <= k + 3 /\ k + 3 <= k + 4 /\ k <= k + 4 /\ k + 4 <= k + 5
       /\ k <= k + 5 /\ k + 5 <= k + 6
  BY <1>1
<1>12. Segment(m \o e, k, k + 3)
  BY <1>1, <1>6, <1>7, <1>11, SegmentsInTurn
<1>13. Segment(m \o e \o r, k, k + 4)
  BY <1>1, <1>8, <1>11, <1>12, SegmentsInTurn
<1>14. Segment(m \o e \o r \o o, k, k + 5)
  BY <1>1, <1>9, <1>11, <1>13, SegmentsInTurn
<1> DEFINE z == m \o e \o r \o o
<1>15. z \o <<>> = z
  <2>1. z \in Seq(ValidStages)
    BY <1>14 DEF Segment
  <2> HIDE DEF z
  <2> QED
    BY <2>1
<1>16. Segment(z, k, k + 5)
  BY <1>14
<1> HIDE DEF z
<1>17. Segment(z \o <<>>, k, k + 6)
  BY <1>1, <1>10, <1>11, <1>16, SegmentsInTurn
<1> QED
  BY <1>1, <1>5, <1>15, <1>17 DEF k, z

LEMMA ProgramSegment == Segment(Program, 0, 6 * (Len(Levels) + 1) + 1)
<1> DEFINE parts == [l \in DOMAIN Levels |-> LevelProgram(l)]
           n == Len(Levels)
           i == << Stage("inputs", 1) >>
           o == IF outputs = <<>> THEN <<>> ELSE << Stage("outputs", 0) >>
           z == 6 * (n + 1)
<1>1. n \in Nat /\ 1 \in 1 .. n /\ Len(parts) = n /\ \A l \in 1 .. n : parts[l] = LevelProgram(l)
  BY LevelFacts
<1>2. Program = i \o Joined(parts) \o o
  BY DEF Program
<1>3. \A l \in 1 .. n : Segment(parts[l], 6 * l, 6 * (l + 1))
  BY <1>1, LevelSegment
<1>4. /\ \A t \in ValidStages : Rank(t) \in Nat
      /\ \A t \in ValidStages : Rank(t) < 6 => t = Stage("inputs", 1)
      /\ \A t \in ValidStages : Rank(t) >= z => t = Stage("outputs", 0)
  BY <1>1, RankFacts, AtRank
<1>5. Segment(i, 0, 6)
  <2> DEFINE s == Stage("inputs", 1)
  <2>1. s \in ValidStages /\ Rank(s) = 0
    BY LevelFacts DEF ValidStages, ValidStage, Stage, Rank
  <2>2. <<s>> \in Seq(ValidStages) /\ Len(<<s>>) = 1 /\ <<s>>[1] = s
    BY <2>1
  <2>3. \A t \in ValidStages : Rank(t) < 6 => t = s
    BY <1>4
  <2> DEFINE q == <<s>>
  <2> HIDE DEF s, q
  <2>4. \A j \in 1 .. 1 : j = 1
    OBVIOUS
  <2>5. Segment(q, 0, 6)
    BY <2>1, <2>2, <2>3, <2>4 DEF Segment, q
  <2> QED
    BY <2>5 DEF q, s
<1>6. Segment(o, z, z + 1)
  <2> DEFINE s == Stage("outputs", 0)
  <2>1. z \in Nat
    BY <1>1
  <2>2. s \in ValidStages <=> outputs # <<>>
    BY DEF ValidStages, ValidStage, Stage
  <2>3. (s \in ValidStages => Rank(s) = z) /\ \A t \in ValidStages : Rank(t) = z => t = s
    <3>1. \A t \in ValidStages : Rank(t) = z => Rank(t) >= z
      BY <2>1
    <3> QED
      BY <1>4, <3>1 DEF Rank, Stage
  <2> HIDE DEF s, z
  <2>4. /\ s \in ValidStages => Segment(<<s>>, z, z + 1)
        /\ s \notin ValidStages => Segment(<<>>, z, z + 1)
    BY <2>1, <2>3, MaybeSegment
  <2> QED
    BY <2>2, <2>4 DEF s
<1>7. PICK J : JoinedUpTo(ValidStages, parts, J)
  <2>1. Len(parts) \in Nat /\ \A l \in 1 .. Len(parts) : parts[l] \in Seq(ValidStages)
    BY <1>1, <1>3 DEF Segment
  <2> HIDE DEF parts
  <2> QED
    BY <2>1, JoinedSteps
<1> HIDE DEF parts, n, i, o, z
<1>8. /\ J[0] = <<>> /\ J[n] = Joined(parts)
      /\ \A l \in 1 .. n : J[l] = J[l - 1] \o parts[l]
  BY <1>1, <1>7 DEF JoinedUpTo
<1> DEFINE T == {l \in 0 .. n : Segment(J[l], 6, 6 * (l + 1))}
<1>9. n \in T
  <2>1. 0 \in T
    <3>1. \A t \in ValidStages : ~(6 <= Rank(t) /\ Rank(t) < 6)
      BY <1>4
    <3>2. Segment(<<>>, 6, 6)
      BY <3>1, EmptySegment
    <3>3. 6 * (0 + 1) = 6 /\ 0 \in 0 .. n
      BY <1>1
    <3> QED
      BY <1>8, <3>2, <3>3
  <2>2. ASSUME NEW l \in 1 .. n, l - 1 \in T
        PROVE  l \in T
    <3>1. l \in 0 .. n /\ 6 * ((l - 1) + 1) = 6 * l /\ 6 \in Nat /\ 6 * l \in Nat /\ 6 * (l + 1) \in Nat
          /\ 6 <= 6 * l /\ 6 * l <= 6 * (l + 1)
      BY <1>1
    <3>2. Segment(J[l - 1], 6, 6 * l)
      BY <2>2, <3>1
    <3>3. Segment(J[l - 1] \o parts[l], 6, 6 * (l + 1))
      <4> DEFINE b == 6 * l
                 c == 6 * (l + 1)
                 s == J[l - 1]
                 t == parts[l]
      <4>1. b \in Nat /\ c \in Nat /\ 6 \in Nat /\ 6 <= b /\ b <= c /\ Segment(s, 6, b) /\ Segment(t, b, c)
        BY <1>3, <3>1, <3>2
      <4> HIDE DEF b, c, s, t
      <4>2. Segment(s \o t, 6, c)
        BY ONLY <4>1, SegmentsInTurn
      <4> QED
        BY <4>2 DEF c, s, t
    <3> QED
      BY <1>8, <3>1, <3>3
  <2>3. n \in 0 .. n
    BY <1>1
  <2> HIDE DEF T
  <2> QED
    BY <1>1, <2>1, <2>2, <2>3, UpTo
<1>10. Segment(Joined(parts), 6, z)
  BY <1>8, <1>9 DEF z
<1>11. z \in Nat /\ 6 <= z /\ z + 1 \in Nat /\ z <= z + 1 /\ 0 <= z /\ 0 \in Nat /\ 6 \in Nat /\ 0 <= 6
  BY <1>1 DEF z
<1> DEFINE m == Joined(parts)
<1>12. Segment(i \o m, 0, z)
  BY <1>5, <1>10, <1>11, SegmentsInTurn
<1>13. Segment((i \o m) \o o, 0, z + 1)
  BY <1>6, <1>11, <1>12, SegmentsInTurn
<1> QED
  BY <1>2, <1>13 DEF z, n

\* The stages by position: every one there can be, once, in their order.
LEMMA StageFacts ==
  /\ Len(Program) \in Nat /\ DOMAIN Program = 1 .. Len(Program) /\ Program \in Seq(ValidStages)
  /\ \A i \in 1 .. Len(Program) : Program[i] \in ValidStages /\ ValidStage(Program[i])
  /\ \A i, j \in 1 .. Len(Program) : i < j <=> Rank(Program[i]) < Rank(Program[j])
  /\ \A s \in ValidStages : \E i \in 1 .. Len(Program) : Program[i] = s
<1> DEFINE n == Len(Program)
           z == 6 * (Len(Levels) + 1) + 1
<1>1. Segment(Program, 0, z)
  BY ProgramSegment
<1>2. Program \in Seq(ValidStages)
  BY <1>1 DEF Segment
<1>3. n \in Nat /\ DOMAIN Program = 1 .. n /\ \A i \in 1 .. n : Program[i] \in ValidStages
  BY <1>2
<1>4. \A i \in 1 .. n : ValidStage(Program[i]) /\ Rank(Program[i]) \in Nat
  BY <1>3, RankFacts DEF ValidStages
<1>5. \A i, j \in 1 .. n : i < j => Rank(Program[i]) < Rank(Program[j])
  BY <1>1 DEF Segment
<1>6. \A i, j \in 1 .. n : Rank(Program[i]) < Rank(Program[j]) => i < j
  <2> TAKE i, j \in 1 .. n
  <2> HAVE Rank(Program[i]) < Rank(Program[j])
  <2>1. j < i => Rank(Program[j]) < Rank(Program[i])
    BY <1>5
  <2>2. Rank(Program[i]) \in Nat /\ Rank(Program[j]) \in Nat
    BY <1>4
  <2>3. ~(j < i) /\ i # j
    BY <2>1, <2>2
  <2> QED
    BY <1>3, <2>3
<1>7. \A s \in ValidStages : \E i \in 1 .. n : Program[i] = s
  <2> TAKE s \in ValidStages
  <2>1. 0 <= Rank(s) /\ Rank(s) < z
    <3>1. s.level \in Nat /\ (s.kind # "outputs" => s.level <= Len(Levels))
          /\ s.kind \in {"inputs", "mult", "eqz1", "eqz2", "rec", "local", "outputs"}
      BY LevelFacts DEF ValidStages, ValidStage
    <3> QED
      BY <3>1, LevelFacts, RankFacts
  <2> QED
    BY <1>1, <2>1 DEF Segment
<1> QED
  BY <1>2, <1>3, <1>4, <1>5, <1>6, <1>7 DEF n

\* The stages before and after another one.
LEMMA StageOrder ==
  ASSUME NEW i \in 1 .. Len(Program), NEW j \in 1 .. Len(Program)
  PROVE  /\ Program[i] = Program[j] => i = j
         /\ Rank(Program[i]) = Rank(Program[j]) => i = j
         /\ Rank(Program[j]) = Rank(Program[i]) + 1 => j = i + 1
         /\ i <= j <=> Rank(Program[i]) <= Rank(Program[j])
<1>1. /\ Len(Program) \in Nat
      /\ \A k, l \in 1 .. Len(Program) : k < l <=> Rank(Program[k]) < Rank(Program[l])
  BY StageFacts
<1>2. \A k \in 1 .. Len(Program) : Rank(Program[k]) \in Nat
  BY StageFacts, RankFacts
<1>3. Rank(Program[i]) = Rank(Program[j]) => i = j
  <2> HAVE Rank(Program[i]) = Rank(Program[j])
  <2>1. ~(i < j) /\ ~(j < i)
    BY <1>1, <1>2
  <2> QED
    BY <1>1, <2>1
<1>4. i <= j <=> Rank(Program[i]) <= Rank(Program[j])
  <2>1. j < i <=> Rank(Program[j]) < Rank(Program[i])
    BY <1>1
  <2>2. Rank(Program[i]) \in Nat /\ Rank(Program[j]) \in Nat /\ i \in Nat /\ j \in Nat
    BY <1>1, <1>2
  <2> HIDE <1>1, <1>2
  <2> QED
    BY <2>1, <2>2
<1>5. Rank(Program[j]) = Rank(Program[i]) + 1 => j = i + 1
  <2> HAVE Rank(Program[j]) = Rank(Program[i]) + 1
  <2>1. i < j
    BY <1>1, <1>2
  <2> DEFINE k == i + 1
  <2>2. k \in 1 .. Len(Program) /\ i < k /\ k <= j /\ k \in Int
    BY <1>1, <2>1
  <2>3. Rank(Program[i]) < Rank(Program[k]) /\ (k < j => Rank(Program[k]) < Rank(Program[j]))
    BY <1>1, <2>2
  <2>4. Rank(Program[i]) \in Nat /\ Rank(Program[k]) \in Nat /\ Rank(Program[j]) \in Nat
    BY <1>2, <2>2
  <2>5. ~(k < j)
    BY <2>3, <2>4
  <2> QED
    BY <2>2, <2>5
<1> QED
  BY <1>3, <1>4, <1>5

\* The second round of an equality test follows the first one of the same level.
LEMMA FirstRound ==
  ASSUME NEW i \in 1 .. Len(Program), Program[i].kind = "eqz2"
  PROVE  i - 1 \in 1 .. Len(Program) /\ Program[i - 1] = Stage("eqz1", Program[i].level)
<1> DEFINE l == Program[i].level
           s == Stage("eqz1", l)
<1>1. ValidStage(Program[i]) /\ Program[i] \in ValidStages /\ Len(Program) \in Nat
  BY StageFacts
<1>2. l \in Nat /\ s.kind = "eqz1" /\ s.level = l
  BY <1>1 DEF ValidStage, Stage
<1>3. s \in ValidStages
  BY <1>1, <1>2 DEF ValidStages, ValidStage, Stage
<1>4. PICK j \in 1 .. Len(Program) : Program[j] = s
  BY <1>3, StageFacts
<1>5. Rank(s) = 6 * l + 1 /\ Rank(Program[i]) = 6 * l + 2
  BY <1>1, <1>2, <1>3, RankFacts
<1>6. Rank(Program[i]) = Rank(Program[j]) + 1
  BY <1>2, <1>4, <1>5
<1>7. i = j + 1
  BY <1>6, StageOrder
<1>8. i - 1 = j
  BY <1>1, <1>7
<1> QED
  BY <1>4, <1>8 DEF s

\* The calls are the interactive stages, in the order of the program.
LEMMA RoundsFacts ==
  /\ numCalls \in Nat
  /\ \A c \in 1 .. numCalls :
       Rounds[c] \in 1 .. Len(Program) /\ IsRound(Program[Rounds[c]])
  /\ \A c, d \in 1 .. numCalls : c < d => Rounds[c] < Rounds[d]
  /\ \A i \in 1 .. Len(Program) :
       IsRound(Program[i]) => \E c \in 1 .. numCalls : Rounds[c] = i
<1> DEFINE n == Len(Program)
           all == [i \in DOMAIN Program |-> i]
           keep == {i \in DOMAIN Program : IsRound(Program[i])}
<1>1. n \in Nat /\ DOMAIN Program = 1 .. n
  BY StageFacts
<1>2. all \in Seq(Nat) /\ Len(all) = n /\ \A i \in 1 .. n : all[i] = i
  BY <1>1
<1>3. \A i \in 1 .. n : i \in keep <=> IsRound(Program[i])
  BY <1>1
<1>4. Rounds = Picked(all, keep) /\ numCalls = Len(Rounds)
  BY DEF Rounds, numCalls
<1> HIDE DEF n, all, keep
<1>5. PickedFrom(Nat, all, keep, n, Rounds)
  BY <1>2, <1>4, PickedFacts
<1>6. Rounds \in Seq(Nat)
  BY <1>5 DEF PickedFrom
<1>7. PICK pos \in [1 .. numCalls -> 1 .. n] :
         /\ \A i \in 1 .. numCalls : pos[i] \in keep /\ Rounds[i] = all[pos[i]]
         /\ \A i, j \in 1 .. numCalls : i < j => pos[i] < pos[j]
         /\ \A j \in 1 .. n : j \in keep => \E i \in 1 .. numCalls : pos[i] = j
  BY <1>4, <1>5 DEF PickedFrom
<1>8. \A c \in 1 .. numCalls : Rounds[c] = pos[c] /\ pos[c] \in 1 .. n
  BY <1>2, <1>7
<1>9. /\ \A c \in 1 .. numCalls : Rounds[c] \in 1 .. n /\ IsRound(Program[Rounds[c]])
      /\ \A c, d \in 1 .. numCalls : c < d => Rounds[c] < Rounds[d]
      /\ \A i \in 1 .. n : IsRound(Program[i]) => \E c \in 1 .. numCalls : Rounds[c] = i
  BY <1>3, <1>7, <1>8
<1>10. numCalls \in Nat
  BY <1>4, <1>6
<1> QED
  BY <1>9, <1>10 DEF n

\* No call reconstructs an empty list.
LEMMA ListLengthFacts ==
  ASSUME NEW s, ValidStage(s), IsRound(s)
  PROVE  ListLength(s) \in Nat \ {0}
<1>1. /\ s.kind \in {"mult", "eqz1", "eqz2", "rec", "outputs"}
      /\ s.kind # "outputs" => s.level \in 1 .. Len(Levels)
  BY DEF ValidStage, IsRound
<1>2. CASE s.kind = "mult"
  <2>1. Len(OfType(s.level, "kMul")) \in Nat /\ Len(OfType(s.level, "kMul")) # 0
    BY <1>1, <1>2, OfTypeFacts DEF ValidStage
  <2> QED
    BY <1>2, <2>1 DEF ListLength
<1>3. CASE s.kind \in {"eqz1", "eqz2"}
  <2>1. Len(OfType(s.level, "kEqz")) \in Nat /\ Len(OfType(s.level, "kEqz")) # 0
    BY <1>1, <1>3, OfTypeFacts DEF ValidStage
  <2> QED
    BY <1>3, <2>1 DEF ListLength
<1>4. CASE s.kind = "rec"
  <2>1. Len(OfType(s.level, "kRec")) \in Nat /\ Len(OfType(s.level, "kRec")) # 0
    BY <1>1, <1>4, OfTypeFacts DEF ValidStage
  <2> QED
    BY <1>4, <2>1 DEF ListLength
<1>5. CASE s.kind = "outputs"
  <2>1. outputs # <<>> /\ outputs \in Seq(Wires(gates))
    BY <1>5, SecureEvalAssumption DEF ValidStage
  <2>2. Len(outputs) \in Nat /\ Len(outputs) # 0
    BY <2>1
  <2> QED
    BY <1>5, <2>2 DEF ListLength
<1> QED
  BY <1>1, <1>2, <1>3, <1>4, <1>5

LEMMA NumSharesFacts ==
  /\ numShares \in [1 .. numCalls -> Nat \ {0}]
  /\ \A c \in 1 .. numCalls : numShares[c] = ListLength(Program[Rounds[c]])
<1>1. \A c \in 1 .. numCalls : ListLength(Program[Rounds[c]]) \in Nat \ {0}
  BY RoundsFacts, StageFacts, ListLengthFacts
<1> QED
  BY <1>1 DEF numShares

\* So the program is one that the loops of reconstruct may be run for.
LEMMA NetAssumptions ==
  /\ NetP!ReconstructAssumption
  /\ NetP!RingSumAssumption
  /\ NetP!NetIOMPAssumption
<1>1. NetP!ReconstructAssumption
  <2>1. ViaKing \in [1 .. numCalls -> BOOLEAN]
    BY OnlineAssumption DEF ViaKing
  <2> QED
    BY <2>1, RoundsFacts, NumSharesFacts DEF NetP!ReconstructAssumption, NetP!Call
<1> QED
  BY <1>1, RingSumAssumption, OnlineAssumption
     DEF NetP!RingSumAssumption, NetP!NetIOMPAssumption
-----------------------------------------------------------------------------
(* The lists that the parties compute.                                       *)

LEMMA RingFacts ==
  /\ RingSize \in Nat \ {0} /\ RINGSIZEBITS \in Nat \ {0} /\ 0 \in Ring
  /\ \A a \in Int : a % RingSize \in Ring
  /\ \A a \in Int : a % RINGSIZEBITS \in Bits
  /\ \A a \in Ring : a \in Int
<1>1. RingSize \in Nat \ {0} /\ RINGSIZEBITS \in Nat \ {0}
  BY RingSumAssumption, SecureEvalAssumption, WordFacts
<1> QED
  BY <1>1 DEF Ring, Bits

LEMMA BitTyped ==
  ASSUME NEW v \in Int, NEW j \in Bits
  PROVE  Bit(v, j) \in Int
<1> DEFINE d == 2 ^ j
<1>1. d \in Nat \ {0}
  BY SecureEvalAssumption, WordFacts
<1> HIDE DEF d
<1>2. v \div d \in Int
  BY <1>1
<1>3. (v \div d) % 2 \in Int
  BY <1>2
<1> QED
  BY <1>3 DEF Bit, d

\* A gate of the circuit and its wires and material.
LEMMA GateShares ==
  ASSUME SharesTyped, NEW p \in Party, NEW k \in 1 .. Len(gates)
  PROVE  /\ gates[k].out \in Wires(gates)
         /\ gates[k].cval \in Ring
         /\ gates[k].type # "kInp" =>
              /\ gates[k].in1 \in Wires(gates) /\ gates[k].in2 \in Wires(gates)
              /\ wires[p][gates[k].in1] \in Ring /\ wires[p][gates[k].in2] \in Ring
         /\ gates[k].type = "kMul" => \A n \in {"a", "b", "c"} : Mine(p, gates[k], n) \in Ring
         /\ gates[k].type = "kEqz" =>
              /\ \A n \in {"r1", "r2"} : Mine(p, gates[k], n) \in Ring
              /\ \A j \in Bits : /\ preproc[p][<<gates[k].out, "r1_bits", j>>] \in Ring
                                 /\ preproc[p][<<gates[k].out, "r2_bits", j>>] \in Ring
<1> DEFINE g == gates[k]
<1>1. IsCircuit(gates) /\ WordsAreBits
  BY SecureEvalAssumption
<1>2. /\ g.out = k - 1 /\ k - 1 \in Wires(gates) /\ g.cval \in Ring
      /\ \A w \in Reads(g) : w \in Wires(gates)
      /\ g.type # "kInp" => g.in1 \in Reads(g) /\ g.in2 \in Reads(g)
  BY <1>1, GateFacts
<1>3. HasItems(g, Material)
  BY <1>1, ItemsFacts DEF Material
<1>4. \A i \in Material : preproc[p][i] \in Ring
  BY DEF SharesTyped
<1>5. \A w \in Wires(gates) : wires[p][w] \in Ring
  BY DEF SharesTyped
<1>6. g.type = "kMul" => \A n \in {"a", "b", "c"} : Mine(p, g, n) \in Ring
  BY <1>3, <1>4 DEF HasItems, Mine
<1>7. g.type = "kEqz" =>
        /\ \A n \in {"r1", "r2"} : Mine(p, g, n) \in Ring
        /\ \A j \in Bits : /\ preproc[p][<<g.out, "r1_bits", j>>] \in Ring
                           /\ preproc[p][<<g.out, "r2_bits", j>>] \in Ring
  BY <1>3, <1>4 DEF HasItems, Mine
<1> QED
  BY <1>2, <1>5, <1>6, <1>7

\* The running sums of eqzEvaluate on party p.
HammingSums(p, g, m1, sum) ==
  /\ sum \in [0 .. RINGSIZEBITS -> Int]
  /\ sum[0] = 0
  /\ \A j \in 1 .. RINGSIZEBITS :
       sum[j] = (sum[j - 1] + (IF p = 1 THEN Bit(m1, j - 1) ELSE 0)
                   + preproc[p][<<g.out, "r1_bits", j - 1>>]
                   - 2 * Bit(m1, j - 1) * preproc[p][<<g.out, "r1_bits", j - 1>>]) % RingSize
  /\ Hamming(p, g, m1) = (sum[RINGSIZEBITS] + Mine(p, g, "r2")) % RingSize

LEMMA HammingLoop ==
  ASSUME SharesTyped, NEW p \in Party, NEW k \in 1 .. Len(gates), gates[k].type = "kEqz",
         NEW m1 \in Ring
  PROVE  Hamming(p, gates[k], m1) \in Ring /\ \E sum : HammingSums(p, gates[k], m1, sum)
<1> DEFINE g == gates[k]
           n == RINGSIZEBITS
           R(j) == preproc[p][<<g.out, "r1_bits", j - 1>>]
           Turn(j, a) == (a + (IF p = 1 THEN Bit(m1, j - 1) ELSE 0)
                            + R(j) - 2 * Bit(m1, j - 1) * R(j)) % RingSize
           step == [j \in 1 .. n |-> [a \in Int |-> Turn(j, a)]]
           Def(f) == [j \in 0 .. n |-> IF j = 0 THEN 0 ELSE Turn(j, f[j - 1])]
           sum == CHOOSE f : f = Def(f)
           m == Mine(p, g, "r2")
<1>1. n \in Nat /\ RingSize \in Nat \ {0} /\ m1 \in Int
  BY RingFacts
<1>2. m \in Int /\ \A j \in 1 .. n : R(j) \in Int /\ Bit(m1, j - 1) \in Int
  <2>1. ASSUME NEW j \in 1 .. n
        PROVE  R(j) \in Int /\ Bit(m1, j - 1) \in Int
    <3>1. j - 1 \in Bits
      BY <1>1 DEF Bits
    <3>2. preproc[p][<<g.out, "r1_bits", j - 1>>] \in Ring
      BY <3>1, GateShares
    <3> QED
      BY <1>1, <3>1, <3>2, BitTyped, RingFacts
  <2> QED
    BY <2>1, GateShares, RingFacts
<1>3. Hamming(p, g, m1) = (sum[n] + m) % RingSize
  BY DEF Hamming
<1> HIDE DEF n, m, R
<1>4. \A j \in 1 .. n, a \in Int : Turn(j, a) \in Int
  <2> TAKE j \in 1 .. n, a \in Int
  <2> DEFINE b == Bit(m1, j - 1)
             r == R(j)
  <2>1. b \in Int /\ r \in Int
    BY <1>2
  <2> HIDE DEF b, r
  <2>2. b * r \in Int
    BY <2>1
  <2>3. 2 * b * r = 2 * (b * r)
    BY <2>1, <2>2
  <2>4. a + (IF p = 1 THEN b ELSE 0) + r - 2 * b * r \in Int
    BY <2>1, <2>2, <2>3
  <2>5. (a + (IF p = 1 THEN b ELSE 0) + r - 2 * b * r) % RingSize \in Int
    BY <1>1, <2>4
  <2> QED
    BY <2>5 DEF b, r
<1> HIDE DEF Turn
<1>5. /\ step \in [1 .. n -> [Int -> Int]] /\ 0 \in Int
      /\ \A j \in 1 .. n, a \in Int : step[j][a] = Turn(j, a)
  BY <1>4
<1> HIDE DEF step
<1>6. PICK h \in [0 .. n -> Int] : History(n, 0, step, h)
  BY <1>1, <1>5, Recursion
<1>7. h = Def(h)
  <2>1. \A j \in 0 .. n : h[j] = Def(h)[j]
    <3> TAKE j \in 0 .. n
    <3>1. CASE j = 0
      BY <1>6, <3>1 DEF History
    <3>2. CASE j # 0
      <4>1. j \in 1 .. n /\ j - 1 \in 0 .. n
        BY <1>1, <3>2
      <4>2. h[j] = step[j][h[j - 1]] /\ h[j - 1] \in Int
        BY <1>6, <4>1 DEF History
      <4> QED
        BY <1>5, <3>2, <4>1, <4>2
    <3> QED
      BY <3>1, <3>2
  <2> QED
    BY <2>1
<1> HIDE DEF Def
<1>8. sum = Def(sum)
  BY <1>7
<1> HIDE DEF sum
<1>9. \A j \in 0 .. n : sum[j] = IF j = 0 THEN 0 ELSE Turn(j, sum[j - 1])
  BY <1>8 DEF Def
<1>10. \A j \in 0 .. n : sum[j] \in Int
  <2> DEFINE T == {j \in 0 .. n : sum[j] \in Int}
  <2>1. 0 \in T
    BY <1>1, <1>9
  <2>2. ASSUME NEW j \in 1 .. n, j - 1 \in T
        PROVE  j \in T
    <3>1. j \in 0 .. n /\ j # 0 /\ sum[j - 1] \in Int
      BY <1>1, <2>2
    <3>2. sum[j] = Turn(j, sum[j - 1])
      BY <1>9, <3>1
    <3> QED
      BY <1>4, <3>1, <3>2
  <2> HIDE DEF T
  <2>3. \A j \in 0 .. n : j \in T
    BY <1>1, <2>1, <2>2, UpTo
  <2> QED
    BY <2>3 DEF T
<1>11. Hamming(p, g, m1) \in Ring
  <2>1. n \in 0 .. n
    BY <1>1
  <2>2. sum[n] + m \in Int
    BY <1>2, <1>10, <2>1
  <2> QED
    BY <1>3, <2>2, RingFacts
<1>12. HammingSums(p, g, m1, sum)
  <2>1. sum \in [0 .. n -> Int]
    BY <1>8, <1>10 DEF Def
  <2>2. sum[0] = 0
    BY <1>1, <1>9
  <2>3. \A j \in 1 .. n : sum[j] = Turn(j, sum[j - 1])
    BY <1>1, <1>9
  <2> QED
    BY <1>3, <2>1, <2>2, <2>3 DEF HammingSums, Turn, R, n, m
<1> QED
  BY <1>11, <1>12

LEMMA ProductTyped ==
  ASSUME SharesTyped, NEW p \in Party, NEW k \in 1 .. Len(gates), gates[k].type = "kMul",
         NEW e \in Int, NEW d \in Int
  PROVE  Product(p, gates[k], e, d) \in Ring
<1> DEFINE g == gates[k]
           a == Mine(p, g, "a")
           b == Mine(p, g, "b")
           z == Mine(p, g, "c")
<1>1. a \in Int /\ b \in Int /\ z \in Int
  BY GateShares, RingFacts
<1>2. Product(p, g, e, d) = (z + e * b + d * a + IF p = 1 THEN e * d ELSE 0) % RingSize
  BY DEF Product
<1> HIDE DEF a, b, z
<1>3. e * b \in Int /\ d * a \in Int /\ e * d \in Int
  BY <1>1
<1>4. z + e * b + d * a + (IF p = 1 THEN e * d ELSE 0) \in Int
  BY <1>1, <1>3
<1> QED
  BY <1>2, <1>4, RingFacts

\* What a stage puts on the wire of its i-th gate.
LEMMA OpenedTyped ==
  ASSUME SharesTyped, NEW p \in Party, NEW c \in 1 .. numCalls,
         NEW list \in Vec(numShares[c]), NEW i \in 1 .. Len(SetBy(Program[Rounds[c]]))
  PROVE  Opened(p, SetBy(Program[Rounds[c]])[i], i, list) \in Ring
<1> DEFINE s == Program[Rounds[c]]
           gs == SetBy(s)
           g == gs[i]
<1>1. ValidStage(s) /\ IsRound(s) /\ numShares[c] = ListLength(s)
  BY RoundsFacts, StageFacts, NumSharesFacts
<1> HIDE DEF s
<1>2. s.kind # "outputs" => s.level \in 1 .. Len(Levels)
  BY <1>1 DEF ValidStage
<1>3. \A j \in 1 .. ListLength(s) : list[j] \in Ring
  BY <1>1 DEF Vec
<1>4. CASE s.kind = "mult"
  <2>1. gs = OfType(s.level, "kMul") /\ ListLength(s) = 2 * Len(gs)
    BY <1>4 DEF SetBy, ListLength
  <2>2. /\ Len(gs) \in Nat /\ g.type = "kMul" /\ \E k \in 1 .. Len(gates) : g = gates[k]
    BY <1>2, <1>4, <2>1, OfTypeFacts DEF s
  <2>3. i \in 1 .. Len(gs)
    BY DEF s
  <2> HIDE DEF gs, g
  <2>4. 2 * i - 1 \in 1 .. 2 * Len(gs) /\ 2 * i \in 1 .. 2 * Len(gs)
    BY <2>2, <2>3
  <2>5. list[2 * i - 1] \in Int /\ list[2 * i] \in Int
    BY <1>3, <2>1, <2>4, RingFacts
  <2>6. Opened(p, g, i, list) = Product(p, g, list[2 * i - 1], list[2 * i])
    BY <2>2 DEF Opened
  <2>7. Product(p, g, list[2 * i - 1], list[2 * i]) \in Ring
    BY <2>2, <2>5, ProductTyped
  <2> QED
    BY <2>6, <2>7 DEF gs, g, s
<1>5. CASE s.kind = "eqz2"
  <2>1. gs = OfType(s.level, "kEqz") /\ ListLength(s) = Len(gs)
    BY <1>5 DEF SetBy, ListLength
  <2>2. Len(gs) \in Nat /\ g.type = "kEqz" /\ \E k \in 1 .. Len(gates) : g = gates[k]
    BY <1>2, <1>5, <2>1, OfTypeFacts DEF s
  <2>3. i \in 1 .. Len(gs)
    BY DEF s
  <2> HIDE DEF gs, g
  <2>4. list[i] \in Int
    BY <1>3, <2>1, <2>3, RingFacts
  <2>5. list[i] % RINGSIZEBITS \in Bits
    BY <2>4, RingFacts
  <2>6. Opened(p, g, i, list) = preproc[p][<<g.out, "r2_bits", list[i] % RINGSIZEBITS>>]
    BY <2>2 DEF Opened
  <2> QED
    BY <2>2, <2>5, <2>6, GateShares DEF gs, g, s
<1>6. CASE s.kind = "rec"
  <2>1. gs = OfType(s.level, "kRec") /\ ListLength(s) = Len(gs)
    BY <1>6 DEF SetBy, ListLength
  <2>2. Len(gs) \in Nat /\ g.type = "kRec"
    BY <1>2, <1>6, <2>1, OfTypeFacts DEF s
  <2>3. i \in 1 .. Len(gs)
    BY DEF s
  <2> QED
    BY <1>3, <2>1, <2>2, <2>3 DEF Opened, s
<1>7. CASE s.kind \notin {"mult", "eqz2", "rec"}
  BY <1>7 DEF SetBy, s
<1> QED
  BY <1>4, <1>5, <1>6, <1>7

\* The wires of the gates a stage sets are wires.
LEMMA OpenedWires ==
  ASSUME SharesTyped, NEW p \in Party, NEW c \in 1 .. numCalls, NEW list \in Vec(numShares[c])
  PROVE  LET gs == SetBy(Program[Rounds[c]])
         IN  [w \in Wires(gates) |->
                IF \E i \in DOMAIN gs : gs[i].out = w
                THEN LET i == CHOOSE i \in DOMAIN gs : gs[i].out = w
                     IN  Opened(p, gs[i], i, list)
                ELSE wires[p][w]] \in [Wires(gates) -> Ring]
<1> DEFINE s == Program[Rounds[c]]
           gs == SetBy(s)
<1>1. ValidStage(s) /\ IsRound(s)
  BY RoundsFacts, StageFacts
<1>2. DOMAIN gs = 1 .. Len(gs)
  <2> HIDE DEF s
  <2>1. s.kind # "outputs" => s.level \in 1 .. Len(Levels)
    BY <1>1 DEF ValidStage
  <2>2. s.kind = "mult" => gs \in Seq(GateRecord)
    BY <2>1, OfTypeFacts DEF SetBy
  <2>3. s.kind = "eqz2" => gs \in Seq(GateRecord)
    BY <2>1, OfTypeFacts DEF SetBy
  <2>4. s.kind = "rec" => gs \in Seq(GateRecord)
    BY <2>1, OfTypeFacts DEF SetBy
  <2>5. s.kind \notin {"mult", "eqz2", "rec"} => gs = <<>>
    BY DEF SetBy
  <2> HIDE DEF gs
  <2> QED
    BY <2>2, <2>3, <2>4, <2>5
<1>3. \A i \in DOMAIN gs : Opened(p, gs[i], i, list) \in Ring
  BY <1>2, OpenedTyped
<1>4. \A w \in Wires(gates) : wires[p][w] \in Ring
  BY DEF SharesTyped
<1> HIDE DEF gs
<1>5. SUFFICES ASSUME NEW w \in Wires(gates)
               PROVE  (IF \E i \in DOMAIN gs : gs[i].out = w
                       THEN LET i == CHOOSE i \in DOMAIN gs : gs[i].out = w
                            IN  Opened(p, gs[i], i, list)
                       ELSE wires[p][w]) \in Ring
  BY DEF gs
<1> QED
  BY <1>3, <1>4

LEMMA LocalValueTyped ==
  ASSUME SharesTyped, NEW p \in Party, NEW k \in 1 .. Len(gates), gates[k].type \in LocalTypes,
         NEW v, \A w \in Reads(gates[k]) : v[w] \in Ring
  PROVE  LocalValue(p, gates[k], v) \in Ring
<1> DEFINE g == gates[k]
           x == v[g.in1]
           y == v[g.in2]
           c == g.cval
<1>1. g.in1 \in Reads(g) /\ g.in2 \in Reads(g) /\ c \in Ring
  BY SecureEvalAssumption, GateFacts DEF LocalTypes
<1>2. x \in Ring /\ y \in Ring
  BY <1>1
<1>3. x \in Int /\ y \in Int /\ c \in Int
  BY <1>1, <1>2, RingFacts
<1>4. /\ g.type = "kAdd" => LocalValue(p, g, v) = (x + y) % RingSize
      /\ g.type = "kSub" => LocalValue(p, g, v) = (x - y) % RingSize
      /\ g.type = "kConstAdd" =>
           LocalValue(p, g, v) = IF p = 1 THEN (x + c) % RingSize ELSE x
      /\ g.type = "kConstMul" => LocalValue(p, g, v) = (x * c) % RingSize
  BY DEF LocalValue
<1>5. g.type \in {"kAdd", "kSub", "kConstAdd", "kConstMul"}
  BY DEF LocalTypes
<1> HIDE DEF x, y, c, g
<1>6. x + y \in Int /\ x - y \in Int /\ x + c \in Int /\ x * c \in Int
  BY <1>3
<1>7. /\ (x + y) % RingSize \in Ring /\ (x - y) % RingSize \in Ring
      /\ (x + c) % RingSize \in Ring /\ (x * c) % RingSize \in Ring
  BY <1>6, RingFacts
<1> QED
  BY <1>2, <1>4, <1>5, <1>7 DEF g

\* The wires after the local gates of level l.
LocalWires(p, l) ==
  LET gs == OfTypes(Levels[l], LocalTypes)
      after[k \in 0 .. Len(gs)] ==
        IF k = 0 THEN wires[p]
        ELSE [after[k - 1] EXCEPT ![gs[k].out] = LocalValue(p, gs[k], after[k - 1])]
  IN  after[Len(gs)]

-----------------------------------------------------------------------------
\* The state of setInputs after k inputs: k shares, and no generator has been
\* drawn from more than k times.
AfterInputs(k) ==
  {s \in [share : Seq(Ring), drawn : [Party -> Nat]] :
     Len(s.share) = k /\ \A i \in Party : s.drawn[i] <= k}

LEMMA StartTyped == Start \in AfterInputs(0)
<1>1. [i \in Party |-> 0] \in [Party -> Nat]
  OBVIOUS
<1> QED
  BY <1>1 DEF Start, AfterInputs

LEMMA HoldTyped ==
  ASSUME NEW p \in Party, NEW k \in Nat \ {0}, NEW s \in AfterInputs(k - 1),
         NEW str \in Seq(Ring), Len(str) >= k
  PROVE  /\ \A i \in Party : NextDraw(s, i, str) \in Ring
         /\ Hold(p, s, str) \in AfterInputs(k)
<1>1. /\ s \in [share : Seq(Ring), drawn : [Party -> Nat]] /\ Len(s.share) = k - 1
      /\ s.share \in Seq(Ring) /\ s.drawn \in [Party -> Nat]
      /\ \A i \in Party : s.drawn[i] \in Nat /\ s.drawn[i] <= k - 1
  BY DEF AfterInputs
<1>2. \A i \in Party : NextDraw(s, i, str) \in Ring
  <2> TAKE i \in Party
  <2>1. s.drawn[i] + 1 \in 1 .. Len(str)
    BY <1>1
  <2> QED
    BY <2>1 DEF NextDraw
<1> DEFINE t == Hold(p, s, str)
           d == [s.drawn EXCEPT ![p] = @ + 1]
           u == Append(s.share, NextDraw(s, p, str))
<1>3. t = [share |-> u, drawn |-> d]
  BY DEF Hold
<1>4. u \in Seq(Ring) /\ Len(u) = k
  <2>1. Len(u) = Len(s.share) + 1 /\ u \in Seq(Ring)
    BY <1>1, <1>2
  <2> QED
    BY <1>1, <2>1
<1>5. d \in [Party -> Nat] /\ \A i \in Party : d[i] <= k
  BY <1>1
<1> HIDE DEF t, u, d
<1>6. t \in [share : Seq(Ring), drawn : [Party -> Nat]] /\ t.share = u /\ t.drawn = d
  BY <1>3, <1>4, <1>5
<1>7. t \in AfterInputs(k)
  BY <1>4, <1>5, <1>6 DEF AfterInputs
<1> QED
  BY <1>2, <1>7 DEF t

LEMMA OwnTyped ==
  ASSUME NEW p \in Party, NEW k \in Nat \ {0}, NEW s \in AfterInputs(k - 1), NEW v \in Ring,
         NEW str \in Seq(Ring), Len(str) >= k
  PROVE  Own(p, v, s, str) \in AfterInputs(k)
<1>1. /\ s \in [share : Seq(Ring), drawn : [Party -> Nat]] /\ Len(s.share) = k - 1
      /\ s.share \in Seq(Ring) /\ s.drawn \in [Party -> Nat]
      /\ \A i \in Party : s.drawn[i] \in Nat /\ s.drawn[i] <= k - 1
  BY DEF AfterInputs
<1> DEFINE others == [i \in Party |-> IF i = p THEN 0 ELSE NextDraw(s, i, str)]
           u == Append(s.share, (v - Total(others)) % RingSize)
           d == [i \in Party |-> IF i = p THEN s.drawn[i] ELSE s.drawn[i] + 1]
           t == Own(p, v, s, str)
<1>2. others \in [Party -> Int]
  BY HoldTyped, RingFacts
<1>3. t = [share |-> u, drawn |-> d]
  BY DEF Own
<1> HIDE DEF others
<1>4. Total(others) \in Int /\ v \in Int
  BY <1>2, TotalInRing, RingFacts
<1>5. (v - Total(others)) % RingSize \in Ring
  <2>1. v - Total(others) \in Int
    BY <1>4
  <2> QED
    BY <2>1, RingFacts
<1>6. u \in Seq(Ring) /\ Len(u) = k
  <2>1. Len(u) = Len(s.share) + 1 /\ u \in Seq(Ring)
    BY <1>1, <1>5
  <2> QED
    BY <1>1, <2>1
<1>7. d \in [Party -> Nat] /\ \A i \in Party : d[i] <= k
  BY <1>1
<1> HIDE DEF t, u, d
<1>8. t \in [share : Seq(Ring), drawn : [Party -> Nat]] /\ t.share = u /\ t.drawn = d
  BY <1>3, <1>6, <1>7
<1>9. t \in AfterInputs(k)
  BY <1>6, <1>7, <1>8 DEF AfterInputs
<1> QED
  BY <1>9 DEF t

\* A is the history of the loop over n inputs.
InputHistory(p, n, owner, val, str, A) ==
  /\ A[0] = Start
  /\ \A k \in 1 .. n : A[k] = IF owner[k] = p THEN Own(p, val[k], A[k - 1], str)
                                               ELSE Hold(p, A[k - 1], str)
  /\ \A k \in 0 .. n : A[k] \in AfterInputs(k)

LEMMA InputLoop ==
  ASSUME NEW p \in Party, NEW n \in Nat, NEW owner, Len(owner) = n, NEW val \in Vec(n),
         NEW str \in Seq(Ring), Len(str) >= n
  PROVE  \E A : /\ InputHistory(p, n, owner, val, str, A)
                /\ SharesOfInputs(p, owner, val, str) = A[n]
<1> DEFINE S == [share : Seq(Ring), drawn : [Party -> Nat]]
           Fine == [k \in 0 .. n |-> AfterInputs(k)]
           Turn(k, a) == IF owner[k] = p THEN Own(p, val[k], a, str) ELSE Hold(p, a, str)
           step == [k \in 1 .. n |-> [a \in S |-> Turn(k, a)]]
           Def(f) == [k \in 0 .. n |-> IF k = 0 THEN Start ELSE Turn(k, f[k - 1])]
           A == CHOOSE f : f = Def(f)
<1>1. \A k \in 1 .. n : k \in Nat \ {0} /\ k \in 0 .. n /\ k - 1 \in 0 .. n /\ k # 0 /\ Len(str) >= k
  OBVIOUS
<1>2. \A k \in 1 .. n : \A a \in AfterInputs(k - 1) : Turn(k, a) \in AfterInputs(k)
  <2> TAKE k \in 1 .. n
  <2> TAKE a \in AfterInputs(k - 1)
  <2>1. val[k] \in Ring
    BY DEF Vec
  <2>2. Own(p, val[k], a, str) \in AfterInputs(k)
    BY <1>1, <2>1, OwnTyped
  <2>3. Hold(p, a, str) \in AfterInputs(k)
    BY <1>1, HoldTyped
  <2> QED
    BY <2>2, <2>3
<1>3. SharesOfInputs(p, owner, val, str) = A[n]
  BY DEF SharesOfInputs
<1> HIDE DEF Turn
<1>4. \A k \in Nat : AfterInputs(k) \subseteq S
  BY DEF AfterInputs
<1> HIDE DEF S
<1>5. /\ Fine \in [0 .. n -> SUBSET S] /\ \A k \in 0 .. n : Fine[k] = AfterInputs(k)
      /\ 0 \in 0 .. n /\ Start \in Fine[0]
  <2>1. \A k \in 0 .. n : AfterInputs(k) \subseteq S
    BY <1>4
  <2> QED
    BY <2>1, StartTyped
<1>6. \A k \in 1 .. n : \A a \in Fine[k - 1] : step[k][a] = Turn(k, a) /\ step[k][a] \in Fine[k]
  <2> TAKE k \in 1 .. n
  <2> TAKE a \in Fine[k - 1]
  <2>1. a \in AfterInputs(k - 1) /\ a \in S
    BY <1>1, <1>5
  <2>2. step[k][a] = Turn(k, a)
    BY <2>1
  <2>3. Turn(k, a) \in Fine[k]
    BY <1>1, <1>2, <1>5, <2>1
  <2> QED
    BY <2>2, <2>3
<1> HIDE DEF Fine, step
<1>7. PICK h \in [0 .. n -> S] : History(n, Start, step, h) /\ \A k \in 0 .. n : h[k] \in Fine[k]
  <2>1. \A k \in 1 .. n : \A a \in Fine[k - 1] : step[k][a] \in Fine[k]
    BY <1>6
  <2>2. Fine \in [0 .. n -> SUBSET S] /\ Start \in Fine[0]
    BY <1>5
  <2> QED
    BY <2>1, <2>2, Loop
<1>8. h = Def(h)
  <2>1. \A k \in 0 .. n : h[k] = Def(h)[k]
    <3> TAKE k \in 0 .. n
    <3>1. CASE k = 0
      BY <1>7, <3>1 DEF History
    <3>2. CASE k # 0
      <4>1. k \in 1 .. n /\ k - 1 \in 0 .. n
        BY <3>2
      <4>2. h[k] = step[k][h[k - 1]] /\ h[k - 1] \in Fine[k - 1]
        BY <1>7, <4>1 DEF History
      <4> QED
        BY <1>6, <3>2, <4>1, <4>2
    <3> QED
      BY <3>1, <3>2
  <2> QED
    BY <2>1
<1> HIDE DEF Def
<1>9. A = Def(A)
  BY <1>8
<1> HIDE DEF A
<1>10. A[0] = Start /\ \A k \in 1 .. n : A[k] = Turn(k, A[k - 1])
  BY <1>1, <1>5, <1>9 DEF Def
<1>11. \A k \in 0 .. n : A[k] \in AfterInputs(k)
  <2> DEFINE T == {k \in 0 .. n : A[k] \in AfterInputs(k)}
  <2>1. 0 \in T
    BY <1>5, <1>10, StartTyped
  <2>2. ASSUME NEW k \in 1 .. n, k - 1 \in T
        PROVE  k \in T
    <3>1. A[k - 1] \in AfterInputs(k - 1)
      BY <2>2
    <3>2. A[k] = Turn(k, A[k - 1])
      BY <1>10
    <3>3. A[k] \in AfterInputs(k)
      BY <1>2, <3>1, <3>2
    <3> QED
      BY <1>1, <3>3
  <2> HIDE DEF T
  <2>3. \A k \in 0 .. n : k \in T
    BY <2>1, <2>2, UpTo
  <2> QED
    BY <2>3 DEF T
<1>12. InputHistory(p, n, owner, val, str, A)
  BY <1>10, <1>11 DEF InputHistory, Turn
<1> QED
  BY <1>3, <1>12

\* It gives one share for every input.
LEMMA SharesOfInputsTyped ==
  ASSUME NEW p \in Party, NEW n \in Nat, NEW owner, Len(owner) = n, NEW val \in Vec(n),
         NEW str \in Seq(Ring), Len(str) >= n
  PROVE  SharesOfInputs(p, owner, val, str) \in AfterInputs(n)
<1>1. n \in 0 .. n
  OBVIOUS
<1> QED
  BY <1>1, InputLoop DEF InputHistory

\* Random inputs are inputs that nobody owns.
LEMMA RandomAreUnowned ==
  ASSUME NEW p \in Party, NEW n \in Nat, NEW str, NEW zero, Len(zero) = n, \A k \in 1 .. n : zero[k] = 0
  PROVE  RandomShares(p, n, str) = SharesOfInputs(p, zero, zero, str)
<1> DEFINE F(f) == [k \in 0 .. n |-> IF k = 0 THEN Start ELSE Hold(p, f[k - 1], str)]
           G(f) == [k \in 0 .. n |-> IF k = 0 THEN Start
                                     ELSE IF zero[k] = p THEN Own(p, zero[k], f[k - 1], str)
                                     ELSE Hold(p, f[k - 1], str)]
<1>1. \A f : F(f) = G(f)
  <2> TAKE f
  <2>1. p # 0
    BY DEF Party
  <2>2. \A k \in 0 .. n : F(f)[k] = G(f)[k]
    BY <2>1
  <2> QED
    BY <2>2
<1>2. RandomShares(p, n, str) = (CHOOSE f : f = F(f))[n]
  BY DEF RandomShares
<1>3. SharesOfInputs(p, zero, zero, str) = (CHOOSE f : f = G(f))[n]
  BY DEF SharesOfInputs
<1> HIDE DEF F, G
<1> QED
  BY <1>1, <1>2, <1>3

\* The input gates have a place in the order of the loop.
LEMMA InputOrderFacts ==
  /\ numInputs \in Nat /\ DOMAIN InputOrder = 1 .. numInputs
  /\ \A w \in InputWires(gates) : \E k \in DOMAIN InputOrder : InputOrder[k].out = w
<1> DEFINE level == Levels[1]
           types == {"kInp"}
<1>1. IsCircuit(gates) /\ level \in Seq(GateRecord) /\ 1 \in 1 .. Len(Levels)
      /\ Collected(gates, LevelOf, 0, Len(gates), level)
  BY SecureEvalAssumption, LevelFacts
<1>2. InputOrder = OfTypes(level, types)
  BY DEF InputOrder
<1>3. \A x : x \in types <=> x = "kInp"
  OBVIOUS
<1> HIDE DEF level, types
<1>4. /\ InputOrder \in Seq(GateRecord)
      /\ \A j \in 1 .. Len(level) :
           level[j].type \in types => \E i \in 1 .. Len(InputOrder) : InputOrder[i] = level[j]
  BY <1>1, <1>2, OfTypesFacts
<1>5. numInputs \in Nat /\ DOMAIN InputOrder = 1 .. numInputs
  BY <1>4 DEF numInputs
<1>6. ASSUME NEW w \in InputWires(gates)
      PROVE  \E k \in DOMAIN InputOrder : InputOrder[k].out = w
  <2>1. DOMAIN gates = 1 .. Len(gates)
    BY <1>1 DEF IsCircuit
  <2>2. PICK k \in 1 .. Len(gates) : gates[k].type = "kInp" /\ gates[k].out = w
    BY <2>1 DEF InputWires
  <2>3. LevelOf[k - 1] = 0
    <3>1. GateLevel(gates)[k - 1] = NewLevel(gates[k], GateLevel(gates))
      BY <1>1, LevelIsRule
    <3> QED
      BY <2>2, <3>1 DEF LevelOf, NewLevel
  <2>4. PICK j \in 1 .. Len(level) : level[j] = gates[k]
    BY <1>1, <2>3 DEF Collected
  <2>5. \E i \in 1 .. Len(InputOrder) : InputOrder[i] = level[j]
    BY <1>3, <1>4, <2>2, <2>4
  <2> QED
    BY <1>4, <2>2, <2>4, <2>5
<1> QED
  BY <1>5, <1>6

\* The input gates are those on level 0 of that type.
LEMMA InputGroup ==
  /\ IsGroup(InputOrder, 1, {"kInp"})
  /\ \A k \in 1 .. numInputs : InputNo(InputOrder[k].out) = k
  /\ \A k \in 1 .. Len(gates) : gates[k].type = "kInp" =>
       /\ LevelOf[k - 1] = 0
       /\ InputNo(k - 1) \in 1 .. numInputs /\ InputOrder[InputNo(k - 1)] = gates[k]
<1>1. IsGroup(InputOrder, 1, {"kInp"})
  BY GroupFacts, LevelFacts DEF InputOrder
<1>2. numInputs = Len(InputOrder) /\ DOMAIN InputOrder = 1 .. numInputs
  BY InputOrderFacts DEF numInputs
<1>3. \A k \in 1 .. numInputs : InputNo(InputOrder[k].out) = k
  <2> TAKE k \in 1 .. numInputs
  <2>1. \A i \in 1 .. numInputs : InputOrder[i].out = InputOrder[k].out => i = k
    BY <1>1, <1>2, GroupWires
  <2> QED
    BY <1>2, <2>1 DEF InputNo
<1>4. ASSUME NEW k \in 1 .. Len(gates), gates[k].type = "kInp"
      PROVE  /\ LevelOf[k - 1] = 0
             /\ InputNo(k - 1) \in 1 .. numInputs /\ InputOrder[InputNo(k - 1)] = gates[k]
  <2>1. GateLevel(gates)[k - 1] = NewLevel(gates[k], GateLevel(gates))
    BY SecureEvalAssumption, LevelIsRule
  <2>2. LevelOf[k - 1] = 0
    BY <1>4, <2>1 DEF LevelOf, NewLevel
  <2>3. PICK i \in 1 .. numInputs : InputOrder[i] = gates[k]
    BY <1>1, <1>2, <1>4, <2>2 DEF IsGroup
  <2>4. gates[k].out = k - 1
    BY SecureEvalAssumption, GateFacts
  <2> QED
    BY <1>3, <2>2, <2>3, <2>4
<1> QED
  BY <1>1, <1>3, <1>4

\* setInputs gives every party a ring element for every input.
LEMMA InputSharesTyped ==
  ASSUME GivenTyped, NEW p \in Party, NEW k \in 1 .. numInputs
  PROVE  InputsOf(p).share[k] \in Ring
<1>1. InputsOf(p) \in AfterInputs(numInputs)
  <2>1. CASE given.random
    <3> DEFINE zero == [n \in 1 .. numInputs |-> 0]
    <3>1. Len(zero) = numInputs /\ (\A n \in 1 .. numInputs : zero[n] = 0) /\ zero \in Vec(numInputs)
      BY InputOrderFacts, RingFacts DEF Vec
    <3> HIDE DEF zero
    <3>2. InputsOf(p) = SharesOfInputs(p, zero, zero, stream)
      BY <2>1, <3>1, InputOrderFacts, RandomAreUnowned DEF InputsOf
    <3>3. SharesOfInputs(p, zero, zero, stream) \in AfterInputs(numInputs)
      BY <3>1, InputOrderFacts, SharesOfInputsTyped DEF GivenTyped
    <3> QED
      BY <3>2, <3>3
  <2>2. CASE ~given.random
    <3> DEFINE owner == given.owner[p]
               val == given.value[p]
    <3>1. owner \in [1 .. numInputs -> 0 .. nP] /\ val \in Vec(numInputs)
      BY DEF GivenTyped, IsCase
    <3> HIDE DEF owner, val
    <3>2. Len(owner) = numInputs
      BY <3>1, InputOrderFacts
    <3>3. SharesOfInputs(p, owner, val, stream) \in AfterInputs(numInputs)
      BY <3>1, <3>2, InputOrderFacts, SharesOfInputsTyped DEF GivenTyped
    <3> QED
      BY <2>2, <3>3 DEF InputsOf, owner, val
  <2> QED
    BY <2>1, <2>2
<1>2. InputsOf(p).share \in Seq(Ring) /\ Len(InputsOf(p).share) = numInputs
  BY <1>1 DEF AfterInputs
<1> DEFINE share == InputsOf(p).share
<1> HIDE DEF share
<1>3. share[k] \in Ring
  BY <1>2, InputOrderFacts DEF share
<1> QED
  BY <1>3 DEF share

\* The wires after setInputs.
LEMMA InputsTyped ==
  ASSUME GivenTyped, SharesTyped, NEW p \in Party
  PROVE  [w \in Wires(gates) |->
            IF w \in InputWires(gates)
            THEN InputsOf(p).share[InputNo(w)]
            ELSE wires[p][w]] \in [Wires(gates) -> Ring]
<1> DEFINE share == InputsOf(p).share
<1>3. \A k \in DOMAIN InputOrder : share[k] \in Ring
  BY InputOrderFacts, InputSharesTyped
<1> HIDE DEF share
<1>4. \A w \in Wires(gates) : wires[p][w] \in Ring
  BY DEF SharesTyped
<1>5. ASSUME NEW w \in Wires(gates)
      PROVE  (IF w \in InputWires(gates)
              THEN share[InputNo(w)]
              ELSE wires[p][w]) \in Ring
  <2>1. CASE w \in InputWires(gates)
    <3>1. InputNo(w) \in DOMAIN InputOrder
      BY <2>1, InputOrderFacts DEF InputNo
    <3> QED
      BY <1>3, <2>1, <3>1
  <2>2. CASE w \notin InputWires(gates)
    BY <1>4, <2>2
  <2> QED
    BY <2>1, <2>2
<1> QED
  BY <1>5 DEF share

\* What is left of v for the party that takes away what all others draw.
Remainder(p, v, d) == (v - Total([i \in Party |-> IF i = p THEN 0 ELSE d])) % RingSize

\* After k inputs: the shares so far, and how often which generators were used.
HeldUpTo(p, str, k, s) ==
  /\ \A j \in 1 .. k : s.share[j] = str[j]
  /\ s.drawn[p] = k

OwnedUpTo(p, val, str, k, s) ==
  /\ \A j \in 1 .. k : s.share[j] = Remainder(p, val[j], str[j])
  /\ \A i \in Party : i # p => s.drawn[i] = k

\* A party that owns none of the inputs holds the draws of its own generator.
LEMMA SharesHeld ==
  ASSUME NEW p \in Party, NEW n \in Nat, NEW owner, Len(owner) = n, NEW val \in Vec(n),
         NEW str \in Seq(Ring), Len(str) >= n, \A k \in 1 .. n : owner[k] # p
  PROVE  \A k \in 1 .. n : SharesOfInputs(p, owner, val, str).share[k] = str[k]
<1>1. PICK A : /\ InputHistory(p, n, owner, val, str, A)
               /\ SharesOfInputs(p, owner, val, str) = A[n]
  BY InputLoop
<1> DEFINE T == {k \in 0 .. n : HeldUpTo(p, str, k, A[k])}
<1>2. 0 \in T
  <2>1. A[0] = Start
    BY <1>1 DEF InputHistory
  <2> QED
    BY <2>1 DEF HeldUpTo, Start
<1>3. ASSUME NEW k \in 1 .. n, k - 1 \in T
      PROVE  k \in T
  <2> DEFINE s == A[k - 1]
  <2>1. HeldUpTo(p, str, k - 1, s) /\ s \in AfterInputs(k - 1)
    BY <1>1, <1>3 DEF InputHistory
  <2>2. A[k] = Hold(p, s, str)
    BY <1>1 DEF InputHistory
  <2> HIDE DEF s
  <2>3. s.share \in Seq(Ring) /\ Len(s.share) = k - 1 /\ s.drawn \in [Party -> Nat]
    BY <2>1 DEF AfterInputs
  <2>4. s.drawn[p] = k - 1 /\ \A j \in 1 .. k - 1 : s.share[j] = str[j]
    BY <2>1 DEF HeldUpTo
  <2>5. A[k].share = Append(s.share, str[k]) /\ A[k].drawn[p] = k
    BY <2>2, <2>3, <2>4 DEF Hold, NextDraw
  <2>6. \A j \in 1 .. k : Append(s.share, str[k])[j] = str[j]
    <3> TAKE j \in 1 .. k
    <3>1. j \in 1 .. k - 1 \/ j = k
      OBVIOUS
    <3>2. Len(s.share) + 1 = k
      BY <2>3
    <3> QED
      BY <2>3, <2>4, <3>1, <3>2
  <2>7. HeldUpTo(p, str, k, A[k])
    BY <2>5, <2>6 DEF HeldUpTo
  <2> QED
    BY <2>7
<1> HIDE DEF T
<1>4. n \in T
  BY <1>2, <1>3, UpTo
<1> QED
  BY <1>1, <1>4 DEF T, HeldUpTo

\* A party that owns all of the inputs holds what the others' draws leave.
LEMMA SharesOwned ==
  ASSUME NEW p \in Party, NEW n \in Nat, NEW owner, Len(owner) = n, NEW val \in Vec(n),
         NEW str \in Seq(Ring), Len(str) >= n, \A k \in 1 .. n : owner[k] = p
  PROVE  \A k \in 1 .. n :
           SharesOfInputs(p, owner, val, str).share[k] = Remainder(p, val[k], str[k])
<1>1. PICK A : /\ InputHistory(p, n, owner, val, str, A)
               /\ SharesOfInputs(p, owner, val, str) = A[n]
  BY InputLoop
<1> DEFINE T == {k \in 0 .. n : OwnedUpTo(p, val, str, k, A[k])}
<1>2. 0 \in T
  <2>1. A[0] = Start
    BY <1>1 DEF InputHistory
  <2> QED
    BY <2>1 DEF OwnedUpTo, Start
<1>3. ASSUME NEW k \in 1 .. n, k - 1 \in T
      PROVE  k \in T
  <2> DEFINE s == A[k - 1]
             r == Remainder(p, val[k], str[k])
  <2>1. OwnedUpTo(p, val, str, k - 1, s) /\ s \in AfterInputs(k - 1)
    BY <1>1, <1>3 DEF InputHistory
  <2>2. A[k] = Own(p, val[k], s, str)
    BY <1>1 DEF InputHistory
  <2> HIDE DEF s
  <2>3. s.share \in Seq(Ring) /\ Len(s.share) = k - 1 /\ s.drawn \in [Party -> Nat]
    BY <2>1 DEF AfterInputs
  <2>4. /\ \A i \in Party : i # p => s.drawn[i] = k - 1
        /\ \A j \in 1 .. k - 1 : s.share[j] = Remainder(p, val[j], str[j])
    BY <2>1 DEF OwnedUpTo
  <2>5. [i \in Party |-> IF i = p THEN 0 ELSE NextDraw(s, i, str)]
          = [i \in Party |-> IF i = p THEN 0 ELSE str[k]]
    BY <2>4 DEF NextDraw
  <2>6. A[k].share = Append(s.share, r)
    <3> DEFINE others == [i \in Party |-> IF i = p THEN 0 ELSE NextDraw(s, i, str)]
    <3>1. A[k].share = Append(s.share, (val[k] - Total(others)) % RingSize)
      BY <2>2 DEF Own
    <3>2. r = (val[k] - Total(others)) % RingSize
      BY <2>5 DEF Remainder
    <3> QED
      BY <3>1, <3>2
  <2>10. \A i \in Party : i # p => A[k].drawn[i] = k
    BY <2>2, <2>4 DEF Own
  <2> HIDE DEF r
  <2> DEFINE u == Append(s.share, r)
  <2>7. \A j \in 1 .. k : u[j] = IF j = k THEN r ELSE s.share[j]
    <3> TAKE j \in 1 .. k
    <3>1. Len(s.share) + 1 = k /\ (j = k \/ j \in 1 .. Len(s.share))
      BY <2>3
    <3> QED
      BY <2>3, <3>1
  <2>11. A[k].share = u
    BY <2>6
  <2> HIDE DEF u
  <2>8. \A j \in 1 .. k : A[k].share[j] = Remainder(p, val[j], str[j])
    <3> TAKE j \in 1 .. k
    <3>1. j = k \/ (j # k /\ j \in 1 .. k - 1)
      OBVIOUS
    <3> QED
      BY <2>4, <2>7, <2>11, <3>1 DEF r
  <2>9. OwnedUpTo(p, val, str, k, A[k])
    BY <2>8, <2>10 DEF OwnedUpTo
  <2> QED
    BY <2>9
<1> HIDE DEF T
<1>4. n \in T
  BY <1>2, <1>3, UpTo
<1> QED
  BY <1>1, <1>4 DEF T, OwnedUpTo

\* What all but one party draw.
LEMMA RemainderFacts ==
  ASSUME NEW p \in Party, NEW v \in Int, NEW d \in Int
  PROVE  /\ Remainder(p, v, d) \in Ring
         /\ Same(RingSize, Remainder(p, v, d), v - nP * d + d)
<1> DEFINE others == [i \in Party |-> IF i = p THEN 0 ELSE d]
           all == [i \in Party |-> d]
           one == [i \in Party |-> IF i = p THEN d ELSE 0]
           m == RingSize
           n == nP * d
           t == Total(others)
<1>1. m \in Nat \ {0} /\ nP \in Int /\ n \in Int
  BY RingSumAssumption
<1>2. /\ others \in [Party -> Int] /\ all \in [Party -> Int] /\ one \in [Party -> Int]
      /\ \A i \in Party : one[i] = IF i = p THEN d ELSE 0
      /\ \A i \in Party : others[i] = 1 * all[i] + (-1) * one[i]
  OBVIOUS
<1>3. Total(all) = n % m /\ Total(one) = d % m
  BY <1>2, TotalOfSame, TotalOfOne
<1>4. Remainder(p, v, d) = (v - t) % m
  BY DEF Remainder
<1> HIDE DEF others, all, one
<1>5. Total(others) = (1 * Total(all) + (-1) * Total(one)) % m
  <2>1. Combines(others, 1, all, -1, one)
    BY <1>2 DEF Combines
  <2>2. 1 \in Int /\ -1 \in Int /\ others \in [Party -> Int] /\ all \in [Party -> Int] /\ one \in [Party -> Int]
    BY <1>2
  <2> QED
    BY ONLY <2>1, <2>2, TotalLinear DEF m
<1> DEFINE a == n % m
           b == d % m
<1>6. a \in Int /\ b \in Int /\ Same(m, a, n) /\ Same(m, b, d)
  BY <1>1, SameRemainder
<1>7. t = (a - b) % m
  BY <1>3, <1>5, <1>6
<1> HIDE DEF m, n, t, a, b
<1>8. t \in Int /\ Same(m, t, a - b)
  <2> DEFINE g == a - b
  <2>1. g \in Int /\ t = g % m
    BY <1>6, <1>7
  <2> HIDE DEF g
  <2>2. t \in Int /\ Same(m, t, g)
    BY <1>1, <2>1, SameRemainder
  <2> QED
    BY <2>2 DEF g
<1>9. Same(m, a - b, n - d)
  BY <1>1, <1>6, SameOps
<1>10. Same(m, t, n - d)
  BY <1>8, <1>9 DEF Same
<1>11. Same(m, v - t, v - (n - d))
  <2>1. Same(m, v, v) /\ n - d \in Int
    BY <1>1, SameRemainder
  <2> DEFINE w == n - d
  <2> HIDE DEF w
  <2>2. Same(m, v - t, v - w)
    BY <1>1, <1>8, <1>10, <2>1, SameOps DEF w
  <2> QED
    BY <2>2 DEF w
<1>12. v - t \in Int /\ v - (n - d) = v - n + d
  BY <1>1, <1>8
<1>13. Remainder(p, v, d) \in Ring
  BY <1>4, <1>12, RingFacts DEF m
<1>14. Same(m, (v - t) % m, v - t)
  BY <1>1, <1>12, SameRemainder
<1>15. Same(m, (v - t) % m, v - n + d)
  BY <1>11, <1>12, <1>14 DEF Same
<1> QED
  BY <1>4, <1>13, <1>15 DEF m, n

\* The shares of an input which the parties of O own and the others hold.
LEMMA InputAddsUp ==
  ASSUME NEW O, O \subseteq Party, NEW v \in [Party -> Int], NEW d \in Int, NEW x \in [Party -> Int],
         \A p \in Party : x[p] = IF p \in O THEN Remainder(p, v[p], d) ELSE d
  PROVE  Total(x) = (Total([p \in Party |-> IF p \in O THEN v[p] ELSE 0])
                       - (Cardinality(O) - 1) * nP * d) % RingSize
<1> DEFINE m == RingSize
           n == nP * d
           k == Cardinality(O)
           V == [p \in Party |-> IF p \in O THEN v[p] ELSE 0]
           all == [p \in Party |-> d]
           own == [p \in Party |-> IF p \in O THEN n ELSE 0]
           y == [p \in Party |-> 1 * all[p] + (-1) * own[p]]
<1>1. m \in Nat \ {0} /\ nP \in Int /\ n \in Int
  BY RingSumAssumption
<1>2. /\ V \in [Party -> Int] /\ all \in [Party -> Int] /\ own \in [Party -> Int]
      /\ \A p \in Party : all[p] = d
      /\ \A p \in Party : V[p] = IF p \in O THEN v[p] ELSE 0
      /\ \A p \in Party : own[p] = IF p \in O THEN n ELSE 0
  BY <1>1
<1>3. k \in Nat /\ Total(own) = (k * n) % m /\ Total(all) = n % m
  BY <1>1, TotalOfSet, TotalOfSame
<1> HIDE DEF V, all, own, n, k
<1>4. y \in [Party -> Int] /\ \A p \in Party : y[p] = 1 * all[p] + (-1) * own[p]
  BY <1>2
<1> HIDE DEF y
<1>5. Total(y) = (1 * Total(all) + (-1) * Total(own)) % m
  <2>1. Combines(y, 1, all, -1, own)
    BY <1>4 DEF Combines
  <2>2. 1 \in Int /\ -1 \in Int /\ y \in [Party -> Int] /\ all \in [Party -> Int] /\ own \in [Party -> Int]
    BY <1>2, <1>4
  <2> QED
    BY ONLY <2>1, <2>2, TotalLinear DEF m
<1>6. Total(x) = (1 * Total(V) + 1 * Total(y)) % m
  <2>1. ASSUME NEW p \in Party
        PROVE  Same(m, x[p], 1 * V[p] + 1 * y[p])
    <3>1. CASE p \in O
      <4>1. x[p] = Remainder(p, v[p], d) /\ v[p] \in Int
        BY <3>1
      <4>2. Same(m, x[p], v[p] - n + d)
        BY <4>1, RemainderFacts DEF m, n
      <4>3. 1 * V[p] + 1 * y[p] = v[p] - n + d
        BY <1>1, <1>2, <1>4, <3>1
      <4> QED
        BY <4>2, <4>3
    <3>2. CASE p \notin O
      <4>1. x[p] = d /\ 1 * V[p] + 1 * y[p] = d
        BY <1>1, <1>2, <1>4, <3>2
      <4> QED
        BY <4>1 DEF Same
    <3> QED
      BY <3>1, <3>2
  <2>2. Combines(x, 1, V, 1, y)
    BY <2>1 DEF Combines, Same, m
  <2>3. 1 \in Int /\ y \in [Party -> Int] /\ V \in [Party -> Int] /\ x \in [Party -> Int]
    BY <1>2, <1>4
  <2> QED
    BY ONLY <2>2, <2>3, TotalLinear DEF m
<1> DEFINE r == k * n
           a == n % m
           b == r % m
           c == Total(V)
           g == a - b
           h == n - r
<1>7. r \in Int /\ c \in Int /\ Total(y) \in Int
  <2>1. c \in Ring /\ Total(y) \in Ring
    BY <1>2, <1>4, TotalInRing
  <2>2. r \in Int
    BY <1>1, <1>3
  <2> QED
    BY <2>1, <2>2, RingFacts
<1> HIDE DEF r
<1>8. a \in Int /\ b \in Int /\ Same(m, a, n) /\ Same(m, b, r)
  BY <1>1, <1>7, SameRemainder
<1>9. Total(all) = a /\ Total(own) = b
  BY <1>3 DEF r
<1> HIDE DEF a, b, c
<1>10. Total(y) = g % m /\ g \in Int /\ h \in Int
  <2>1. 1 * a + (-1) * b = g /\ g \in Int /\ h \in Int
    BY <1>1, <1>7, <1>8
  <2> QED
    BY <1>5, <1>9, <2>1
<1>11. Same(m, g, h)
  BY <1>1, <1>7, <1>8, SameOps
<1>12. Total(x) = (c + Total(y)) % m
  <2>1. 1 * c + 1 * Total(y) = c + Total(y)
    BY <1>7
  <2> QED
    BY <1>6, <2>1 DEF c
<1> HIDE DEF g, h, m
<1>13. (c + (g % m)) % m = (c + g) % m
  BY <1>1, <1>7, <1>10, ModInside
<1>14. Same(m, c + g, c + h)
  <2>1. Same(m, c, c)
    BY <1>1, <1>7, SameRemainder
  <2> QED
    BY <1>1, <1>7, <1>10, <1>11, <2>1, SameOps
<1>15. c + h = c - (k - 1) * nP * d
  <2>1. (k - 1) * nP * d = (k - 1) * n
    BY <1>1, <1>3 DEF n
  <2>2. (k - 1) * n = r - n
    BY <1>1, <1>3 DEF r
  <2>3. h = n - r
    BY DEF h
  <2> QED
    BY <1>1, <1>7, <2>1, <2>2, <2>3
<1>16. Total(x) = (c + h) % m
  BY <1>10, <1>12, <1>13, <1>14 DEF Same
<1> QED
  BY <1>15, <1>16 DEF c, V, k, m

\* Whether one party, several or all own the inputs, the shares of each add up
\* to what was given.
LEMMA InputsGiven ==
  ASSUME GivenTyped, OneSided(given), NEW k \in 1 .. numInputs
  PROVE  /\ \A p \in Party : InputsOf(p).share[k] \in Ring
         /\ Total([p \in Party |-> InputsOf(p).share[k]]) = GivenInput(k)
<1> DEFINE O == OwnersOf(k)
           v == [p \in Party |-> given.value[p][k]]
           d == stream[k]
           x == [p \in Party |-> InputsOf(p).share[k]]
           n == numInputs
<1>1. /\ n \in Nat /\ O \subseteq Party /\ d \in Int /\ d \in Ring
      /\ stream \in Seq(Ring) /\ Len(stream) >= n /\ IsCase(given)
  <2>1. n \in Nat /\ O \subseteq Party
    BY InputOrderFacts DEF OwnersOf
  <2>2. k \in 1 .. Len(stream) /\ stream \in Seq(Ring)
    BY <2>1 DEF GivenTyped
  <2>3. d \in Ring
    BY <2>2
  <2> QED
    BY <2>1, <2>3, RingFacts DEF GivenTyped
<1>2. v \in [Party -> Int]
  BY <1>1, RingFacts DEF IsCase, Vec
<1>3. ASSUME NEW p \in Party
      PROVE  x[p] = IF p \in O THEN Remainder(p, v[p], d) ELSE d
  <2>1. CASE given.random
    <3> DEFINE zero == [j \in 1 .. n |-> 0]
    <3>1. Len(zero) = n /\ (\A j \in 1 .. n : zero[j] = 0) /\ zero \in Vec(n)
      BY <1>1, RingFacts DEF Vec
    <3> HIDE DEF zero
    <3>2. InputsOf(p) = SharesOfInputs(p, zero, zero, stream)
      BY <1>1, <2>1, <3>1, RandomAreUnowned DEF InputsOf
    <3>3. \A j \in 1 .. n : zero[j] # p
      BY <3>1 DEF Party
    <3>4. InputsOf(p).share[k] = d
      BY <1>1, <3>1, <3>2, <3>3, SharesHeld
    <3> QED
      BY <2>1, <3>4 DEF OwnersOf
  <2>2. CASE ~given.random
    <3> DEFINE owner == given.owner[p]
               val == given.value[p]
    <3>1. owner \in [1 .. n -> 0 .. nP] /\ val \in Vec(n)
      BY <1>1 DEF IsCase
    <3>2. Len(owner) = n
      BY <1>1, <3>1
    <3>3. InputsOf(p) = SharesOfInputs(p, owner, val, stream)
      BY <2>2 DEF InputsOf
    <3>4. v[p] = val[k]
      OBVIOUS
    <3>5. p \in O <=> owner[k] = p
      BY <2>2 DEF OwnersOf
    <3>6. (\A j \in 1 .. n : owner[j] = p) \/ (\A j \in 1 .. n : owner[j] # p)
      BY <2>2 DEF OneSided
    <3> HIDE DEF owner, val, v, O
    <3>7. CASE \A j \in 1 .. n : owner[j] = p
      <4>1. InputsOf(p).share[k] = Remainder(p, val[k], d)
        BY <1>1, <3>1, <3>2, <3>3, <3>7, SharesOwned
      <4> QED
        BY <3>4, <3>5, <3>7, <4>1
    <3>8. CASE \A j \in 1 .. n : owner[j] # p
      <4>1. InputsOf(p).share[k] = d
        BY <1>1, <3>1, <3>2, <3>3, <3>8, SharesHeld
      <4> QED
        BY <3>5, <3>8, <4>1
    <3> QED
      BY <3>6, <3>7, <3>8
  <2> QED
    BY <2>1, <2>2
<1>4. \A p \in Party : x[p] \in Ring
  <2> TAKE p \in Party
  <2>1. v[p] \in Int
    BY <1>2
  <2>2. Remainder(p, v[p], d) \in Ring
    BY <1>1, <2>1, RemainderFacts
  <2> QED
    BY <1>1, <1>3, <2>2
<1>5. x \in [Party -> Int]
  BY <1>4, RingFacts
<1>6. [p \in Party |-> IF p \in O THEN v[p] ELSE 0]
        = [p \in Party |-> IF p \in O THEN given.value[p][k] ELSE 0]
  OBVIOUS
<1> HIDE DEF O, v, d
<1>7. Total(x) = (Total([p \in Party |-> IF p \in O THEN v[p] ELSE 0])
                       - (Cardinality(O) - 1) * nP * d) % RingSize
  <2> HIDE DEF x
  <2>1. O \subseteq Party /\ d \in Int
    BY <1>1
  <2> QED
    BY ONLY <1>2, <1>3, <1>5, <2>1, InputAddsUp
<1> QED
  BY <1>4, <1>6, <1>7 DEF GivenInput, O, d

-----------------------------------------------------------------------------
(* The shares in closed form.                                                *)

\* One share of a wire per party.
ShareVec == [Party -> Ring]

\* What is opened for a gate.
LEMMA OpenedValuesTyped ==
  ASSUME SharesTyped, NEW k \in 1 .. Len(gates), NEW S, \A w \in Reads(gates[k]) : S[w] \in ShareVec
  PROVE  /\ gates[k].type = "kMul" => OpenedE(gates[k], S) \in Ring /\ OpenedD(gates[k], S) \in Ring
         /\ gates[k].type = "kEqz" => OpenedM1(gates[k], S) \in Ring /\ OpenedM2(gates[k], S) \in Ring
<1> DEFINE g == gates[k]
<1>1. CASE g.type = "kMul"
  <2>1. S[g.in1] \in ShareVec /\ S[g.in2] \in ShareVec
    BY <1>1, SecureEvalAssumption, GateFacts
  <2>2. ASSUME NEW q \in Party
        PROVE  /\ (S[g.in1][q] - Mine(q, g, "a")) % RingSize \in Int
               /\ (S[g.in2][q] - Mine(q, g, "b")) % RingSize \in Int
    <3> DEFINE x == S[g.in1][q]
               y == S[g.in2][q]
               a == Mine(q, g, "a")
               b == Mine(q, g, "b")
    <3>1. x \in Int /\ y \in Int /\ a \in Int /\ b \in Int
      BY <1>1, <2>1, GateShares, RingFacts DEF ShareVec
    <3> HIDE DEF x, y, a, b
    <3>2. x - a \in Int /\ y - b \in Int
      BY <3>1
    <3>3. (x - a) % RingSize \in Int /\ (y - b) % RingSize \in Int
      BY <3>2, RingFacts
    <3> QED
      BY <3>3 DEF x, y, a, b
  <2>3. /\ [q \in Party |-> (S[g.in1][q] - Mine(q, g, "a")) % RingSize] \in [Party -> Int]
        /\ [q \in Party |-> (S[g.in2][q] - Mine(q, g, "b")) % RingSize] \in [Party -> Int]
    BY <2>2
  <2> QED
    BY <1>1, <2>3, TotalInRing DEF OpenedE, OpenedD
<1>2. CASE g.type = "kEqz"
  <2>1. S[g.in1] \in ShareVec
    BY <1>2, SecureEvalAssumption, GateFacts
  <2>2. ASSUME NEW q \in Party
        PROVE  (S[g.in1][q] + Mine(q, g, "r1")) % RingSize \in Int
    <3> DEFINE x == S[g.in1][q]
               a == Mine(q, g, "r1")
    <3>1. x \in Int /\ a \in Int
      BY <1>2, <2>1, GateShares, RingFacts DEF ShareVec
    <3> HIDE DEF x, a
    <3>2. x + a \in Int
      BY <3>1
    <3>3. (x + a) % RingSize \in Int
      BY <3>2, RingFacts
    <3> QED
      BY <3>3 DEF x, a
  <2>3. OpenedM1(g, S) \in Ring
    <3>1. [q \in Party |-> (S[g.in1][q] + Mine(q, g, "r1")) % RingSize] \in [Party -> Int]
      BY <2>2
    <3> QED
      BY <3>1, TotalInRing DEF OpenedM1
  <2>4. \A q \in Party : Hamming(q, g, OpenedM1(g, S)) \in Int
    BY <1>2, <2>3, HammingLoop, RingFacts
  <2>5. [q \in Party |-> Hamming(q, g, OpenedM1(g, S))] \in [Party -> Int]
    BY <2>4
  <2> QED
    BY <1>2, <2>3, <2>5, TotalInRing DEF OpenedM2
<1> QED
  BY <1>1, <1>2

\* A party's share of a wire is a ring element, and depends on the shares of
\* the wires that the gate reads only.
LEMMA ShareByTyped ==
  ASSUME GivenTyped, SharesTyped, NEW k \in 1 .. Len(gates), NEW p \in Party,
         NEW S, \A w \in Reads(gates[k]) : S[w] \in ShareVec
  PROVE  ShareBy(gates[k], S, p) \in Ring
<1> DEFINE g == gates[k]
<1>1. g.type \in Types /\ g.out = k - 1 /\ (g.type # "kInp" => g.in1 \in Reads(g) /\ g.in2 \in Reads(g))
  BY SecureEvalAssumption, GateFacts
<1>2. CASE g.type = "kInp"
  <2>1. InputNo(g.out) \in 1 .. numInputs
    BY <1>1, <1>2, InputGroup
  <2> QED
    BY <1>2, <2>1, InputSharesTyped DEF ShareBy
<1>3. CASE g.type = "kMul"
  <2>1. OpenedE(g, S) \in Int /\ OpenedD(g, S) \in Int
    BY <1>3, OpenedValuesTyped, RingFacts
  <2> QED
    BY <1>3, <2>1, ProductTyped DEF ShareBy
<1>4. CASE g.type = "kEqz"
  <2>1. OpenedM2(g, S) \in Int
    BY <1>4, OpenedValuesTyped, RingFacts
  <2>2. OpenedM2(g, S) % RINGSIZEBITS \in Bits
    BY <2>1, RingFacts
  <2> QED
    BY <1>4, <2>2, GateShares DEF ShareBy
<1>5. CASE g.type = "kRec"
  <2>1. S[g.in1] \in [Party -> Int]
    BY <1>1, <1>5, RingFacts DEF ShareVec
  <2> QED
    BY <1>5, <2>1, TotalInRing DEF ShareBy
<1>6. CASE g.type \in LocalTypes
  <2> DEFINE v == [w \in Reads(g) |-> S[w][p]]
  <2>1. \A w \in Reads(g) : v[w] \in Ring
    BY DEF ShareVec
  <2>2. LocalValue(p, g, v) \in Ring
    BY <1>6, <2>1, LocalValueTyped
  <2>3. ShareBy(g, S, p) = LocalValue(p, g, v)
    BY <1>6 DEF ShareBy, LocalTypes
  <2> QED
    BY <2>2, <2>3
<1> QED
  BY <1>1, <1>2, <1>3, <1>4, <1>5, <1>6 DEF Types, LocalTypes

LEMMA ShareByReads ==
  ASSUME NEW k \in 1 .. Len(gates), NEW p \in Party,
         NEW S, NEW T, \A w \in Reads(gates[k]) : S[w] = T[w]
  PROVE  ShareBy(gates[k], S, p) = ShareBy(gates[k], T, p)
<1> DEFINE g == gates[k]
<1>1. g.type \in Types /\ (g.type # "kInp" => g.in1 \in Reads(g) /\ g.in2 \in Reads(g))
  BY SecureEvalAssumption, GateFacts
<1>2. g.type # "kInp" => S[g.in1] = T[g.in1] /\ S[g.in2] = T[g.in2]
  BY <1>1
<1>3. [w \in Reads(g) |-> S[w][p]] = [w \in Reads(g) |-> T[w][p]]
  OBVIOUS
<1>9. SUFFICES ShareBy(g, S, p) = ShareBy(g, T, p)
  OBVIOUS
<1> HIDE DEF g
<1>4. CASE g.type = "kInp"
  BY <1>4 DEF ShareBy
<1>5. CASE g.type = "kMul"
  <2>1. OpenedE(g, S) = OpenedE(g, T) /\ OpenedD(g, S) = OpenedD(g, T)
    BY <1>2, <1>5 DEF OpenedE, OpenedD
  <2> QED
    BY <1>5, <2>1 DEF ShareBy
<1>6. CASE g.type = "kEqz"
  <2>1. OpenedM1(g, S) = OpenedM1(g, T)
    BY <1>2, <1>6 DEF OpenedM1
  <2>2. OpenedM2(g, S) = OpenedM2(g, T)
    BY <2>1 DEF OpenedM2
  <2> QED
    BY <1>6, <2>2 DEF ShareBy
<1>7. CASE g.type = "kRec"
  BY <1>2, <1>7 DEF ShareBy
<1>8. CASE g.type \in LocalTypes
  BY <1>3, <1>8 DEF ShareBy, LocalTypes
<1> QED
  BY <1>1, <1>4, <1>5, <1>6, <1>7, <1>8 DEF Types, LocalTypes

\* WireShares is the function its definition describes: there is one.
LEMMA WireSharesRule ==
  ASSUME GivenTyped, SharesTyped
  PROVE  /\ WireShares \in [Wires(gates) -> ShareVec]
         /\ \A k \in 1 .. Len(gates), p \in Party :
              WireShares[gates[k].out][p] = ShareBy(gates[k], WireShares, p)
<1> DEFINE n == Len(gates)
           V == ShareVec
           X == [0 .. n - 1 -> V]
           F(k, a) == [p \in Party |-> ShareBy(gates[k], a, p)]
           rule == [k \in 1 .. n |-> [a \in X |-> F(k, a)]]
           Def(f) == [w \in Wires(gates) |-> [p \in Party |-> ShareBy(gates[w + 1], f, p)]]
           W == WireShares
<1>1. /\ n \in Nat /\ Wires(gates) = 0 .. n - 1
      /\ \A k \in 1 .. n : gates[k].out = k - 1 /\ k - 1 \in 0 .. n - 1 /\ k \in 0 .. n
      /\ \A k \in 1 .. n : \A w \in Reads(gates[k]) : w \in 0 .. n - 1 /\ w \in 0 .. k - 2
      /\ \A w \in 0 .. n - 1 : w + 1 \in 1 .. n /\ (w + 1) - 1 = w
  <2>1. /\ n \in Nat /\ Wires(gates) = 0 .. n - 1
        /\ \A k \in 1 .. n : /\ gates[k].out = k - 1
                             /\ \A w \in Reads(gates[k]) : w \in Wires(gates) /\ w \in 0 .. k - 2
    BY SecureEvalAssumption, GateFacts
  <2> HIDE DEF n
  <2>2. /\ \A k \in 1 .. n : k - 1 \in 0 .. n - 1 /\ k \in 0 .. n
        /\ \A w \in 0 .. n - 1 : w + 1 \in 1 .. n /\ (w + 1) - 1 = w
    BY <2>1
  <2> QED
    BY <2>1, <2>2
<1>2. \A k \in 1 .. n : \A a : (\A w \in Reads(gates[k]) : a[w] \in V) => F(k, a) \in V
  BY ShareByTyped DEF ShareVec
<1>3. \A k \in 1 .. n : \A a, b : (\A w \in Reads(gates[k]) : a[w] = b[w]) => F(k, a) = F(k, b)
  BY ShareByReads
<1> HIDE DEF F
<1>4. /\ rule \in [1 .. n -> [X -> V]]
      /\ \A k \in 1 .. n, a \in X : rule[k][a] = F(k, a)
  <2>1. \A k \in 1 .. n, a \in X : F(k, a) \in V
    BY <1>1, <1>2
  <2> QED
    BY <2>1
<1>5. [p \in Party |-> 0] \in V
  BY RingFacts DEF ShareVec
<1> HIDE DEF V, rule, n
<1>6. LooksBelow(n, V, rule)
  <2>1. SUFFICES ASSUME NEW k \in 1 .. n, NEW a \in X, NEW b \in X,
                        \A w \in 0 .. k - 2 : a[w] = b[w]
                 PROVE  rule[k][a] = rule[k][b]
    BY DEF LooksBelow
  <2>2. \A w \in Reads(gates[k]) : a[w] = b[w]
    BY <1>1, <2>1
  <2> QED
    BY <1>3, <1>4, <2>2
<1>7. PICK v \in X : Obeys(n, rule, v)
  <2>1. rule \in [1 .. n -> [[0 .. n - 1 -> V] -> V]]
    BY <1>4
  <2> QED
    BY <1>1, <1>5, <1>6, <2>1, WiresRecursion
<1>8. \A f : Def(f) = [w \in Wires(gates) |-> F(w + 1, f)]
  BY DEF F
<1>9. v = Def(v)
  <2>1. \A w \in Wires(gates) : v[w] = F(w + 1, v)
    <3> TAKE w \in Wires(gates)
    <3> DEFINE k == w + 1
    <3>1. k \in 1 .. n /\ k - 1 = w
      BY <1>1
    <3> HIDE DEF k
    <3>2. v[k - 1] = rule[k][v]
      BY <1>7, <3>1 DEF Obeys
    <3>3. v[k - 1] = F(k, v)
      BY <1>4, <3>1, <3>2
    <3> QED
      BY <3>1, <3>3 DEF k
  <2>2. v = [w \in Wires(gates) |-> F(w + 1, v)]
    BY <1>1, <2>1
  <2> QED
    BY <1>8, <2>2
<1>10. W = CHOOSE f : f = Def(f)
  BY DEF WireShares, Def
<1> HIDE DEF W, Def
<1>11. W = Def(W)
  BY <1>9, <1>10
<1>12. W = [w \in Wires(gates) |-> F(w + 1, W)]
  BY <1>8, <1>11
<1>13. ASSUME NEW k \in 1 .. n
       PROVE  W[k - 1] = F(k, W)
  <2>1. W[k - 1] = F((k - 1) + 1, W)
    BY <1>1, <1>12
  <2>2. (k - 1) + 1 = k
    OBVIOUS
  <2> QED
    BY <2>1, <2>2
<1> DEFINE T == {j \in 0 .. n : \A w \in 0 .. j - 1 : W[w] \in V}
<1>14. n \in T
  <2>1. 0 \in T /\ n \in 0 .. n
    BY <1>1
  <2>2. ASSUME NEW j \in 1 .. n, j - 1 \in T
        PROVE  j \in T
    <3>1. (j - 1) - 1 = j - 2 /\ \A w \in 0 .. (j - 1) - 1 : W[w] \in V
      BY <2>2
    <3>2. \A w \in Reads(gates[j]) : W[w] \in V
      <4>1. \A w \in 0 .. j - 2 : W[w] \in V
        BY <3>1
      <4> QED
        BY <1>1, <4>1
    <3>3. W[j - 1] \in V
      BY <1>2, <1>13, <3>2
    <3>4. \A w \in 0 .. j - 1 : w = j - 1 \/ w \in 0 .. (j - 1) - 1
      OBVIOUS
    <3>5. \A w \in 0 .. j - 1 : W[w] \in V
      BY <3>1, <3>3, <3>4
    <3> QED
      BY <1>1, <3>5
  <2> HIDE DEF T
  <2> QED
    BY <1>1, <2>1, <2>2, UpTo
<1>15. W \in [Wires(gates) -> V]
  BY <1>1, <1>12, <1>14
<1>16. \A k \in 1 .. n, p \in Party : W[gates[k].out][p] = ShareBy(gates[k], W, p)
  <2> TAKE k \in 1 .. n, p \in Party
  <2>1. W[gates[k].out] = F(k, W)
    BY <1>1, <1>13
  <2>2. F(k, W)[p] = ShareBy(gates[k], W, p)
    BY DEF F
  <2> QED
    BY <2>1, <2>2
<1> QED
  BY <1>15, <1>16 DEF W, V, n

-----------------------------------------------------------------------------
(* The stages of the program and the wires they set.                         *)

\* The stage that sets the wire of a gate.
SetStage(g) ==
  Stage(CASE g.type = "kInp" -> "inputs" [] g.type = "kMul" -> "mult"
          [] g.type = "kEqz" -> "eqz2"   [] g.type = "kRec" -> "rec"
          [] OTHER           -> "local", LevelOf[g.out] + 1)

LEMMA GateLevelFacts ==
  ASSUME NEW k \in 1 .. Len(gates)
  PROVE  /\ gates[k].out = k - 1 /\ LevelOf[k - 1] \in Nat /\ LevelOf[k - 1] + 1 \in 1 .. Len(Levels)
         /\ gates[k].type \in Types
<1>1. IsCircuit(gates)
  BY SecureEvalAssumption
<1>2. gates[k].out = k - 1 /\ k - 1 \in Wires(gates) /\ gates[k].type \in Types
  BY <1>1, GateFacts
<1>3. LevelOf[k - 1] \in 0 .. Depth(gates) /\ Depth(gates) \in Nat
  BY <1>1, <1>2, DepthIsHighest, GateFacts DEF LevelOf
<1>4. Len(Levels) = Depth(gates) + 1
  BY <1>1, LevelsFacts DEF Levels
<1> QED
  BY <1>2, <1>3, <1>4

LEMMA SetStageFacts ==
  ASSUME NEW k \in 1 .. Len(gates)
  PROVE  /\ SetStage(gates[k]) \in ValidStages
         /\ Rank(SetStage(gates[k])) <= 6 * (LevelOf[k - 1] + 1) + 4
         /\ gates[k].type \notin LocalTypes => Rank(SetStage(gates[k])) <= 6 * (LevelOf[k - 1] + 1) + 3
         /\ SetIn(gates[k]) \in 1 .. Len(Program) /\ Program[SetIn(gates[k])] = SetStage(gates[k])
<1> DEFINE g == gates[k]
           l == LevelOf[k - 1] + 1
           s == SetStage(g)
<1>1. g.out = k - 1 /\ LevelOf[k - 1] \in Nat /\ l \in 1 .. Len(Levels) /\ l \in Nat /\ g.type \in Types
  BY GateLevelFacts
<1>2. /\ g.type = "kInp" => s = Stage("inputs", l)
      /\ g.type = "kMul" => s = Stage("mult", l)
      /\ g.type = "kEqz" => s = Stage("eqz2", l)
      /\ g.type = "kRec" => s = Stage("rec", l)
      /\ g.type \in LocalTypes => s = Stage("local", l)
  BY <1>1 DEF SetStage, LocalTypes
<1>3. /\ g.type = "kInp" => l = 1
      /\ g.type = "kMul" => OfType(l, "kMul") # <<>>
      /\ g.type = "kEqz" => OfType(l, "kEqz") # <<>>
      /\ g.type = "kRec" => OfType(l, "kRec") # <<>>
  <2>1. g.type = "kInp" => l = 1
    BY InputGroup
  <2>2. \A type : g.type = type => OfType(l, type) # <<>>
    <3> TAKE type
    <3> HAVE g.type = type
    <3>1. IsGroup(OfTypes(Levels[l], {type}), l, {type})
      BY <1>1, GroupFacts
    <3>2. LevelOf[k - 1] = l - 1
      BY <1>1
    <3> HIDE DEF l
    <3>3. \E i \in 1 .. Len(OfTypes(Levels[l], {type})) : OfTypes(Levels[l], {type})[i] = gates[k]
      BY <3>1, <3>2 DEF IsGroup
    <3>4. Len(<<>>) = 0
      OBVIOUS
    <3> QED
      BY <3>3, <3>4 DEF OfType
  <2> QED
    BY <2>1, <2>2
<1>4. g.type \in {"kInp", "kMul", "kEqz", "kRec"} \cup LocalTypes
  BY <1>1 DEF Types, LocalTypes
<1>5. /\ s.level = l
      /\ s \in [kind : {"inputs", "mult", "eqz1", "eqz2", "rec", "local", "outputs"},
                level : Nat]
      /\ s.kind # "outputs" /\ s.kind # "eqz1"
      /\ s.kind = "inputs" => g.type = "kInp"
      /\ s.kind = "mult" => g.type = "kMul"
      /\ s.kind = "eqz2" => g.type = "kEqz"
      /\ s.kind = "rec" => g.type = "kRec"
      /\ s.kind = "local" => g.type \in LocalTypes
  BY <1>1, <1>2, <1>4 DEF Stage
<1> HIDE DEF g, s
<1>6. s \in ValidStages
  BY <1>1, <1>3, <1>5 DEF ValidStages, ValidStage
<1>7. Rank(s) <= 6 * l + 4 /\ (g.type \notin LocalTypes => Rank(s) <= 6 * l + 3)
  <2>1. s.kind \in {"inputs", "mult", "eqz2", "rec", "local"}
    BY <1>5
  <2> QED
    BY <1>1, <1>5, <1>6, <2>1, RankFacts
<1>8. SetIn(g) = CHOOSE i \in DOMAIN Program : Program[i] = s
  BY <1>1 DEF SetIn, SetStage, s, g
<1>9. PICK i \in 1 .. Len(Program) : Program[i] = s
  BY <1>6, StageFacts
<1>10. SetIn(g) \in DOMAIN Program /\ Program[SetIn(g)] = s
  BY <1>8, <1>9, StageFacts
<1> QED
  BY <1>6, <1>7, <1>10, StageFacts DEF g, s

\* It is in stage i of the program if that is its stage.
LEMMA SetInUnique ==
  ASSUME NEW k \in 1 .. Len(gates), NEW i \in 1 .. Len(Program)
  PROVE  SetIn(gates[k]) = i <=> Program[i] = SetStage(gates[k])
BY SetStageFacts, StageOrder

\* The wires that a stage reads before its reconstruction.
StageReads(s) ==
  CASE s.kind = "mult" -> UNION {Reads(OfType(s.level, "kMul")[i]) : i \in 1 .. Len(OfType(s.level, "kMul"))}
    [] s.kind = "eqz1" -> UNION {Reads(OfType(s.level, "kEqz")[i]) : i \in 1 .. Len(OfType(s.level, "kEqz"))}
    [] s.kind = "rec"  -> UNION {Reads(OfType(s.level, "kRec")[i]) : i \in 1 .. Len(OfType(s.level, "kRec"))}
    [] s.kind = "outputs" -> {outputs[i] : i \in 1 .. Len(outputs)}
    [] OTHER -> {}

\* A gate that is evaluated interactively on level l reads wires set before any
\* stage of that level.
LEMMA InteractiveReads ==
  ASSUME NEW l \in 1 .. Len(Levels), NEW type \in Interactive,
         NEW j \in 1 .. Len(OfType(l, type)), NEW w \in Reads(OfType(l, type)[j])
  PROVE  w \in Wires(gates) /\ w + 1 \in 1 .. Len(gates) /\ Rank(SetStage(gates[w + 1])) < 6 * l
<1> DEFINE s == OfTypes(Levels[l], {type})
<1>1. IsGroup(s, l, {type}) /\ s = OfType(l, type) /\ l \in Nat
  BY GroupFacts, LevelFacts DEF OfType
<1> HIDE DEF s
<1>2. PICK k \in 1 .. Len(gates) : s[j] = gates[k] /\ LevelOf[k - 1] = l - 1 /\ gates[k].type = type
  BY <1>1 DEF IsGroup
<1>3. w \in Reads(gates[k]) /\ gates[k].out = k - 1 /\ w \in Wires(gates)
      /\ Wires(gates) = 0 .. Len(gates) - 1 /\ Len(gates) \in Nat
  BY <1>1, <1>2, SecureEvalAssumption, GateFacts
<1>4. LevelOf[w] < LevelOf[k - 1]
  <2>1. GateLevel(gates)[w] < GateLevel(gates)[gates[k].out]
    BY <1>2, <1>3, SecureEvalAssumption, ReadBelow
  <2> QED
    BY <1>3, <2>1 DEF LevelOf
<1> DEFINE n == w + 1
<1>5. n \in 1 .. Len(gates) /\ n - 1 = w
  BY <1>3
<1> HIDE DEF n
<1>6. /\ Rank(SetStage(gates[n])) <= 6 * (LevelOf[n - 1] + 1) + 4 /\ SetStage(gates[n]) \in ValidStages
      /\ LevelOf[n - 1] \in Nat
  BY <1>5, SetStageFacts, GateLevelFacts
<1>7. Rank(SetStage(gates[n])) \in Nat
  BY <1>6, RankFacts
<1>8. LevelOf[w] \in Nat /\ LevelOf[w] < l - 1
  BY <1>2, <1>4, <1>5, <1>6
<1> DEFINE x == Rank(SetStage(gates[n]))
           a == LevelOf[w]
<1>9. x \in Nat /\ a \in Nat /\ x <= 6 * (a + 1) + 4 /\ a < l - 1
  BY <1>5, <1>6, <1>7, <1>8
<1> HIDE DEF x, a
<1>10. x < 6 * l
  BY <1>1, <1>9
<1> QED
  BY <1>3, <1>5, <1>10 DEF x, n

LEMMA ReadsAreSet ==
  ASSUME NEW i \in 1 .. Len(Program), NEW w \in StageReads(Program[i])
  PROVE  w \in Wires(gates) /\ w + 1 \in 1 .. Len(gates) /\ SetIn(gates[w + 1]) < i
<1> DEFINE s == Program[i]
<1>1. ValidStage(s) /\ s \in ValidStages
  BY StageFacts
<1>2. s.level \in Nat /\ (s.kind # "outputs" => s.level \in 1 .. Len(Levels))
  BY <1>1 DEF ValidStage
<1> HIDE DEF s
<1>3. w \in Wires(gates) /\ w + 1 \in 1 .. Len(gates) /\ Rank(SetStage(gates[w + 1])) < Rank(s)
  <2>1. CASE s.kind = "mult"
    <3>1. PICK j \in 1 .. Len(OfType(s.level, "kMul")) : w \in Reads(OfType(s.level, "kMul")[j])
      BY <2>1 DEF StageReads, s
    <3>2. w \in Wires(gates) /\ w + 1 \in 1 .. Len(gates) /\ Rank(SetStage(gates[w + 1])) < 6 * s.level
      <4> DEFINE l == s.level
                 type == "kMul"
      <4>1. l \in 1 .. Len(Levels) /\ type \in Interactive
            /\ j \in 1 .. Len(OfType(l, type)) /\ w \in Reads(OfType(l, type)[j])
        BY <1>2, <2>1, <3>1 DEF Interactive
      <4> HIDE DEF l, type
      <4>2. w \in Wires(gates) /\ w + 1 \in 1 .. Len(gates) /\ Rank(SetStage(gates[w + 1])) < 6 * l
        BY ONLY <4>1, InteractiveReads
      <4> QED
        BY <4>2 DEF l
    <3> QED
      BY <1>1, <2>1, <3>2, RankFacts
  <2>2. CASE s.kind = "eqz1"
    <3>1. PICK j \in 1 .. Len(OfType(s.level, "kEqz")) : w \in Reads(OfType(s.level, "kEqz")[j])
      BY <2>2 DEF StageReads, s
    <3>2. w \in Wires(gates) /\ w + 1 \in 1 .. Len(gates) /\ Rank(SetStage(gates[w + 1])) < 6 * s.level
      <4> DEFINE l == s.level
                 type == "kEqz"
      <4>1. l \in 1 .. Len(Levels) /\ type \in Interactive
            /\ j \in 1 .. Len(OfType(l, type)) /\ w \in Reads(OfType(l, type)[j])
        BY <1>2, <2>2, <3>1 DEF Interactive
      <4> HIDE DEF l, type
      <4>2. w \in Wires(gates) /\ w + 1 \in 1 .. Len(gates) /\ Rank(SetStage(gates[w + 1])) < 6 * l
        BY ONLY <4>1, InteractiveReads
      <4> QED
        BY <4>2 DEF l
    <3>3. SetStage(gates[w + 1]) \in ValidStages
      BY <3>2, SetStageFacts
    <3>4. Rank(SetStage(gates[w + 1])) \in Nat
      BY <3>3, RankFacts
    <3>5. Rank(s) = 6 * s.level + 1
      BY <1>1, <2>2, RankFacts
    <3> QED
      BY <1>2, <3>2, <3>4, <3>5
  <2>3. CASE s.kind = "rec"
    <3>1. PICK j \in 1 .. Len(OfType(s.level, "kRec")) : w \in Reads(OfType(s.level, "kRec")[j])
      BY <2>3 DEF StageReads, s
    <3>2. w \in Wires(gates) /\ w + 1 \in 1 .. Len(gates) /\ Rank(SetStage(gates[w + 1])) < 6 * s.level
      <4> DEFINE l == s.level
                 type == "kRec"
      <4>1. l \in 1 .. Len(Levels) /\ type \in Interactive
            /\ j \in 1 .. Len(OfType(l, type)) /\ w \in Reads(OfType(l, type)[j])
        BY <1>2, <2>3, <3>1 DEF Interactive
      <4> HIDE DEF l, type
      <4>2. w \in Wires(gates) /\ w + 1 \in 1 .. Len(gates) /\ Rank(SetStage(gates[w + 1])) < 6 * l
        BY ONLY <4>1, InteractiveReads
      <4> QED
        BY <4>2 DEF l
    <3>3. SetStage(gates[w + 1]) \in ValidStages
      BY <3>2, SetStageFacts
    <3>4. Rank(SetStage(gates[w + 1])) \in Nat
      BY <3>3, RankFacts
    <3>5. Rank(s) = 6 * s.level + 3
      BY <1>1, <2>3, RankFacts
    <3> QED
      BY <1>2, <3>2, <3>4, <3>5
  <2>4. CASE s.kind = "outputs"
    <3>1. PICK j \in 1 .. Len(outputs) : w = outputs[j]
      BY <2>4 DEF StageReads, s
    <3>2. w \in Wires(gates)
      <4>1. outputs \in Seq(Wires(gates))
        BY SecureEvalAssumption
      <4> QED
        BY <3>1, <4>1
    <3>3. w + 1 \in 1 .. Len(gates) /\ (w + 1) - 1 = w
      BY <3>2, SecureEvalAssumption, GateFacts
    <3> DEFINE n == w + 1
    <3> HIDE DEF n
    <3>4. /\ SetStage(gates[n]) \in ValidStages /\ Rank(SetStage(gates[n])) <= 6 * (LevelOf[n - 1] + 1) + 4
          /\ LevelOf[n - 1] + 1 \in 1 .. Len(Levels) /\ LevelOf[n - 1] \in Nat
      BY <3>3, SetStageFacts, GateLevelFacts DEF n
    <3>5. Rank(SetStage(gates[n])) \in Nat
      BY <3>4, RankFacts
    <3>6. Rank(s) = 6 * (Len(Levels) + 1) /\ Len(Levels) \in Nat
      BY <1>1, <2>4, RankFacts, LevelFacts
    <3> DEFINE x == Rank(SetStage(gates[n]))
               a == LevelOf[n - 1]
               m == Len(Levels)
    <3>7. x \in Nat /\ a \in Nat /\ x <= 6 * (a + 1) + 4 /\ a + 1 <= m /\ m \in Nat
      BY <3>4, <3>5, <3>6
    <3> HIDE DEF x, a, m
    <3>8. x < 6 * (m + 1)
      BY <3>7
    <3> QED
      BY <3>2, <3>3, <3>6, <3>8 DEF x, m, n
  <2>5. CASE s.kind \notin {"mult", "eqz1", "rec", "outputs"}
    BY <2>5 DEF StageReads, s
  <2> QED
    BY <2>1, <2>2, <2>3, <2>4, <2>5
<1>4. SetIn(gates[w + 1]) \in 1 .. Len(Program) /\ Program[SetIn(gates[w + 1])] = SetStage(gates[w + 1])
  BY <1>3, SetStageFacts
<1>5. SetIn(gates[w + 1]) < i
  BY <1>3, <1>4, StageFacts DEF s
<1> QED
  BY <1>3, <1>5

-----------------------------------------------------------------------------
(* The lists that the parties pass to the calls.                             *)

\* The i-th value that multEvaluate reconstructs.
LEMMA MaskedAt ==
  ASSUME NEW p, NEW gs, Len(gs) \in Nat, NEW v, NEW j \in 1 .. Len(gs)
  PROVE  /\ 2 * j - 1 \in 1 .. 2 * Len(gs) /\ 2 * j \in 1 .. 2 * Len(gs)
         /\ Masked(p, gs, v)[2 * j - 1] = (v[gs[j].in1] - Mine(p, gs[j], "a")) % RingSize
         /\ Masked(p, gs, v)[2 * j] = (v[gs[j].in2] - Mine(p, gs[j], "b")) % RingSize
<1> DEFINE n == Len(gs)
           F(i) == LET g == gs[(i + 1) \div 2]
                   IN  (IF i % 2 = 1 THEN v[g.in1] - Mine(p, g, "a")
                                     ELSE v[g.in2] - Mine(p, g, "b")) % RingSize
           a == 2 * j - 1
           b == 2 * j
<1>1. n \in Nat /\ j \in 1 .. n
  OBVIOUS
<1>2. a \in 1 .. 2 * n /\ b \in 1 .. 2 * n
  <2> HIDE DEF n
  <2> QED
    BY <1>1
<1>3. (a + 1) \div 2 = j /\ a % 2 = 1 /\ (b + 1) \div 2 = j /\ b % 2 = 0
  <2> HIDE DEF n
  <2>1. a + 1 = 2 * j /\ b + 1 = 2 * j + 1 /\ j \in Nat
    BY <1>1
  <2> QED
    BY <1>1, <2>1
<1>4. \A i \in 1 .. 2 * n : Masked(p, gs, v)[i] = F(i)
  BY DEF Masked
<1>5. /\ F(a) = (v[gs[j].in1] - Mine(p, gs[j], "a")) % RingSize
      /\ F(b) = (v[gs[j].in2] - Mine(p, gs[j], "b")) % RingSize
  <2> HIDE DEF a, b
  <2> QED
    BY <1>3
<1> HIDE DEF F
<1> QED
  BY <1>2, <1>4, <1>5

\* Every position is one of these.
LEMMA MaskedPlaces ==
  ASSUME NEW n \in Nat, NEW i \in 1 .. 2 * n
  PROVE  \E j \in 1 .. n : i = 2 * j - 1 \/ i = 2 * j
<1> DEFINE j == (i + 1) \div 2
<1>1. PICK r \in {0, 1} : j \in Int /\ i + 1 = 2 * j + r
  BY ModDiv
<1> HIDE DEF j
<1>2. j \in 1 .. n /\ (i = 2 * j - 1 \/ i = 2 * j)
  BY <1>1
<1> QED
  BY <1>2

\* The gates of one type on a level.
LEMMA TypeGates ==
  ASSUME NEW l \in 1 .. Len(Levels), NEW type
  PROVE  /\ Len(OfType(l, type)) \in Nat /\ DOMAIN OfType(l, type) = 1 .. Len(OfType(l, type))
         /\ \A i \in 1 .. Len(OfType(l, type)) :
              OfType(l, type)[i].type = type /\ \E k \in 1 .. Len(gates) : OfType(l, type)[i] = gates[k]
<1> DEFINE s == OfType(l, type)
<1>1. s \in Seq(GateRecord)
  BY OfTypeFacts
<1> HIDE DEF s
<1>2. DOMAIN s = 1 .. Len(s)
  BY <1>1
<1> QED
  BY <1>2, OfTypeFacts DEF s

\* A stage passes a list of its length to its reconstruction.
LEMMA ListForTyped ==
  ASSUME SharesTyped, NEW p \in Party, NEW s, ValidStage(s), IsRound(s),
         NEW v, \A w \in Wires(gates) : v[w] \in Ring,
         NEW opened, s.kind = "eqz2" => \A i \in 1 .. Len(OfType(s.level, "kEqz")) : opened[i] \in Ring
  PROVE  ListFor(p, s, v, opened) \in Vec(ListLength(s))
<1>1. /\ s.kind \in {"mult", "eqz1", "eqz2", "rec", "outputs"}
      /\ s.kind # "outputs" => s.level \in 1 .. Len(Levels)
  BY DEF ValidStage, IsRound
<1>2. CASE s.kind = "mult"
  <2> DEFINE gs == OfType(s.level, "kMul")
             n == Len(gs)
             list == Masked(p, gs, v)
  <2>1. /\ n \in Nat
        /\ \A i \in 1 .. n : gs[i].type = "kMul" /\ \E k \in 1 .. Len(gates) : gs[i] = gates[k]
    BY <1>1, <1>2, TypeGates
  <2> HIDE DEF gs
  <2>2. ASSUME NEW i \in 1 .. 2 * n
        PROVE  list[i] \in Ring
    <3> HIDE DEF n, list
    <3>1. PICK j \in 1 .. n : i = 2 * j - 1 \/ i = 2 * j
      BY <2>1, MaskedPlaces
    <3> DEFINE g == gs[j]
               x == v[g.in1]
               y == v[g.in2]
               a == Mine(p, g, "a")
               b == Mine(p, g, "b")
    <3>2. g.type = "kMul" /\ \E k \in 1 .. Len(gates) : g = gates[k]
      BY <2>1
    <3>3. list[2 * j - 1] = (x - a) % RingSize /\ list[2 * j] = (y - b) % RingSize
      BY <2>1, MaskedAt DEF n, list
    <3> HIDE DEF g
    <3>4. x \in Int /\ y \in Int /\ a \in Int /\ b \in Int
      BY <3>2, GateShares, RingFacts
    <3> HIDE DEF x, y, a, b
    <3>5. x - a \in Int /\ y - b \in Int
      BY <3>4
    <3>6. (x - a) % RingSize \in Ring /\ (y - b) % RingSize \in Ring
      BY <3>5, RingFacts
    <3> QED
      BY <3>1, <3>3, <3>6
  <2>3. list = [i \in 1 .. 2 * n |-> list[i]]
    BY DEF Masked
  <2>4. list \in Vec(2 * n)
    <3> HIDE DEF list, n
    <3> QED
      BY <2>2, <2>3 DEF Vec
  <2>5. ListLength(s) = 2 * n /\ ListFor(p, s, v, opened) = list
    BY <1>2 DEF ListLength, ListFor, gs
  <2> QED
    BY <2>4, <2>5
<1>3. CASE s.kind \in {"eqz1", "eqz2"}
  <2> DEFINE gs == OfType(s.level, "kEqz")
             n == Len(gs)
  <2>1. /\ n \in Nat /\ DOMAIN gs = 1 .. n
        /\ \A i \in 1 .. n : gs[i].type = "kEqz" /\ \E k \in 1 .. Len(gates) : gs[i] = gates[k]
    BY <1>1, <1>3, TypeGates
  <2>2. ListLength(s) = n
    BY <1>3 DEF ListLength
  <2>3. CASE s.kind = "eqz1"
    <3>1. ListFor(p, s, v, opened) = [i \in DOMAIN gs |-> LET g == gs[i]
                                        IN  (v[g.in1] + Mine(p, g, "r1")) % RingSize]
      BY <2>3 DEF ListFor
    <3> HIDE DEF gs, n
    <3>2. ASSUME NEW i \in 1 .. n
          PROVE  (v[gs[i].in1] + Mine(p, gs[i], "r1")) % RingSize \in Ring
      <4> DEFINE x == v[gs[i].in1]
                 r == Mine(p, gs[i], "r1")
      <4>1. x \in Int /\ r \in Int
        BY <2>1, GateShares, RingFacts
      <4> HIDE DEF x, r
      <4>2. x + r \in Int
        BY <4>1
      <4>3. (x + r) % RingSize \in Ring
        BY <4>2, RingFacts
      <4> QED
        BY <4>3 DEF x, r
    <3> QED
      BY <2>1, <2>2, <3>1, <3>2 DEF Vec
  <2>4. CASE s.kind = "eqz2"
    <3>1. ListFor(p, s, v, opened) = [i \in DOMAIN gs |-> Hamming(p, gs[i], opened[i])]
      BY <2>4 DEF ListFor
    <3>2. \A i \in 1 .. n : opened[i] \in Ring
      BY <2>4
    <3> HIDE DEF gs, n
    <3>3. \A i \in 1 .. n : Hamming(p, gs[i], opened[i]) \in Ring
      BY <2>1, <3>2, HammingLoop
    <3> QED
      BY <2>1, <2>2, <3>1, <3>3 DEF Vec
  <2> QED
    BY <1>3, <2>3, <2>4
<1>4. CASE s.kind = "rec"
  <2> DEFINE gs == OfType(s.level, "kRec")
             n == Len(gs)
  <2>1. /\ n \in Nat /\ DOMAIN gs = 1 .. n
        /\ \A i \in 1 .. n : gs[i].type = "kRec" /\ \E k \in 1 .. Len(gates) : gs[i] = gates[k]
    BY <1>1, <1>4, TypeGates
  <2>2. ListLength(s) = n
    BY <1>4 DEF ListLength
  <2>3. ListFor(p, s, v, opened) = [i \in DOMAIN gs |-> v[gs[i].in1]]
    BY <1>4 DEF ListFor
  <2> HIDE DEF gs, n
  <2>4. \A i \in 1 .. n : v[gs[i].in1] \in Ring
    BY <2>1, GateShares
  <2> QED
    BY <2>1, <2>2, <2>3, <2>4 DEF Vec
<1>5. CASE s.kind = "outputs"
  <2>1. ListLength(s) = Len(outputs) /\ ListFor(p, s, v, opened) = [i \in DOMAIN outputs |-> v[outputs[i]]]
    BY <1>5 DEF ListLength, ListFor
  <2>2. outputs \in Seq(Wires(gates))
    BY SecureEvalAssumption
  <2>3. DOMAIN outputs = 1 .. Len(outputs) /\ \A i \in 1 .. Len(outputs) : outputs[i] \in Wires(gates)
    BY <2>2
  <2> QED
    BY <2>1, <2>3 DEF Vec
<1> QED
  BY <1>1, <1>2, <1>3, <1>4, <1>5

\* It depends on the wires the stage reads only.
LEMMA ListForReads ==
  ASSUME NEW p, NEW s, ValidStage(s), IsRound(s),
         NEW v, NEW w, \A x \in StageReads(s) : v[x] = w[x],
         NEW o, NEW q, s.kind = "eqz2" => \A i \in 1 .. Len(OfType(s.level, "kEqz")) : o[i] = q[i]
  PROVE  ListFor(p, s, v, o) = ListFor(p, s, w, q)
<1>1. /\ s.kind \in {"mult", "eqz1", "eqz2", "rec", "outputs"}
      /\ s.kind # "outputs" => s.level \in 1 .. Len(Levels)
  BY DEF ValidStage, IsRound
<1>2. \A g : g.type # "kInp" => g.in1 \in Reads(g) /\ g.in2 \in Reads(g)
  BY DEF Reads
<1>3. CASE s.kind = "mult"
  <2> DEFINE gs == OfType(s.level, "kMul")
             n == Len(gs)
  <2>1. n \in Nat /\ \A i \in 1 .. n : gs[i].type = "kMul"
    BY <1>1, <1>3, TypeGates
  <2>2. \A i \in 1 .. n : Reads(gs[i]) \subseteq StageReads(s)
    BY <1>3 DEF StageReads
  <2> HIDE DEF gs
  <2>3. \A i \in 1 .. n : v[gs[i].in1] = w[gs[i].in1] /\ v[gs[i].in2] = w[gs[i].in2]
    BY <1>2, <2>1, <2>2
  <2>4. ASSUME NEW i \in 1 .. 2 * n
        PROVE  Masked(p, gs, v)[i] = Masked(p, gs, w)[i]
    <3> HIDE DEF n
    <3>1. PICK j \in 1 .. n : i = 2 * j - 1 \/ i = 2 * j
      BY <2>1, MaskedPlaces
    <3> USE DEF n
    <3>2. /\ Masked(p, gs, v)[2 * j - 1] = (v[gs[j].in1] - Mine(p, gs[j], "a")) % RingSize
          /\ Masked(p, gs, v)[2 * j] = (v[gs[j].in2] - Mine(p, gs[j], "b")) % RingSize
      BY <2>1, MaskedAt
    <3>3. /\ Masked(p, gs, w)[2 * j - 1] = (w[gs[j].in1] - Mine(p, gs[j], "a")) % RingSize
          /\ Masked(p, gs, w)[2 * j] = (w[gs[j].in2] - Mine(p, gs[j], "b")) % RingSize
      BY <2>1, MaskedAt
    <3> QED
      BY <2>3, <3>1, <3>2, <3>3
  <2>5. /\ Masked(p, gs, v) = [i \in 1 .. 2 * n |-> Masked(p, gs, v)[i]]
        /\ Masked(p, gs, w) = [i \in 1 .. 2 * n |-> Masked(p, gs, w)[i]]
    BY DEF Masked
  <2>6. Masked(p, gs, v) = Masked(p, gs, w)
    <3> DEFINE a == Masked(p, gs, v)
               b == Masked(p, gs, w)
    <3> HIDE DEF a, b, n
    <3> QED
      BY <2>4, <2>5 DEF a, b
  <2> QED
    BY <1>3, <2>6 DEF ListFor, gs
<1>4. CASE s.kind = "eqz1"
  <2> DEFINE gs == OfType(s.level, "kEqz")
             n == Len(gs)
  <2>1. n \in Nat /\ DOMAIN gs = 1 .. n /\ \A i \in 1 .. n : gs[i].type = "kEqz"
    BY <1>1, <1>4, TypeGates
  <2>2. \A i \in 1 .. n : Reads(gs[i]) \subseteq StageReads(s)
    BY <1>4 DEF StageReads
  <2> HIDE DEF gs, n
  <2>3. \A i \in 1 .. n : v[gs[i].in1] = w[gs[i].in1]
    BY <1>2, <2>1, <2>2
  <2>4. \A i \in DOMAIN gs : (v[gs[i].in1] + Mine(p, gs[i], "r1")) % RingSize
                               = (w[gs[i].in1] + Mine(p, gs[i], "r1")) % RingSize
    BY <2>1, <2>3
  <2>5. [i \in DOMAIN gs |-> (v[gs[i].in1] + Mine(p, gs[i], "r1")) % RingSize]
          = [i \in DOMAIN gs |-> (w[gs[i].in1] + Mine(p, gs[i], "r1")) % RingSize]
    BY <2>4
  <2> QED
    BY <1>4, <2>5 DEF ListFor, gs
<1>5. CASE s.kind = "eqz2"
  <2> DEFINE gs == OfType(s.level, "kEqz")
  <2>1. DOMAIN gs = 1 .. Len(gs)
    BY <1>1, <1>5, TypeGates
  <2>2. \A i \in DOMAIN gs : Hamming(p, gs[i], o[i]) = Hamming(p, gs[i], q[i])
    BY <1>5, <2>1
  <2>3. [i \in DOMAIN gs |-> Hamming(p, gs[i], o[i])] = [i \in DOMAIN gs |-> Hamming(p, gs[i], q[i])]
    BY <2>2
  <2> QED
    BY <1>5, <2>3 DEF ListFor
<1>6. CASE s.kind = "rec"
  <2> DEFINE gs == OfType(s.level, "kRec")
             n == Len(gs)
  <2>1. n \in Nat /\ DOMAIN gs = 1 .. n /\ \A i \in 1 .. n : gs[i].type = "kRec"
    BY <1>1, <1>6, TypeGates
  <2>2. \A i \in 1 .. n : Reads(gs[i]) \subseteq StageReads(s)
    BY <1>6 DEF StageReads
  <2> HIDE DEF gs, n
  <2>3. \A i \in DOMAIN gs : v[gs[i].in1] = w[gs[i].in1]
    BY <1>2, <2>1, <2>2
  <2>4. [i \in DOMAIN gs |-> v[gs[i].in1]] = [i \in DOMAIN gs |-> w[gs[i].in1]]
    BY <2>3
  <2> QED
    BY <1>6, <2>4 DEF ListFor, gs
<1>7. CASE s.kind = "outputs"
  <2>1. outputs \in Seq(Wires(gates))
    BY SecureEvalAssumption
  <2>2. \A i \in DOMAIN outputs : outputs[i] \in StageReads(s)
    BY <1>7, <2>1 DEF StageReads
  <2>3. [i \in DOMAIN outputs |-> v[outputs[i]]] = [i \in DOMAIN outputs |-> w[outputs[i]]]
    BY <2>2
  <2> QED
    BY <1>7, <2>3 DEF ListFor
<1> QED
  BY <1>1, <1>3, <1>4, <1>5, <1>6, <1>7

-----------------------------------------------------------------------------
(* What the calls return.                                                    *)

LEMMA CallListTyped ==
  ASSUME GivenTyped, SharesTyped, NEW p \in Party, NEW s, ValidStage(s), IsRound(s)
  PROVE  CallList(p, s) \in Vec(ListLength(s))
<1> DEFINE gs == OfType(s.level, "kEqz")
           v == [w \in Wires(gates) |-> WireShares[w][p]]
           o == [i \in DOMAIN gs |-> OpenedM1(gs[i], WireShares)]
<1>1. WireShares \in [Wires(gates) -> ShareVec]
  BY WireSharesRule
<1>2. \A w \in Wires(gates) : v[w] \in Ring
  BY <1>1 DEF ShareVec
<1>3. s.kind = "eqz2" => \A i \in 1 .. Len(gs) : o[i] \in Ring
  <2> SUFFICES ASSUME s.kind = "eqz2", NEW i \in 1 .. Len(gs)
               PROVE  o[i] \in Ring
    OBVIOUS
  <2>1. s.level \in 1 .. Len(Levels)
    BY DEF ValidStage
  <2>2. DOMAIN gs = 1 .. Len(gs) /\ gs[i].type = "kEqz" /\ \E k \in 1 .. Len(gates) : gs[i] = gates[k]
    BY <2>1, TypeGates
  <2>3. PICK k \in 1 .. Len(gates) : gs[i] = gates[k]
    BY <2>2
  <2>4. \A w \in Reads(gates[k]) : WireShares[w] \in ShareVec
    BY <1>1, SecureEvalAssumption, GateFacts
  <2>5. OpenedM1(gates[k], WireShares) \in Ring
    BY <2>2, <2>3, <2>4, OpenedValuesTyped
  <2> QED
    BY <2>2, <2>3, <2>5
<1>4. CallList(p, s) = ListFor(p, s, v, o)
  BY DEF CallList
<1> HIDE DEF v, o, gs
<1> QED
  BY <1>2, <1>3, <1>4, ListForTyped DEF gs

\* What a call returns: the opened values of its gates.
LEMMA CallSumAt ==
  ASSUME NEW s, NEW i \in 1 .. ListLength(s)
  PROVE  CallSum(s)[i] = Total([p \in Party |-> CallList(p, s)[i]])
<1> DEFINE n == ListLength(s)
           x == [p \in Party |-> CallList(p, s)]
<1>1. CallSum(s)[i] = Total([p \in Party |-> x[p][i]])
  <2>1. CallSum(s) = VecTotal(x, n)
    BY DEF CallSum
  <2> HIDE DEF x, n
  <2> QED
    BY <2>1 DEF VecTotal, n
<1>2. [p \in Party |-> x[p][i]] = [p \in Party |-> CallList(p, s)[i]]
  OBVIOUS
<1> QED
  BY <1>1, <1>2

LEMMA CallSumTyped ==
  ASSUME GivenTyped, SharesTyped, NEW s, ValidStage(s), IsRound(s)
  PROVE  CallSum(s) \in Vec(ListLength(s))
<1> DEFINE n == ListLength(s)
           x == [p \in Party |-> CallList(p, s)]
<1>1. \A p \in Party : CallList(p, s) \in Vec(n)
  BY CallListTyped
<1>2. n \in Nat
  BY ListLengthFacts
<1> HIDE DEF n
<1>3. x \in [Party -> Vec(n)]
  BY <1>1
<1>4. CallSum(s) = VecTotal(x, n)
  BY DEF CallSum, n
<1> HIDE DEF x
<1> QED
  BY <1>2, <1>3, <1>4, VecTotalInVec DEF n

\* The opened values of a stage, in the order of its gates.
OpenedBy(s, W, list) ==
  /\ s.kind = "mult" => LET gs == OfType(s.level, "kMul")
                        IN  \A j \in 1 .. Len(gs) : /\ list[2 * j - 1] = OpenedE(gs[j], W)
                                                    /\ list[2 * j] = OpenedD(gs[j], W)
  /\ s.kind = "eqz1" => LET gs == OfType(s.level, "kEqz")
                        IN  \A j \in 1 .. Len(gs) : list[j] = OpenedM1(gs[j], W)
  /\ s.kind = "eqz2" => LET gs == OfType(s.level, "kEqz")
                        IN  \A j \in 1 .. Len(gs) : list[j] = OpenedM2(gs[j], W)
  /\ s.kind = "rec" => LET gs == OfType(s.level, "kRec")
                       IN  \A j \in 1 .. Len(gs) : list[j] = Total(W[gs[j].in1])
  /\ s.kind = "outputs" => \A j \in 1 .. Len(outputs) : list[j] = Total(W[outputs[j]])

LEMMA CallSumIs ==
  ASSUME GivenTyped, SharesTyped, NEW s, ValidStage(s), IsRound(s)
  PROVE  OpenedBy(s, WireShares, CallSum(s))
<1> DEFINE W == WireShares
           L == CallSum(s)
           n == ListLength(s)
           v(p) == [w \in Wires(gates) |-> W[w][p]]
           m1 == [i \in DOMAIN OfType(s.level, "kEqz") |-> OpenedM1(OfType(s.level, "kEqz")[i], W)]
<1>1. W \in [Wires(gates) -> ShareVec]
  BY WireSharesRule
<1>2. \A p \in Party : CallList(p, s) = ListFor(p, s, v(p), m1)
  BY DEF CallList
<1>3. \A i \in 1 .. n : L[i] = Total([p \in Party |-> CallList(p, s)[i]])
  BY CallSumAt
<1>4. s.kind # "outputs" => s.level \in 1 .. Len(Levels)
  BY DEF ValidStage
<1>5. \A w \in Wires(gates) : [p \in Party |-> v(p)[w]] = W[w]
  BY <1>1 DEF ShareVec
<1>6. \A w \in Wires(gates) : \A p \in Party : v(p)[w] = W[w][p]
  OBVIOUS
<1> HIDE DEF v, L, W
<1>7. ASSUME s.kind = "mult", NEW j \in 1 .. Len(OfType(s.level, "kMul"))
      PROVE  /\ L[2 * j - 1] = OpenedE(OfType(s.level, "kMul")[j], W)
             /\ L[2 * j] = OpenedD(OfType(s.level, "kMul")[j], W)
  <2> DEFINE gs == OfType(s.level, "kMul")
             g == gs[j]
  <2>1. /\ Len(gs) \in Nat /\ g.type = "kMul" /\ \E k \in 1 .. Len(gates) : g = gates[k]
    BY <1>4, <1>7, TypeGates
  <2>2. g.in1 \in Wires(gates) /\ g.in2 \in Wires(gates)
    BY <2>1, SecureEvalAssumption, GateFacts
  <2>3. n = 2 * Len(gs) /\ \A p \in Party : CallList(p, s) = Masked(p, gs, v(p))
    BY <1>2, <1>7 DEF ListLength, ListFor
  <2> HIDE DEF gs, n
  <2>4. 2 * j - 1 \in 1 .. n /\ 2 * j \in 1 .. n
    BY <2>1, <2>3, MaskedAt DEF gs
  <2>5. \A p \in Party : /\ CallList(p, s)[2 * j - 1] = (W[g.in1][p] - Mine(p, g, "a")) % RingSize
                         /\ CallList(p, s)[2 * j] = (W[g.in2][p] - Mine(p, g, "b")) % RingSize
    <3> TAKE p \in Party
    <3>1. /\ Masked(p, gs, v(p))[2 * j - 1] = (v(p)[gs[j].in1] - Mine(p, gs[j], "a")) % RingSize
          /\ Masked(p, gs, v(p))[2 * j] = (v(p)[gs[j].in2] - Mine(p, gs[j], "b")) % RingSize
      BY <2>1, MaskedAt DEF gs
    <3> QED
      BY <1>6, <2>2, <2>3, <3>1
  <2>6. /\ [p \in Party |-> CallList(p, s)[2 * j - 1]]
             = [p \in Party |-> (W[g.in1][p] - Mine(p, g, "a")) % RingSize]
        /\ [p \in Party |-> CallList(p, s)[2 * j]]
             = [p \in Party |-> (W[g.in2][p] - Mine(p, g, "b")) % RingSize]
    BY <2>5
  <2> QED
    BY <1>3, <2>4, <2>6 DEF OpenedE, OpenedD, gs
<1>8. ASSUME s.kind = "eqz1", NEW j \in 1 .. Len(OfType(s.level, "kEqz"))
      PROVE  L[j] = OpenedM1(OfType(s.level, "kEqz")[j], W)
  <2> DEFINE gs == OfType(s.level, "kEqz")
             g == gs[j]
  <2>1. /\ DOMAIN gs = 1 .. Len(gs) /\ g.type = "kEqz" /\ \E k \in 1 .. Len(gates) : g = gates[k]
    BY <1>4, <1>8, TypeGates
  <2>2. g.in1 \in Wires(gates)
    BY <2>1, SecureEvalAssumption, GateFacts
  <2>3. n = Len(gs)
    BY <1>8 DEF ListLength
  <2>4. \A p \in Party : CallList(p, s)[j] = (v(p)[g.in1] + Mine(p, g, "r1")) % RingSize
    <3> TAKE p \in Party
    <3>1. CallList(p, s) = [i \in DOMAIN gs |->
            LET h == gs[i] IN (v(p)[h.in1] + Mine(p, h, "r1")) % RingSize]
      BY <1>2, <1>8 DEF ListFor
    <3> HIDE DEF gs
    <3> QED
      BY <2>1, <3>1 DEF gs
  <2>5. [p \in Party |-> CallList(p, s)[j]] = [p \in Party |-> (W[g.in1][p] + Mine(p, g, "r1")) % RingSize]
    BY <1>6, <2>2, <2>4
  <2> QED
    BY <1>3, <2>3, <2>5 DEF OpenedM1
<1>9. ASSUME s.kind = "eqz2", NEW j \in 1 .. Len(OfType(s.level, "kEqz"))
      PROVE  L[j] = OpenedM2(OfType(s.level, "kEqz")[j], W)
  <2> DEFINE gs == OfType(s.level, "kEqz")
             g == gs[j]
  <2>1. DOMAIN gs = 1 .. Len(gs)
    BY <1>4, <1>9, TypeGates
  <2>2. n = Len(gs)
    BY <1>9 DEF ListLength
  <2>3. m1[j] = OpenedM1(g, W)
    BY <2>1
  <2>4. \A p \in Party : CallList(p, s)[j] = Hamming(p, g, OpenedM1(g, W))
    <3> TAKE p \in Party
    <3>1. CallList(p, s) = [i \in DOMAIN gs |-> Hamming(p, gs[i], m1[i])]
      BY <1>2, <1>9 DEF ListFor
    <3> HIDE DEF gs, m1
    <3> QED
      BY <2>1, <2>3, <3>1 DEF gs
  <2>5. [p \in Party |-> CallList(p, s)[j]] = [p \in Party |-> Hamming(p, g, OpenedM1(g, W))]
    BY <2>4
  <2> QED
    BY <1>3, <2>2, <2>5 DEF OpenedM2
<1>10. ASSUME s.kind = "rec", NEW j \in 1 .. Len(OfType(s.level, "kRec"))
       PROVE  L[j] = Total(W[OfType(s.level, "kRec")[j].in1])
  <2> DEFINE gs == OfType(s.level, "kRec")
             g == gs[j]
  <2>1. /\ DOMAIN gs = 1 .. Len(gs) /\ g.type = "kRec" /\ \E k \in 1 .. Len(gates) : g = gates[k]
    BY <1>4, <1>10, TypeGates
  <2>2. g.in1 \in Wires(gates)
    BY <2>1, SecureEvalAssumption, GateFacts
  <2>3. n = Len(gs)
    BY <1>10 DEF ListLength
  <2>4. \A p \in Party : CallList(p, s)[j] = v(p)[g.in1]
    BY <1>2, <1>10, <2>1 DEF ListFor
  <2>5. [p \in Party |-> CallList(p, s)[j]] = W[g.in1]
    <3>1. [p \in Party |-> CallList(p, s)[j]] = [p \in Party |-> v(p)[g.in1]]
      BY <2>4
    <3> QED
      BY <1>5, <2>2, <3>1
  <2> QED
    BY <1>3, <2>3, <2>5
<1>11. ASSUME s.kind = "outputs", NEW j \in 1 .. Len(outputs)
       PROVE  L[j] = Total(W[outputs[j]])
  <2>1. outputs \in Seq(Wires(gates))
    BY SecureEvalAssumption
  <2>2. DOMAIN outputs = 1 .. Len(outputs) /\ outputs[j] \in Wires(gates) /\ n = Len(outputs)
    BY <1>11, <2>1 DEF ListLength
  <2>3. \A p \in Party : CallList(p, s)[j] = v(p)[outputs[j]]
    BY <1>2, <1>11, <2>2 DEF ListFor
  <2>4. [p \in Party |-> CallList(p, s)[j]] = W[outputs[j]]
    <3>1. [p \in Party |-> CallList(p, s)[j]] = [p \in Party |-> v(p)[outputs[j]]]
      BY <2>3
    <3> QED
      BY <1>5, <2>2, <3>1
  <2> QED
    BY <1>3, <2>2, <2>4
<1> QED
  BY <1>7, <1>8, <1>9, <1>10, <1>11 DEF OpenedBy, L, W

\* What a stage puts on a wire is the share of it.
LEMMA OpenedIsShare ==
  ASSUME GivenTyped, SharesTyped, NEW p \in Party, NEW s, ValidStage(s), IsRound(s),
         NEW i \in 1 .. Len(SetBy(s))
  PROVE  Opened(p, SetBy(s)[i], i, CallSum(s)) = ShareBy(SetBy(s)[i], WireShares, p)
<1> DEFINE W == WireShares
           L == CallSum(s)
<1>1. OpenedBy(s, W, L)
  BY CallSumIs
<1>2. s.kind # "outputs" => s.level \in 1 .. Len(Levels)
  BY DEF ValidStage
<1> HIDE DEF W, L
<1>3. CASE s.kind = "mult"
  <2> DEFINE gs == OfType(s.level, "kMul")
             g == gs[i]
  <2>1. SetBy(s) = gs /\ g.type = "kMul"
    BY <1>2, <1>3, TypeGates DEF SetBy
  <2>2. L[2 * i - 1] = OpenedE(g, W) /\ L[2 * i] = OpenedD(g, W)
    BY <1>1, <1>3, <2>1 DEF OpenedBy
  <2> HIDE DEF gs, g
  <2>3. Opened(p, g, i, L) = Product(p, g, L[2 * i - 1], L[2 * i])
    BY <2>1 DEF Opened
  <2>4. ShareBy(g, W, p) = Product(p, g, OpenedE(g, W), OpenedD(g, W))
    BY <2>1 DEF ShareBy
  <2> QED
    BY <2>1, <2>2, <2>3, <2>4 DEF W, L, g
<1>4. CASE s.kind = "eqz2"
  <2> DEFINE gs == OfType(s.level, "kEqz")
             g == gs[i]
  <2>1. SetBy(s) = gs /\ g.type = "kEqz"
    BY <1>2, <1>4, TypeGates DEF SetBy
  <2>2. L[i] = OpenedM2(g, W)
    BY <1>1, <1>4, <2>1 DEF OpenedBy
  <2> HIDE DEF gs, g
  <2>3. Opened(p, g, i, L) = preproc[p][<<g.out, "r2_bits", L[i] % RINGSIZEBITS>>]
    BY <2>1 DEF Opened
  <2>4. ShareBy(g, W, p) = preproc[p][<<g.out, "r2_bits", OpenedM2(g, W) % RINGSIZEBITS>>]
    BY <2>1 DEF ShareBy
  <2> QED
    BY <2>1, <2>2, <2>3, <2>4 DEF W, L, g
<1>5. CASE s.kind = "rec"
  <2> DEFINE gs == OfType(s.level, "kRec")
             g == gs[i]
  <2>1. SetBy(s) = gs /\ g.type = "kRec"
    BY <1>2, <1>5, TypeGates DEF SetBy
  <2>2. L[i] = Total(W[g.in1])
    BY <1>1, <1>5, <2>1 DEF OpenedBy
  <2> QED
    BY <2>1, <2>2 DEF Opened, ShareBy, W, L
<1>6. CASE s.kind \notin {"mult", "eqz2", "rec"}
  BY <1>6 DEF SetBy
<1> QED
  BY <1>3, <1>4, <1>5, <1>6

-----------------------------------------------------------------------------
(* The local gates of a level.                                               *)

\* A is the history of the second pass over level l.
LocalHistory(p, l, A) ==
  LET gs == OfTypes(Levels[l], LocalTypes)
  IN  /\ A[0] = wires[p]
      /\ \A k \in 1 .. Len(gs) : A[k] = [A[k - 1] EXCEPT ![gs[k].out] = LocalValue(p, gs[k], A[k - 1])]
      /\ \A k \in 0 .. Len(gs) : A[k] \in [Wires(gates) -> Ring]

LEMMA LocalLoop ==
  ASSUME SharesTyped, NEW p \in Party, NEW l \in 1 .. Len(Levels)
  PROVE  \E A : LocalHistory(p, l, A) /\ LocalWires(p, l) = A[Len(OfTypes(Levels[l], LocalTypes))]
<1> DEFINE gs == OfTypes(Levels[l], LocalTypes)
           n == Len(gs)
           S == [Wires(gates) -> Ring]
           Turn(k, a) == [a EXCEPT ![gs[k].out] = LocalValue(p, gs[k], a)]
           step == [k \in 1 .. n |-> [a \in S |-> Turn(k, a)]]
           Def(f) == [k \in 0 .. n |-> IF k = 0 THEN wires[p] ELSE Turn(k, f[k - 1])]
           A == CHOOSE f : f = Def(f)
<1>1. n \in Nat /\ \A k \in 1 .. n :
                     gs[k].type \in LocalTypes /\ \E j \in 1 .. Len(gates) : gs[k] = gates[j]
  <2>1. IsGroup(gs, l, LocalTypes)
    BY GroupFacts
  <2> HIDE DEF gs
  <2> QED
    BY <2>1 DEF IsGroup
<1>2. LocalWires(p, l) = A[n]
  BY DEF LocalWires
<1> HIDE DEF gs, n
<1>3. \A k \in 1 .. n, a \in S : Turn(k, a) \in S
  <2> TAKE k \in 1 .. n, a \in S
  <2>1. PICK j \in 1 .. Len(gates) : gs[k] = gates[j] /\ gates[j].type \in LocalTypes
    BY <1>1
  <2>2. \A w \in Reads(gates[j]) : a[w] \in Ring
    BY SecureEvalAssumption, GateFacts DEF S
  <2>3. LocalValue(p, gs[k], a) \in Ring
    BY <2>1, <2>2, LocalValueTyped
  <2> QED
    BY <2>3
<1>4. wires[p] \in S
  BY DEF SharesTyped
<1> HIDE DEF Turn, S
<1>5. /\ step \in [1 .. n -> [S -> S]]
      /\ \A k \in 1 .. n, a \in S : step[k][a] = Turn(k, a)
  BY <1>3
<1> HIDE DEF step
<1>6. PICK h \in [0 .. n -> S] : History(n, wires[p], step, h)
  BY <1>1, <1>4, <1>5, Recursion
<1>7. h = Def(h)
  <2>1. \A k \in 0 .. n : h[k] = Def(h)[k]
    <3> TAKE k \in 0 .. n
    <3>1. CASE k = 0
      BY <1>6, <3>1 DEF History
    <3>2. CASE k # 0
      <4>1. k \in 1 .. n /\ k - 1 \in 0 .. n
        BY <1>1, <3>2
      <4>2. h[k] = step[k][h[k - 1]] /\ h[k - 1] \in S
        BY <1>6, <4>1 DEF History
      <4> QED
        BY <1>5, <3>2, <4>1, <4>2
    <3> QED
      BY <3>1, <3>2
  <2> QED
    BY <2>1
<1> HIDE DEF Def
<1>8. A = Def(A)
  BY <1>7
<1> HIDE DEF A
<1>9. \A k \in 0 .. n : A[k] = IF k = 0 THEN wires[p] ELSE Turn(k, A[k - 1])
  BY <1>8 DEF Def
<1>10. \A k \in 1 .. n : k \in 0 .. n /\ k - 1 \in 0 .. n /\ k # 0 /\ A[k] = Turn(k, A[k - 1])
  BY <1>1, <1>9
<1>11. \A k \in 0 .. n : A[k] \in S
  <2> DEFINE T == {k \in 0 .. n : A[k] \in S}
  <2>1. 0 \in T
    BY <1>1, <1>4, <1>9
  <2>2. ASSUME NEW k \in 1 .. n, k - 1 \in T
        PROVE  k \in T
    BY <1>3, <1>10, <2>2
  <2> HIDE DEF T
  <2>4. \A k \in 0 .. n : k \in T
    BY <1>1, <2>1, <2>2, UpTo
  <2> QED
    BY <2>4 DEF T
<1>12. A[0] = wires[p]
  BY <1>1, <1>9
<1>13. LocalHistory(p, l, A)
  BY <1>10, <1>11, <1>12 DEF LocalHistory, Turn, S, n, gs
<1> QED
  BY <1>2, <1>13 DEF n, gs

LEMMA LocalTyped ==
  ASSUME SharesTyped, NEW p \in Party, NEW l \in 1 .. Len(Levels)
  PROVE  LocalWires(p, l) \in [Wires(gates) -> Ring]
<1> DEFINE gs == OfTypes(Levels[l], LocalTypes)
<1>1. PICK A : LocalHistory(p, l, A) /\ LocalWires(p, l) = A[Len(gs)]
  BY LocalLoop
<1>2. Len(gs) \in Nat
  BY GroupFacts DEF IsGroup
<1>3. Len(gs) \in 0 .. Len(gs)
  BY <1>2
<1> QED
  BY <1>1, <1>3 DEF LocalHistory

LEMMA LocalValueReads ==
  ASSUME NEW p, NEW g, g.type \in LocalTypes, NEW u, NEW v, \A w \in Reads(g) : u[w] = v[w]
  PROVE  LocalValue(p, g, u) = LocalValue(p, g, v)
<1>1. u[g.in1] = v[g.in1] /\ u[g.in2] = v[g.in2]
  BY DEF Reads, LocalTypes
<1> QED
  BY <1>1 DEF LocalValue, LocalTypes

\* A wire that a local gate of level l reads is set by an earlier stage or by a
\* local gate of the same level that stands before it.
LEMMA LocalReads ==
  ASSUME NEW i \in 1 .. Len(Program), NEW l \in 1 .. Len(Levels), Program[i] = Stage("local", l),
         NEW k \in 1 .. Len(OfTypes(Levels[l], LocalTypes)),
         NEW w \in Reads(OfTypes(Levels[l], LocalTypes)[k])
  PROVE  /\ w \in Wires(gates) /\ w + 1 \in 1 .. Len(gates)
         /\ \/ SetIn(gates[w + 1]) < i
            \/ \E j \in 1 .. k - 1 : OfTypes(Levels[l], LocalTypes)[j] = gates[w + 1]
<1> DEFINE gs == OfTypes(Levels[l], LocalTypes)
<1>1. IsGroup(gs, l, LocalTypes) /\ l \in Nat
  BY GroupFacts, LevelFacts
<1> HIDE DEF gs
<1>2. PICK m \in 1 .. Len(gates) : gs[k] = gates[m] /\ LevelOf[m - 1] = l - 1
  BY <1>1 DEF IsGroup, gs
<1>3. /\ w \in Reads(gates[m]) /\ gates[m].out = m - 1 /\ w \in Wires(gates) /\ w \in 0 .. m - 2
      /\ Wires(gates) = 0 .. Len(gates) - 1 /\ Len(gates) \in Nat
  BY <1>2, SecureEvalAssumption, GateFacts DEF gs
<1>4. LevelOf[w] <= LevelOf[m - 1]
  <2>1. GateLevel(gates)[w] <= GateLevel(gates)[gates[m].out]
    BY <1>3, SecureEvalAssumption, ReadBelow
  <2> QED
    BY <1>3, <2>1 DEF LevelOf
<1> DEFINE n == w + 1
<1>5. n \in 1 .. Len(gates) /\ n - 1 = w
  BY <1>3
<1> HIDE DEF n
<1>6. /\ SetStage(gates[n]) \in ValidStages
      /\ Rank(SetStage(gates[n])) <= 6 * (LevelOf[n - 1] + 1) + 4
      /\ gates[n].type \notin LocalTypes => Rank(SetStage(gates[n])) <= 6 * (LevelOf[n - 1] + 1) + 3
      /\ SetIn(gates[n]) \in 1 .. Len(Program) /\ Program[SetIn(gates[n])] = SetStage(gates[n])
      /\ LevelOf[n - 1] \in Nat /\ gates[n].out = n - 1
  BY <1>5, SetStageFacts, GateLevelFacts
<1>7. Rank(Program[i]) = 6 * l + 4
  <2>1. Program[i] \in ValidStages /\ Program[i].kind = "local" /\ Program[i].level = l
    BY StageFacts DEF Stage
  <2> QED
    BY <2>1, RankFacts
<1>8. SUFFICES ASSUME ~(SetIn(gates[n]) < i)
               PROVE  \E j \in 1 .. k - 1 : gs[j] = gates[n]
  BY <1>3, <1>5 DEF gs, n
<1>9. Rank(SetStage(gates[n])) >= 6 * l + 4
  <2>1. ~(Rank(Program[SetIn(gates[n])]) < Rank(Program[i]))
    BY <1>6, <1>8, StageFacts
  <2>2. Rank(SetStage(gates[n])) \in Nat
    BY <1>6, RankFacts
  <2> QED
    BY <1>1, <1>6, <1>7, <2>1, <2>2
<1>10. LevelOf[n - 1] = l - 1 /\ gates[n].type \in LocalTypes
  <2> DEFINE x == Rank(SetStage(gates[n]))
             a == LevelOf[n - 1]
  <2>1. /\ x \in Nat /\ a \in Nat /\ x <= 6 * (a + 1) + 4 /\ x >= 6 * l + 4 /\ a <= l - 1
        /\ gates[n].type \notin LocalTypes => x <= 6 * (a + 1) + 3
    <3>1. x \in Nat
      BY <1>6, RankFacts
    <3> QED
      BY <1>2, <1>4, <1>5, <1>6, <1>9, <3>1
  <2> HIDE DEF x, a
  <2>2. a = l - 1 /\ gates[n].type \in LocalTypes
    BY <1>1, <2>1
  <2> QED
    BY <2>2 DEF a
<1>11. PICK j \in 1 .. Len(gs) : gs[j] = gates[n]
  BY <1>1, <1>5, <1>10 DEF IsGroup
<1>12. j < k
  <2>1. gs[j].out < gs[k].out
    <3>1. gs[j].out = w /\ gs[k].out = m - 1
      BY <1>2, <1>3, <1>5, <1>6, <1>11
    <3>2. w < m - 1
      BY <1>3
    <3> QED
      BY <3>1, <3>2
  <2>2. gs[j].out \in Nat /\ gs[k].out \in Nat
    <3>1. w \in Nat /\ m - 1 \in Nat
      BY <1>3
    <3>2. gs[j].out = w /\ gs[k].out = m - 1
      BY <1>2, <1>3, <1>5, <1>6, <1>11
    <3> QED
      BY <3>1, <3>2
  <2>3. k \in 1 .. Len(gs) /\ (k < j => gs[k].out < gs[j].out)
    BY <1>1 DEF IsGroup, gs
  <2>4. ~(k < j) /\ k # j
    BY <2>1, <2>2, <2>3
  <2> QED
    BY <2>3, <2>4
<1>13. j \in 1 .. k - 1
  BY <1>11, <1>12 DEF gs
<1> QED
  BY <1>11, <1>13

\* After the pass, the wires that were set and those of the level's local gates
\* hold the party's shares of them.
LEMMA LocalIsShare ==
  ASSUME GivenTyped, SharesTyped, NEW p \in Party, NEW i \in 1 .. Len(Program),
         NEW l \in 1 .. Len(Levels), Program[i] = Stage("local", l),
         \A k \in 1 .. Len(gates) :
           SetIn(gates[k]) < i => wires[p][gates[k].out] = WireShares[gates[k].out][p]
  PROVE  \A k \in 1 .. Len(gates) :
           SetIn(gates[k]) <= i => LocalWires(p, l)[gates[k].out] = WireShares[gates[k].out][p]
<1> DEFINE gs == OfTypes(Levels[l], LocalTypes)
           n == Len(gs)
           W == WireShares
           Before(k, j) == SetIn(gates[j]) < i \/ \E x \in 1 .. k : gs[x] = gates[j]
<1>1. IsGroup(gs, l, LocalTypes) /\ l \in Nat /\ n \in Nat
  BY GroupFacts, LevelFacts DEF IsGroup
<1>2. PICK A : LocalHistory(p, l, A) /\ LocalWires(p, l) = A[n]
  BY LocalLoop
<1>3. /\ A[0] = wires[p]
      /\ \A k \in 1 .. n : A[k] = [A[k - 1] EXCEPT ![gs[k].out] = LocalValue(p, gs[k], A[k - 1])]
      /\ \A k \in 0 .. n : A[k] \in [Wires(gates) -> Ring]
  BY <1>2 DEF LocalHistory
<1>4. /\ Len(gates) \in Nat
      /\ \A k \in 1 .. Len(gates) : gates[k].out = k - 1 /\ gates[k].out \in Wires(gates) /\ k \in Int
  BY SecureEvalAssumption, GateFacts
<1>5. \A k \in 1 .. n : \A w \in Reads(gs[k]) :
        w \in Wires(gates) /\ w + 1 \in 1 .. Len(gates) /\ Before(k - 1, w + 1)
  BY LocalReads
<1>6. \A k \in 1 .. Len(gates) : W[gates[k].out][p] = ShareBy(gates[k], W, p)
  BY WireSharesRule
<1>7. \A k \in 1 .. Len(gates) : SetIn(gates[k]) < i => wires[p][gates[k].out] = W[gates[k].out][p]
  OBVIOUS
<1> HIDE DEF gs, n, W
<1> DEFINE T == {k \in 0 .. n : \A j \in 1 .. Len(gates) :
                   Before(k, j) => A[k][gates[j].out] = W[gates[j].out][p]}
<1>8. n \in T
  <2>1. 0 \in T
    <3>1. 0 \in 0 .. n /\ \A j \in 1 .. Len(gates) : Before(0, j) => SetIn(gates[j]) < i
      BY <1>1
    <3> QED
      BY <1>3, <1>7, <3>1
  <2>2. ASSUME NEW k \in 1 .. n, k - 1 \in T
        PROVE  k \in T
    <3>1. k \in 0 .. n /\ k - 1 \in 0 .. n /\ k \in Nat
      BY <1>1
    <3> DEFINE a == A[k - 1]
               b == A[k]
               v == LocalValue(p, gs[k], a)
    <3>2. a \in [Wires(gates) -> Ring] /\ b = [a EXCEPT ![gs[k].out] = v]
      BY <1>3, <3>1
    <3>3. PICK m \in 1 .. Len(gates) : gs[k] = gates[m] /\ gates[m].type \in LocalTypes
      BY <1>1 DEF IsGroup, n
    <3>4. \A j \in 1 .. Len(gates) : Before(k - 1, j) => a[gates[j].out] = W[gates[j].out][p]
      BY <2>2
    <3>5. v = W[gates[m].out][p]
      <4> DEFINE u == [w \in Reads(gates[m]) |-> W[w][p]]
      <4>1. \A w \in Reads(gates[m]) : a[w] = W[w][p]
        <5> TAKE w \in Reads(gates[m])
        <5>1. w \in Wires(gates) /\ w + 1 \in 1 .. Len(gates) /\ Before(k - 1, w + 1)
          BY <1>5, <3>3
        <5>2. gates[w + 1].out = w
          <6>1. gates[w + 1].out = (w + 1) - 1 /\ w \in Nat
            BY <1>4, <5>1 DEF Wires
          <6> QED
            BY <6>1
        <5> QED
          BY <3>4, <5>1, <5>2
      <4>2. \A w \in Reads(gates[m]) : a[w] = u[w]
        BY <4>1
      <4> HIDE DEF u
      <4>3. LocalValue(p, gates[m], a) = LocalValue(p, gates[m], u)
        BY <3>3, <4>2, LocalValueReads
      <4>4. ShareBy(gates[m], W, p) = LocalValue(p, gates[m], u)
        BY <3>3 DEF ShareBy, LocalTypes, u
      <4> QED
        BY <1>6, <3>3, <4>3, <4>4
    <3> HIDE DEF a, b, v
    <3>6. ASSUME NEW j \in 1 .. Len(gates), Before(k, j)
          PROVE  b[gates[j].out] = W[gates[j].out][p]
      <4>1. CASE j = m
        BY <1>4, <3>2, <3>3, <3>5, <4>1
      <4>2. CASE j # m
        <5>1. gates[j].out # gates[m].out
          BY <1>4, <4>2
        <5>2. gs[k] # gates[j]
          BY <3>3, <5>1
        <5>3. \A x \in 1 .. k : x = k \/ x \in 1 .. k - 1
          BY <3>1
        <5>4. Before(k - 1, j)
          BY <3>6, <5>2, <5>3
        <5> QED
          BY <1>4, <3>2, <3>3, <3>4, <5>1, <5>4
      <4> QED
        BY <4>1, <4>2
    <3> QED
      BY <3>1, <3>6 DEF b
  <2>3. n \in 0 .. n
    BY <1>1
  <2> HIDE DEF T
  <2> QED
    BY <1>1, <2>1, <2>2, <2>3, UpTo
<1>9. ASSUME NEW k \in 1 .. Len(gates), SetIn(gates[k]) <= i
      PROVE  Before(n, k)
  <2>1. SetIn(gates[k]) \in 1 .. Len(Program) /\ Len(Program) \in Nat
    BY SetStageFacts, StageFacts
  <2>2. SUFFICES ASSUME SetIn(gates[k]) = i
                 PROVE  \E x \in 1 .. n : gs[x] = gates[k]
    BY <1>9, <2>1
  <2>3. SetStage(gates[k]) = Stage("local", l)
    BY <2>2, SetStageFacts
  <2>4. LevelOf[k - 1] + 1 = l /\ LevelOf[k - 1] \in Nat /\ gates[k].type \in Types
        /\ gates[k].type \notin {"kInp", "kMul", "kEqz", "kRec"}
    BY <2>3, GateLevelFacts DEF SetStage, Stage
  <2>5. LevelOf[k - 1] = l - 1 /\ gates[k].type \in LocalTypes
    <3>1. gates[k].type \in LocalTypes
      BY <2>4 DEF Types, LocalTypes
    <3>2. LevelOf[k - 1] = l - 1
      BY <1>1, <2>4
    <3> QED
      BY <3>1, <3>2
  <2> QED
    BY <1>1, <2>5 DEF IsGroup, n
<1>10. \A k \in 1 .. Len(gates) : SetIn(gates[k]) <= i => A[n][gates[k].out] = W[gates[k].out][p]
  BY <1>8, <1>9
<1> QED
  BY <1>2, <1>10 DEF W, n, gs

-----------------------------------------------------------------------------
(* The evaluation with abstract calls: every party computes its share of every *)
(* wire, and every call returns what the lists of that stage add up to.       *)

\* The assumptions of the lemmas above.
LEMMA TypeInvFacts ==
  ASSUME TypeInv
  PROVE  GivenTyped /\ SharesTyped
<1>1. GivenTyped
  BY SecureEvalAssumption DEF TypeInv, GivenTyped
<1>2. preproc \in [Party -> [Material -> Ring]]
  <2> DEFINE dealt == DealtShares(ItemOrder, stream)
  <2>1. /\ preproc = [p \in Party |-> [item \in Material |-> dealt[IndexOf(ItemOrder, item)][p]]]
        /\ stream \in Seq(Ring) /\ Len(stream) >= Len(ItemOrder)
    BY SecureEvalAssumption DEF TypeInv
  <2>2. ASSUME NEW p \in Party, NEW item \in Material
        PROVE  dealt[IndexOf(ItemOrder, item)][p] \in Ring
    <3>1. \E k \in DOMAIN ItemOrder : ItemOrder[k] = item
      BY DEF Material, ItemSet, ItemOrder
    <3>2. IndexOf(ItemOrder, item) \in DOMAIN ItemOrder
      BY <3>1 DEF IndexOf
    <3> QED
      BY <2>1, <3>2, SecureEvalAssumption, DealtTyped DEF ItemOrder
  <2> QED
    BY <2>1, <2>2
<1> QED
  BY <1>1, <1>2 DEF TypeInv, SharesTyped

LEMMA EvalInit == Init => EvalShares
<1> SUFFICES ASSUME Init
             PROVE  EvalShares
  OBVIOUS
<1>1. /\ pc = [p \in Party |-> 1] /\ outvals = [p \in Party |-> <<>>]
      /\ arg = [p \in Party |-> [c \in 1 .. numCalls |-> <<>>]]
      /\ res = [p \in Party |-> [c \in 1 .. numCalls |-> <<>>]]
  BY DEF Init, Exchange!Init, Exchange!Call, Exchange!None, Exchange!Party, Party
<1>2. Len(Program) \in Nat /\ 1 \in 1 .. Len(Program)
  <2>1. 1 \in 1 .. Len(Levels)
    BY LevelFacts
  <2>2. Stage("inputs", 1) \in ValidStages
    BY <2>1 DEF ValidStages, ValidStage, Stage
  <2> QED
    BY <2>2, StageFacts
<1>3. TypeInv
  <2>1. IsCase(given) /\ stream \in Streams
    BY SecureEvalAssumption DEF Init
  <2>2. wires \in [Party -> [Wires(gates) -> Ring]]
    BY RingFacts DEF Init
  <2>3. <<>> \in Seq(Ring)
    OBVIOUS
  <2>4. /\ pc \in [Party -> 1 .. Len(Program) + 1] /\ outvals \in [Party -> Seq(Ring)]
        /\ arg \in [Party -> [1 .. numCalls -> Seq(Ring)]]
        /\ res \in [Party -> [1 .. numCalls -> Seq(Ring)]]
    BY <1>1, <1>2, <2>3
  <2>5. preproc = LET dealt == DealtShares(ItemOrder, stream)
                  IN  [p \in Party |-> [item \in Material |-> dealt[IndexOf(ItemOrder, item)][p]]]
    BY DEF Init
  <2> QED
    BY <2>1, <2>2, <2>4, <2>5 DEF TypeInv
<1>4. WiresInv
  <2>1. Len(gates) \in Nat /\ DOMAIN gates = 1 .. Len(gates)
    BY SecureEvalAssumption, GateFacts
  <2>2. ASSUME NEW p \in Party, NEW k \in 1 .. Len(gates)
        PROVE  ~(pc[p] > SetIn(gates[k]))
    <3>1. SetIn(gates[k]) \in 1 .. Len(Program)
      BY SetStageFacts
    <3> QED
      BY <1>1, <1>2, <3>1
  <2> QED
    BY <2>1, <2>2 DEF WiresInv
<1>5. CallsInv
  <2>1. ASSUME NEW p \in Party, NEW c \in 1 .. numCalls
        PROVE  arg[p][c] = <<>> /\ res[p][c] = <<>> /\ ~(Rounds[c] < pc[p])
    BY <1>1, <1>2, RoundsFacts
  <2> QED
    BY <2>1 DEF CallsInv
<1>6. OutputsInv
  <2>1. \A p \in Party : Running(p) /\ outvals[p] = <<>>
    BY <1>1, <1>2 DEF Running
  <2> QED
    BY <2>1 DEF OutputsInv
<1> QED
  BY <1>3, <1>4, <1>5, <1>6 DEF EvalShares

\* The closed form depends on what is dealt and given only.
LEMMA SharesStay ==
  ASSUME given' = given, stream' = stream, preproc' = preproc
  PROVE  /\ WireShares' = WireShares
         /\ \A p, s : CallList(p, s)' = CallList(p, s)
         /\ \A s : CallSum(s)' = CallSum(s)
<1>1. WireShares' = WireShares
  BY DEF WireShares, ShareBy, InputsOf, Product, OpenedE, OpenedD, OpenedM1, OpenedM2, Hamming, Mine
<1>2. \A p, s : CallList(p, s)' = CallList(p, s)
  BY <1>1 DEF CallList, ListFor, Masked, Hamming, Mine, OpenedM1
<1>3. \A s : CallSum(s)' = CallSum(s)
  BY <1>1 DEF CallSum, CallList, ListFor, Masked, Hamming, Mine, OpenedM1
<1> QED
  BY <1>1, <1>2, <1>3

-----------------------------------------------------------------------------
(* The steps.                                                                *)

\* The outputs are the last stage.
LEMMA LastStage ==
  ASSUME NEW i \in 1 .. Len(Program)
  PROVE  /\ Program[i].kind = "outputs" => /\ i = Len(Program) /\ outputs # <<>>
                                           /\ Program[i] = Stage("outputs", 0)
         /\ outputs # <<>> /\ i = Len(Program) => Program[i].kind = "outputs"
<1>1. Len(Program) \in Nat /\ Len(Program) \in 1 .. Len(Program)
  BY StageFacts
<1>2. \A j \in 1 .. Len(Program) : Program[j] \in ValidStages /\ ValidStage(Program[j])
  BY StageFacts
<1>3. Len(Levels) \in Nat
  BY LevelFacts
<1> DEFINE o == Stage("outputs", 0)
           m == Len(Levels)
<1>4. \A s \in ValidStages : s.kind = "outputs" => s = o
  <2> TAKE s \in ValidStages
  <2>1. s.kind = "outputs" =>
          /\ s.level = 0
          /\ s \in [kind : {"inputs", "mult", "eqz1", "eqz2", "rec", "local", "outputs"},
                    level : Nat]
    BY DEF ValidStages, ValidStage
  <2> QED
    BY <2>1 DEF Stage
<1>5. \A s \in ValidStages : Rank(s) \in Nat /\ Rank(s) <= 6 * (m + 1)
  <2> TAKE s \in ValidStages
  <2>1. \/ s.kind = "outputs" /\ Rank(s) = 6 * (m + 1)
        \/ Rank(s) = 0
        \/ s.level \in 1 .. m /\ Rank(s) <= 6 * s.level + 4
    <3>1. s.kind \in {"inputs", "mult", "eqz1", "eqz2", "rec", "local", "outputs"}
          /\ (s.kind # "outputs" => s.level \in 1 .. m)
      BY DEF ValidStages, ValidStage
    <3> QED
      BY <1>3, <3>1, RankFacts
  <2>2. Rank(s) \in Nat
    BY RankFacts
  <2> DEFINE l == s.level
  <2> HIDE DEF m, l
  <2>3. Rank(s) <= 6 * (m + 1)
    BY <1>3, <2>1, <2>2 DEF m, l
  <2> QED
    BY <2>2, <2>3
<1>6. outputs # <<>> => o \in ValidStages /\ Rank(o) = 6 * (m + 1)
  BY RankFacts DEF ValidStages, ValidStage, Stage
<1>7. ASSUME NEW j \in 1 .. Len(Program), Program[j].kind = "outputs"
      PROVE  j = Len(Program) /\ outputs # <<>> /\ Program[j] = o
  <2>1. outputs # <<>> /\ Program[j] = o
    BY <1>2, <1>4, <1>7 DEF ValidStage
  <2>2. ~(Rank(Program[j]) < Rank(Program[Len(Program)]))
    <3> DEFINE x == Rank(Program[Len(Program)])
    <3>1. x \in Nat /\ x <= 6 * (m + 1)
      BY <1>1, <1>2, <1>5
    <3>2. Rank(Program[j]) = 6 * (m + 1)
      BY <1>6, <2>1
    <3> HIDE DEF x
    <3>3. ~(6 * (m + 1) < x)
      BY <1>3, <3>1
    <3> QED
      BY <3>2, <3>3 DEF x
  <2>3. ~(j < Len(Program))
    BY <1>1, <2>2, StageFacts
  <2> QED
    BY <1>1, <2>1, <2>3
<1>8. ASSUME outputs # <<>>, i = Len(Program)
      PROVE  Program[i].kind = "outputs"
  <2>1. PICK j \in 1 .. Len(Program) : Program[j] = o
    BY <1>6, <1>8, StageFacts
  <2>2. o.kind = "outputs"
    BY DEF Stage
  <2>3. j = Len(Program)
    BY <1>7, <2>1, <2>2
  <2> QED
    BY <1>8, <2>1, <2>2, <2>3
<1> QED
  BY <1>7, <1>8

\* The call of the stage that a party is in.
LEMMA RoundIs ==
  ASSUME NEW p, pc[p] \in 1 .. Len(Program), IsRound(Program[pc[p]])
  PROVE  Round(p) \in 1 .. numCalls /\ Rounds[Round(p)] = pc[p]
<1>1. \E c \in 1 .. numCalls : Rounds[c] = pc[p]
  BY RoundsFacts
<1> QED
  BY <1>1 DEF Round

\* The calls are in the order of the stages.
LEMMA RoundsOrder ==
  ASSUME NEW c \in 1 .. numCalls, NEW d \in 1 .. numCalls
  PROVE  /\ Rounds[c] = Rounds[d] => c = d
         /\ Rounds[c] < Rounds[d] <=> c < d
         /\ Rounds[c] \in Nat
<1>1. numCalls \in Nat /\ Rounds[c] \in Nat /\ Rounds[d] \in Nat
  BY RoundsFacts
<1>2. (c < d => Rounds[c] < Rounds[d]) /\ (d < c => Rounds[d] < Rounds[c])
  BY RoundsFacts
<1> QED
  BY <1>1, <1>2

\* The second round of an equality test follows on the first.
LEMMA RoundBefore ==
  ASSUME NEW c \in 1 .. numCalls, Program[Rounds[c]].kind = "eqz2"
  PROVE  /\ c - 1 \in 1 .. numCalls
         /\ Program[Rounds[c - 1]] = Stage("eqz1", Program[Rounds[c]].level)
         /\ Rounds[c - 1] < Rounds[c]
<1>1. Rounds[c] \in 1 .. Len(Program)
  BY RoundsFacts
<1> DEFINE i == Rounds[c]
<1>2. i - 1 \in 1 .. Len(Program) /\ Program[i - 1] = Stage("eqz1", Program[i].level)
  BY <1>1, FirstRound
<1>3. IsRound(Program[i - 1])
  BY <1>2 DEF IsRound, Stage
<1>4. PICK d \in 1 .. numCalls : Rounds[d] = i - 1
  BY <1>2, <1>3, RoundsFacts
<1>5. numCalls \in Nat /\ i \in Nat
  BY <1>1, RoundsFacts
<1>6. d < c
  BY <1>4, <1>5, RoundsOrder
<1>7. c - 1 \in 1 .. numCalls
  BY <1>5, <1>6
<1>8. d = c - 1
  <2> DEFINE b == c - 1
  <2>1. b \in 1 .. numCalls /\ b < c /\ d <= b
    BY <1>5, <1>6, <1>7
  <2> HIDE DEF b
  <2>2. Rounds[b] < Rounds[c] /\ Rounds[b] \in Nat /\ (d < b => Rounds[d] < Rounds[b])
    BY <2>1, RoundsOrder
  <2>3. ~(d < b)
    BY <1>4, <1>5, <2>2
  <2> QED
    BY <1>5, <2>1, <2>3 DEF b
<1> QED
  BY <1>2, <1>4, <1>5, <1>7, <1>8

\* A stage that reconstructs sets the wires of its gates.
LEMMA SetByFacts ==
  ASSUME NEW i \in 1 .. Len(Program), IsRound(Program[i])
  PROVE  LET gs == SetBy(Program[i])
         IN  /\ DOMAIN gs = 1 .. Len(gs)
             /\ \A j \in 1 .. Len(gs) : \E k \in 1 .. Len(gates) : gs[j] = gates[k]
             /\ \A k \in 1 .. Len(gates) :
                  SetIn(gates[k]) = i => \E j \in 1 .. Len(gs) : gs[j] = gates[k]
<1> DEFINE s == Program[i]
           gs == SetBy(s)
<1>1. ValidStage(s) /\ IsRound(s)
  BY StageFacts
<1>2. /\ s.kind \in {"mult", "eqz1", "eqz2", "rec", "outputs"}
      /\ s.kind # "outputs" => s.level \in 1 .. Len(Levels)
  BY <1>1 DEF ValidStage, IsRound
<1>3. \A k \in 1 .. Len(gates) :
        SetIn(gates[k]) = i =>
          /\ s.level = LevelOf[k - 1] + 1 /\ LevelOf[k - 1] \in Nat
          /\ gates[k].type \in Types
          /\ s.kind = CASE gates[k].type = "kInp" -> "inputs" [] gates[k].type = "kMul" -> "mult"
                        [] gates[k].type = "kEqz" -> "eqz2"   [] gates[k].type = "kRec" -> "rec"
                        [] OTHER -> "local"
  <2> TAKE k \in 1 .. Len(gates)
  <2> HAVE SetIn(gates[k]) = i
  <2>1. s = SetStage(gates[k]) /\ gates[k].out = k - 1 /\ LevelOf[k - 1] \in Nat /\ gates[k].type \in Types
    BY SetStageFacts, GateLevelFacts
  <2> HIDE DEF s
  <2> QED
    BY <2>1 DEF SetStage, Stage
<1> HIDE DEF s
<1>4. ASSUME NEW type, gs = OfType(s.level, type), s.level \in 1 .. Len(Levels)
      PROVE  /\ DOMAIN gs = 1 .. Len(gs)
             /\ \A j \in 1 .. Len(gs) : \E k \in 1 .. Len(gates) : gs[j] = gates[k]
             /\ \A k \in 1 .. Len(gates) :
                  SetIn(gates[k]) = i /\ gates[k].type = type => \E j \in 1 .. Len(gs) : gs[j] = gates[k]
  <2>1. IsGroup(gs, s.level, {type})
    BY <1>4, GroupFacts DEF OfType
  <2> HIDE DEF gs
  <2>2. \A k \in 1 .. Len(gates) : SetIn(gates[k]) = i => LevelOf[k - 1] = s.level - 1
    <3> TAKE k \in 1 .. Len(gates)
    <3> HAVE SetIn(gates[k]) = i
    <3>1. s.level = LevelOf[k - 1] + 1 /\ LevelOf[k - 1] \in Nat
      BY <1>3
    <3> QED
      BY <3>1
  <2> QED
    BY <2>1, <2>2 DEF IsGroup
<1>5. CASE s.kind = "mult"
  <2>1. gs = OfType(s.level, "kMul")
    BY <1>5 DEF SetBy
  <2>2. \A k \in 1 .. Len(gates) : SetIn(gates[k]) = i => gates[k].type = "kMul"
    BY <1>3, <1>5
  <2> QED
    BY <1>2, <1>4, <1>5, <2>1, <2>2 DEF s
<1>6. CASE s.kind = "eqz2"
  <2>1. gs = OfType(s.level, "kEqz")
    BY <1>6 DEF SetBy
  <2>2. \A k \in 1 .. Len(gates) : SetIn(gates[k]) = i => gates[k].type = "kEqz"
    BY <1>3, <1>6
  <2> QED
    BY <1>2, <1>4, <1>6, <2>1, <2>2 DEF s
<1>7. CASE s.kind = "rec"
  <2>1. gs = OfType(s.level, "kRec")
    BY <1>7 DEF SetBy
  <2>2. \A k \in 1 .. Len(gates) : SetIn(gates[k]) = i => gates[k].type = "kRec"
    BY <1>3, <1>7
  <2> QED
    BY <1>2, <1>4, <1>7, <2>1, <2>2 DEF s
<1>8. CASE s.kind \in {"eqz1", "outputs"}
  <2>1. gs = <<>>
    BY <1>8 DEF SetBy
  <2>2. DOMAIN <<>> = 1 .. Len(<<>>) /\ Len(<<>>) = 0 /\ 1 .. 0 = {}
    OBVIOUS
  <2>3. \A k \in 1 .. Len(gates) : SetIn(gates[k]) # i
    BY <1>3, <1>8
  <2> HIDE DEF gs
  <2>4. DOMAIN gs = 1 .. Len(gs) /\ 1 .. Len(gs) = {}
    BY <2>1, <2>2
  <2> QED
    BY <2>3, <2>4 DEF gs, s
<1> QED
  BY <1>2, <1>5, <1>6, <1>7, <1>8

\* A party comes past a stage: its wires.
LEMMA WiresAdvance ==
  ASSUME TypeInv, WiresInv, given' = given, stream' = stream, preproc' = preproc,
         NEW p \in Party, Running(p), NEW new \in [Wires(gates) -> Ring],
         wires' = [wires EXCEPT ![p] = new], pc' = [pc EXCEPT ![p] = pc[p] + 1],
         \A k \in 1 .. Len(gates) :
           SetIn(gates[k]) <= pc[p] => new[gates[k].out] = WireShares[gates[k].out][p]
  PROVE  /\ WiresInv'
         /\ wires' \in [Party -> [Wires(gates) -> Ring]]
         /\ pc' \in [Party -> 1 .. Len(Program) + 1]
         /\ pc[p] \in 1 .. Len(Program) /\ pc'[p] = pc[p] + 1
         /\ \A q \in Party \ {p} : pc'[q] = pc[q]
<1>1. /\ pc \in [Party -> 1 .. Len(Program) + 1] /\ wires \in [Party -> [Wires(gates) -> Ring]]
      /\ Len(Program) \in Nat
  BY StageFacts DEF TypeInv
<1> DEFINE L == Len(Program)
<1>2. pc[p] \in 1 .. L /\ pc[p] + 1 \in 1 .. L + 1
  BY <1>1 DEF Running
<1>3. /\ wires'[p] = new /\ pc'[p] = pc[p] + 1
      /\ \A q \in Party \ {p} : wires'[q] = wires[q] /\ pc'[q] = pc[q]
  BY <1>1
<1>4. /\ wires' \in [Party -> [Wires(gates) -> Ring]]
      /\ pc' \in [Party -> 1 .. L + 1]
  BY <1>1, <1>2
<1>5. DOMAIN gates = 1 .. Len(gates)
  BY SecureEvalAssumption, GateFacts
<1>6. WireShares' = WireShares
  BY SharesStay
<1>7. ASSUME NEW q \in Party, NEW k \in 1 .. Len(gates), pc'[q] > SetIn(gates[k])
      PROVE  wires'[q][gates[k].out] = WireShares[gates[k].out][q]
  <2>1. SetIn(gates[k]) \in Nat
    BY SetStageFacts
  <2>2. CASE q = p
    <3>1. SetIn(gates[k]) <= pc[p]
      BY <1>2, <1>3, <1>7, <2>1, <2>2
    <3> QED
      BY <1>3, <2>2, <3>1
  <2>3. CASE q # p
    BY <1>3, <1>5, <1>7, <2>3 DEF WiresInv
  <2> QED
    BY <2>2, <2>3
<1>8. WiresInv'
  BY <1>5, <1>6, <1>7 DEF WiresInv
<1> QED
  BY <1>2, <1>3, <1>4, <1>8

\* A party comes past a stage that takes no message.
LEMMA PassesBy ==
  ASSUME EvalShares, given' = given, stream' = stream, preproc' = preproc,
         UNCHANGED <<outvals, arg, res>>,
         NEW p \in Party, Running(p), ~IsRound(Here(p)), NEW new \in [Wires(gates) -> Ring],
         wires' = [wires EXCEPT ![p] = new], pc' = [pc EXCEPT ![p] = pc[p] + 1],
         \A k \in 1 .. Len(gates) :
           SetIn(gates[k]) <= pc[p] => new[gates[k].out] = WireShares[gates[k].out][p]
  PROVE  EvalShares'
<1>1. TypeInv /\ WiresInv /\ CallsInv /\ OutputsInv
  BY DEF EvalShares
<1>2. /\ WiresInv'
      /\ wires' \in [Party -> [Wires(gates) -> Ring]]
      /\ pc' \in [Party -> 1 .. Len(Program) + 1]
      /\ pc[p] \in 1 .. Len(Program) /\ pc'[p] = pc[p] + 1
      /\ \A q \in Party \ {p} : pc'[q] = pc[q]
  BY <1>1, WiresAdvance
<1>3. TypeInv'
  BY <1>1, <1>2 DEF TypeInv
<1>4. CallsInv'
  <2>1. ASSUME NEW q \in Party, NEW c \in 1 .. numCalls
        PROVE  Rounds[c] < pc'[q] <=> Rounds[c] < pc[q]
    <3>1. Rounds[c] \in Nat /\ IsRound(Program[Rounds[c]])
      BY RoundsFacts
    <3>2. CASE q = p
      <4>1. Rounds[c] # pc[p]
        BY <3>1 DEF Here
      <4> QED
        BY <1>2, <3>1, <3>2, <4>1
    <3>3. CASE q # p
      BY <1>2, <3>3
    <3> QED
      BY <3>2, <3>3
  <2>2. /\ \A q, s : CallList(q, s)' = CallList(q, s)
        /\ \A s : CallSum(s)' = CallSum(s)
    BY SharesStay
  <2>3. ASSUME NEW q \in Party, NEW c \in 1 .. numCalls
        PROVE  /\ arg'[q][c] # <<>> => arg'[q][c] = CallList(q, Program[Rounds[c]])'
               /\ res'[q][c] = IF Rounds[c] < pc'[q] THEN CallSum(Program[Rounds[c]])' ELSE <<>>
    <3>1. /\ arg[q][c] # <<>> => arg[q][c] = CallList(q, Program[Rounds[c]])
          /\ res[q][c] = IF Rounds[c] < pc[q] THEN CallSum(Program[Rounds[c]]) ELSE <<>>
      BY <1>1 DEF CallsInv
    <3> PICK s : s = Program[Rounds[c]]
      OBVIOUS
    <3> QED
      BY <2>1, <2>2, <3>1
  <2> QED
    BY <2>3 DEF CallsInv
<1>5. OutputsInv'
  <2>1. ASSUME NEW q \in Party, outputs # <<>>
        PROVE  Running(q)' <=> Running(q)
    <3>1. CASE q = p
      <4>1. Program[pc[p]].kind # "outputs"
        BY DEF IsRound, Here
      <4>2. pc[p] # Len(Program)
        BY <1>2, <2>1, <4>1, LastStage
      <4>3. Len(Program) \in Nat
        BY StageFacts
      <4> QED
        BY <1>2, <3>1, <4>2, <4>3 DEF Running
    <3>2. CASE q # p
      BY <1>2, <3>2 DEF Running
    <3> QED
      BY <3>1, <3>2
  <2>2. \A s : CallSum(s)' = CallSum(s)
    BY SharesStay
  <2>3. \A q \in Party : outvals'[q] = outvals[q]
    OBVIOUS
  <2> QED
    BY <1>1, <2>1, <2>2, <2>3 DEF OutputsInv
<1> QED
  BY <1>2, <1>3, <1>4, <1>5 DEF EvalShares

LEMMA SetInputsShares ==
  ASSUME EvalShares, NEW p \in Party, SetInputs(p)
  PROVE  EvalShares'
<1> DEFINE new == [w \in Wires(gates) |->
                     IF w \in InputWires(gates) THEN InputsOf(p).share[InputNo(w)] ELSE wires[p][w]]
<1>1. TypeInv /\ WiresInv /\ GivenTyped /\ SharesTyped
  BY TypeInvFacts DEF EvalShares
<1>2. new \in [Wires(gates) -> Ring]
  BY <1>1, InputsTyped
<1>3. Running(p) /\ Here(p).kind = "inputs" /\ ~IsRound(Here(p))
  BY DEF SetInputs, IsRound
<1>4. /\ wires' = [wires EXCEPT ![p] = new] /\ pc' = [pc EXCEPT ![p] = pc[p] + 1]
      /\ given' = given /\ stream' = stream /\ preproc' = preproc
      /\ UNCHANGED <<outvals, arg, res>>
  <2>1. wires \in [Party -> [Wires(gates) -> Ring]]
    BY <1>1 DEF TypeInv
  <2> QED
    BY <2>1 DEF SetInputs
<1>5. pc[p] \in 1 .. Len(Program)
  BY <1>1, <1>3, StageFacts DEF TypeInv, Running
<1>6. ASSUME NEW k \in 1 .. Len(gates), SetIn(gates[k]) <= pc[p]
      PROVE  new[gates[k].out] = WireShares[gates[k].out][p]
  <2>1. SetIn(gates[k]) \in 1 .. Len(Program) /\ Program[SetIn(gates[k])] = SetStage(gates[k])
        /\ SetStage(gates[k]) \in ValidStages
    BY SetStageFacts
  <2>2. Rank(SetStage(gates[k])) = 0
    <3>1. Rank(Program[pc[p]]) = 0
      <4>1. Program[pc[p]] \in ValidStages /\ Program[pc[p]].kind = "inputs"
        BY <1>3, <1>5, StageFacts DEF Here
      <4> QED
        BY <4>1, RankFacts
    <3>2. Rank(SetStage(gates[k])) <= Rank(Program[pc[p]])
      BY <1>5, <1>6, <2>1, StageOrder
    <3>3. Rank(SetStage(gates[k])) \in Nat
      BY <2>1, RankFacts
    <3> QED
      BY <3>1, <3>2, <3>3
  <2>3. SetStage(gates[k]).kind = "inputs"
    <3> DEFINE s == SetStage(gates[k])
    <3>1. s \in ValidStages /\ Rank(s) = 0
      BY <2>1, <2>2
    <3> HIDE DEF s
    <3>2. s.kind \in {"inputs", "mult", "eqz1", "eqz2", "rec", "local", "outputs"}
          /\ (s.kind # "outputs" => s.level \in 1 .. Len(Levels)) /\ Len(Levels) \in Nat
      BY <3>1, LevelFacts DEF ValidStages, ValidStage
    <3> QED
      BY <3>1, <3>2, RankFacts DEF s
  <2>4. gates[k].type = "kInp"
    BY <2>3 DEF SetStage, Stage
  <2>5. gates[k].out \in Wires(gates) /\ gates[k].out \in InputWires(gates)
    <3>1. gates[k].out \in Wires(gates) /\ DOMAIN gates = 1 .. Len(gates)
      BY SecureEvalAssumption, GateFacts
    <3> QED
      BY <2>4, <3>1 DEF InputWires
  <2>6. new[gates[k].out] = InputsOf(p).share[InputNo(gates[k].out)]
    BY <2>5
  <2>7. WireShares[gates[k].out][p] = ShareBy(gates[k], WireShares, p)
    BY <1>1, WireSharesRule
  <2>8. ShareBy(gates[k], WireShares, p) = InputsOf(p).share[InputNo(gates[k].out)]
    BY <2>4 DEF ShareBy
  <2> QED
    BY <2>6, <2>7, <2>8
<1> HIDE DEF new
<1> QED
  BY <1>2, <1>3, <1>4, <1>6, PassesBy

LEMMA LocalShares ==
  ASSUME EvalShares, NEW p \in Party, Local(p)
  PROVE  EvalShares'
<1> DEFINE new == LocalWires(p, Here(p).level)
           l == Here(p).level
<1>1. TypeInv /\ WiresInv /\ GivenTyped /\ SharesTyped
  BY TypeInvFacts DEF EvalShares
<1>2. Running(p) /\ Here(p).kind = "local" /\ ~IsRound(Here(p))
  BY DEF Local, IsRound
<1>3. pc[p] \in 1 .. Len(Program)
  BY <1>1, <1>2, StageFacts DEF TypeInv, Running
<1>4. l \in 1 .. Len(Levels) /\ Program[pc[p]] = Stage("local", l)
  <2>1. /\ ValidStage(Here(p))
        /\ Here(p) \in [kind : {"inputs", "mult", "eqz1", "eqz2", "rec", "local", "outputs"},
                        level : Nat]
    BY <1>3, StageFacts DEF Here, ValidStage
  <2>2. Here(p) = Program[pc[p]]
    BY DEF Here
  <2> QED
    BY <1>2, <2>1, <2>2 DEF ValidStage, Stage
<1>5. new \in [Wires(gates) -> Ring]
  BY <1>1, <1>4, LocalTyped
<1>6. /\ wires' = [wires EXCEPT ![p] = new] /\ pc' = [pc EXCEPT ![p] = pc[p] + 1]
      /\ given' = given /\ stream' = stream /\ preproc' = preproc
      /\ UNCHANGED <<outvals, arg, res>>
  BY DEF Local, LocalWires
<1>7. \A k \in 1 .. Len(gates) :
        SetIn(gates[k]) <= pc[p] => new[gates[k].out] = WireShares[gates[k].out][p]
  <2>1. DOMAIN gates = 1 .. Len(gates)
    BY SecureEvalAssumption, GateFacts
  <2>2. \A k \in 1 .. Len(gates) :
          SetIn(gates[k]) < pc[p] => wires[p][gates[k].out] = WireShares[gates[k].out][p]
    <3> TAKE k \in 1 .. Len(gates)
    <3> HAVE SetIn(gates[k]) < pc[p]
    <3>1. pc[p] > SetIn(gates[k])
      BY <1>3, SetStageFacts
    <3> QED
      BY <1>1, <2>1, <3>1 DEF WiresInv
  <2> HIDE DEF l
  <2> QED
    BY <1>1, <1>3, <1>4, <2>2, LocalIsShare DEF l
<1> HIDE DEF new
<1> QED
  BY <1>2, <1>5, <1>6, <1>7, PassesBy

\* The list that a party passes on is the one the closed form tells.
LEMMA PassesCallList ==
  ASSUME EvalShares, NEW p \in Party, Running(p), IsRound(Here(p))
  PROVE  /\ Round(p) \in 1 .. numCalls /\ Rounds[Round(p)] = pc[p] /\ pc[p] \in 1 .. Len(Program)
         /\ ValidStage(Here(p)) /\ Here(p) = Program[pc[p]]
         /\ ToReconstruct(p) = CallList(p, Here(p))
<1> DEFINE s == Here(p)
           c == Round(p)
           v == wires[p]
           w == [x \in Wires(gates) |-> WireShares[x][p]]
           o == res[p][c - 1]
           gs == OfType(s.level, "kEqz")
           q == [i \in DOMAIN gs |-> OpenedM1(gs[i], WireShares)]
<1>1. TypeInv /\ WiresInv /\ CallsInv /\ GivenTyped /\ SharesTyped
  BY TypeInvFacts DEF EvalShares
<1>2. pc[p] \in 1 .. Len(Program) /\ s = Program[pc[p]]
  BY <1>1, StageFacts DEF TypeInv, Running, Here
<1>3. c \in 1 .. numCalls /\ Rounds[c] = pc[p] /\ ValidStage(s)
  BY <1>2, RoundIs, StageFacts
<1>4. ToReconstruct(p) = ListFor(p, s, v, o) /\ CallList(p, s) = ListFor(p, s, w, q)
  BY DEF ToReconstruct, CallList
<1>5. ASSUME NEW x \in StageReads(s)
      PROVE  v[x] = w[x]
  <2>1. x \in Wires(gates) /\ x + 1 \in 1 .. Len(gates) /\ SetIn(gates[x + 1]) < pc[p]
    BY <1>2, ReadsAreSet
  <2>2. gates[x + 1].out = x
    <3>1. gates[x + 1].out = (x + 1) - 1 /\ x \in Nat
      BY <2>1, SecureEvalAssumption, GateFacts
    <3> QED
      BY <3>1
  <2>3. DOMAIN gates = 1 .. Len(gates)
    BY SecureEvalAssumption, GateFacts
  <2>4. pc[p] > SetIn(gates[x + 1])
    BY <1>2, <2>1, SetStageFacts
  <2> QED
    BY <1>1, <2>1, <2>2, <2>3, <2>4 DEF WiresInv
<1>6. ASSUME s.kind = "eqz2", NEW i \in 1 .. Len(gs)
      PROVE  o[i] = q[i]
  <2> DEFINE t == Stage("eqz1", s.level)
             b == c - 1
  <2>1. b \in 1 .. numCalls /\ Program[Rounds[b]] = t /\ Rounds[b] < pc[p]
    BY <1>2, <1>3, <1>6, RoundBefore
  <2>2. o = CallSum(t)
    BY <1>1, <2>1 DEF CallsInv
  <2>3. ValidStage(t) /\ IsRound(t) /\ t.kind = "eqz1" /\ t.level = s.level
    <3>1. s.level \in 1 .. Len(Levels) /\ s.level \in Nat /\ OfType(s.level, "kEqz") # <<>>
      BY <1>3, <1>6, LevelFacts DEF ValidStage
    <3> QED
      BY <3>1 DEF ValidStage, IsRound, Stage
  <2> HIDE DEF t
  <2>4. OpenedBy(t, WireShares, CallSum(t))
    BY <1>1, <2>3, CallSumIs
  <2>5. CallSum(t)[i] = OpenedM1(gs[i], WireShares)
    BY <2>3, <2>4 DEF OpenedBy
  <2>6. DOMAIN gs = 1 .. Len(gs)
    BY <1>3, <1>6, TypeGates DEF ValidStage
  <2> QED
    BY <2>2, <2>5, <2>6
<1> HIDE DEF s, c, v, w, o, q
<1>7. IsRound(s)
  BY DEF s
<1>8. ListFor(p, s, v, o) = ListFor(p, s, w, q)
  BY <1>3, <1>5, <1>6, <1>7, ListForReads
<1> QED
  BY <1>2, <1>3, <1>4, <1>8 DEF s, c

LEMMA EnterShares ==
  ASSUME EvalShares, NEW p \in Party, Enter(p)
  PROVE  EvalShares'
<1> DEFINE c == Round(p)
           s == Here(p)
           list == ToReconstruct(p)
<1>1. TypeInv /\ WiresInv /\ CallsInv /\ OutputsInv /\ GivenTyped /\ SharesTyped
  BY TypeInvFacts DEF EvalShares
<1>2. Running(p) /\ IsRound(Here(p))
  BY DEF Enter
<1>3. /\ c \in 1 .. numCalls /\ Rounds[c] = pc[p] /\ ValidStage(s) /\ IsRound(s)
      /\ list = CallList(p, s) /\ s = Program[Rounds[c]]
  BY <1>2, PassesCallList
<1>4. list \in Seq(Ring)
  <2>1. list \in Vec(ListLength(s)) /\ ListLength(s) \in Nat
    BY <1>1, <1>3, CallListTyped, ListLengthFacts
  <2> HIDE DEF list, s
  <2> QED
    BY <2>1 DEF Vec
<1>5. /\ given' = given /\ stream' = stream /\ preproc' = preproc /\ wires' = wires /\ pc' = pc
      /\ outvals' = outvals /\ res' = res
      /\ arg' = [arg EXCEPT ![p][c] = list]
  BY DEF Enter, Exchange!Enter
<1> HIDE DEF c, s, list
<1>6. arg \in [Party -> [1 .. numCalls -> Seq(Ring)]]
  BY <1>1 DEF TypeInv
<1>7. TypeInv'
  <2>1. arg' \in [Party -> [1 .. numCalls -> Seq(Ring)]]
    BY <1>3, <1>4, <1>5, <1>6
  <2> QED
    BY <1>1, <1>5, <2>1 DEF TypeInv
<1>8. /\ WireShares' = WireShares
      /\ \A q, t : CallList(q, t)' = CallList(q, t)
      /\ \A t : CallSum(t)' = CallSum(t)
  BY <1>5, SharesStay
<1>9. WiresInv'
  BY <1>1, <1>5, <1>8 DEF WiresInv
<1>10. CallsInv'
  <2>1. ASSUME NEW q \in Party, NEW d \in 1 .. numCalls
        PROVE  /\ arg'[q][d] # <<>> => arg'[q][d] = CallList(q, Program[Rounds[d]])'
               /\ res'[q][d] = IF Rounds[d] < pc'[q] THEN CallSum(Program[Rounds[d]])' ELSE <<>>
    <3>1. /\ arg[q][d] # <<>> => arg[q][d] = CallList(q, Program[Rounds[d]])
          /\ res[q][d] = IF Rounds[d] < pc[q] THEN CallSum(Program[Rounds[d]]) ELSE <<>>
      BY <1>1 DEF CallsInv
    <3> PICK t : t = Program[Rounds[d]]
      OBVIOUS
    <3>2. arg'[q][d] = IF q = p /\ d = c THEN list ELSE arg[q][d]
      BY <1>3, <1>5, <1>6
    <3>3. q = p /\ d = c => list = CallList(q, t)
      BY <1>3
    <3> QED
      BY <1>5, <1>8, <3>1, <3>2, <3>3
  <2> QED
    BY <2>1 DEF CallsInv
<1>11. OutputsInv'
  BY <1>1, <1>5, <1>8 DEF OutputsInv, Running
<1> QED
  BY <1>7, <1>9, <1>10, <1>11 DEF EvalShares

LEMMA LeaveShares ==
  ASSUME EvalShares, NEW p \in Party, Leave(p)
  PROVE  EvalShares'
<1> DEFINE c == Round(p)
           i == pc[p]
           s == Program[i]
           gs == SetBy(s)
           list == CallSum(s)
           new == [w \in Wires(gates) |->
                     IF \E j \in DOMAIN gs : gs[j].out = w
                     THEN LET j == CHOOSE j \in DOMAIN gs : gs[j].out = w
                          IN  Opened(p, gs[j], j, list)
                     ELSE wires[p][w]]
<1>1. TypeInv /\ WiresInv /\ CallsInv /\ OutputsInv /\ GivenTyped /\ SharesTyped
  BY TypeInvFacts DEF EvalShares
<1>2. Running(p) /\ IsRound(Here(p)) /\ Exchange!Leave(p, c) /\ Resume(p)
  BY DEF Leave
<1>3. /\ c \in 1 .. numCalls /\ Rounds[c] = i /\ i \in 1 .. Len(Program)
      /\ ValidStage(s) /\ IsRound(s) /\ Here(p) = s
  BY <1>2, PassesCallList
<1>4. numShares[c] = ListLength(s)
  BY <1>3, NumSharesFacts
<1>5. /\ \A q \in Party : arg[q][c] = CallList(q, s)
      /\ res' = [res EXCEPT ![p][c] = list] /\ arg' = arg
  <2>1. /\ \A q \in Party : arg[q][c] # <<>>
        /\ res' = [res EXCEPT ![p][c] = VecTotal([q \in Party |-> arg[q][c]], numShares[c])]
        /\ arg' = arg
    BY <1>2 DEF Exchange!Leave, Exchange!None, Exchange!Party, Party,
                Exchange!VecTotal, VecTotal, Exchange!Total, Total, Exchange!Partial, Partial
  <2>2. \A q \in Party : arg[q][c] = CallList(q, s)
    <3> TAKE q \in Party
    <3>1. arg[q][c] # <<>> => arg[q][c] = CallList(q, Program[Rounds[c]])
      BY <1>1, <1>3 DEF CallsInv
    <3> QED
      BY <1>3, <2>1, <3>1
  <2>3. [q \in Party |-> arg[q][c]] = [q \in Party |-> CallList(q, s)]
    BY <2>2
  <2>4. VecTotal([q \in Party |-> arg[q][c]], numShares[c]) = list
    BY <1>4, <2>3 DEF CallSum
  <2> HIDE DEF c, list, s
  <2> QED
    BY <2>1, <2>2, <2>4
<1>6. res \in [Party -> [1 .. numCalls -> Seq(Ring)]]
  BY <1>1 DEF TypeInv
<1>7. res'[p][c] = list
  BY <1>3, <1>5, <1>6
<1>8. list \in Vec(ListLength(s)) /\ list \in Seq(Ring)
  <2>1. list \in Vec(ListLength(s)) /\ ListLength(s) \in Nat
    BY <1>1, <1>3, CallSumTyped, ListLengthFacts
  <2> HIDE DEF list, s
  <2> QED
    BY <2>1 DEF Vec
<1>9. /\ given' = given /\ stream' = stream /\ preproc' = preproc
      /\ pc' = [pc EXCEPT ![p] = pc[p] + 1]
      /\ wires' = [wires EXCEPT ![p] = new]
      /\ outvals' = IF s.kind = "outputs" THEN [outvals EXCEPT ![p] = list] ELSE outvals
  <2>1. wires \in [Party -> [Wires(gates) -> Ring]]
    BY <1>1 DEF TypeInv
  <2> HIDE DEF list
  <2> QED
    BY <1>2, <1>3, <1>7, <2>1 DEF Resume
<1>10. new \in [Wires(gates) -> Ring]
  <2>1. list \in Vec(numShares[c])
    BY <1>4, <1>8
  <2>2. Program[Rounds[c]] = s /\ c \in 1 .. numCalls
    BY <1>3
  <2> HIDE DEF list, c
  <2> DEFINE h == SetBy(Program[Rounds[c]])
             x == [w \in Wires(gates) |->
                     IF \E j \in DOMAIN h : h[j].out = w
                     THEN LET j == CHOOSE j \in DOMAIN h : h[j].out = w
                          IN  Opened(p, h[j], j, list)
                     ELSE wires[p][w]]
  <2>3. x \in [Wires(gates) -> Ring]
    BY ONLY <1>1, <2>1, <2>2, OpenedWires, p \in Party
  <2>4. h = gs
    BY <2>2
  <2> HIDE DEF h, gs
  <2>5. x = new
    BY <2>4
  <2> QED
    BY <2>3, <2>5
<1>11. ASSUME NEW k \in 1 .. Len(gates), SetIn(gates[k]) <= i
       PROVE  new[gates[k].out] = WireShares[gates[k].out][p]
  <2>1. /\ DOMAIN gs = 1 .. Len(gs)
        /\ \A j \in 1 .. Len(gs) : \E m \in 1 .. Len(gates) : gs[j] = gates[m]
        /\ SetIn(gates[k]) = i => \E j \in 1 .. Len(gs) : gs[j] = gates[k]
    BY <1>3, SetByFacts
  <2>2. \A j \in 1 .. Len(gs) : Opened(p, gs[j], j, list) = ShareBy(gs[j], WireShares, p)
    BY <1>1, <1>3, OpenedIsShare
  <2>3. /\ DOMAIN gates = 1 .. Len(gates) /\ gates[k].out \in Wires(gates)
        /\ \A m \in 1 .. Len(gates) : gates[m].out = gates[k].out => m = k
    <3>1. /\ DOMAIN gates = 1 .. Len(gates) /\ gates[k].out \in Wires(gates)
          /\ \A m \in 1 .. Len(gates) : gates[m].out = m - 1
      BY SecureEvalAssumption, GateFacts
    <3>2. \A m \in 1 .. Len(gates) : m - 1 = k - 1 => m = k
      OBVIOUS
    <3> QED
      BY <3>1, <3>2
  <2>4. WireShares[gates[k].out][p] = ShareBy(gates[k], WireShares, p)
    BY <1>1, WireSharesRule
  <2> HIDE DEF gs, list
  <2>5. CASE \E j \in DOMAIN gs : gs[j].out = gates[k].out
    <3> DEFINE j == CHOOSE j \in DOMAIN gs : gs[j].out = gates[k].out
    <3>1. j \in 1 .. Len(gs) /\ gs[j].out = gates[k].out
      BY <2>1, <2>5
    <3>2. new[gates[k].out] = Opened(p, gs[j], j, list)
      BY <2>3, <2>5
    <3> HIDE DEF j, new
    <3>3. gs[j] = gates[k]
      BY <2>1, <2>3, <3>1
    <3> QED
      BY <2>2, <2>4, <3>1, <3>2, <3>3
  <2>6. CASE ~(\E j \in DOMAIN gs : gs[j].out = gates[k].out)
    <3>1. new[gates[k].out] = wires[p][gates[k].out]
      BY <2>3, <2>6
    <3>2. SetIn(gates[k]) # i
      BY <2>1, <2>6
    <3>3. pc[p] > SetIn(gates[k])
      <4>1. SetIn(gates[k]) \in 1 .. Len(Program)
        BY SetStageFacts
      <4> QED
        BY <1>3, <1>11, <3>2, <4>1
    <3> QED
      BY <1>1, <2>3, <3>1, <3>3 DEF WiresInv
  <2> QED
    BY <2>5, <2>6
<1> HIDE DEF new, gs
<1>12. /\ WiresInv'
       /\ wires' \in [Party -> [Wires(gates) -> Ring]]
       /\ pc' \in [Party -> 1 .. Len(Program) + 1]
       /\ pc'[p] = pc[p] + 1
       /\ \A q \in Party \ {p} : pc'[q] = pc[q]
  BY <1>1, <1>2, <1>9, <1>10, <1>11, WiresAdvance
<1>13. /\ \A q, t : CallList(q, t)' = CallList(q, t)
       /\ \A t : CallSum(t)' = CallSum(t)
  BY <1>9, SharesStay
<1> HIDE DEF list, s, c
<1>14. TypeInv'
  <2>1. res' \in [Party -> [1 .. numCalls -> Seq(Ring)]]
    BY <1>3, <1>5, <1>6, <1>8
  <2>2. outvals' \in [Party -> Seq(Ring)]
    BY <1>1, <1>8, <1>9 DEF TypeInv
  <2> QED
    BY <1>1, <1>5, <1>9, <1>12, <2>1, <2>2 DEF TypeInv
<1>15. CallsInv'
  <2>1. ASSUME NEW q \in Party, NEW d \in 1 .. numCalls
        PROVE  /\ arg'[q][d] # <<>> => arg'[q][d] = CallList(q, Program[Rounds[d]])'
               /\ res'[q][d] = IF Rounds[d] < pc'[q] THEN CallSum(Program[Rounds[d]])' ELSE <<>>
    <3>1. /\ arg[q][d] # <<>> => arg[q][d] = CallList(q, Program[Rounds[d]])
          /\ res[q][d] = IF Rounds[d] < pc[q] THEN CallSum(Program[Rounds[d]]) ELSE <<>>
      BY <1>1 DEF CallsInv
    <3> PICK t : t = Program[Rounds[d]]
      OBVIOUS
    <3>2. res'[q][d] = IF q = p /\ d = c THEN list ELSE res[q][d]
      BY <1>3, <1>5, <1>6
    <3>3. Rounds[d] < pc'[q] <=> Rounds[d] < pc[q] \/ (q = p /\ d = c)
      <4>1. Rounds[d] \in Nat /\ (Rounds[c] = Rounds[d] => c = d) /\ Rounds[c] = i
        BY <1>3, RoundsOrder
      <4>2. CASE q = p
        BY <1>3, <1>12, <4>1, <4>2
      <4>3. CASE q # p
        BY <1>12, <4>3
      <4> QED
        BY <4>2, <4>3
    <3>4. q = p /\ d = c => list = CallSum(t)
      BY <1>3 DEF list, s
    <3> QED
      BY <1>5, <1>13, <3>1, <3>2, <3>3, <3>4
  <2> QED
    BY <2>1 DEF CallsInv
<1>16. OutputsInv'
  <2>1. outvals \in [Party -> Seq(Ring)] /\ Len(Program) \in Nat
    BY <1>1, StageFacts DEF TypeInv
  <2>2. ASSUME NEW q \in Party
        PROVE  outvals'[q] = IF outputs # <<>> /\ ~(pc'[q] <= Len(Program))
                            THEN CallSum(Stage("outputs", 0))' ELSE <<>>
    <3>1. outvals[q] = IF outputs # <<>> /\ ~(pc[q] <= Len(Program))
                         THEN CallSum(Stage("outputs", 0)) ELSE <<>>
      BY <1>1 DEF OutputsInv, Running
    <3> PICK t : t = Stage("outputs", 0)
      OBVIOUS
    <3>2. CASE q # p
      BY <1>9, <1>12, <1>13, <2>1, <3>1, <3>2
    <3>3. CASE q = p /\ s.kind = "outputs"
      <4>1. outputs # <<>> /\ i = Len(Program) /\ s = t
        BY <1>3, <3>3, LastStage DEF s
      <4>2. ~(pc'[q] <= Len(Program))
        BY <1>3, <1>12, <2>1, <3>3, <4>1
      <4>3. outvals'[q] = CallSum(t)
        BY <1>9, <2>1, <3>3, <4>1 DEF list
      <4> QED
        BY <1>13, <4>1, <4>2, <4>3
    <3>4. CASE q = p /\ s.kind # "outputs"
      <4>1. outputs # <<>> => i # Len(Program)
        BY <1>3, <3>4, LastStage DEF s
      <4>2. outputs # <<>> => pc'[q] <= Len(Program) /\ pc[q] <= Len(Program)
        BY <1>3, <1>12, <2>1, <3>4, <4>1
      <4>3. outvals'[q] = outvals[q]
        BY <1>9, <3>4
      <4> QED
        BY <3>1, <4>2, <4>3
    <3> QED
      BY <3>2, <3>3, <3>4
  <2> QED
    BY <2>2 DEF OutputsInv, Running
<1> QED
  BY <1>12, <1>14, <1>15, <1>16 DEF EvalShares

LEMMA EvalStep == EvalShares /\ [Next]_vars => EvalShares'
<1> SUFFICES ASSUME EvalShares, [Next]_vars
             PROVE  EvalShares'
  OBVIOUS
<1>1. ASSUME NEW p \in Party, Step(p)
      PROVE  EvalShares'
  BY <1>1, SetInputsShares, EnterShares, LeaveShares, LocalShares DEF Step
<1>2. CASE UNCHANGED vars
  <2>1. /\ given' = given /\ stream' = stream /\ preproc' = preproc /\ wires' = wires /\ pc' = pc
        /\ outvals' = outvals /\ res' = res /\ arg' = arg
    BY <1>2 DEF vars
  <2>2. /\ WireShares' = WireShares
        /\ \A q, t : CallList(q, t)' = CallList(q, t)
        /\ \A t : CallSum(t)' = CallSum(t)
    BY <2>1, SharesStay
  <2>3. TypeInv /\ WiresInv /\ CallsInv /\ OutputsInv
    BY DEF EvalShares
  <2>4. TypeInv'
    BY <2>1, <2>3 DEF TypeInv
  <2>5. WiresInv'
    BY <2>1, <2>2, <2>3 DEF WiresInv
  <2>6. CallsInv'
    <3>1. ASSUME NEW q \in Party, NEW d \in 1 .. numCalls
          PROVE  /\ arg'[q][d] # <<>> => arg'[q][d] = CallList(q, Program[Rounds[d]])'
                 /\ res'[q][d] = IF Rounds[d] < pc'[q] THEN CallSum(Program[Rounds[d]])' ELSE <<>>
      <4>1. /\ arg[q][d] # <<>> => arg[q][d] = CallList(q, Program[Rounds[d]])
            /\ res[q][d] = IF Rounds[d] < pc[q] THEN CallSum(Program[Rounds[d]]) ELSE <<>>
        BY <2>3 DEF CallsInv
      <4> PICK t : t = Program[Rounds[d]]
        OBVIOUS
      <4> QED
        BY <2>1, <2>2, <4>1
    <3> QED
      BY <3>1 DEF CallsInv
  <2>7. OutputsInv'
    BY <2>1, <2>2, <2>3 DEF OutputsInv, Running
  <2> QED
    BY <2>4, <2>5, <2>6, <2>7 DEF EvalShares
<1> QED
  BY <1>1, <1>2 DEF Next

\* Every party's wires, the lists it passes and the lists its calls return are
\* those of the closed form, at whatever pace the parties go.
THEOREM SharesInvariance == Init /\ [][Next]_vars => []EvalShares
<1>1. Init => EvalShares
  BY EvalInit
<1>2. EvalShares /\ [Next]_vars => EvalShares'
  BY EvalStep
<1> QED
  BY <1>1, <1>2, PTL

-----------------------------------------------------------------------------
(* The shares of a wire stand for its plaintext value.                       *)

\* What the parties' shares of a dealt value add up to.
Dealt(item) == Total([p \in Party |-> preproc[p][item]])

\* The material that gate g was dealt.
MaterialOf(g) ==
  /\ g.type = "kMul" =>
       /\ \A n \in {"a", "b", "c"} : Dealt(<<g.out, n>>) \in Int
       /\ Dealt(<<g.out, "c">>) = (Dealt(<<g.out, "a">>) * Dealt(<<g.out, "b">>)) % RingSize
  /\ g.type = "kEqz" =>
       /\ Dealt(<<g.out, "r1">>) \in Ring
       /\ Dealt(<<g.out, "r2">>) \in Bits
       /\ \A j \in Bits :
            /\ Dealt(<<g.out, "r1_bits", j>>) = Bit(Dealt(<<g.out, "r1">>), j)
            /\ Dealt(<<g.out, "r2_bits", j>>) = IF j = Dealt(<<g.out, "r2">>) THEN 1 ELSE 0

LEMMA MaterialFacts ==
  ASSUME TypeInv, NEW k \in 1 .. Len(gates)
  PROVE  MaterialOf(gates[k])
<1> DEFINE s == [item \in Material |-> Dealt(item)]
           dealt == DealtShares(ItemOrder, stream)
           g == gates[k]
<1>1. /\ WordsAreBits /\ IsCircuit(gates) /\ stream \in Seq(Ring) /\ Len(stream) >= Len(Items(gates))
      /\ ItemOrder = Items(gates) /\ Material = ItemSet(gates)
  BY SecureEvalAssumption DEF TypeInv, ItemOrder, Material
<1>2. ASSUME NEW item \in Material
      PROVE  s[item] = DealtSum(gates, stream, item) /\ s[item] \in Ring
  <2>1. IndexOf(ItemOrder, item) \in DOMAIN ItemOrder
    BY <1>1, IndexFacts
  <2>2. dealt[IndexOf(ItemOrder, item)] = [p \in Party |-> dealt[IndexOf(ItemOrder, item)][p]]
    BY <2>1 DEF DealtShares
  <2>3. \A p \in Party : preproc[p][item] = dealt[IndexOf(ItemOrder, item)][p]
    BY DEF TypeInv
  <2> DEFINE d == dealt[IndexOf(ItemOrder, item)]
             y == [p \in Party |-> preproc[p][item]]
  <2>4. y = d
    <3>1. y = [p \in Party |-> dealt[IndexOf(ItemOrder, item)][p]]
      BY <2>3
    <3> QED
      BY <2>2, <3>1
  <2>5. y \in [Party -> Ring]
    BY <1>1, TypeInvFacts DEF SharesTyped
  <2>6. y \in [Party -> Int]
    BY <2>5, RingFacts
  <2>7. s[item] = Total(y)
    BY DEF Dealt
  <2>8. DealtSum(gates, stream, item) = Total(d)
    BY <1>1 DEF DealtSum
  <2> HIDE DEF y, d, s
  <2> QED
    BY <2>4, <2>6, <2>7, <2>8, TotalInRing
<1> HIDE DEF s
<1>3. Related(gates, s)
  <2>1. \A item \in ItemSet(gates) : s[item] = DealtSum(gates, stream, item)
    BY <1>1, <1>2
  <2> QED
    BY <1>1, <2>1, RelatedDealt
<1>4. HasItems(g, Material) /\ DOMAIN gates = 1 .. Len(gates)
  BY <1>1, ItemsFacts, GateFacts
<1>5. \A item \in Material : Dealt(item) = s[item]
  BY DEF s
<1> HIDE DEF s
<1>6. CASE g.type = "kMul"
  <2>1. \A n \in {"a", "b", "c"} : <<g.out, n>> \in Material
    BY <1>4, <1>6 DEF HasItems
  <2>2. s[<<g.out, "c">>] = (s[<<g.out, "a">>] * s[<<g.out, "b">>]) % RingSize
    BY <1>3, <1>4, <1>6 DEF Related
  <2>3. \A n \in {"a", "b", "c"} : Dealt(<<g.out, n>>) = s[<<g.out, n>>] /\ Dealt(<<g.out, n>>) \in Int
    BY <1>2, <1>5, <2>1, RingFacts
  <2> HIDE DEF g
  <2> QED
    BY <1>6, <2>2, <2>3 DEF MaterialOf, g
<1>7. CASE g.type = "kEqz"
  <2>1. /\ \A n \in {"r1", "r2"} : <<g.out, n>> \in Material
        /\ \A j \in Bits : <<g.out, "r1_bits", j>> \in Material /\ <<g.out, "r2_bits", j>> \in Material
    BY <1>4, <1>7 DEF HasItems
  <2>2. /\ s[<<g.out, "r2">>] \in Bits
        /\ \A j \in Bits :
             /\ s[<<g.out, "r1_bits", j>>] = Bit(s[<<g.out, "r1">>], j)
             /\ s[<<g.out, "r2_bits", j>>] = IF j = s[<<g.out, "r2">>] THEN 1 ELSE 0
    BY <1>3, <1>4, <1>7 DEF Related
  <2>3. Dealt(<<g.out, "r1">>) = s[<<g.out, "r1">>] /\ Dealt(<<g.out, "r2">>) = s[<<g.out, "r2">>]
        /\ Dealt(<<g.out, "r1">>) \in Ring
    BY <1>2, <1>5, <2>1
  <2>4. \A j \in Bits : /\ Dealt(<<g.out, "r1_bits", j>>) = s[<<g.out, "r1_bits", j>>]
                        /\ Dealt(<<g.out, "r2_bits", j>>) = s[<<g.out, "r2_bits", j>>]
    BY <1>5, <2>1
  <2> HIDE DEF g
  <2> QED
    BY <1>7, <2>2, <2>3, <2>4 DEF MaterialOf, g
<1>8. CASE g.type \notin {"kMul", "kEqz"}
  BY <1>8 DEF MaterialOf
<1> QED
  BY <1>6, <1>7, <1>8

\* Scaling every share scales the value.
LEMMA TotalTimes ==
  ASSUME NEW x \in [Party -> Int], NEW z \in [Party -> Int], NEW c \in Int,
         \A p \in Party : z[p] % RingSize = (x[p] * c) % RingSize
  PROVE  Total(z) = (Total(x) * c) % RingSize
<1>1. Total(x) \in Int
  BY TotalInRing, RingFacts
<1>2. Total(z) = (c * Total(x) + 0 * Total(x)) % RingSize
  <2>1. Combines(z, c, x, 0, x)
    <3>1. \A p \in Party : c * x[p] + 0 * x[p] = x[p] * c
      OBVIOUS
    <3> QED
      BY <3>1 DEF Combines
  <2> QED
    BY <2>1, TotalLinear
<1>3. c * Total(x) + 0 * Total(x) = Total(x) * c
  BY <1>1
<1> QED
  BY <1>2, <1>3

\* Adding to one party's share adds to the value.
LEMMA TotalPlusOne ==
  ASSUME NEW x \in [Party -> Int], NEW z \in [Party -> Int], NEW c \in Int, NEW q \in Party,
         \A p \in Party : z[p] % RingSize = (x[p] + IF p = q THEN c ELSE 0) % RingSize
  PROVE  Total(z) = (Total(x) + c) % RingSize
<1>1. Total(x) \in Int
  BY TotalInRing, RingFacts
<1>2. Total(z) = (1 * Total(x) + 0 * Total(x) + c) % RingSize
  <2>1. SumsUp(z, 1, x, 0, x, q, c)
    <3>1. \A p \in Party : 1 * x[p] + 0 * x[p] + (IF p = q THEN c ELSE 0) = x[p] + IF p = q THEN c ELSE 0
      OBVIOUS
    <3> QED
      BY <3>1 DEF SumsUp
  <2> QED
    BY <2>1, TotalOfSum
<1>3. 1 * Total(x) + 0 * Total(x) + c = Total(x) + c
  BY <1>1
<1> QED
  BY <1>2, <1>3

\* The coefficients of a sum and of a difference.
LEMMA Coefficients ==
  ASSUME NEW a \in Int, NEW b \in Int
  PROVE  /\ a + b \in Int /\ a - b \in Int
         /\ 1 * a + 1 * b = a + b /\ 1 * a + (-1) * b = a - b
OBVIOUS

\* z holds the shares of the wire of gate g, when S holds those of the wires it
\* reads, which stand for the values V.
Shared(g, S, V, z) ==
  /\ \A w \in Reads(g) : S[w] \in ShareVec /\ Total(S[w]) = V[w]
  /\ z \in ShareVec /\ \A p \in Party : z[p] = ShareBy(g, S, p)

\* A local gate on shares that add up to the values of the wires it reads.
LEMMA LocalAddsUp ==
  ASSUME NEW k \in 1 .. Len(gates), gates[k].type \in LocalTypes,
         NEW S, NEW V, NEW z \in ShareVec, Shared(gates[k], S, V, z), NEW inputs
  PROVE  Total(z) = GateValue(gates[k], V, inputs)
<1> DEFINE g == gates[k]
           x == S[g.in1]
           y == S[g.in2]
           c == g.cval
<1>0. /\ \A w \in Reads(g) : S[w] \in ShareVec /\ Total(S[w]) = V[w]
      /\ z \in ShareVec /\ \A p \in Party : z[p] = ShareBy(g, S, p)
  BY DEF Shared
<1>1. g.in1 \in Reads(g) /\ g.in2 \in Reads(g) /\ c \in Ring
  <2>1. g.type # "kInp"
    BY DEF LocalTypes
  <2> QED
    BY <2>1, SecureEvalAssumption, GateFacts
<1>2. \A p \in Party : LET v == [w \in Reads(g) |-> S[w][p]]
                       IN  v[g.in1] = x[p] /\ v[g.in2] = y[p]
  BY <1>1
<1>3. x \in [Party -> Int] /\ y \in [Party -> Int] /\ z \in [Party -> Int] /\ c \in Int
  BY <1>0, <1>1, RingFacts DEF ShareVec
<1>4. V[g.in1] = Total(x) /\ V[g.in2] = Total(y)
  BY <1>0, <1>1
<1>5. \A p \in Party : x[p] \in Int /\ y[p] \in Int /\ z[p] \in Int /\ x[p] \in Ring
                       /\ z[p] = LocalValue(p, g, [w \in Reads(g) |-> S[w][p]])
  <2> TAKE p \in Party
  <2>1. x[p] \in Int /\ y[p] \in Int /\ z[p] \in Int /\ x[p] \in Ring
    BY <1>0, <1>1, <1>3 DEF ShareVec
  <2>2. z[p] = LocalValue(p, g, [w \in Reads(g) |-> S[w][p]])
    BY <1>0 DEF ShareBy, LocalTypes
  <2> QED
    BY <2>1, <2>2
<1>6. Total(x) \in Int /\ Total(y) \in Int
  BY <1>3, TotalInRing, RingFacts
<1>7. 1 \in Int /\ -1 \in Int /\ 0 \in Int /\ 1 \in Party
  BY RingSumAssumption DEF Party
<1> HIDE DEF g, x, y, c
<1>8. \A i \in Int : i % RingSize \in Int /\ (i % RingSize) % RingSize = i % RingSize
  BY RingFacts, ModMod
<1>9. CASE g.type = "kAdd"
  <2>1. Combines(z, 1, x, 1, y)
    <3>1. ASSUME NEW p \in Party
          PROVE  z[p] % RingSize = (1 * x[p] + 1 * y[p]) % RingSize
      <4>1. z[p] = (x[p] + y[p]) % RingSize
        BY <1>2, <1>5, <1>9 DEF LocalValue
      <4>2. x[p] + y[p] \in Int /\ 1 * x[p] + 1 * y[p] = x[p] + y[p]
        <5>1. x[p] \in Int /\ y[p] \in Int
          BY <1>5
        <5> QED
          BY ONLY <5>1, Coefficients
      <4> QED
        BY <1>8, <4>1, <4>2
    <3> QED
      BY <3>1 DEF Combines
  <2>2. Total(z) = (1 * Total(x) + 1 * Total(y)) % RingSize
    BY ONLY <1>3, <1>7, <2>1, TotalLinear
  <2>3. 1 * Total(x) + 1 * Total(y) = Total(x) + Total(y)
    BY <1>6
  <2> QED
    BY <1>4, <1>9, <2>2, <2>3 DEF GateValue, g
<1>10. CASE g.type = "kSub"
  <2>1. Combines(z, 1, x, -1, y)
    <3>1. ASSUME NEW p \in Party
          PROVE  z[p] % RingSize = (1 * x[p] + (-1) * y[p]) % RingSize
      <4>1. z[p] = (x[p] - y[p]) % RingSize
        BY <1>2, <1>5, <1>10 DEF LocalValue
      <4>2. x[p] - y[p] \in Int /\ 1 * x[p] + (-1) * y[p] = x[p] - y[p]
        <5>1. x[p] \in Int /\ y[p] \in Int
          BY <1>5
        <5> QED
          BY ONLY <5>1, Coefficients
      <4> QED
        BY <1>8, <4>1, <4>2
    <3> QED
      BY <3>1 DEF Combines
  <2>2. Total(z) = (1 * Total(x) + (-1) * Total(y)) % RingSize
    BY ONLY <1>3, <1>7, <2>1, TotalLinear
  <2>3. 1 * Total(x) + (-1) * Total(y) = Total(x) - Total(y)
    BY <1>6
  <2> QED
    BY <1>4, <1>10, <2>2, <2>3 DEF GateValue, g
<1>11. CASE g.type = "kConstMul"
  <2>1. ASSUME NEW p \in Party
        PROVE  z[p] % RingSize = (x[p] * c) % RingSize
    <3>1. z[p] = (x[p] * c) % RingSize
      BY <1>2, <1>5, <1>11 DEF LocalValue, c
    <3>2. x[p] * c \in Int
      BY <1>3, <1>5
    <3> QED
      BY <1>8, <3>1, <3>2
  <2>2. Total(z) = (Total(x) * c) % RingSize
    BY <1>3, <2>1, TotalTimes
  <2> QED
    BY <1>4, <1>11, <2>2 DEF GateValue, g, c
<1>12. CASE g.type = "kConstAdd"
  <2>1. ASSUME NEW p \in Party
        PROVE  z[p] % RingSize = (x[p] + IF p = 1 THEN c ELSE 0) % RingSize
    <3>1. z[p] = IF p = 1 THEN (x[p] + c) % RingSize ELSE x[p]
      BY <1>2, <1>5, <1>12 DEF LocalValue, c
    <3>2. x[p] + c \in Int /\ x[p] + 0 = x[p]
      BY <1>3, <1>5
    <3>3. CASE p = 1
      BY <1>8, <3>1, <3>2, <3>3
    <3>4. CASE p # 1
      BY <3>1, <3>2, <3>4
    <3> QED
      BY <3>3, <3>4
  <2>2. Total(z) = (Total(x) + c) % RingSize
    BY <1>3, <1>7, <2>1, TotalPlusOne
  <2> QED
    BY <1>4, <1>12, <2>2 DEF GateValue, g, c
<1> QED
  BY <1>9, <1>10, <1>11, <1>12 DEF LocalTypes, g

\* What is opened of two values is their difference.
LEMMA DifferenceOpens ==
  ASSUME NEW x \in [Party -> Int], NEW a \in [Party -> Int], NEW u \in [Party -> Int],
         \A p \in Party : u[p] = (x[p] - a[p]) % RingSize
  PROVE  Total(u) \in Int /\ Same(RingSize, Total(u), Total(x) - Total(a))
<1>1. Total(x) \in Int /\ Total(a) \in Int /\ Total(u) \in Int
  BY TotalInRing, RingFacts
<1>2. Total(u) = (1 * Total(x) + (-1) * Total(a)) % RingSize
  <2>1. Combines(u, 1, x, -1, a)
    <3>1. ASSUME NEW p \in Party
          PROVE  u[p] % RingSize = (1 * x[p] + (-1) * a[p]) % RingSize
      <4>1. x[p] - a[p] \in Int /\ 1 * x[p] + (-1) * a[p] = x[p] - a[p]
        OBVIOUS
      <4> QED
        BY <4>1, RingFacts, ModMod
    <3> QED
      BY <3>1 DEF Combines
  <2> QED
    BY <2>1, TotalLinear
<1> DEFINE t == Total(x) - Total(a)
<1>3. t \in Int /\ 1 * Total(x) + (-1) * Total(a) = t
  BY <1>1
<1>4. Total(u) = t % RingSize
  BY <1>2, <1>3
<1> HIDE DEF t
<1>5. Same(RingSize, t % RingSize, t)
  BY <1>3, RingFacts, SameRemainder
<1> QED
  BY <1>1, <1>4, <1>5 DEF t

\* A multiplication on shares that add up to the factors.
LEMMA MulAddsUp ==
  ASSUME TypeInv, NEW k \in 1 .. Len(gates), gates[k].type = "kMul",
         NEW S, \A w \in Reads(gates[k]) : S[w] \in ShareVec,
         NEW z \in ShareVec,
         \A p \in Party : z[p] = Product(p, gates[k], OpenedE(gates[k], S), OpenedD(gates[k], S))
  PROVE  Total(z) = (Total(S[gates[k].in1]) * Total(S[gates[k].in2])) % RingSize
<1> DEFINE g == gates[k]
           x == S[g.in1]
           y == S[g.in2]
           a == [p \in Party |-> Mine(p, g, "a")]
           b == [p \in Party |-> Mine(p, g, "b")]
           c == [p \in Party |-> Mine(p, g, "c")]
           u == [p \in Party |-> (x[p] - a[p]) % RingSize]
           v == [p \in Party |-> (y[p] - b[p]) % RingSize]
           e == OpenedE(g, S)
           d == OpenedD(g, S)
<1>1. x \in ShareVec /\ y \in ShareVec
  <2>1. g.in1 \in Reads(g) /\ g.in2 \in Reads(g)
    BY SecureEvalAssumption, GateFacts
  <2> QED
    BY <2>1
<1>2. /\ x \in [Party -> Int] /\ y \in [Party -> Int] /\ z \in [Party -> Int]
      /\ a \in [Party -> Int] /\ b \in [Party -> Int] /\ c \in [Party -> Int]
  <2>1. \A p \in Party : \A n \in {"a", "b", "c"} : Mine(p, g, n) \in Int
    BY TypeInvFacts, GateShares, RingFacts
  <2> QED
    BY <1>1, <2>1, RingFacts DEF ShareVec
<1>3. Same(RingSize, Total(c), Total(a) * Total(b)) /\ Total(a) \in Int /\ Total(b) \in Int
  <2>1. /\ Total(a) = Dealt(<<g.out, "a">>) /\ Total(b) = Dealt(<<g.out, "b">>)
        /\ Total(c) = Dealt(<<g.out, "c">>)
    BY DEF Dealt, Mine
  <2>2. MaterialOf(g)
    BY MaterialFacts
  <2>3. Total(a) \in Int /\ Total(b) \in Int /\ Total(c) = (Total(a) * Total(b)) % RingSize
    BY <2>1, <2>2 DEF MaterialOf
  <2> DEFINE t == Total(a) * Total(b)
  <2>4. t \in Int
    BY <2>3
  <2> HIDE DEF t, a, b, c
  <2>5. Same(RingSize, t % RingSize, t)
    BY <2>4, RingFacts, SameRemainder
  <2> QED
    BY <2>3, <2>5 DEF t
<1>4. e = Total(u) /\ d = Total(v)
  <2>1. /\ u = [p \in Party |-> (S[g.in1][p] - Mine(p, g, "a")) % RingSize]
        /\ v = [p \in Party |-> (S[g.in2][p] - Mine(p, g, "b")) % RingSize]
    OBVIOUS
  <2> QED
    BY <2>1 DEF OpenedE, OpenedD
<1>5. \A p \in Party : z[p] = (c[p] + e * b[p] + d * a[p] + IF p = 1 THEN e * d ELSE 0) % RingSize
  <2>1. \A p \in Party : z[p] = Product(p, g, e, d)
    OBVIOUS
  <2> HIDE DEF e, d
  <2> QED
    BY <2>1 DEF Product
<1>6. \A i \in Int : i % RingSize \in Int /\ (i % RingSize) % RingSize = i % RingSize
  BY RingFacts, ModMod
<1>7. /\ u \in [Party -> Int] /\ \A p \in Party : u[p] = (x[p] - a[p]) % RingSize
      /\ v \in [Party -> Int] /\ \A p \in Party : v[p] = (y[p] - b[p]) % RingSize
  <2> HIDE DEF x, y, a, b
  <2>1. \A p \in Party : x[p] - a[p] \in Int /\ y[p] - b[p] \in Int
    BY <1>2
  <2> QED
    BY <1>6, <2>1
<1> HIDE DEF x, y, a, b, c, u, v, e, d
<1>8. Same(RingSize, e, Total(x) - Total(a)) /\ e \in Int
  BY <1>2, <1>4, <1>7, DifferenceOpens
<1>9. Same(RingSize, d, Total(y) - Total(b)) /\ d \in Int
  BY <1>2, <1>4, <1>7, DifferenceOpens
<1>10. Total(x) \in Int /\ Total(y) \in Int
  BY <1>2, TotalInRing, RingFacts
<1> DEFINE X == Total(x)
           Y == Total(y)
<1> HIDE DEF X, Y
<1>11. /\ X \in Int /\ Y \in Int /\ e \in Int /\ d \in Int
       /\ Same(RingSize, e, X - Total(a)) /\ Same(RingSize, d, Y - Total(b))
       /\ Same(RingSize, Total(c), Total(a) * Total(b))
       /\ a \in [Party -> Int] /\ b \in [Party -> Int] /\ c \in [Party -> Int] /\ z \in [Party -> Int]
  BY <1>2, <1>3, <1>8, <1>9, <1>10 DEF X, Y
<1>12. Total(z) = (X * Y) % RingSize
  <2> PICK i \in Int, j \in Int, l \in Int, m \in Int : i = X /\ j = Y /\ l = e /\ m = d
    BY <1>11
  <2>1. /\ Same(RingSize, l, i - Total(a)) /\ Same(RingSize, m, j - Total(b))
        /\ Same(RingSize, Total(c), Total(a) * Total(b))
        /\ a \in [Party -> Int] /\ b \in [Party -> Int] /\ c \in [Party -> Int] /\ z \in [Party -> Int]
        /\ i \in Int /\ j \in Int /\ l \in Int /\ m \in Int
    BY <1>11
  <2>2. \A p \in Party : z[p] = (c[p] + l * b[p] + m * a[p] + IF p = 1 THEN l * m ELSE 0) % RingSize
    BY <1>5
  <2>3. ProductShares(z, a, b, c, l, m)
    BY <2>2 DEF ProductShares
  <2>4. OpenedWith(i, j, l, m, a, b, c)
    BY <2>1 DEF OpenedWith
  <2>5. AddUpToProduct(z, i, j)
    BY ONLY <2>1, <2>3, <2>4, BeaverTriple
  <2> QED
    BY <2>5 DEF AddUpToProduct
<1> QED
  BY <1>12 DEF X, Y, x, y, g

\* What is added up share by share adds up.
LEMMA SumOpens ==
  ASSUME NEW x \in [Party -> Int], NEW a \in [Party -> Int], NEW u \in [Party -> Int],
         \A p \in Party : u[p] = (x[p] + a[p]) % RingSize
  PROVE  Total(u) = (Total(x) + Total(a)) % RingSize
<1>1. Total(x) \in Int /\ Total(a) \in Int
  BY TotalInRing, RingFacts
<1>2. Total(u) = (1 * Total(x) + 1 * Total(a)) % RingSize
  <2>1. Combines(u, 1, x, 1, a)
    <3>1. ASSUME NEW p \in Party
          PROVE  u[p] % RingSize = (1 * x[p] + 1 * a[p]) % RingSize
      <4>1. x[p] + a[p] \in Int /\ 1 * x[p] + 1 * a[p] = x[p] + a[p]
        OBVIOUS
      <4> QED
        BY <4>1, RingFacts, ModMod
    <3> QED
      BY <3>1 DEF Combines
  <2> QED
    BY <2>1, TotalLinear
<1>3. 1 * Total(x) + 1 * Total(a) = Total(x) + Total(a)
  BY <1>1
<1> QED
  BY <1>2, <1>3

\* A sum of remainders.
LEMMA RemainderOfSum ==
  ASSUME NEW a \in Int, NEW b \in Int
  PROVE  ((a % RingSize) + b) % RingSize = (a + b) % RingSize
<1> DEFINE c == a % RingSize
<1>1. c \in Int /\ Same(RingSize, c, a) /\ Same(RingSize, b, b)
  BY RingFacts, SameRemainder DEF Same
<1> HIDE DEF c
<1>2. Same(RingSize, c + b, a + b)
  BY <1>1, RingFacts, SameOps
<1> QED
  BY <1>2 DEF Same, c

\* What is opened second for an equality test: the distance of the first opened
\* value from r1, hidden by r2.
LEMMA HammingAddsUp ==
  ASSUME TypeInv, NEW k \in 1 .. Len(gates), gates[k].type = "kEqz", NEW m1 \in Ring
  PROVE  Total([p \in Party |-> Hamming(p, gates[k], m1)])
           = (Distance(m1, Dealt(<<gates[k].out, "r1">>), RINGSIZEBITS)
                + Dealt(<<gates[k].out, "r2">>)) % RingSize
<1> DEFINE g == gates[k]
           r1 == Dealt(<<g.out, "r1">>)
           r2 == Dealt(<<g.out, "r2">>)
           r == [j \in Bits |-> [p \in Party |-> preproc[p][<<g.out, "r1_bits", j>>]]]
           s == [p \in Party |-> CHOOSE sum : HammingSums(p, g, m1, sum)]
           B == RINGSIZEBITS
           z == [p \in Party |-> Hamming(p, g, m1)]
           x == [p \in Party |-> s[p][B]]
           a == [p \in Party |-> Mine(p, g, "r2")]
<1>1. SharesTyped /\ MaterialOf(g) /\ B \in Nat \ {0}
  BY TypeInvFacts, MaterialFacts, RingFacts
<1>2. r1 \in Int /\ m1 \in Int /\ r2 \in Int
  <2>1. r1 \in Ring /\ r2 \in Bits
    BY <1>1 DEF MaterialOf
  <2> HIDE DEF r1, r2
  <2> QED
    BY <1>1, <2>1, RingFacts DEF Bits
<1>3. BitsShared(r, r1)
  <2>1. ASSUME NEW j \in Bits
        PROVE  r[j] \in [Party -> Int] /\ Total(r[j]) = Bit(r1, j)
    <3>1. \A p \in Party : preproc[p][<<g.out, "r1_bits", j>>] \in Int
      BY <1>1, GateShares, RingFacts
    <3>2. Total(r[j]) = Dealt(<<g.out, "r1_bits", j>>)
      BY DEF Dealt
    <3>3. Dealt(<<g.out, "r1_bits", j>>) = Bit(r1, j)
      BY <1>1 DEF MaterialOf
    <3> QED
      BY <3>1, <3>2, <3>3
  <2> QED
    BY <2>1 DEF BitsShared
<1>4. \A p \in Party : HammingSums(p, g, m1, s[p])
  BY <1>1, HammingLoop
<1>5. SumsBits(s, m1, r)
  <2>1. \A j \in 1 .. B : j - 1 \in Bits
    BY <1>1 DEF Bits
  <2>2. \A p \in Party, j \in 1 .. B : r[j - 1][p] = preproc[p][<<g.out, "r1_bits", j - 1>>]
    BY <2>1
  <2> HIDE DEF r, s, g
  <2>3. ASSUME NEW p \in Party
        PROVE  /\ s[p] \in [0 .. B -> Int]
               /\ s[p][0] = 0
               /\ \A j \in 1 .. B :
                    s[p][j] = (s[p][j - 1] + (IF p = 1 THEN Bit(m1, j - 1) ELSE 0)
                                 + r[j - 1][p] - 2 * Bit(m1, j - 1) * r[j - 1][p]) % RingSize
    <3>1. HammingSums(p, g, m1, s[p])
      BY <1>4
    <3>2. s[p] \in [0 .. B -> Int] /\ s[p][0] = 0
      BY <3>1 DEF HammingSums
    <3>3. ASSUME NEW j \in 1 .. B
          PROVE  s[p][j] = (s[p][j - 1] + (IF p = 1 THEN Bit(m1, j - 1) ELSE 0)
                                 + r[j - 1][p] - 2 * Bit(m1, j - 1) * r[j - 1][p]) % RingSize
      <4> DEFINE q == preproc[p][<<g.out, "r1_bits", j - 1>>]
      <4>1. s[p][j] = (s[p][j - 1] + (IF p = 1 THEN Bit(m1, j - 1) ELSE 0)
                                 + q - 2 * Bit(m1, j - 1) * q) % RingSize
        BY <3>1 DEF HammingSums
      <4>2. r[j - 1][p] = q
        BY <2>2
      <4> HIDE DEF q
      <4> QED
        BY <4>1, <4>2
    <3> QED
      BY <3>2, <3>3
  <2> QED
    BY <2>3 DEF SumsBits
<1>6. Total(x) = Distance(m1, r1, B) % RingSize
  <2>1. B \in 0 .. B
    BY <1>1
  <2> HIDE DEF r1, r, s
  <2>2. \A j \in 0 .. B : Total([p \in Party |-> s[p][j]]) = Distance(m1, r1, j) % RingSize
    BY <1>2, <1>3, <1>5, SecureEvalAssumption, SumsAddUp
  <2> QED
    BY <2>1, <2>2
<1>7. /\ x \in [Party -> Int] /\ a \in [Party -> Int]
      /\ \A p \in Party : z[p] = (x[p] + a[p]) % RingSize
  <2>1. \A p \in Party : s[p] \in [0 .. B -> Int] /\ B \in 0 .. B
    <3> HIDE DEF s, r, g
    <3>1. B \in 0 .. B
      BY <1>1
    <3> QED
      BY <1>5, <3>1 DEF SumsBits
  <2>2. \A p \in Party : Mine(p, g, "r2") \in Int
    BY <1>1, GateShares, RingFacts
  <2>3. \A p \in Party : Hamming(p, g, m1) = (s[p][B] + Mine(p, g, "r2")) % RingSize
    <3> HIDE DEF s, g
    <3> QED
      BY <1>4 DEF HammingSums
  <2>4. \A p \in Party : s[p][B] \in Int
    BY <2>1
  <2> HIDE DEF s, g
  <2> QED
    BY <2>2, <2>3, <2>4
<1>8. Total(a) = r2
  BY DEF Dealt, Mine
<1>9. z \in [Party -> Int]
  <2>1. \A p \in Party : Hamming(p, g, m1) \in Int
    BY <1>1, HammingLoop, RingFacts
  <2> QED
    BY <2>1
<1>10. Distance(m1, r1, B) \in Int
  <2>1. Distance(m1, r1, B) \in 0 .. B
    BY <1>1, DifferingFacts
  <2> QED
    BY <1>1, <2>1
<1> HIDE DEF x, a, z, r1, r2, s, r
<1>11. Total(z) = (Total(x) + r2) % RingSize
  BY <1>7, <1>8, <1>9, SumOpens
<1> DEFINE D == Distance(m1, r1, B)
<1>12. D \in Int /\ Total(z) = ((D % RingSize) + r2) % RingSize
  BY <1>6, <1>10, <1>11
<1> HIDE DEF D
<1>13. Total(z) = (D + r2) % RingSize
  BY <1>2, <1>12, RemainderOfSum
<1> QED
  BY <1>13 DEF D, r1, r2, z

\* An equality test on shares that add up to x: where the first opened value
\* agrees with r1 in a bit, the test gives shares of whether x is zero.
LEMMA EqzAddsUp ==
  ASSUME TypeInv, NEW k \in 1 .. Len(gates), gates[k].type = "kEqz",
         NEW S, \A w \in Reads(gates[k]) : S[w] \in ShareVec,
         ~Wraps(gates[k], Total(S[gates[k].in1])),
         NEW z \in ShareVec, \A p \in Party : z[p] = ShareBy(gates[k], S, p)
  PROVE  Total(z) = IF Total(S[gates[k].in1]) = 0 THEN 1 ELSE 0
<1> DEFINE g == gates[k]
           x == S[g.in1]
           X == Total(x)
           a == [p \in Party |-> Mine(p, g, "r1")]
           u == [p \in Party |-> (x[p] + a[p]) % RingSize]
           r1 == Dealt(<<g.out, "r1">>)
           r2 == Dealt(<<g.out, "r2">>)
           m1 == OpenedM1(g, S)
           m2 == OpenedM2(g, S)
           i == m2 % RINGSIZEBITS
<1>1. SharesTyped /\ MaterialOf(g) /\ WordsAreBits
  BY TypeInvFacts, MaterialFacts, SecureEvalAssumption
<1>2. x \in ShareVec /\ x \in [Party -> Int] /\ a \in [Party -> Int]
  <2>1. g.in1 \in Reads(g)
    BY SecureEvalAssumption, GateFacts
  <2>2. \A p \in Party : Mine(p, g, "r1") \in Int
    BY <1>1, GateShares, RingFacts
  <2> QED
    BY <2>1, <2>2, RingFacts DEF ShareVec
<1>3. X \in Ring /\ X \in Int
  BY <1>2, TotalInRing, RingFacts
<1>4. r1 \in Ring /\ r2 \in Bits /\ Total(a) = r1
  BY <1>1 DEF MaterialOf, Dealt, Mine
<1>5. m1 \in Ring /\ m2 \in Ring
  BY <1>1, OpenedValuesTyped
<1>6. m1 = (X + r1) % RingSize
  <2>1. m1 = Total(u)
    <3>1. u = [p \in Party |-> (S[g.in1][p] + Mine(p, g, "r1")) % RingSize]
      OBVIOUS
    <3> QED
      BY <3>1 DEF OpenedM1
  <2>2. u \in [Party -> Int] /\ \A p \in Party : u[p] = (x[p] + a[p]) % RingSize
    <3> HIDE DEF x, a
    <3>1. \A p \in Party : x[p] + a[p] \in Int
      BY <1>2
    <3> QED
      BY <3>1, RingFacts
  <2> HIDE DEF u, x, a, m1, r1
  <2> QED
    BY <1>2, <1>4, <2>1, <2>2, SumOpens DEF X
<1>7. m2 = (Distance(m1, r1, RINGSIZEBITS) + r2) % RingSize
  <2>1. m2 = Total([p \in Party |-> Hamming(p, g, m1)])
    BY DEF OpenedM2
  <2> QED
    BY <1>5, <2>1, HammingAddsUp
<1>8. PICK j \in Bits : Bit(m1, j) = Bit(r1, j)
  <2>1. Total([p \in Party |-> preproc[p][<<g.out, "r1">>]]) = r1
    BY DEF Dealt
  <2>2. \E j \in Bits : Bit((X + r1) % RingSize, j) = Bit(r1, j)
    BY <2>1 DEF Wraps
  <2> QED
    BY <1>6, <2>2
<1>9. i = r2 <=> X = 0
  <2> HIDE DEF X, r1, r2, m1, m2
  <2>1. OpenedForZero(X, r1, r2, m1, m2)
    BY <1>6, <1>7 DEF OpenedForZero
  <2>2. TellsZero(X, r2, m2)
    BY <1>1, <1>3, <1>4, <1>8, <2>1, DistanceTells
  <2> QED
    BY <2>2 DEF TellsZero
<1>10. i \in Bits
  <2>1. m2 \in Int
    BY <1>5, RingFacts
  <2> HIDE DEF m2
  <2> QED
    BY <2>1, RingFacts
<1>11. z = [p \in Party |-> preproc[p][<<g.out, "r2_bits", i>>]]
  <2>1. \A p \in Party : z[p] = preproc[p][<<g.out, "r2_bits", i>>]
    BY DEF ShareBy
  <2> HIDE DEF i, g
  <2> QED
    BY <2>1 DEF ShareVec
<1>12. Total(z) = IF i = r2 THEN 1 ELSE 0
  <2>1. Total(z) = Dealt(<<g.out, "r2_bits", i>>)
    BY <1>11 DEF Dealt
  <2>2. \A b \in Bits : Dealt(<<g.out, "r2_bits", b>>) = IF b = r2 THEN 1 ELSE 0
    BY <1>1 DEF MaterialOf
  <2> HIDE DEF i, r2
  <2> QED
    BY <1>10, <2>1, <2>2
<1> QED
  BY <1>9, <1>12

\* The inputs that the plaintext evaluation takes.
GivenInputs == [w \in InputWires(gates) |-> GivenInput(InputNo(w))]

\* The shares of an input add up to it.
LEMMA InputShares ==
  ASSUME TypeInv, OneSided(given), NEW k \in 1 .. Len(gates), gates[k].type = "kInp"
  PROVE  /\ InputNo(k - 1) \in 1 .. numInputs
         /\ GivenInput(InputNo(k - 1)) \in Ring
         /\ Total(WireShares[k - 1]) = GivenInput(InputNo(k - 1))
<1> DEFINE i == InputNo(k - 1)
           x == [p \in Party |-> InputsOf(p).share[i]]
<1>1. GivenTyped /\ SharesTyped /\ gates[k].out = k - 1 /\ k - 1 \in Wires(gates)
  BY TypeInvFacts, SecureEvalAssumption, GateFacts
<1>2. i \in 1 .. numInputs
  BY InputGroup
<1>3. (\A p \in Party : InputsOf(p).share[i] \in Ring) /\ Total(x) = GivenInput(i)
  <2> PICK j \in 1 .. numInputs : j = i
    BY <1>2
  <2>1. (\A p \in Party : InputsOf(p).share[j] \in Ring)
        /\ Total([p \in Party |-> InputsOf(p).share[j]]) = GivenInput(j)
    BY <1>1, InputsGiven
  <2> QED
    BY <2>1
<1>4. WireShares[k - 1] = x
  <2>1. WireShares[k - 1] \in ShareVec
    BY <1>1, WireSharesRule
  <2>2. \A p \in Party : WireShares[gates[k].out][p] = ShareBy(gates[k], WireShares, p)
    BY <1>1, WireSharesRule
  <2>3. \A p \in Party : ShareBy(gates[k], WireShares, p) = InputsOf(p).share[i]
    BY <1>1 DEF ShareBy
  <2>4. \A p \in Party : WireShares[k - 1][p] = InputsOf(p).share[i]
    BY <1>1, <2>2, <2>3
  <2> HIDE DEF i
  <2> QED
    BY <2>1, <2>4 DEF ShareVec
<1>5. x \in [Party -> Int]
  <2> HIDE DEF i
  <2> QED
    BY <1>3, RingFacts
<1>6. GivenInput(i) \in Ring
  BY <1>3, <1>5, TotalInRing
<1> QED
  BY <1>2, <1>3, <1>4, <1>6

\* The plaintext value of every wire is the one its gate computes.
LEMMA ValueRule ==
  ASSUME TypeInv, OneSided(given)
  PROVE  \A k \in 1 .. Len(gates) :
           Value[k - 1] = IF gates[k].type = "kRec" THEN (nP * Value[gates[k].in1]) % RingSize
                                                    ELSE GateValue(gates[k], Value, GivenInputs)
<1>1. IsCircuit(gates) /\ nP \in Nat
  BY SecureEvalAssumption, RingSumAssumption
<1>2. GivenInputs \in [InputWires(gates) -> Ring]
  <2>1. ASSUME NEW w \in InputWires(gates)
        PROVE  GivenInput(InputNo(w)) \in Ring
    <3>1. PICK k \in DOMAIN gates : gates[k].type = "kInp" /\ gates[k].out = w
      BY DEF InputWires
    <3>2. k \in 1 .. Len(gates)
      BY <1>1 DEF IsCircuit
    <3>3. w = k - 1
      BY <1>1, <3>1, <3>2, GateFacts
    <3> QED
      BY <3>1, <3>2, <3>3, InputShares
  <2> QED
    BY <2>1 DEF GivenInputs
<1>3. Value = Meaning(gates, GivenInputs, nP)
  BY DEF Value, GivenInputs
<1> QED
  BY <1>1, <1>2, <1>3, MeaningIsRule

\* The step of the induction over the wires.
LEMMA GateAddsUp ==
  ASSUME TypeInv, OneSided(given), NoWrap, NEW k \in 1 .. Len(gates),
         \A w \in Reads(gates[k]) : Total(WireShares[w]) = Value[w]
  PROVE  Total(WireShares[k - 1]) = Value[k - 1]
<1> DEFINE g == gates[k]
           S == WireShares
           V == Value
           z == S[k - 1]
<1>1. /\ GivenTyped /\ SharesTyped /\ g.out = k - 1 /\ k - 1 \in Wires(gates) /\ g.type \in Types
      /\ g.type # "kInp" => g.in1 \in Reads(g) /\ g.in2 \in Reads(g)
      /\ \A w \in Reads(g) : w \in Wires(gates)
  BY TypeInvFacts, SecureEvalAssumption, GateFacts
<1>2. /\ \A w \in Reads(g) : S[w] \in ShareVec
      /\ z \in ShareVec /\ \A p \in Party : z[p] = ShareBy(g, S, p)
  <2>1. S \in [Wires(gates) -> ShareVec] /\ \A p \in Party : S[g.out][p] = ShareBy(g, S, p)
    BY <1>1, WireSharesRule
  <2> HIDE DEF S, g
  <2> QED
    BY <1>1, <2>1
<1>3. V[k - 1] = IF g.type = "kRec" THEN (nP * V[g.in1]) % RingSize
                                    ELSE GateValue(g, V, GivenInputs)
  BY ValueRule
<1>4. CASE g.type = "kInp"
  <2>1. Total(S[k - 1]) = GivenInput(InputNo(k - 1))
    BY <1>4, InputShares
  <2>2. k - 1 \in InputWires(gates)
    <3>1. k \in DOMAIN gates
      BY SecureEvalAssumption DEF IsCircuit
    <3> QED
      BY <1>1, <1>4, <3>1 DEF InputWires
  <2>3. GivenInputs[k - 1] = GivenInput(InputNo(k - 1))
    BY <2>2 DEF GivenInputs
  <2>4. V[k - 1] = GivenInputs[k - 1]
    BY <1>1, <1>3, <1>4 DEF GateValue
  <2> QED
    BY <2>1, <2>3, <2>4
<1>5. CASE g.type = "kMul"
  <2>1. \A p \in Party : z[p] = Product(p, g, OpenedE(g, S), OpenedD(g, S))
    BY <1>2, <1>5 DEF ShareBy
  <2>2. Total(z) = (Total(S[g.in1]) * Total(S[g.in2])) % RingSize
    BY <1>2, <1>5, <2>1, MulAddsUp
  <2>3. Total(S[g.in1]) = V[g.in1] /\ Total(S[g.in2]) = V[g.in2]
    BY <1>1, <1>5
  <2>4. V[k - 1] = (V[g.in1] * V[g.in2]) % RingSize
    BY <1>3, <1>5 DEF GateValue
  <2> QED
    BY <2>2, <2>3, <2>4
<1>6. CASE g.type = "kEqz"
  <2>1. Total(S[g.in1]) = V[g.in1]
    BY <1>1, <1>6
  <2>2. ~Wraps(g, V[g.in1])
    <3>1. k \in DOMAIN gates
      BY SecureEvalAssumption DEF IsCircuit
    <3> QED
      BY <1>6, <3>1 DEF NoWrap
  <2>3. Total(z) = IF Total(S[g.in1]) = 0 THEN 1 ELSE 0
    BY <1>2, <1>6, <2>1, <2>2, EqzAddsUp
  <2>4. V[k - 1] = IF V[g.in1] = 0 THEN 1 ELSE 0
    BY <1>3, <1>6 DEF GateValue
  <2> QED
    BY <2>1, <2>3, <2>4
<1>7. CASE g.type = "kRec"
  <2> DEFINE c == Total(S[g.in1])
  <2>1. c = V[g.in1]
    BY <1>1, <1>7
  <2>2. \A p \in Party : z[p] = c
    BY <1>2, <1>7 DEF ShareBy
  <2>3. c \in Int
    <3>1. S[g.in1] \in [Party -> Int]
      BY <1>1, <1>2, <1>7, RingFacts DEF ShareVec
    <3> QED
      BY <3>1, TotalInRing, RingFacts
  <2> HIDE DEF c, z
  <2>4. z = [p \in Party |-> c]
    BY <1>2, <2>2 DEF ShareVec
  <2>5. Total(z) = (nP * c) % RingSize
    BY <2>3, <2>4, TotalOfSame
  <2> QED
    BY <1>3, <1>7, <2>1, <2>5 DEF z
<1>8. CASE g.type \in LocalTypes
  <2>1. Shared(g, S, V, z) /\ z \in ShareVec
    BY <1>2 DEF Shared
  <2>2. Total(z) = GateValue(g, V, GivenInputs)
    <3> HIDE DEF S, V, z
    <3> QED
      BY <1>8, <2>1, LocalAddsUp
  <2> QED
    BY <1>3, <1>8, <2>2 DEF LocalTypes
<1> QED
  BY <1>1, <1>4, <1>5, <1>6, <1>7, <1>8 DEF Types, LocalTypes

\* The shares of every wire add up to its plaintext value.
LEMMA WiresAddUp ==
  ASSUME TypeInv, OneSided(given), NoWrap
  PROVE  \A k \in 1 .. Len(gates) : Total(WireShares[k - 1]) = Value[k - 1]
<1> DEFINE n == Len(gates)
           Good(k) == Total(WireShares[k - 1]) = Value[k - 1]
           T == {k \in 0 .. n : \A i \in 1 .. k : Good(i)}
<1>1. n \in Nat /\ \A k \in 1 .. n : \A w \in Reads(gates[k]) : w \in 0 .. k - 2
  BY SecureEvalAssumption, GateFacts
<1>2. 0 \in T
  BY <1>1
<1>3. ASSUME NEW k \in 1 .. n, k - 1 \in T
      PROVE  k \in T
  <2>1. \A i \in 1 .. k - 1 : Good(i)
    BY <1>3
  <2>2. \A w \in Reads(gates[k]) : Total(WireShares[w]) = Value[w]
    <3> TAKE w \in Reads(gates[k])
    <3> PICK i \in 1 .. k - 1 : i - 1 = w
      <4>1. w \in 0 .. k - 2
        BY <1>1
      <4>2. w + 1 \in 1 .. k - 1 /\ (w + 1) - 1 = w
        BY <4>1
      <4> QED
        BY <4>2
    <3>1. Good(i)
      BY <2>1
    <3> QED
      BY <3>1
  <2>3. Good(k)
    BY <2>2, GateAddsUp
  <2> HIDE DEF Good
  <2>4. \A i \in 1 .. k : Good(i)
    <3>1. \A i \in 1 .. k : i \in 1 .. k - 1 \/ i = k
      BY <1>1
    <3> QED
      BY <2>1, <2>3, <3>1
  <2> QED
    BY <1>1, <2>4
<1> HIDE DEF T
<1>4. \A k \in 0 .. n : k \in T
  BY <1>1, <1>2, <1>3, UpTo
<1>5. n \in T
  BY <1>1, <1>4
<1> QED
  BY <1>5 DEF T

-----------------------------------------------------------------------------
(* What holds of the shares throughout the evaluation.                       *)

\* A wire that all parties have come past holds the shares of the closed form.
LEMMA SetWires ==
  ASSUME EvalShares, NEW k \in 1 .. Len(gates), IsSet(gates[k])
  PROVE  /\ [p \in Party |-> wires[p][gates[k].out]] = WireShares[k - 1]
         /\ \A p \in Party : wires[p][gates[k].out] = ShareBy(gates[k], WireShares, p)
<1>1. /\ GivenTyped /\ SharesTyped /\ k \in DOMAIN gates
      /\ gates[k].out = k - 1 /\ k - 1 \in Wires(gates)
  BY TypeInvFacts, SecureEvalAssumption, GateFacts DEF EvalShares, IsCircuit
<1>2. \A p \in Party : wires[p][gates[k].out] = WireShares[gates[k].out][p]
  BY <1>1 DEF EvalShares, WiresInv, IsSet
<1>3. /\ WireShares[k - 1] \in ShareVec
      /\ \A p \in Party : WireShares[gates[k].out][p] = ShareBy(gates[k], WireShares, p)
  BY <1>1, WireSharesRule
<1> QED
  BY <1>1, <1>2, <1>3 DEF ShareVec

LEMMA InputsSharedInv ==
  ASSUME EvalShares, OneSided(given)
  PROVE  InputsShared
<1> SUFFICES ASSUME NEW i \in DOMAIN InputOrder, IsSet(InputOrder[i])
             PROVE  Total([p \in Party |-> wires[p][InputOrder[i].out]]) = GivenInput(i)
  BY DEF InputsShared
<1>1. IsGroup(InputOrder, 1, {"kInp"})
  BY InputGroup
<1>2. i \in 1 .. Len(InputOrder) /\ i \in 1 .. numInputs
  BY <1>1 DEF IsGroup, numInputs
<1>3. PICK k \in 1 .. Len(gates) : InputOrder[i] = gates[k] /\ gates[k].type = "kInp"
  BY <1>1, <1>2 DEF IsGroup
<1>4. InputNo(k - 1) = i
  <2>1. InputNo(InputOrder[i].out) = i
    BY <1>2, InputGroup
  <2> QED
    BY <1>3, <2>1, SecureEvalAssumption, GateFacts
<1>5. Total(WireShares[k - 1]) = GivenInput(InputNo(k - 1))
  BY <1>3, InputShares DEF EvalShares
<1> QED
  BY <1>3, <1>4, <1>5, SetWires

LEMMA WiresShareInv ==
  ASSUME EvalShares, OneSided(given)
  PROVE  WiresShareMeaning
<1> SUFFICES ASSUME NoWrap, NEW k \in DOMAIN gates, IsSet(gates[k])
             PROVE  /\ Total([p \in Party |-> wires[p][gates[k].out]]) = Value[gates[k].out]
                    /\ gates[k].type = "kRec" =>
                         \A p \in Party : wires[p][gates[k].out] = Value[gates[k].in1]
  BY DEF WiresShareMeaning
<1>1. k \in 1 .. Len(gates) /\ gates[k].out = k - 1 /\ TypeInv
  <2>1. k \in 1 .. Len(gates)
    BY SecureEvalAssumption DEF IsCircuit
  <2> QED
    BY <2>1, SecureEvalAssumption, GateFacts DEF EvalShares
<1>2. Total([p \in Party |-> wires[p][gates[k].out]]) = Value[gates[k].out]
  BY <1>1, SetWires, WiresAddUp
<1>3. ASSUME gates[k].type = "kRec", NEW p \in Party
      PROVE  wires[p][gates[k].out] = Value[gates[k].in1]
  <2>1. gates[k].in1 \in 0 .. k - 2 /\ Len(gates) \in Nat
    BY <1>1, <1>3, SecureEvalAssumption, GateFacts
  <2>2. PICK i \in 1 .. Len(gates) : i - 1 = gates[k].in1
    <3>1. gates[k].in1 + 1 \in 1 .. Len(gates) /\ (gates[k].in1 + 1) - 1 = gates[k].in1
      BY <1>1, <2>1
    <3> QED
      BY <3>1
  <2>3. Total(WireShares[i - 1]) = Value[i - 1]
    BY <1>1, WiresAddUp
  <2>4. wires[p][gates[k].out] = ShareBy(gates[k], WireShares, p)
    BY <1>1, SetWires
  <2>5. ShareBy(gates[k], WireShares, p) = Total(WireShares[gates[k].in1])
    BY <1>3 DEF ShareBy
  <2> QED
    BY <2>2, <2>3, <2>4, <2>5
<1> QED
  BY <1>2, <1>3

LEMMA OutputsInvCorrect ==
  ASSUME EvalShares, OneSided(given)
  PROVE  OutputsCorrectUnlessWrap
<1> SUFFICES ASSUME NoWrap, NEW p \in Party, ~Running(p)
             PROVE  outvals[p] = [i \in DOMAIN outputs |-> Value[outputs[i]]]
  BY DEF OutputsCorrectUnlessWrap, OutputsCorrect
<1> DEFINE s == Stage("outputs", 0)
<1>1. /\ outputs \in Seq(Wires(gates)) /\ Len(outputs) \in Nat /\ DOMAIN outputs = 1 .. Len(outputs)
      /\ TypeInv /\ GivenTyped /\ SharesTyped
  BY SecureEvalAssumption, TypeInvFacts DEF EvalShares
<1>2. outvals[p] = IF outputs # <<>> THEN CallSum(s) ELSE <<>>
  BY DEF EvalShares, OutputsInv
<1>3. CASE outputs = <<>>
  <2>1. DOMAIN outputs = {}
    BY <1>3
  <2>2. [i \in DOMAIN outputs |-> Value[outputs[i]]] = <<>>
    BY <2>1
  <2> QED
    BY <1>2, <1>3, <2>2
<1>4. CASE outputs # <<>>
  <2>1. ValidStage(s) /\ IsRound(s) /\ s.kind = "outputs"
    BY <1>4 DEF ValidStage, IsRound, Stage
  <2>2. CallSum(s) \in Vec(ListLength(s)) /\ OpenedBy(s, WireShares, CallSum(s))
    BY <1>1, <2>1, CallSumTyped, CallSumIs
  <2>3. ListLength(s) = Len(outputs)
    BY <2>1 DEF ListLength
  <2>4. \A j \in 1 .. Len(outputs) : CallSum(s)[j] = Total(WireShares[outputs[j]])
    BY <2>1, <2>2 DEF OpenedBy
  <2>5. ASSUME NEW j \in 1 .. Len(outputs)
        PROVE  Total(WireShares[outputs[j]]) = Value[outputs[j]]
    <3>1. outputs[j] \in 0 .. Len(gates) - 1 /\ Len(gates) \in Nat
      BY <1>1, SecureEvalAssumption, GateFacts
    <3>2. PICK i \in 1 .. Len(gates) : i - 1 = outputs[j]
      <4>1. outputs[j] + 1 \in 1 .. Len(gates) /\ (outputs[j] + 1) - 1 = outputs[j]
        BY <3>1
      <4> QED
        BY <4>1
    <3> QED
      BY <1>1, <3>2, WiresAddUp
  <2> QED
    BY <1>1, <1>2, <1>4, <2>2, <2>3, <2>4, <2>5 DEF Vec
<1> QED
  BY <1>3, <1>4

\* Once every party has set its inputs, the shares of each input add up to what
\* was given.
THEOREM InputsSharedAlways == Init /\ [][Next]_vars => [](OneSided(given) => InputsShared)
<1>1. EvalShares => (OneSided(given) => InputsShared)
  BY InputsSharedInv
<1> QED
  BY <1>1, SharesInvariance, PTL

\* Unless an equality test wraps, the shares of every wire that all parties have
\* come past add up to its plaintext value, which after a reconstruction gate
\* is on the wire of each party.
THEOREM WiresShareMeaningAlways ==
  Init /\ [][Next]_vars => [](OneSided(given) => WiresShareMeaning)
<1>1. EvalShares => (OneSided(given) => WiresShareMeaning)
  BY WiresShareInv
<1> QED
  BY <1>1, SharesInvariance, PTL

\* Unless an equality test wraps, a party that has returned holds the outputs of
\* the circuit on the plaintext inputs.
THEOREM OutputsCorrectAlways ==
  Init /\ [][Next]_vars => [](OneSided(given) => OutputsCorrectUnlessWrap)
<1>1. EvalShares => (OneSided(given) => OutputsCorrectUnlessWrap)
  BY OutputsInvCorrect
<1> QED
  BY <1>1, SharesInvariance, PTL

-----------------------------------------------------------------------------
(* The program and the calls in step.                                        *)

OInv == NetP!IInv /\ EvalInv

\* A party that is about to reconstruct is at the stage of its next call.
LEMMA RoundHere ==
  ASSUME EvalInv, NEW p \in Party, call[p] \in 1 .. numCalls + 1, Running(p), IsRound(Here(p))
  PROVE  /\ call[p] \in 1 .. numCalls /\ Rounds[call[p]] = pc[p] /\ Round(p) = call[p]
         /\ pc[p] \in 1 .. Len(Program)
<1>1. pc[p] \in 1 .. Len(Program) /\ IsRound(Program[pc[p]])
  BY StageFacts DEF EvalInv, Running, Here
<1>2. PICK c \in 1 .. numCalls : Rounds[c] = pc[p]
  BY <1>1, RoundsFacts
<1> DEFINE k == call[p]
           i == pc[p]
<1>3. numCalls \in Nat /\ k \in 1 .. numCalls + 1 /\ i \in Nat
  BY <1>1, RoundsFacts
<1>4. \A d \in 1 .. numCalls : d < k <=> Rounds[d] < i
  BY DEF EvalInv, AtCall
<1>5. \A d, e \in 1 .. numCalls : Rounds[d] \in Nat /\ (d < e => Rounds[d] < Rounds[e])
  BY RoundsFacts
<1> HIDE DEF k, i
<1>6. ~(c < k)
  BY <1>2, <1>3, <1>4 DEF i
<1>7. ~(k < c)
  <2>1. SUFFICES ASSUME k < c
                 PROVE  FALSE
    OBVIOUS
  <2>2. k \in 1 .. numCalls
    BY <1>3, <2>1
  <2>3. Rounds[k] < i
    BY <1>2, <1>5, <2>1, <2>2 DEF i
  <2>4. k < k
    BY <1>4, <2>2, <2>3
  <2> QED
    BY <1>3, <2>4
<1>8. c = k
  BY <1>3, <1>6, <1>7
<1>9. \A d \in 1 .. numCalls : Rounds[d] = i => d = k
  <2> TAKE d \in 1 .. numCalls
  <2> HAVE Rounds[d] = i
  <2>1. ~(d < k) /\ ~(k < d)
    BY <1>2, <1>3, <1>4, <1>5, <1>8 DEF i
  <2> QED
    BY <1>3, <2>1
<1>10. Round(p) = k
  BY <1>2, <1>8, <1>9 DEF Round, i
<1> QED
  BY <1>1, <1>2, <1>8, <1>10 DEF k

\* Lists of the loops and of the evaluation are the same.
LEMMA SameLists ==
  /\ NetP!Party = Party /\ NetP!Call = 1 .. numCalls
  /\ \A n : NetP!Vec(n) = Vec(n)
  /\ \A x, n : NetP!VecTotal(x, n) = VecTotal(x, n)
BY DEF NetP!Party, Party, NetP!Call, NetP!Vec, Vec, NetP!Ring, Ring,
       NetP!VecTotal, VecTotal, NetP!Total, Total, NetP!Partial, Partial

\* What a call has returned is a list of that call.
LEMMA ReturnedList ==
  ASSUME NetP!IInv, NEW p \in Party, NEW c \in 1 .. numCalls, c < call[p]
  PROVE  res[p][c] \in Vec(numShares[c]) /\ res[p][c] # <<>>
<1>1. p \in NetP!Party /\ c \in NetP!Call
  BY SameLists
<1>2. \A r \in NetP!Party : NetP!Entered(r, c)
  BY <1>1, NetAssumptions, NetP!AllEntered
<1>3. NetP!SumOf(c) \in NetP!Vec(numShares[c])
  BY <1>1, <1>2, NetAssumptions, NetP!SumOfList
<1>4. res[p][c] = NetP!SumOf(c)
  BY <1>1 DEF NetP!IInv, NetP!DataInv
<1>5. NetP!None \notin NetP!Vec(numShares[c])
  BY <1>1, NetAssumptions, NetP!ListNotNone
<1> QED
  BY <1>3, <1>4, <1>5, SameLists DEF NetP!None

LEMMA ToReconstructTyped ==
  ASSUME OInv, NEW p \in Party, call[p] \in 1 .. numCalls + 1, Running(p), IsRound(Here(p))
  PROVE  ToReconstruct(p) \in Vec(numShares[call[p]])
<1> DEFINE c == call[p]
           s == Here(p)
           gs == OfType(s.level, "kEqz")
           list == res[p][c - 1]
<1>1. /\ c \in 1 .. numCalls /\ Rounds[c] = pc[p] /\ Round(p) = c
      /\ pc[p] \in 1 .. Len(Program)
  BY RoundHere DEF OInv
<1>2. /\ ValidStage(s) /\ IsRound(s) /\ s = Program[Rounds[c]] /\ numShares[c] = ListLength(s)
  BY <1>1, StageFacts, NumSharesFacts DEF Here
<1>3. SharesTyped /\ \A w \in Wires(gates) : wires[p][w] \in Ring
  BY DEF OInv, EvalInv, SharesTyped
<1>4. s.kind = "eqz2" => \A i \in 1 .. Len(gs) : list[i] \in Ring
  <2> SUFFICES ASSUME s.kind = "eqz2"
               PROVE  \A i \in 1 .. Len(gs) : list[i] \in Ring
    OBVIOUS
  <2>1. c - 1 \in 1 .. numCalls /\ Program[Rounds[c - 1]] = Stage("eqz1", s.level)
    BY <1>1, <1>2, RoundBefore
  <2>2. numShares[c - 1] = Len(gs)
    BY <2>1, NumSharesFacts DEF ListLength, Stage
  <2>3. c - 1 < c
    BY <1>1
  <2>4. list \in Vec(Len(gs))
    BY <2>1, <2>2, <2>3, ReturnedList DEF OInv
  <2> HIDE DEF list, gs
  <2> QED
    BY <2>4 DEF Vec
<1>5. ToReconstruct(p) = ListFor(p, s, wires[p], list)
  BY <1>1 DEF ToReconstruct
<1> HIDE DEF s, list
<1>6. ListFor(p, s, wires[p], list) \in Vec(ListLength(s))
  BY <1>2, <1>3, <1>4, ListForTyped
<1> QED
  BY <1>2, <1>5, <1>6

-----------------------------------------------------------------------------
(* The steps of the composition.                                             *)

\* The loops in the composition are the loops that ReconstructProofs is about.
LEMMA SameInit == Net!Init => NetP!Init
BY DEF Net!Init, NetP!Init, Net!NetInit, NetP!NetInit, Net!Node, NetP!Node,
       Net!None, NetP!None, Net!Party, NetP!Party, Net!Call, NetP!Call

LEMMA SameBegin ==
  ASSUME NEW p, NEW v
  PROVE  Net!BeginWith(p, v) <=> NetP!BeginWith(p, v)
BY DEF Net!BeginWith, NetP!BeginWith, Net!Replies, NetP!Replies, Net!pKing, NetP!pKing,
       Net!NextPeer, NetP!NextPeer, Net!LoopsOverAll, NetP!LoopsOverAll, Net!netVars, NetP!netVars

LEMMA SameSend ==
  ASSUME NEW p
  PROVE  /\ Net!SendShares(p) <=> NetP!SendShares(p)
         /\ Net!EndSend(p) <=> NetP!EndSend(p)
BY DEF Net!SendShares, NetP!SendShares, Net!EndSend, NetP!EndSend, Net!Send, NetP!Send,
       Net!Message, NetP!Message, Net!pKing, NetP!pKing,
       Net!NextPeer, NetP!NextPeer, Net!LoopsOverAll, NetP!LoopsOverAll, Net!netVars, NetP!netVars

LEMMA SameRecv ==
  ASSUME NEW p
  PROVE  /\ Net!EnterRecv(p) <=> NetP!EnterRecv(p)
         /\ Net!Recv(p) <=> NetP!Recv(p)
         /\ Net!Aggregate(p) <=> NetP!Aggregate(p)
<1>1. Net!EnterRecv(p) <=> NetP!EnterRecv(p)
  BY DEF Net!EnterRecv, NetP!EnterRecv, Net!FlushBeforeRecv, NetP!FlushBeforeRecv
<1>2. Net!Recv(p) <=> NetP!Recv(p)
  BY DEF Net!Recv, NetP!Recv, Net!TakeMessage, NetP!TakeMessage, Net!Arrived, NetP!Arrived,
         Net!pKing, NetP!pKing, Net!NextPeer, NetP!NextPeer, Net!LoopsOverAll, NetP!LoopsOverAll
<1>3. Net!Aggregate(p) <=> NetP!Aggregate(p)
  BY DEF Net!Aggregate, NetP!Aggregate, Net!Replies, NetP!Replies, Net!pKing, NetP!pKing,
         Net!NextPeer, NetP!NextPeer, Net!LoopsOverAll, NetP!LoopsOverAll,
         Net!netVars, NetP!netVars
<1> QED
  BY <1>1, <1>2, <1>3

LEMMA SameReconstructed ==
  ASSUME NEW p
  PROVE  Net!Reconstructed(p) = NetP!Reconstructed(p)
BY DEF Net!Reconstructed, NetP!Reconstructed, Net!LoopsOverAll, NetP!LoopsOverAll,
       Net!pKing, NetP!pKing, Net!VecTotal, NetP!VecTotal, Net!Total, NetP!Total,
       Net!Partial, NetP!Partial, Net!Party, NetP!Party

LEMMA SameReturn ==
  ASSUME NEW p
  PROVE  /\ Net!Reply(p) <=> NetP!Reply(p)
         /\ Net!Return(p) <=> NetP!Return(p)
<1>1. Net!Reply(p) <=> NetP!Reply(p)
  BY SameReconstructed
     DEF Net!Reply, NetP!Reply, Net!SendAndFlush, NetP!SendAndFlush, Net!Message, NetP!Message,
         Net!pKing, NetP!pKing, Net!NextPeer, NetP!NextPeer, Net!LoopsOverAll, NetP!LoopsOverAll
<1>2. Net!Return(p) <=> NetP!Return(p)
  BY SameReconstructed
     DEF Net!Return, NetP!Return, Net!Reconstructing, NetP!Reconstructing, Net!Call, NetP!Call,
         Net!Replies, NetP!Replies, Net!pKing, NetP!pKing, Net!None, NetP!None,
         Net!Party, NetP!Party, Net!netVars, NetP!netVars
<1> QED
  BY <1>1, <1>2

\* Calls and stages are in step in the initial states.
LEMMA OnlineInitInv == OnlineInit => OInv
<1> SUFFICES ASSUME OnlineInit
             PROVE  OInv
  OBVIOUS
<1>1. NetP!IInv
  BY SameInit, NetAssumptions, NetP!InitInv DEF OnlineInit
<1>2. GivenTyped
  BY SecureEvalAssumption DEF OnlineInit, Init, GivenTyped
<1>3. preproc \in [Party -> [Material -> Ring]]
  <2> DEFINE dealt == DealtShares(ItemOrder, stream)
  <2>1. /\ preproc = [p \in Party |-> [item \in Material |-> dealt[IndexOf(ItemOrder, item)][p]]]
        /\ stream \in Seq(Ring) /\ Len(stream) >= Len(ItemOrder)
    BY SecureEvalAssumption DEF OnlineInit, Init
  <2>2. ASSUME NEW p \in Party, NEW item \in Material
        PROVE  dealt[IndexOf(ItemOrder, item)][p] \in Ring
    <3>1. \E k \in DOMAIN ItemOrder : ItemOrder[k] = item
      BY DEF Material, ItemSet, ItemOrder
    <3>2. IndexOf(ItemOrder, item) \in DOMAIN ItemOrder
      BY <3>1 DEF IndexOf
    <3> QED
      BY <2>1, <3>2, SecureEvalAssumption, DealtTyped DEF ItemOrder
  <2> QED
    BY <2>1, <2>2
<1>4. wires \in [Party -> [Wires(gates) -> Ring]]
  BY RingFacts DEF OnlineInit, Init
<1>5. pc \in [Party -> 1 .. Len(Program) + 1] /\ \A p \in Party : pc[p] = 1
  BY StageFacts DEF OnlineInit, Init
<1>6. ASSUME NEW p \in Party
      PROVE  AtCall(p)
  <2>1. call[p] = 1 /\ phase[p] = "idle"
    BY DEF OnlineInit, Net!Init, Net!Party, Party
  <2>2. ASSUME NEW c \in 1 .. numCalls
        PROVE  ~(c < call[p]) /\ ~(Rounds[c] < pc[p])
    BY <1>5, <2>1, RoundsFacts
  <2> QED
    BY <2>1, <2>2 DEF AtCall
<1> QED
  BY <1>1, <1>2, <1>3, <1>4, <1>5, <1>6 DEF OInv, EvalInv, SharesTyped

\* A party that enters a call passes on a list of the length of that call.
LEMMA EntersCall ==
  ASSUME OInv, NEW p \in Party, CallReconstruct(p)
  PROVE  /\ NetP!Begin(p)
         /\ call[p] \in 1 .. numCalls /\ Round(p) = call[p]
         /\ ToReconstruct(p) \in Vec(numShares[call[p]])
         /\ phase[p] = "idle"
<1>1. call[p] \in 1 .. numCalls + 1
  BY SameLists DEF OInv, NetP!IInv, NetP!TypeOK
<1>2. Running(p) /\ IsRound(Here(p)) /\ Net!BeginWith(p, ToReconstruct(p))
  BY DEF CallReconstruct
<1>3. call[p] \in 1 .. numCalls /\ Round(p) = call[p]
  BY <1>1, <1>2, RoundHere DEF OInv
<1>4. ToReconstruct(p) \in Vec(numShares[call[p]])
  BY <1>1, <1>2, ToReconstructTyped
<1>5. NetP!BeginWith(p, ToReconstruct(p))
  BY <1>2, SameBegin
<1>6. phase[p] = "idle"
  BY <1>5 DEF NetP!BeginWith
<1>7. NetP!Reconstructing(p)
  BY <1>3, SameLists DEF NetP!Reconstructing
<1>8. ToReconstruct(p) \in NetP!Vec(numShares[call[p]])
  BY <1>4, SameLists
<1>9. NetP!Begin(p)
  BY <1>5, <1>7, <1>8 DEF NetP!Begin
<1> QED
  BY <1>3, <1>4, <1>6, <1>9

\* A party that is inside reconstruct is at the stage of its call.
LEMMA InsideCall ==
  ASSUME OInv, NEW p \in Party, phase[p] # "idle"
  PROVE  /\ Running(p) /\ IsRound(Here(p))
         /\ call[p] \in 1 .. numCalls /\ Rounds[call[p]] = pc[p] /\ Round(p) = call[p]
         /\ pc[p] \in 1 .. Len(Program)
<1>1. call[p] \in 1 .. numCalls + 1
  BY SameLists DEF OInv, NetP!IInv, NetP!TypeOK
<1>2. Running(p) /\ IsRound(Here(p))
  BY DEF OInv, EvalInv, AtCall
<1> QED
  BY <1>1, <1>2, RoundHere DEF OInv

\* What reconstruct returns is the sum of the lists of its call.
LEMMA ReturnsSum ==
  ASSUME OInv, NEW p \in Party, Net!Return(p)
  PROVE  /\ NetP!Return(p)
         /\ phase[p] # "idle" /\ call[p] \in 1 .. numCalls
         /\ \A q \in Party : arg[q][call[p]] # <<>>
         /\ res[p][call[p]] = <<>>
         /\ res' = [res EXCEPT ![p][call[p]] =
                      VecTotal([q \in Party |-> arg[q][call[p]]], numShares[call[p]])]
         /\ res'[p][call[p]] \in Vec(numShares[call[p]])
         /\ UNCHANGED arg
         /\ call' = [call EXCEPT ![p] = call[p] + 1]
         /\ phase' = [phase EXCEPT ![p] = "idle"]
<1>1. NetP!Return(p) /\ p \in NetP!Party /\ NetP!IInv
  BY SameReturn, SameLists DEF OInv
<1>2. /\ phase[p] # "idle" /\ call[p] \in NetP!Call
      /\ \A q \in NetP!Party : NetP!Entered(q, call[p])
      /\ NetP!Reconstructed(p) = NetP!SumOf(call[p])
  BY <1>1, NetAssumptions, NetP!ReturnFacts
<1>3. NetP!SumOf(call[p]) \in NetP!Vec(numShares[call[p]])
  BY <1>1, <1>2, NetAssumptions, NetP!SumOfList
<1>4. /\ res' = [res EXCEPT ![p][call[p]] = NetP!SumOf(call[p])]
      /\ UNCHANGED arg
      /\ call' = [call EXCEPT ![p] = call[p] + 1]
      /\ phase' = [phase EXCEPT ![p] = "idle"]
  BY <1>1, <1>2 DEF NetP!Return
<1>5. NetP!SumOf(call[p]) = VecTotal([q \in Party |-> arg[q][call[p]]], numShares[call[p]])
  BY SameLists DEF NetP!SumOf
<1>6. \A q \in Party : arg[q][call[p]] # <<>>
  BY <1>1, <1>2, SameLists DEF NetP!IInv, NetP!DataInv, NetP!None
<1>7. call[p] \in Int
  BY <1>2, SameLists
<1>8. res[p][call[p]] = <<>>
  BY <1>1, <1>2, <1>7 DEF NetP!IInv, NetP!DataInv, NetP!None
<1>9. res'[p][call[p]] = NetP!SumOf(call[p])
  <2>1. res \in [Party -> [1 .. numCalls -> NetP!Lists \cup {NetP!None}]]
    BY <1>1, SameLists DEF NetP!IInv, NetP!TypeOK
  <2> QED
    BY <1>2, <1>4, <2>1, SameLists
<1> QED
  BY <1>1, <1>2, <1>3, <1>4, <1>5, <1>6, <1>8, <1>9, SameLists

\* A step that leaves the evaluation alone.
LEMMA EvalFramed ==
  ASSUME EvalInv, UNCHANGED evalVars, call' = call,
         \A q \in Party : phase'[q] # "idle" => Running(q) /\ IsRound(Here(q))
  PROVE  EvalInv'
<1>1. UNCHANGED <<given, stream, preproc, wires, pc>>
  BY DEF evalVars
<1>2. GivenTyped' /\ SharesTyped'
  BY <1>1 DEF EvalInv, GivenTyped, SharesTyped
<1>3. (pc \in [Party -> 1 .. Len(Program) + 1])'
  BY <1>1 DEF EvalInv
<1>4. ASSUME NEW q \in Party
      PROVE  AtCall(q)'
  BY <1>1 DEF EvalInv, AtCall, Running, Here
<1> QED
  BY <1>2, <1>3, <1>4 DEF EvalInv

\* A party that moves on to the next stage, after its call at a stage that
\* reconstructs and with no call at any other.
LEMMA EvalAdvances ==
  ASSUME EvalInv, NEW p \in Party, Running(p), call[p] \in Nat,
         UNCHANGED <<given, stream, preproc>>,
         NEW new \in [Wires(gates) -> Ring], wires' = [wires EXCEPT ![p] = new],
         pc' = [pc EXCEPT ![p] = pc[p] + 1],
         phase'[p] = "idle",
         \A q \in Party \ {p} : phase'[q] = phase[q] /\ call'[q] = call[q],
         \/ ~IsRound(Here(p)) /\ call'[p] = call[p]
         \/ /\ call[p] \in 1 .. numCalls /\ Rounds[call[p]] = pc[p]
            /\ call'[p] = call[p] + 1
  PROVE  EvalInv'
<1>1. GivenTyped'
  BY DEF EvalInv, GivenTyped
<1>2. SharesTyped'
  BY DEF EvalInv, SharesTyped
<1>3. pc[p] \in 1 .. Len(Program) /\ pc \in [Party -> 1 .. Len(Program) + 1]
      /\ pc'[p] = pc[p] + 1
  BY StageFacts DEF EvalInv, Running
<1>4. (pc \in [Party -> 1 .. Len(Program) + 1])'
  BY <1>3, StageFacts
<1>5. ASSUME NEW q \in Party, q # p
      PROVE  AtCall(q)'
  <2>1. pc'[q] = pc[q] /\ phase'[q] = phase[q] /\ call'[q] = call[q] /\ AtCall(q)
    BY <1>3, <1>5 DEF EvalInv
  <2> QED
    BY <2>1 DEF AtCall, Running, Here
<1> DEFINE i == pc[p]
           k == call[p]
<1>6. \A c \in 1 .. numCalls : Rounds[c] \in Nat /\ (c < k <=> Rounds[c] < i)
  BY RoundsFacts DEF EvalInv, AtCall
<1>7. numCalls \in Nat /\ i \in Nat /\ k \in Nat
  BY <1>3, RoundsFacts
<1>8. CASE ~IsRound(Here(p)) /\ call'[p] = call[p]
  <2>1. \A c \in 1 .. numCalls : Rounds[c] # i
    BY <1>8, RoundsFacts DEF Here
  <2> HIDE DEF i, k
  <2>2. \A c \in 1 .. numCalls : Rounds[c] < i <=> Rounds[c] < i + 1
    BY <1>6, <1>7, <2>1
  <2>3. \A c \in 1 .. numCalls : c < call'[p] <=> Rounds[c] < pc'[p]
    BY <1>3, <1>6, <1>8, <2>2 DEF i, k
  <2>4. AtCall(p)'
    BY <2>3 DEF AtCall
  <2> QED
    BY <1>1, <1>2, <1>4, <1>5, <2>4 DEF EvalInv
<1>9. CASE /\ call[p] \in 1 .. numCalls /\ Rounds[call[p]] = pc[p]
           /\ call'[p] = call[p] + 1
  <2>1. k \in 1 .. numCalls /\ Rounds[k] = i
    BY <1>9
  <2> HIDE DEF i, k
  <2>2. ASSUME NEW c \in 1 .. numCalls
        PROVE  c < k + 1 <=> Rounds[c] < i + 1
    <3>1. CASE c < k
      BY <1>6, <1>7, <3>1
    <3>2. CASE c = k
      BY <1>6, <1>7, <2>1, <3>2
    <3>3. CASE k < c
      <4>1. i < Rounds[c]
        BY <2>1, <3>3, RoundsFacts
      <4> QED
        BY <1>6, <1>7, <3>3, <4>1
    <3> QED
      BY <1>7, <3>1, <3>2, <3>3
  <2>3. \A c \in 1 .. numCalls : c < call'[p] <=> Rounds[c] < pc'[p]
    BY <1>3, <1>9, <2>2 DEF i, k
  <2>4. AtCall(p)'
    BY <2>3 DEF AtCall
  <2> QED
    BY <1>1, <1>2, <1>4, <1>5, <2>4 DEF EvalInv
<1> QED
  BY <1>8, <1>9

\* A step of the loops.
LEMMA NetStepInv ==
  ASSUME OInv, NEW p \in Party, NetP!Step(p)
  PROVE  NetP!IInv'
<1>1. NetP!Next
  BY SameLists DEF NetP!Next
<1> QED
  BY <1>1, NetAssumptions, NetP!StepInv DEF OInv

LEMMA CallReconstructInv ==
  ASSUME OInv, NEW p \in Party, CallReconstruct(p)
  PROVE  OInv'
<1>1. NetP!Begin(p) /\ UNCHANGED evalVars /\ Running(p) /\ IsRound(Here(p))
  BY EntersCall DEF CallReconstruct
<1>2. NetP!IInv'
  BY <1>1, NetStepInv DEF NetP!Step
<1>3. call' = call /\ \A q \in Party \ {p} : phase'[q] = phase[q]
  <2>1. PICK x : phase' = [phase EXCEPT ![p] = x]
    BY <1>1 DEF NetP!Begin, NetP!BeginWith
  <2>2. phase \in [Party -> {"idle", "send", "recv", "wait", "reply"}]
    BY SameLists DEF OInv, NetP!IInv, NetP!TypeOK
  <2> QED
    BY <1>1, <2>1, <2>2 DEF NetP!Begin, NetP!BeginWith
<1>4. \A q \in Party : phase'[q] # "idle" => Running(q) /\ IsRound(Here(q))
  BY <1>1, <1>3 DEF OInv, EvalInv, AtCall
<1> QED
  BY <1>1, <1>2, <1>3, <1>4, EvalFramed DEF OInv

\* The messages of a call: no party enters or leaves one.
LEMMA Communicates ==
  ASSUME OInv, NEW p \in Party, Communicate(p)
  PROVE  /\ NetP!Step(p)
         /\ UNCHANGED <<arg, res, call>>
         /\ \A q \in Party : phase'[q] # "idle" => phase[q] # "idle"
<1>1. \/ NetP!SendShares(p) \/ NetP!EndSend(p)   \/ NetP!EnterRecv(p)
      \/ NetP!Recv(p)       \/ NetP!Aggregate(p) \/ NetP!Reply(p)
  BY SameSend, SameRecv, SameReturn DEF Communicate
<1>2. UNCHANGED <<arg, res, call>>
  BY <1>1 DEF NetP!SendShares, NetP!EndSend, NetP!EnterRecv, NetP!Recv, NetP!Aggregate, NetP!Reply
<1>3. phase[p] # "idle" /\ (phase' = phase \/ \E x : phase' = [phase EXCEPT ![p] = x])
  BY <1>1 DEF NetP!SendShares, NetP!EndSend, NetP!EnterRecv, NetP!Recv, NetP!Aggregate, NetP!Reply
<1>4. phase \in [Party -> {"idle", "send", "recv", "wait", "reply"}]
  BY SameLists DEF OInv, NetP!IInv, NetP!TypeOK
<1> QED
  BY <1>1, <1>2, <1>3, <1>4 DEF NetP!Step

LEMMA CommunicateInv ==
  ASSUME OInv, NEW p \in Party, Communicate(p)
  PROVE  OInv'
<1>1. NetP!IInv'
  BY Communicates, NetStepInv
<1>2. \A q \in Party : phase'[q] # "idle" => Running(q) /\ IsRound(Here(q))
  BY Communicates DEF OInv, EvalInv, AtCall
<1>3. UNCHANGED evalVars /\ call' = call
  BY Communicates DEF Communicate
<1> QED
  BY <1>1, <1>2, <1>3, EvalFramed DEF OInv

LEMMA GoOnInv ==
  ASSUME OInv, NEW p \in Party, GoOn(p)
  PROVE  OInv'
<1>1. Net!Return(p) /\ Resume(p)
  BY DEF GoOn
<1>2. NetP!IInv'
  BY <1>1, ReturnsSum, NetStepInv DEF NetP!Step
<1> DEFINE c == call[p]
           list == res'[p][c]
           gs == SetBy(Program[Rounds[c]])
           new == [w \in Wires(gates) |->
                     IF \E i \in DOMAIN gs : gs[i].out = w
                     THEN LET i == CHOOSE i \in DOMAIN gs : gs[i].out = w
                          IN  Opened(p, gs[i], i, list)
                     ELSE wires[p][w]]
<1>3. /\ Running(p) /\ c \in 1 .. numCalls /\ Rounds[c] = pc[p] /\ Round(p) = c
      /\ list \in Vec(numShares[c])
  BY <1>1, InsideCall, ReturnsSum
<1>4. new \in [Wires(gates) -> Ring]
  BY <1>3, OpenedWires DEF OInv, EvalInv
<1>5. UNCHANGED <<given, stream, preproc>> /\ wires' = [wires EXCEPT ![p] = new]
  BY <1>1, <1>3 DEF Resume, Here
<1>6. pc' = [pc EXCEPT ![p] = pc[p] + 1]
  BY <1>1 DEF Resume
<1> HIDE DEF new, list
<1>7. /\ phase'[p] = "idle" /\ call'[p] = c + 1
      /\ \A q \in Party \ {p} : phase'[q] = phase[q] /\ call'[q] = call[q]
  <2>1. /\ phase \in [Party -> {"idle", "send", "recv", "wait", "reply"}]
        /\ call \in [Party -> 1 .. numCalls + 1]
    BY SameLists DEF OInv, NetP!IInv, NetP!TypeOK
  <2>2. call' = [call EXCEPT ![p] = c + 1] /\ phase' = [phase EXCEPT ![p] = "idle"]
    BY <1>1, ReturnsSum
  <2> HIDE DEF c
  <2> QED
    BY <2>1, <2>2
<1>8. c \in Nat
  BY <1>3, RoundsFacts
<1>9. EvalInv'
  BY <1>3, <1>4, <1>5, <1>6, <1>7, <1>8, EvalAdvances DEF OInv
<1> QED
  BY <1>2, <1>9 DEF OInv

LEMMA ComputeInv ==
  ASSUME OInv, NEW p \in Party, Compute(p)
  PROVE  OInv'
<1>1. /\ phase[p] = "idle" /\ UNCHANGED netVars /\ UNCHANGED <<arg, res>>
      /\ Running(p) /\ ~IsRound(Here(p))
      /\ UNCHANGED <<given, stream, preproc>>
      /\ pc' = [pc EXCEPT ![p] = pc[p] + 1]
  BY DEF Compute, SetInputs, Local, IsRound
<1>2. UNCHANGED <<chan, inSock, sent, phase, call, at, share_recv, arg, res>>
  BY <1>1 DEF netVars
<1>3. NetP!IInv'
  <2>1. UNCHANGED NetP!vars
    BY <1>2 DEF NetP!vars, NetP!netVars, NetP!pcVars
  <2> QED
    BY <2>1, NetAssumptions, NetP!StepInv DEF OInv
<1>4. PICK new \in [Wires(gates) -> Ring] : wires' = [wires EXCEPT ![p] = new]
  <2>1. CASE SetInputs(p)
    <3> DEFINE new == [w \in Wires(gates) |->
              IF w \in InputWires(gates)
              THEN InputsOf(p).share[InputNo(w)]
              ELSE wires[p][w]]
    <3>1. new \in [Wires(gates) -> Ring]
      BY InputsTyped DEF OInv, EvalInv
    <3>2. wires' = [wires EXCEPT ![p] = new]
      BY <2>1 DEF SetInputs
    <3> QED
      BY <3>1, <3>2
  <2>2. CASE Local(p)
    <3>1. Here(p).level \in 1 .. Len(Levels)
      <4>1. pc[p] \in 1 .. Len(Program)
        BY <1>1, StageFacts DEF OInv, EvalInv, Running
      <4>2. ValidStage(Here(p)) /\ Here(p).kind # "outputs"
        BY <2>2, <4>1, StageFacts DEF Local, Here
      <4> QED
        BY <4>2 DEF ValidStage
    <3>2. LocalWires(p, Here(p).level) \in [Wires(gates) -> Ring]
      BY <3>1, LocalTyped DEF OInv, EvalInv
    <3>3. wires' = [wires EXCEPT ![p] = LocalWires(p, Here(p).level)]
      BY <2>2 DEF Local, LocalWires
    <3> QED
      BY <3>2, <3>3
  <2> QED
    BY <2>1, <2>2 DEF Compute
<1>5. call[p] \in Nat
  <2>1. call[p] \in 1 .. numCalls + 1
    BY SameLists DEF OInv, NetP!IInv, NetP!TypeOK
  <2> QED
    BY <2>1, RoundsFacts
<1>6. EvalInv'
  BY <1>1, <1>2, <1>4, <1>5, EvalAdvances DEF OInv
<1> QED
  BY <1>3, <1>6 DEF OInv

LEMMA OnlineStepInv == OInv /\ [OnlineNext]_onlineVars => OInv'
<1> SUFFICES ASSUME OInv, [OnlineNext]_onlineVars
             PROVE  OInv'
  OBVIOUS
<1>1. CASE UNCHANGED onlineVars
  <2>1. /\ UNCHANGED <<chan, inSock, sent, phase, call, at, share_recv, arg, res>>
        /\ UNCHANGED evalVars
    BY <1>1 DEF onlineVars, vars, netVars, evalVars
  <2>2. UNCHANGED NetP!vars
    BY <2>1 DEF NetP!vars, NetP!netVars, NetP!pcVars
  <2>3. NetP!IInv'
    BY <2>2, NetAssumptions, NetP!StepInv DEF OInv
  <2>4. \A q \in Party : phase'[q] # "idle" => Running(q) /\ IsRound(Here(q))
    BY <2>1 DEF OInv, EvalInv, AtCall
  <2> QED
    BY <2>1, <2>3, <2>4, EvalFramed DEF OInv
<1>2. ASSUME NEW p \in Party, OnlineStep(p)
      PROVE  OInv'
  BY <1>2, CallReconstructInv, CommunicateInv, GoOnInv, ComputeInv DEF OnlineStep
<1> QED
  BY <1>1, <1>2 DEF OnlineNext

\* The inductive invariant of the composition: the invariant of the loops, with
\* every party at the stage of the call it makes.
THEOREM OnlineInvariance == OnlineSpec => []OInv
BY OnlineInitInv, OnlineStepInv, PTL DEF OnlineSpec

-----------------------------------------------------------------------------
(* Evaluation over the channels takes the steps of evaluation with abstract  *)
(* calls.                                                                    *)

\* Entering a call is the abstract Enter.
LEMMA EntersAbstractly ==
  ASSUME OInv, NEW p \in Party, CallReconstruct(p)
  PROVE  Enter(p)
<1> DEFINE c == call[p]
           v == ToReconstruct(p)
<1>1. /\ NetP!Begin(p) /\ c \in 1 .. numCalls /\ Round(p) = c /\ phase[p] = "idle"
      /\ Running(p) /\ IsRound(Here(p)) /\ Net!BeginWith(p, v) /\ UNCHANGED evalVars
  BY EntersCall DEF CallReconstruct
<1>2. p \in NetP!Party /\ c \in NetP!Call /\ c \in Int
  BY <1>1, SameLists
<1>3. arg[p][c] = <<>>
  BY <1>1, <1>2 DEF OInv, NetP!IInv, NetP!DataInv, NetP!Entered, NetP!None
<1>4. \A b \in 1 .. c - 1 : res[p][b] # <<>>
  <2> TAKE b \in 1 .. c - 1
  <2>1. b \in 1 .. numCalls /\ b < call[p]
    BY <1>1, RoundsFacts
  <2> QED
    BY <2>1, ReturnedList DEF OInv
<1>5. arg' = [arg EXCEPT ![p][c] = v] /\ UNCHANGED res
  BY <1>1 DEF Net!BeginWith
<1>6. Exchange!Enter(p, c, v)
  BY <1>3, <1>4, <1>5 DEF Exchange!Enter, Exchange!None
<1>7. UNCHANGED <<given, stream, drawn, preproc, wires, pc, outvals>>
  BY <1>1 DEF evalVars
<1> QED
  BY <1>1, <1>6, <1>7 DEF Enter

\* Going on after a call is the abstract Leave.
LEMMA LeavesAbstractly ==
  ASSUME OInv, NEW p \in Party, GoOn(p)
  PROVE  Leave(p)
<1> DEFINE c == call[p]
<1>1. Net!Return(p) /\ Resume(p)
  BY DEF GoOn
<1>2. /\ phase[p] # "idle" /\ \A q \in Party : arg[q][c] # <<>>
      /\ res[p][c] = <<>>
      /\ res' = [res EXCEPT ![p][c] = VecTotal([q \in Party |-> arg[q][c]], numShares[c])]
      /\ UNCHANGED arg
  BY <1>1, ReturnsSum
<1>3. Running(p) /\ IsRound(Here(p)) /\ Round(p) = c
  BY <1>2, InsideCall
<1>4. /\ Exchange!Party = Party
      /\ \A x, n : Exchange!VecTotal(x, n) = VecTotal(x, n)
  BY DEF Exchange!Party, Party, Exchange!VecTotal, VecTotal, Exchange!Total, Total,
         Exchange!Partial, Partial
<1>5. Exchange!Leave(p, c)
  BY <1>2, <1>4 DEF Exchange!Leave, Exchange!None
<1> QED
  BY <1>1, <1>3, <1>5 DEF Leave

LEMMA StepsAbstractly == OInv /\ [OnlineNext]_onlineVars => [Next]_vars
<1> SUFFICES ASSUME OInv, [OnlineNext]_onlineVars
             PROVE  Next \/ UNCHANGED vars
  BY DEF vars
<1>1. CASE UNCHANGED onlineVars
  BY <1>1 DEF onlineVars
<1>2. ASSUME NEW p \in Party, CallReconstruct(p)
      PROVE  Next
  BY <1>2, EntersAbstractly DEF Next, Step
<1>3. ASSUME NEW p \in Party, GoOn(p)
      PROVE  Next
  BY <1>3, LeavesAbstractly DEF Next, Step
<1>4. ASSUME NEW p \in Party, Communicate(p)
      PROVE  UNCHANGED vars
  BY <1>4, Communicates DEF Communicate, evalVars, vars
<1>5. ASSUME NEW p \in Party, Compute(p)
      PROVE  Next
  BY <1>5 DEF Compute, Next, Step
<1> QED
  BY <1>1, <1>2, <1>3, <1>4, <1>5 DEF OnlineNext, OnlineStep

\* Evaluation over the channels implements the evaluation with abstract calls:
\* the safety part of ImplementsSecureEval, whose fairness TLC checks.
THEOREM EvaluatesAbstractly == OnlineSpec => Init /\ [][Next]_vars
<1>1. OnlineInit => Init
  BY DEF OnlineInit
<1> QED
  BY <1>1, OnlineInvariance, StepsAbstractly, PTL DEF OnlineSpec

\* So the parties that exchange real messages return the outputs of the circuit
\* on the plaintext inputs, unless an equality test wraps.
THEOREM OnlineOutputsCorrect == OnlineSpec => [](OneSided(given) => OutputsCorrectUnlessWrap)
BY EvaluatesAbstractly, OutputsCorrectAlways, PTL

-----------------------------------------------------------------------------
\* A party that has returned its outputs leaves nothing behind on its side of
\* the network: nothing to read, and nothing in a buffer that it would have to
\* flush.
THEOREM CleanWhenReturnedAlways == OnlineSpec => []CleanWhenReturned
<1>1. OInv => CleanWhenReturned
  <2> SUFFICES ASSUME OInv, NEW p \in Party, NEW q \in Party, ~Running(p)
               PROVE  chan[q][p] = <<>> /\ inSock[p][q] = Len(chan[p][q])
    BY DEF CleanWhenReturned
  <2>1. \A c \in 1 .. numCalls : c < call[p]
    <3>1. pc[p] \in 1 .. Len(Program) + 1 /\ ~(pc[p] <= Len(Program))
      BY DEF OInv, EvalInv, Running
    <3>2. \A c \in 1 .. numCalls : Rounds[c] \in 1 .. Len(Program)
      BY RoundsFacts
    <3>3. \A c \in 1 .. numCalls : Rounds[c] < pc[p]
      BY <3>1, <3>2, StageFacts
    <3> QED
      BY <3>3 DEF OInv, EvalInv, AtCall
  <2>2. p \in NetP!Party /\ q \in NetP!Party /\ NetP!IInv
    BY SameLists DEF OInv
  <2>3. \A x, y \in Party : \A i \in 1 .. Len(chan[x][y]) : chan[x][y][i].call \in 1 .. numCalls
    BY <2>2, SameLists, NetAssumptions, NetP!ChannelTyped DEF NetP!IInv
  <2>4. chan[q][p] = <<>>
    <3>1. SUFFICES ASSUME chan[q][p] # <<>>
                   PROVE  FALSE
      OBVIOUS
    <3>2. 1 \in 1 .. Len(chan[q][p])
      BY <2>2, <3>1, NetAssumptions, NetP!ChannelTyped DEF NetP!IInv
    <3> DEFINE c == chan[q][p][1].call
    <3>3. c \in NetP!Call /\ c < call[p]
      BY <2>1, <2>3, <3>2, SameLists
    <3>4. NetP!InFlight(q, p, c)
      BY <2>2, <3>2, <3>3 DEF NetP!IInv, NetP!ChannelInv
    <3> HIDE DEF c
    <3>5. NetP!TakenIn(p, q, c)
      BY <3>3, <3>4 DEF NetP!InFlight, NetP!SentIn, NetP!TakenIn
    <3> QED
      BY <3>4, <3>5 DEF NetP!InFlight
  <2>5. inSock[p][q] = Len(chan[p][q])
    <3>1. inSock[p][q] \in 0 .. Len(chan[p][q]) /\ Len(chan[p][q]) \in Nat
      BY <2>2, NetAssumptions, NetP!ChannelTyped DEF NetP!IInv, NetP!FlushInv
    <3>2. ASSUME Len(chan[p][q]) # 0
          PROVE  Len(chan[p][q]) <= inSock[p][q]
      <4>1. Len(chan[p][q]) \in 1 .. Len(chan[p][q])
        BY <3>1, <3>2
      <4>2. chan[p][q][Len(chan[p][q])].call < call[p]
        BY <2>1, <2>3, <4>1
      <4> QED
        BY <2>2, <4>1, <4>2 DEF NetP!IInv, NetP!FlushInv
    <3> QED
      BY <3>1, <3>2
  <2> QED
    BY <2>4, <2>5
<1> QED
  BY <1>1, OnlineInvariance, PTL
-----------------------------------------------------------------------------
\* A party waits for a message that is not there.
Waits(p) == phase[p] = "wait" /\ ~Net!Arrived(p, at[p])

SomebodyGoesOn == Done \/ \E p \in Party : Running(p) /\ ~Waits(p)

\* Until all parties have returned their outputs, one that has not can take its
\* next step: the calls are made in one order by all parties, and within a
\* call somebody always has what it waits for (online_evaluator_load_balanced.cpp:65,
\* netmp.h:162).
THEOREM OnlineDeadlockFree == OnlineSpec => []SomebodyGoesOn
<1>1. OInv => SomebodyGoesOn
  <2> SUFFICES ASSUME OInv, ~Done
               PROVE  \E p \in Party : Running(p) /\ ~Waits(p)
    BY DEF SomebodyGoesOn
  <2>1. NetP!IInv
    BY DEF OInv
  <2>2. NetP!NoDeadlock
    BY <2>1, NetAssumptions, NetP!InvDeadlockFree
  <2>3. ASSUME NEW p \in Party, NetP!Reconstructing(p), ~NetP!Blocked(p)
        PROVE  Running(p) /\ ~Waits(p)
    <3>1. call[p] \in 1 .. numCalls
      BY <2>3, SameLists DEF NetP!Reconstructing
    <3> DEFINE c == call[p]
    <3>2. Rounds[c] \in 1 .. Len(Program) /\ ~(Rounds[c] < pc[p])
      BY <3>1, RoundsFacts DEF OInv, EvalInv, AtCall
    <3>3. pc[p] \in 1 .. Len(Program) + 1 /\ Len(Program) \in Nat
      BY StageFacts DEF OInv, EvalInv
    <3> HIDE DEF c
    <3>4. Running(p)
      BY <3>2, <3>3 DEF Running
    <3> QED
      BY <2>3, <3>4 DEF Waits, Net!Arrived, NetP!Blocked, NetP!Arrived
  <2>4. CASE \E p \in NetP!Party : NetP!Reconstructing(p) /\ ~NetP!Blocked(p)
    BY <2>3, <2>4, SameLists
  <2>5. CASE NetP!AllReturned
    <3>1. PICK p \in Party : Running(p)
      BY DEF Done
    <3>2. phase[p] = "idle"
      <4>1. call[p] > numCalls
        BY <2>5, SameLists DEF NetP!AllReturned
      <4>2. ~(call[p] \in 1 .. numCalls)
        BY <4>1, RoundsFacts
      <4> QED
        BY <2>1, <4>2, SameLists DEF NetP!IInv, NetP!TypeOK, NetP!Reconstructing
    <3> QED
      BY <3>1, <3>2 DEF Waits
  <2> QED
    BY <2>2, <2>4, <2>5 DEF NetP!NoDeadlock
<1> QED
  BY <1>1, OnlineInvariance, PTL
=============================================================================
