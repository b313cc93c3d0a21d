----------------------------- MODULE ConnectProofs -----------------------------
(***************************************************************************)
(* Connecting for any number of nodes and threads: the ports pair the ends  *)
(* of the connections, and the constructors never wait in a circle.         *)
(***************************************************************************)
EXTENDS Connect, OpsProofs
-----------------------------------------------------------------------------
(***************************************************************************)
(* The inductive invariant behind RightPeer and NoDeadlock.                 *)
(***************************************************************************)

\* Connection c of p and q on p: the iteration that makes it, its place there,
\* and whether it has been made.
IterOf(p, q) == IF p < q THEN p ELSE q
PlaceOf(p, q, c) == (IF p < q THEN 2 * (q - p) - 2 ELSE 0) + (IF c = "ios" THEN 1 ELSE 2)
HasMade(p, q, c) == made[p][IterOf(p, q)] >= PlaceOf(p, q, c)

\* Who is in accept makes a connection as its server; what is in the queue is
\* the other end of that connection, which has been made there.
ListenInv ==
  \A p, i \in Node :
    /\ stage[p][i] = "accept" => ~Complete(p, i) /\ ~AsClient(p, i)
    /\ queue[p][i] # <<>> =>
         /\ stage[p][i] = "accept"
         /\ HasMade(NextPeer(p, i), p, NextConn(p, i))
    /\ \A n \in 1 .. Len(queue[p][i]) :
         queue[p][i][n] = <<NextPeer(p, i), p, NextConn(p, i)>>

\* The client of a connection makes it first, and then waits in the queue of
\* the server until that has made it too.
PairInv ==
  \A p, q \in Node, c \in Conn :
    p # q /\ IsClient(p, q, c) =>
      /\ HasMade(q, p, c) => HasMade(p, q, c)
      /\ HasMade(p, q, c) /\ ~HasMade(q, p, c) =>
           LET i == IterOf(p, q)
           IN  queue[q][i] # <<>> /\ NextPeer(q, i) = p /\ NextConn(q, i) = c

IInv == TypeOK /\ RightPeer /\ ListenInv /\ PairInv
-----------------------------------------------------------------------------

\* A position in a list of pairs tells the pair.
LEMMA PairNumbers ==
  ASSUME NEW m \in Nat, NEW i \in 0 .. m - 1, NEW k \in 0 .. m - 1,
         NEW j \in 0 .. m - 1, NEW l \in 0 .. m - 1,
         i * m + j = k * m + l
  PROVE  i = k /\ j = l
<1>1. ASSUME NEW a \in 0 .. m - 1, NEW b \in 0 .. m - 1, a < b
      PROVE  b * m >= a * m + m
  <2>1. PICK d \in Nat : b = a + 1 + d
    <3>1. b - a - 1 \in Nat /\ b = a + 1 + (b - a - 1)
      BY <1>1
    <3> QED
      BY <3>1
  <2>2. (a + 1 + d) * m = a * m + m + d * m
    OBVIOUS
  <2>3. d * m >= 0
    OBVIOUS
  <2> QED
    BY <2>1, <2>2, <2>3
<1>2. i * m \in Int /\ k * m \in Int
  OBVIOUS
<1>3. ~(i < k)
  BY <1>1, <1>2
<1>4. ~(k < i)
  BY <1>1, <1>2
<1> QED
  BY <1>2, <1>3, <1>4

\* Where a connection is made, and by whom.
LEMMA NextFacts ==
  ASSUME TypeOK, NEW p \in Node, NEW i \in Node, ~Complete(p, i)
  PROVE  /\ NextPeer(p, i) \in Node /\ NextPeer(p, i) # p /\ NextConn(p, i) \in Conn
         /\ i = IterOf(p, NextPeer(p, i))
         /\ made[p][i] + 1 = PlaceOf(p, NextPeer(p, i), NextConn(p, i))
         /\ i <= p
         /\ AsClient(p, i) <=> ~IsClient(NextPeer(p, i), p, NextConn(p, i))
<1>1. /\ p \in Nat /\ i \in Nat /\ nP \in Nat /\ p <= nP
      /\ made[p][i] \in Nat /\ made[p][i] < ToMake(p, i)
  <2>1. made[p][i] \in Nat /\ made[p][i] <= ToMake(p, i)
    BY DEF TypeOK
  <2>2. p \in Nat /\ i \in Nat /\ nP \in Nat /\ p <= nP /\ ToMake(p, i) \in Int
    BY RingSumAssumption DEF Node, ToMake
  <2> QED
    BY <2>1, <2>2 DEF Complete
<1>2. NextConn(p, i) \in Conn
  BY DEF NextConn, ConnAt, Conn
<1>3. CASE i = p
  <2> DEFINE k == made[p][i] + 1
  <2>1. NextPeer(p, i) = p + (k + 1) \div 2 /\ k <= 2 * (nP - p)
    BY <1>1, <1>3 DEF NextPeer, PeerAt, ToMake
  <2>2. NextPeer(p, i) \in Node /\ NextPeer(p, i) > p
    BY <1>1, <2>1 DEF Node
  <2>3. k = PlaceOf(p, NextPeer(p, i), NextConn(p, i))
    <3>1. NextConn(p, i) = IF k % 2 = 1 THEN "ios" ELSE "ios2"
      BY DEF NextConn, ConnAt
    <3>2. PlaceOf(p, NextPeer(p, i), NextConn(p, i))
            = 2 * ((k + 1) \div 2) - 2 + (IF k % 2 = 1 THEN 1 ELSE 2)
      BY <1>1, <2>1, <2>2, <3>1 DEF PlaceOf
    <3>3. k \in Nat /\ k = 2 * ((k + 1) \div 2) - 2 + (IF k % 2 = 1 THEN 1 ELSE 2)
      BY <1>1
    <3> QED
      BY <3>2, <3>3
  <2>4. AsClient(p, i) <=> ~IsClient(NextPeer(p, i), p, NextConn(p, i))
    BY <1>1, <2>2 DEF AsClient, IsClient, Node
  <2> QED
    BY <1>1, <1>2, <1>3, <2>2, <2>3, <2>4 DEF IterOf, Node
<1>4. CASE i < p
  <2>1. NextPeer(p, i) = i /\ made[p][i] + 1 \in {1, 2}
    BY <1>1, <1>4 DEF NextPeer, PeerAt, ToMake
  <2>2. made[p][i] + 1 = PlaceOf(p, NextPeer(p, i), NextConn(p, i))
    <3>1. NextConn(p, i) = IF made[p][i] + 1 = 1 THEN "ios" ELSE "ios2"
      BY <2>1 DEF NextConn, ConnAt
    <3>2. PlaceOf(p, i, "ios") = 1 /\ PlaceOf(p, i, "ios2") = 2
      BY <1>1, <1>4 DEF PlaceOf
    <3> QED
      BY <2>1, <3>1, <3>2
  <2>3. AsClient(p, i) <=> ~IsClient(NextPeer(p, i), p, NextConn(p, i))
    BY <1>1, <1>4, <2>1 DEF AsClient, IsClient, Node
  <2> QED
    BY <1>1, <1>2, <1>4, <2>1, <2>2, <2>3 DEF IterOf, Node
<1>5. CASE i > p
  BY <1>1, <1>5 DEF ToMake
<1> QED
  BY <1>1, <1>3, <1>4, <1>5

\* An address belongs to one connection of one pair of nodes.
LEMMA PortsDistinct ==
  ASSUME NEW p \in Node, NEW q \in Node, NEW c \in Conn, p # q,
         NEW r \in Node, NEW s \in Node, NEW d \in Conn, r # s,
         Port(p, q, c) = Port(r, s, d)
  PROVE  c = d /\ ((p = r /\ q = s) \/ (p = s /\ q = r))
<1> DEFINE m == nP + 1
           i == IF p < q THEN p ELSE q
           j == IF p < q THEN q ELSE p
           k == IF r < s THEN r ELSE s
           l == IF r < s THEN s ELSE r
           b == IF c = "ios" THEN 0 ELSE 1
           e == IF d = "ios" THEN 0 ELSE 1
<1>1. /\ m \in Nat /\ i \in 0 .. m - 1 /\ j \in 0 .. m - 1
      /\ k \in 0 .. m - 1 /\ l \in 0 .. m - 1
  BY RingSumAssumption DEF Node
<1>2. 2 * (i * m + j) + b = 2 * (k * m + l) + e
  BY DEF Port
<1>3. i * m + j \in Int /\ k * m + l \in Int
  BY <1>1
<1>4. b \in {0, 1} /\ e \in {0, 1}
  OBVIOUS
<1>5. b = e /\ i * m + j = k * m + l
  <2> HIDE DEF b, e, i, j, k, l, m
  <2> DEFINE x == i * m + j
             y == k * m + l
  <2>1. x \in Int /\ y \in Int /\ 2 * x + b = 2 * y + e
    BY <1>2, <1>3
  <2> HIDE DEF x, y
  <2>2. b = e /\ x = y
    BY <1>4, <2>1
  <2> QED
    BY <2>2 DEF x, y
<1>6. i = k /\ j = l
  <2> HIDE DEF i, j, k, l, m
  <2> QED
    BY <1>1, <1>5, PairNumbers
<1>7. c = d
  BY <1>5 DEF Conn
<1> QED
  BY <1>6, <1>7 DEF Node

\* Two iterations that meet at an address make the two ends of a connection,
\* or are the same iteration.
LEMMA SameAddress ==
  ASSUME TypeOK, NEW p \in Node, NEW i \in Node, NEW q \in Node, NEW k \in Node,
         ~Complete(p, i), ~Complete(q, k), Address(p, i) = Address(q, k)
  PROVE  /\ NextConn(p, i) = NextConn(q, k)
         /\ \/ q = NextPeer(p, i) /\ p = NextPeer(q, k)
               /\ (AsClient(p, i) <=> ~AsClient(q, k))
            \/ q = p /\ k = i
<1>1. Port(p, NextPeer(p, i), NextConn(p, i)) = Port(q, NextPeer(q, k), NextConn(q, k))
  BY DEF Address
<1>2. /\ NextConn(p, i) = NextConn(q, k)
      /\ \/ p = q /\ NextPeer(p, i) = NextPeer(q, k)
         \/ p = NextPeer(q, k) /\ NextPeer(p, i) = q
  BY <1>1, NextFacts, PortsDistinct
<1>3. CASE p = q /\ NextPeer(p, i) = NextPeer(q, k)
  BY <1>2, <1>3, NextFacts
<1>4. CASE p = NextPeer(q, k) /\ NextPeer(p, i) = q
  BY <1>2, <1>4, NextFacts DEF AsClient
<1> QED
  BY <1>2, <1>3, <1>4

\* Of the two ends of a connection one is the client.
LEMMA OneClient ==
  ASSUME NEW p \in Node, NEW q \in Node, p # q, NEW c \in Conn
  PROVE  IsClient(p, q, c) <=> ~IsClient(q, p, c)
BY RingSumAssumption DEF IsClient, Node

\* Updating the link of one connection leaves the others alone.
LEMMA LinkUpdated ==
  ASSUME NEW E, NEW f \in [Node -> [Node -> [Conn -> E]]],
         NEW p \in Node, NEW q \in Node, NEW c \in Conn, NEW e,
         NEW g, g = [f EXCEPT ![p][q][c] = e]
  PROVE  \A s, t \in Node, d \in Conn :
           g[s][t][d] = IF s = p /\ t = q /\ d = c THEN e ELSE f[s][t][d]
<1> TAKE s \in Node, t \in Node, d \in Conn
<1>1. CASE s = p
  <2>1. g[s] = [f[p] EXCEPT ![q][c] = e]
    BY <1>1
  <2>2. f[p] \in [Node -> [Conn -> E]]
    OBVIOUS
  <2> QED
    BY <1>1, <2>1, <2>2
<1>2. CASE s # p
  BY <1>2
<1> QED
  BY <1>1, <1>2

\* A place in an iteration belongs to one connection.
LEMMA PlacesDistinct ==
  ASSUME NEW p \in Node, NEW q \in Node, NEW r \in Node, q # p, r # p,
         NEW c \in Conn, NEW d \in Conn,
         IterOf(p, q) = IterOf(p, r), PlaceOf(p, q, c) = PlaceOf(p, r, d)
  PROVE  q = r /\ c = d
<1>1. p \in Int /\ q \in Int /\ r \in Int
  BY RingSumAssumption DEF Node
<1>2. c \in {"ios", "ios2"} /\ d \in {"ios", "ios2"}
  BY DEF Conn
<1>3. (p < q /\ p < r) \/ (q < p /\ q = r)
  BY <1>1 DEF IterOf
<1>4. CASE p < q /\ p < r
  <2> DEFINE x == IF c = "ios" THEN 1 ELSE 2
             y == IF d = "ios" THEN 1 ELSE 2
  <2>1. x \in {1, 2} /\ y \in {1, 2} /\ (x = y => c = d)
    BY <1>2
  <2>2. 2 * (q - p) - 2 + x = 2 * (r - p) - 2 + y
    BY <1>4 DEF PlaceOf
  <2> HIDE DEF x, y
  <2> QED
    BY <1>1, <2>1, <2>2
<1>5. CASE q < p /\ q = r
  BY <1>1, <1>2, <1>5 DEF PlaceOf
<1> QED
  BY <1>3, <1>4, <1>5

\* Making a connection counts as just that connection.
LEMMA MadeFacts ==
  ASSUME TypeOK, NEW p \in Node, NEW i \in Node, ~Complete(p, i),
         made' = [made EXCEPT ![p][i] = @ + 1]
  PROVE  /\ \A r, k \in Node : r # p \/ k # i =>
              /\ made'[r][k] = made[r][k]
              /\ NextPeer(r, k)' = NextPeer(r, k) /\ NextConn(r, k)' = NextConn(r, k)
              /\ Complete(r, k)' <=> Complete(r, k)
              /\ AsClient(r, k)' <=> AsClient(r, k)
         /\ \A r, s \in Node, c \in Conn : r # s =>
              (HasMade(r, s, c)' <=>
                 HasMade(r, s, c) \/ (r = p /\ s = NextPeer(p, i) /\ c = NextConn(p, i)))
         /\ ~HasMade(p, NextPeer(p, i), NextConn(p, i))
<1>1. /\ made'[p][i] = made[p][i] + 1 /\ made[p][i] \in Nat
      /\ \A r, k \in Node : r # p \/ k # i => made'[r][k] = made[r][k]
      /\ \A r, k \in Node : made[r][k] \in Nat
  BY DEF TypeOK
<1>2. ASSUME NEW r \in Node, NEW k \in Node, r # p \/ k # i
      PROVE  /\ NextPeer(r, k)' = NextPeer(r, k) /\ NextConn(r, k)' = NextConn(r, k)
             /\ Complete(r, k)' <=> Complete(r, k)
             /\ AsClient(r, k)' <=> AsClient(r, k)
  <2>1. made'[r][k] = made[r][k]
    BY <1>1, <1>2
  <2> QED
    BY <2>1 DEF NextPeer, NextConn, Complete, AsClient
<1>3. /\ NextPeer(p, i) \in Node /\ NextPeer(p, i) # p /\ NextConn(p, i) \in Conn
      /\ i = IterOf(p, NextPeer(p, i))
      /\ made[p][i] + 1 = PlaceOf(p, NextPeer(p, i), NextConn(p, i))
  BY NextFacts
<1>4. ASSUME NEW r \in Node, NEW s \in Node, r # s, NEW c \in Conn
      PROVE  HasMade(r, s, c)' <=>
               HasMade(r, s, c) \/ (r = p /\ s = NextPeer(p, i) /\ c = NextConn(p, i))
  <2>1. IterOf(r, s) \in Node /\ PlaceOf(r, s, c) \in Int
    BY <1>4, RingSumAssumption DEF IterOf, PlaceOf, Node
  <2>2. CASE r = p /\ IterOf(r, s) = i
    <3>1. PlaceOf(r, s, c) = made[p][i] + 1 =>
            s = NextPeer(p, i) /\ c = NextConn(p, i)
      BY <1>3, <1>4, <2>2, PlacesDistinct
    <3> QED
      BY <1>1, <1>3, <2>1, <2>2, <3>1 DEF HasMade
  <2>3. CASE ~(r = p /\ IterOf(r, s) = i)
    BY <1>1, <1>3, <2>1, <2>3 DEF HasMade
  <2> QED
    BY <2>2, <2>3
<1>5. ~HasMade(p, NextPeer(p, i), NextConn(p, i))
  BY <1>1, <1>3 DEF HasMade
<1> QED
  BY <1>1, <1>2, <1>4, <1>5

-----------------------------------------------------------------------------
LEMMA InitInv == Init => IInv
<1> SUFFICES ASSUME Init
             PROVE  IInv
  OBVIOUS
<1>1. TypeOK
  <2>1. \A p, i \in Node : ToMake(p, i) >= 0
    BY RingSumAssumption DEF ToMake, Node
  <2>2. queue \in [Node -> [Node -> Seq(Ends)]]
    BY DEF Init
  <2>3. link \in [Node -> [Node -> [Conn -> Ends \cup {Nobody}]]]
    BY DEF Init
  <2> QED
    BY <2>1, <2>2, <2>3 DEF Init, TypeOK
<1>2. RightPeer
  BY DEF Init, RightPeer
<1>3. ListenInv
  BY DEF Init, ListenInv
<1>4. PairInv
  <2>1. \A p, q \in Node, c \in Conn : p # q =>
          IterOf(p, q) \in Node /\ PlaceOf(p, q, c) \in Nat /\ PlaceOf(p, q, c) > 0
    BY RingSumAssumption DEF IterOf, PlaceOf, Node
  <2>2. \A p, q \in Node, c \in Conn : p # q => ~HasMade(p, q, c)
    BY <2>1 DEF Init, HasMade
  <2> QED
    BY <2>2 DEF PairInv
<1> QED
  BY <1>1, <1>2, <1>3, <1>4 DEF IInv

LEMMA ListenStep ==
  ASSUME IInv, NEW p \in Node, NEW i \in Node, Listen(p, i)
  PROVE  IInv'
<1>1. /\ ~Complete(p, i) /\ ~AsClient(p, i) /\ stage[p][i] = "create"
      /\ stage' = [stage EXCEPT ![p][i] = "accept"]
      /\ UNCHANGED <<threads, localhost, made, queue, link>>
  BY DEF Listen, Running
<1>2. \A q, k \in Node :
        stage'[q][k] = IF q = p /\ k = i THEN "accept" ELSE stage[q][k]
  BY <1>1 DEF IInv, TypeOK
<1>3. TypeOK'
  BY <1>1 DEF IInv, TypeOK
<1>4. RightPeer'
  BY <1>1 DEF IInv, RightPeer
<1>5. \A q, k \in Node :
        /\ NextPeer(q, k)' = NextPeer(q, k) /\ NextConn(q, k)' = NextConn(q, k)
        /\ Complete(q, k)' <=> Complete(q, k)
        /\ AsClient(q, k)' <=> AsClient(q, k)
  BY <1>1 DEF NextPeer, NextConn, Complete, AsClient
<1>6. ListenInv'
  <2> SUFFICES ASSUME NEW q \in Node, NEW k \in Node
               PROVE  /\ stage'[q][k] = "accept" => ~Complete(q, k)' /\ ~AsClient(q, k)'
                      /\ queue'[q][k] # <<>> =>
                           /\ stage'[q][k] = "accept"
                           /\ HasMade(NextPeer(q, k), q, NextConn(q, k))'
                      /\ \A n \in 1 .. Len(queue'[q][k]) :
                           queue'[q][k][n] = <<NextPeer(q, k)', q, NextConn(q, k)'>>
    BY DEF ListenInv
  <2>1. HasMade(NextPeer(q, k), q, NextConn(q, k))' <=> HasMade(NextPeer(q, k), q, NextConn(q, k))
    BY <1>1, <1>5 DEF HasMade
  <2> QED
    BY <1>1, <1>2, <1>5, <2>1 DEF IInv, ListenInv
<1>7. PairInv'
  BY <1>1 DEF IInv, PairInv, HasMade, NextPeer, NextConn
<1> QED
  BY <1>3, <1>4, <1>6, <1>7 DEF IInv

LEMMA ConnectStep ==
  ASSUME IInv, NEW p \in Node, NEW i \in Node, Connect(p, i)
  PROVE  IInv'
<1> DEFINE q == NextPeer(p, i)
           c == NextConn(p, i)
<1>1. ~Complete(p, i) /\ AsClient(p, i) /\ UNCHANGED <<threads, localhost, stage>>
  BY DEF Connect, Running
<1>2. PICK r \in Node, k \in Node :
        /\ stage[r][k] = "accept" /\ Address(r, k) = Address(p, i)
        /\ queue' = [queue EXCEPT ![r][k] = Append(@, End(p, i))]
        /\ Made(p, i, End(r, k))
  BY DEF Connect
<1>3. ~Complete(r, k) /\ ~AsClient(r, k)
  BY <1>2 DEF IInv, ListenInv
<1>4. /\ r = q /\ p = NextPeer(r, k) /\ c = NextConn(r, k)
      /\ q \in Node /\ q # p /\ c \in Conn /\ k = IterOf(q, p)
  BY <1>1, <1>2, <1>3, SameAddress, NextFacts DEF IInv
<1>5. IsClient(p, q, c)
  BY <1>1 DEF AsClient
<1>6. /\ link' = [link EXCEPT ![p][q][c] = <<q, p, c>>]
      /\ made' = [made EXCEPT ![p][i] = @ + 1]
      /\ queue' = [queue EXCEPT ![q][k] = Append(@, <<p, q, c>>)]
  BY <1>2, <1>4 DEF Made, End
<1> HIDE DEF q, c
<1>7. \A s, l \in Node :
        queue'[s][l] = IF s = q /\ l = k THEN Append(queue[q][k], <<p, q, c>>) ELSE queue[s][l]
  BY <1>4, <1>6 DEF IInv, TypeOK
<1>8. stage[p][i] = "create" /\ queue[p][i] = <<>>
  <2>1. stage[p][i] # "accept"
    BY <1>1 DEF IInv, ListenInv
  <2> QED
    BY <2>1 DEF IInv, TypeOK, ListenInv
<1>9. TypeOK'
  <2>1. <<q, p, c>> \in Ends /\ <<p, q, c>> \in Ends
    BY <1>4 DEF Ends
  <2>2. link' \in [Node -> [Node -> [Conn -> Ends \cup {Nobody}]]]
    <3>1. link \in [Node -> [Node -> [Conn -> Ends \cup {Nobody}]]]
      BY DEF IInv, TypeOK
    <3>2. <<q, p, c>> \in Ends \cup {Nobody}
      BY <2>1
    <3>3. [link[p][q] EXCEPT ![c] = <<q, p, c>>] \in [Conn -> Ends \cup {Nobody}]
      BY <1>4, <3>1, <3>2
    <3>4. link' = [link EXCEPT ![p] = [link[p] EXCEPT ![q] = [link[p][q] EXCEPT ![c] = <<q, p, c>>]]]
      BY <1>4, <1>6, <3>1
    <3> QED
      BY <1>4, <3>1, <3>3, <3>4
  <2>3. queue' \in [Node -> [Node -> Seq(Ends)]]
    <3>1. Append(queue[q][k], <<p, q, c>>) \in Seq(Ends)
      BY <1>4, <2>1 DEF IInv, TypeOK
    <3> QED
      BY <1>4, <1>6, <3>1 DEF IInv, TypeOK
  <2>4. made' \in [Node -> [Node -> Nat]]
    <3>1. made \in [Node -> [Node -> Nat]]
      BY DEF IInv, TypeOK
    <3> QED
      BY SMTT(20), <1>6, <3>1
  <2>5. \A s, l \in Node : made'[s][l] <= ToMake(s, l)
    <3>1. /\ made[p][i] \in Nat /\ made[p][i] <= ToMake(p, i) /\ ToMake(p, i) \in Int
          /\ made[p][i] # ToMake(p, i)
      BY <1>1, RingSumAssumption DEF IInv, TypeOK, ToMake, Node, Complete
    <3>2. \A s, l \in Node :
            made'[s][l] = IF s = p /\ l = i THEN made[p][i] + 1 ELSE made[s][l]
      BY <1>6 DEF IInv, TypeOK
    <3>3. \A s, l \in Node : made[s][l] <= ToMake(s, l)
      BY DEF IInv, TypeOK
    <3>4. made[p][i] + 1 <= ToMake(p, i)
      BY <3>1
    <3> QED
      BY <3>2, <3>3, <3>4
  <2> QED
    BY <1>1, <2>2, <2>3, <2>4, <2>5 DEF IInv, TypeOK
<1>10. /\ \A s, l \in Node : s # p \/ l # i =>
             /\ NextPeer(s, l)' = NextPeer(s, l) /\ NextConn(s, l)' = NextConn(s, l)
             /\ Complete(s, l)' <=> Complete(s, l)
             /\ AsClient(s, l)' <=> AsClient(s, l)
       /\ \A s, t \in Node, d \in Conn : s # t =>
             (HasMade(s, t, d)' <=> HasMade(s, t, d) \/ (s = p /\ t = q /\ d = c))
  <2>1. TypeOK /\ ~Complete(p, i) /\ made' = [made EXCEPT ![p][i] = @ + 1]
    BY <1>1, <1>6 DEF IInv
  <2>2. \A s, l \in Node : s # p \/ l # i =>
          /\ NextPeer(s, l)' = NextPeer(s, l) /\ NextConn(s, l)' = NextConn(s, l)
          /\ Complete(s, l)' <=> Complete(s, l)
          /\ AsClient(s, l)' <=> AsClient(s, l)
    BY <2>1, MadeFacts
  <2>3. \A s, t \in Node, d \in Conn : s # t =>
          (HasMade(s, t, d)' <=>
             HasMade(s, t, d) \/ (s = p /\ t = NextPeer(p, i) /\ d = NextConn(p, i)))
    BY <2>1, MadeFacts
  <2> QED
    BY <2>2, <2>3 DEF q, c
<1>11. RightPeer'
  <2>1. link \in [Node -> [Node -> [Conn -> Ends \cup {Nobody}]]]
    BY DEF IInv, TypeOK
  <2>2. \A s, t \in Node, d \in Conn :
          link'[s][t][d] = IF s = p /\ t = q /\ d = c THEN <<q, p, c>> ELSE link[s][t][d]
    <3>1. q \in Node /\ c \in Conn
      BY <1>4
    <3> QED
      BY <1>6, <2>1, <3>1, LinkUpdated
  <2> QED
    BY <2>2 DEF IInv, RightPeer
<1>12. ListenInv'
  <2> SUFFICES ASSUME NEW s \in Node, NEW l \in Node
               PROVE  /\ stage'[s][l] = "accept" => ~Complete(s, l)' /\ ~AsClient(s, l)'
                      /\ queue'[s][l] # <<>> =>
                           /\ stage'[s][l] = "accept"
                           /\ HasMade(NextPeer(s, l), s, NextConn(s, l))'
                      /\ \A n \in 1 .. Len(queue'[s][l]) :
                           queue'[s][l][n] = <<NextPeer(s, l)', s, NextConn(s, l)'>>
    BY DEF ListenInv
  <2>1. CASE s = p /\ l = i
    <3>1. stage'[s][l] = "create" /\ queue'[s][l] = <<>>
      BY <1>1, <1>4, <1>7, <1>8, <2>1
    <3> QED
      BY <3>1
  <2>2. CASE s # p \/ l # i
    <3>1. /\ NextPeer(s, l)' = NextPeer(s, l) /\ NextConn(s, l)' = NextConn(s, l)
          /\ Complete(s, l)' <=> Complete(s, l)
          /\ AsClient(s, l)' <=> AsClient(s, l)
          /\ stage'[s][l] = stage[s][l]
      BY <1>1, <1>10, <2>2
    <3>2. stage[s][l] = "accept" =>
            /\ NextPeer(s, l) \in Node /\ NextPeer(s, l) # s /\ NextConn(s, l) \in Conn
      BY NextFacts DEF IInv, ListenInv
    <3>3. ASSUME stage[s][l] = "accept"
          PROVE  HasMade(NextPeer(s, l), s, NextConn(s, l))' <=>
                   \/ HasMade(NextPeer(s, l), s, NextConn(s, l))
                   \/ NextPeer(s, l) = p /\ s = q /\ NextConn(s, l) = c
      <4> DEFINE t == NextPeer(s, l)
                 d == NextConn(s, l)
      <4>1. t' = t /\ d' = d /\ t \in Node /\ t # s /\ d \in Conn
        BY <3>1, <3>2, <3>3
      <4>2. HasMade(t, s, d)' <=> made'[t][IterOf(t, s)] >= PlaceOf(t, s, d)
        BY <4>1 DEF HasMade
      <4> HIDE DEF t, d
      <4>3. \A x \in Node, e \in Conn : x # s =>
              (made'[x][IterOf(x, s)] >= PlaceOf(x, s, e) <=>
                 HasMade(x, s, e) \/ (x = p /\ s = q /\ e = c))
        BY <1>10 DEF HasMade
      <4>4. HasMade(t, s, d)' <=> HasMade(t, s, d) \/ (t = p /\ s = q /\ d = c)
        BY <4>1, <4>2, <4>3
      <4> QED
        BY <4>4 DEF t, d
    <3>4. CASE s = q /\ l = k
      <4>1. stage[s][l] = "accept" /\ NextPeer(s, l) = p /\ NextConn(s, l) = c
        BY <1>2, <1>4, <3>4
      <4>2. queue[q][k] \in Seq(Ends)
        BY <1>4 DEF IInv, TypeOK
      <4>3. \A n \in 1 .. Len(queue'[s][l]) : queue'[s][l][n] = <<p, q, c>>
        <5>1. \A n \in 1 .. Len(queue[q][k]) : queue[q][k][n] = <<p, q, c>>
          BY <3>4, <4>1 DEF IInv, ListenInv
        <5>2. \A n \in 1 .. Len(queue'[s][l]) : queue'[s][l][n] = <<p, q, c>>
          <6>1. queue'[s][l] = Append(queue[q][k], <<p, q, c>>)
            BY <1>7, <3>4
          <6> QED
            BY <4>2, <5>1, <6>1
        <5> QED
          BY <5>2
      <4> QED
        BY <3>1, <3>3, <3>4, <4>1, <4>3 DEF IInv, ListenInv
    <3>5. CASE ~(s = q /\ l = k)
      BY SMTT(20), <1>7, <3>1, <3>3, <3>5 DEF IInv, ListenInv
    <3> QED
      BY <3>4, <3>5
  <2> QED
    BY <2>1, <2>2
<1>13. PairInv'
  <2> SUFFICES ASSUME NEW s \in Node, NEW t \in Node, NEW d \in Conn, s # t, IsClient(s, t, d)
               PROVE  /\ HasMade(t, s, d)' => HasMade(s, t, d)'
                      /\ HasMade(s, t, d)' /\ ~HasMade(t, s, d)' =>
                           /\ queue'[t][IterOf(s, t)] # <<>>
                           /\ NextPeer(t, IterOf(s, t))' = s
                           /\ NextConn(t, IterOf(s, t))' = d
    BY DEF PairInv
  <2>1. ~(t = p /\ s = q /\ d = c)
    BY <1>4, <1>5, OneClient
  <2>2. HasMade(t, s, d)' <=> HasMade(t, s, d)
    BY <1>10, <2>1
  <2>3. HasMade(t, s, d)' => HasMade(s, t, d)'
    BY <1>10, <2>2 DEF IInv, PairInv
  <2>4. ASSUME HasMade(s, t, d)', ~HasMade(t, s, d)'
        PROVE  /\ queue'[t][IterOf(s, t)] # <<>>
               /\ NextPeer(t, IterOf(s, t))' = s
               /\ NextConn(t, IterOf(s, t))' = d
    <3> DEFINE l == IterOf(s, t)
    <3>0. l \in Node
      BY DEF IterOf
    <3>1. queue[q][k] \in Seq(Ends) /\ Append(queue[q][k], <<p, q, c>>) # <<>>
      <4>1. queue[q][k] \in Seq(Ends) /\ <<p, q, c>> \in Ends
        BY <1>4 DEF IInv, TypeOK, Ends
      <4> HIDE DEF Ends
      <4>2. Append(queue[q][k], <<p, q, c>>) # <<>>
        BY <4>1, AppendProperties
      <4> QED
        BY <4>1, <4>2
    <3>2. CASE s = p /\ t = q /\ d = c
      <4>1. l = k
        BY <1>4, <3>2, RingSumAssumption DEF IterOf, Node
      <4>2. q # p
        BY <1>4
      <4> QED
        BY <1>4, <1>7, <1>10, <3>0, <3>1, <3>2, <4>1, <4>2
    <3>3. CASE ~(s = p /\ t = q /\ d = c)
      <4>1. HasMade(s, t, d) /\ ~HasMade(t, s, d)
        BY <1>10, <2>2, <2>4, <3>3
      <4>2. queue[t][l] # <<>> /\ NextPeer(t, l) = s /\ NextConn(t, l) = d
        BY <4>1 DEF IInv, PairInv
      <4>3. t # p \/ l # i
        BY <1>8, <4>2
      <4> QED
        BY <1>7, <1>10, <3>0, <3>1, <4>2, <4>3
    <3> QED
      BY <3>2, <3>3
  <2> QED
    BY <2>3, <2>4
<1> QED
  BY <1>9, <1>11, <1>12, <1>13 DEF IInv

LEMMA AcceptStep ==
  ASSUME IInv, NEW p \in Node, NEW i \in Node, Accept(p, i)
  PROVE  IInv'
<1> DEFINE q == NextPeer(p, i)
           c == NextConn(p, i)
<1>1. /\ stage[p][i] = "accept" /\ queue[p][i] # <<>>
      /\ Made(p, i, Head(queue[p][i]))
      /\ stage' = [stage EXCEPT ![p][i] = "create"]
      /\ queue' = [queue EXCEPT ![p][i] = <<>>]
      /\ UNCHANGED <<threads, localhost>>
  BY DEF Accept
<1>2. ~Complete(p, i) /\ ~AsClient(p, i) /\ HasMade(q, p, c)
  BY <1>1 DEF IInv, ListenInv
<1>3. q \in Node /\ q # p /\ c \in Conn /\ i = IterOf(p, q)
  BY <1>2, NextFacts DEF IInv
<1>4. ~IsClient(p, q, c)
  BY <1>2 DEF AsClient
<1>5. Head(queue[p][i]) = <<q, p, c>>
  <2>1. queue[p][i] \in Seq(Ends)
    BY DEF IInv, TypeOK
  <2>2. 1 \in 1 .. Len(queue[p][i]) /\ Head(queue[p][i]) = queue[p][i][1]
    BY <1>1, <2>1
  <2> QED
    BY <2>2 DEF IInv, ListenInv
<1>6. /\ link' = [link EXCEPT ![p][q][c] = <<q, p, c>>]
      /\ made' = [made EXCEPT ![p][i] = @ + 1]
  BY <1>1, <1>5 DEF Made
<1>7. /\ \A s, l \in Node : s # p \/ l # i =>
             /\ NextPeer(s, l)' = NextPeer(s, l) /\ NextConn(s, l)' = NextConn(s, l)
             /\ Complete(s, l)' <=> Complete(s, l)
             /\ AsClient(s, l)' <=> AsClient(s, l)
      /\ \A s, t \in Node, d \in Conn : s # t =>
             (HasMade(s, t, d)' <=> HasMade(s, t, d) \/ (s = p /\ t = q /\ d = c))
  BY <1>2, <1>6, MadeFacts DEF IInv
<1> HIDE DEF q, c
<1>8. \A s, l \in Node :
        /\ queue'[s][l] = IF s = p /\ l = i THEN <<>> ELSE queue[s][l]
        /\ stage'[s][l] = IF s = p /\ l = i THEN "create" ELSE stage[s][l]
  BY <1>1 DEF IInv, TypeOK
<1>9. TypeOK'
  <2>1. <<q, p, c>> \in Ends
    BY <1>3 DEF Ends
  <2>2. link' \in [Node -> [Node -> [Conn -> Ends \cup {Nobody}]]]
    BY <1>3, <1>6, <2>1 DEF IInv, TypeOK
  <2>3. queue' \in [Node -> [Node -> Seq(Ends)]]
    <3>1. queue \in [Node -> [Node -> Seq(Ends)]] /\ <<>> \in Seq(Ends)
      BY DEF IInv, TypeOK
    <3> QED
      BY <1>1, <3>1
  <2>4. made' \in [Node -> [Node -> Nat]]
    <3>1. made \in [Node -> [Node -> Nat]]
      BY DEF IInv, TypeOK
    <3> QED
      BY <1>6, <3>1
  <2>5. \A s, l \in Node : made'[s][l] <= ToMake(s, l)
    <3>1. /\ made[p][i] \in Nat /\ made[p][i] <= ToMake(p, i) /\ ToMake(p, i) \in Int
          /\ made[p][i] # ToMake(p, i)
      BY <1>2, RingSumAssumption DEF IInv, TypeOK, ToMake, Node, Complete
    <3>2. \A s, l \in Node :
            made'[s][l] = IF s = p /\ l = i THEN made[p][i] + 1 ELSE made[s][l]
      BY <1>6 DEF IInv, TypeOK
    <3>3. \A s, l \in Node : made[s][l] <= ToMake(s, l)
      BY DEF IInv, TypeOK
    <3>4. made[p][i] + 1 <= ToMake(p, i)
      BY <3>1
    <3> QED
      BY <3>2, <3>3, <3>4
  <2>6. stage' \in [Node -> [Node -> {"create", "accept"}]]
    BY <1>1 DEF IInv, TypeOK
  <2> QED
    BY <1>1, <2>2, <2>3, <2>4, <2>5, <2>6 DEF IInv, TypeOK
<1>10. RightPeer'
  <2>1. link \in [Node -> [Node -> [Conn -> Ends \cup {Nobody}]]]
    BY DEF IInv, TypeOK
  <2>2. \A s, t \in Node, d \in Conn :
          link'[s][t][d] = IF s = p /\ t = q /\ d = c THEN <<q, p, c>> ELSE link[s][t][d]
    <3>1. q \in Node /\ c \in Conn
      BY <1>3
    <3> QED
      BY <1>6, <2>1, <3>1, LinkUpdated
  <2> QED
    BY <2>2 DEF IInv, RightPeer
<1>11. ListenInv'
  <2> SUFFICES ASSUME NEW s \in Node, NEW l \in Node
               PROVE  /\ stage'[s][l] = "accept" => ~Complete(s, l)' /\ ~AsClient(s, l)'
                      /\ queue'[s][l] # <<>> =>
                           /\ stage'[s][l] = "accept"
                           /\ HasMade(NextPeer(s, l), s, NextConn(s, l))'
                      /\ \A n \in 1 .. Len(queue'[s][l]) :
                           queue'[s][l][n] = <<NextPeer(s, l)', s, NextConn(s, l)'>>
    BY DEF ListenInv
  <2>1. CASE s = p /\ l = i
    <3>1. stage'[s][l] = "create" /\ queue'[s][l] = <<>>
      BY <1>8, <2>1
    <3> QED
      BY <3>1
  <2>2. CASE s # p \/ l # i
    <3> DEFINE t == NextPeer(s, l)
               d == NextConn(s, l)
    <3>1. /\ t' = t /\ d' = d
          /\ Complete(s, l)' <=> Complete(s, l)
          /\ AsClient(s, l)' <=> AsClient(s, l)
          /\ stage'[s][l] = stage[s][l] /\ queue'[s][l] = queue[s][l]
      BY <1>7, <1>8, <2>2
    <3>2. ASSUME queue[s][l] # <<>>
          PROVE  HasMade(t, s, d)'
      <4>1. t \in Node /\ t # s /\ d \in Conn /\ HasMade(t, s, d)
        BY <3>2, NextFacts DEF IInv, ListenInv
      <4>2. HasMade(t, s, d)' <=> made'[t][IterOf(t, s)] >= PlaceOf(t, s, d)
        BY <3>1 DEF HasMade
      <4> HIDE DEF t, d
      <4>3. \A x \in Node, e \in Conn : x # s /\ HasMade(x, s, e) =>
              made'[x][IterOf(x, s)] >= PlaceOf(x, s, e)
        BY <1>7 DEF HasMade
      <4> QED
        BY <4>1, <4>2, <4>3
    <3> QED
      BY <3>1, <3>2 DEF IInv, ListenInv
  <2> QED
    BY <2>1, <2>2
<1>12. PairInv'
  <2> SUFFICES ASSUME NEW s \in Node, NEW t \in Node, NEW d \in Conn, s # t, IsClient(s, t, d)
               PROVE  /\ HasMade(t, s, d)' => HasMade(s, t, d)'
                      /\ HasMade(s, t, d)' /\ ~HasMade(t, s, d)' =>
                           /\ queue'[t][IterOf(s, t)] # <<>>
                           /\ NextPeer(t, IterOf(s, t))' = s
                           /\ NextConn(t, IterOf(s, t))' = d
    BY DEF PairInv
  <2>1. ~(s = p /\ t = q /\ d = c)
    BY <1>4
  <2>2. HasMade(s, t, d)' <=> HasMade(s, t, d)
    BY <1>7, <2>1
  <2>3. HasMade(t, s, d)' => HasMade(s, t, d)'
    BY <1>2, <1>7, <2>2 DEF IInv, PairInv
  <2>4. ASSUME HasMade(s, t, d)', ~HasMade(t, s, d)'
        PROVE  /\ queue'[t][IterOf(s, t)] # <<>>
               /\ NextPeer(t, IterOf(s, t))' = s
               /\ NextConn(t, IterOf(s, t))' = d
    <3> DEFINE l == IterOf(s, t)
    <3>1. l \in Node
      BY DEF IterOf
    <3>2. HasMade(s, t, d) /\ ~HasMade(t, s, d) /\ ~(t = p /\ s = q /\ d = c)
      BY <1>7, <2>2, <2>4
    <3>3. queue[t][l] # <<>> /\ NextPeer(t, l) = s /\ NextConn(t, l) = d
      BY <3>2 DEF IInv, PairInv
    <3>4. t # p \/ l # i
      BY <3>2, <3>3 DEF q, c
    <3> QED
      BY <1>7, <1>8, <3>1, <3>3, <3>4
  <2> QED
    BY <2>3, <2>4
<1> QED
  BY <1>9, <1>10, <1>11, <1>12 DEF IInv

LEMMA StepInv == IInv /\ [Next]_vars => IInv'
<1> SUFFICES ASSUME IInv, [Next]_vars
             PROVE  IInv'
  OBVIOUS
<1>1. CASE UNCHANGED vars
  <2>1. UNCHANGED <<threads, localhost, made, stage, queue, link>>
    BY <1>1 DEF vars
  <2>2. TypeOK' /\ RightPeer'
    BY <2>1 DEF IInv, TypeOK, RightPeer
  <2>3. ListenInv' /\ PairInv'
    BY <2>1 DEF IInv, ListenInv, PairInv, HasMade, NextPeer, NextConn, Complete, AsClient
  <2> QED
    BY <2>2, <2>3 DEF IInv
<1>2. CASE \E p, i \in Node : Step(p, i)
  BY <1>2, ListenStep, ConnectStep, AcceptStep DEF Step
<1> QED
  BY <1>1, <1>2 DEF Next, Finished

\* The invariant from which the properties below follow.
THEOREM Invariance == Spec => []IInv
BY InitInv, StepInv, PTL DEF Spec

\* The ports alone pair the ends of every connection, for any number of nodes,
\* on one machine or several.
THEOREM RightPeerAlways == Spec => []RightPeer
<1>1. IInv => RightPeer
  BY DEF IInv
<1> QED
  BY <1>1, Invariance, PTL

\* A process that has completed the iterations before i can do iteration i.
LEMMA CanRun ==
  ASSUME NEW p \in Node, NEW i \in Node, ~Complete(p, i),
         \A k \in Node : k < i => Complete(p, k)
  PROVE  Running(p, i)
BY RingSumAssumption DEF Running, Node

\* Nobody else listens where a server is about to.
LEMMA AddressFree ==
  ASSUME IInv, NEW p \in Node, NEW i \in Node, ~Complete(p, i), ~AsClient(p, i),
         stage[p][i] = "create",
         NEW q \in Node, NEW k \in Node, stage[q][k] = "accept"
  PROVE  Address(q, k) # Address(p, i)
<1>1. ~Complete(q, k) /\ ~AsClient(q, k)
  BY DEF IInv, ListenInv
<1> QED
  BY <1>1, SameAddress DEF IInv

\* Both ends of a connection have the same address for it.
LEMMA MeetAtAddress ==
  ASSUME NEW p \in Node, NEW i \in Node, NEW q \in Node, NEW k \in Node, p # q,
         NextPeer(p, i) = q, NextPeer(q, k) = p, NextConn(p, i) = NextConn(q, k)
  PROVE  Address(p, i) = Address(q, k)
<1>1. p \in Int /\ q \in Int
  BY RingSumAssumption DEF Node
<1>2. Port(p, q, NextConn(p, i)) = Port(q, p, NextConn(p, i))
  BY <1>1 DEF Port
<1>3. AsClient(p, i) <=> ~AsClient(q, k)
  BY <1>1 DEF AsClient, IsClient
<1> QED
  BY <1>2, <1>3 DEF Address

\* The constructors do not wait for one another in a circle, however the
\* iterations are spread over threads: take the least iteration that some
\* process has not completed; either the process it belongs to or the peer
\* that this one is at can go on.
THEOREM DeadlockFree == Spec => []NoDeadlock
<1>1. ASSUME IInv, ~(\A p \in Node : Constructed(p))
      PROVE  \E p, i \in Node : CanListen(p, i) \/ CanConnect(p, i) \/ CanAccept(p, i)
  <2> DEFINE Open == {i \in Node : \E p \in Node : ~Complete(p, i)}
  <2>1. PICK i \in Open : \A k \in Open : i <= k
    <3>1. Open \in SUBSET Nat /\ Open # {}
      BY <1>1, RingSumAssumption DEF Constructed, Node
    <3> HIDE DEF Open
    <3> QED
      BY <3>1, LeastNatural
  <2>2. i \in Node /\ \A k \in Node : k < i => \A p \in Node : Complete(p, k)
    <3>1. \A k \in Node : k \in Int
      BY RingSumAssumption DEF Node
    <3> QED
      BY <2>1, <3>1
  <2>3. \A p \in Node : ~Complete(p, i) => Running(p, i)
    BY <2>2, CanRun
  <2>4. \A p \in Node :
          ~Complete(p, i) /\ ~AsClient(p, i) =>
            CanListen(p, i) \/ stage[p][i] = "accept"
    <3> SUFFICES ASSUME NEW p \in Node, ~Complete(p, i), ~AsClient(p, i), stage[p][i] # "accept"
                 PROVE  CanListen(p, i)
      OBVIOUS
    <3>1. stage[p][i] = "create"
      BY <1>1, <2>2 DEF IInv, TypeOK
    <3> QED
      BY <1>1, <2>2, <2>3, <3>1, AddressFree DEF CanListen
  <2>5. \A p \in Node : queue[p][i] # <<>> => CanAccept(p, i)
    BY <1>1, <2>2 DEF IInv, ListenInv, CanAccept
  <2>6. ASSUME NEW p \in Node, NEW q \in Node, p # q, ~Complete(p, i), ~Complete(q, i),
               NextPeer(p, i) = q, NextPeer(q, i) = p, NextConn(p, i) = NextConn(q, i),
               AsClient(p, i)
        PROVE  CanListen(q, i) \/ CanConnect(p, i)
    <3>1. Address(p, i) = Address(q, i)
      BY <2>2, <2>6, MeetAtAddress
    <3>2. ~AsClient(q, i)
      BY <2>6, OneClient, NextFacts, <1>1, <2>2 DEF IInv, AsClient
    <3>3. CASE stage[q][i] = "accept"
      BY <2>2, <2>3, <2>6, <3>1, <3>3 DEF CanConnect
    <3>4. CASE stage[q][i] # "accept"
      BY <2>4, <2>6, <3>2, <3>4
    <3> QED
      BY <3>3, <3>4
  <2>7. ASSUME NEW q \in Node, i < q
        PROVE  /\ made[q][i] \in {0, 1, 2} /\ (Complete(q, i) <=> made[q][i] = 2)
               /\ HasMade(q, i, "ios") <=> made[q][i] # 0
               /\ HasMade(q, i, "ios2") <=> made[q][i] = 2
               /\ NextPeer(q, i) = i /\ IterOf(q, i) = i /\ IterOf(i, q) = i
               /\ made[q][i] = 0 => NextConn(q, i) = "ios"
               /\ made[q][i] = 1 => NextConn(q, i) = "ios2"
               /\ PlaceOf(i, q, "ios") = 2 * (q - i) - 1 /\ PlaceOf(i, q, "ios2") = 2 * (q - i)
    <3>1. q \in Int /\ i \in Int
      BY <2>2, RingSumAssumption DEF Node
    <3>2. made[q][i] \in Nat /\ made[q][i] <= ToMake(q, i)
      BY <1>1, <2>2 DEF IInv, TypeOK
    <3>3. ToMake(q, i) = 2
      BY <2>7, <3>1 DEF ToMake
    <3>4. made[q][i] \in {0, 1, 2}
      BY <3>2, <3>3
    <3>5. IterOf(q, i) = i /\ PlaceOf(q, i, "ios") = 1 /\ PlaceOf(q, i, "ios2") = 2
      BY <2>7, <3>1 DEF IterOf, PlaceOf
    <3>6. NextPeer(q, i) = i
      BY <2>7, <3>1 DEF NextPeer, PeerAt
    <3>7. IterOf(i, q) = i
      BY <2>7, <3>1 DEF IterOf
    <3>8. PlaceOf(i, q, "ios") = 2 * (q - i) - 1 /\ PlaceOf(i, q, "ios2") = 2 * (q - i)
      BY <2>7, <3>1 DEF PlaceOf
    <3> QED
      BY <3>3, <3>4, <3>5, <3>6, <3>7, <3>8 DEF HasMade, Complete, NextConn, ConnAt
  <2>8. \A q \in Node : i < q => IsClient(i, q, "ios") /\ IsClient(q, i, "ios2")
    BY <2>2, RingSumAssumption DEF IsClient, Node
  <2>9. "ios" \in Conn /\ "ios2" \in Conn
    BY DEF Conn
  <2>10. ASSUME NEW q \in Node, i < q, made[q][i] = 0, HasMade(i, q, "ios")
         PROVE  CanAccept(q, i)
    <3>1. queue[q][i] # <<>>
      BY <1>1, <2>2, <2>7, <2>8, <2>9, <2>10 DEF IInv, PairInv
    <3> QED
      BY <2>5, <3>1
  <2>11. CASE ~Complete(i, i)
    <3> DEFINE q == NextPeer(i, i)
               c == NextConn(i, i)
    <3>1. /\ q \in Node /\ c \in Conn /\ q # i /\ IterOf(i, q) = i
          /\ made[i][i] + 1 = PlaceOf(i, q, c)
      BY <1>1, <2>2, <2>11, NextFacts DEF IInv
    <3>2. i < q
      BY <2>2, <3>1, RingSumAssumption DEF IterOf, Node
    <3>3. made[i][i] \in Nat /\ q \in Int /\ i \in Int
      BY <1>1, <2>2, <3>1, RingSumAssumption DEF IInv, TypeOK, Node
    <3>4. AsClient(i, i) <=> IsClient(i, q, c)
      BY DEF AsClient
    <3>5. CASE c = "ios"
      <4>1. ~HasMade(i, q, "ios")
        BY <3>1, <3>3, <3>5 DEF HasMade
      <4>2. ~HasMade(q, i, "ios")
        BY <1>1, <2>2, <2>8, <2>9, <3>1, <3>2, <4>1 DEF IInv, PairInv
      <4>3. ~Complete(q, i) /\ NextConn(q, i) = "ios" /\ NextPeer(q, i) = i
        BY <2>7, <3>1, <3>2, <4>2
      <4> QED
        BY <2>2, <2>6, <2>8, <2>11, <3>1, <3>2, <3>4, <3>5, <4>3
    <3>6. CASE c = "ios2"
      <4>1. HasMade(i, q, "ios") /\ ~HasMade(i, q, "ios2")
        BY <2>7, <3>1, <3>2, <3>3, <3>6 DEF HasMade
      <4>2. CASE made[q][i] = 0
        BY <2>10, <3>1, <3>2, <4>1, <4>2
      <4>3. CASE made[q][i] = 1
        <5>1. ~Complete(q, i) /\ NextConn(q, i) = "ios2" /\ NextPeer(q, i) = i
          BY <2>7, <3>1, <3>2, <4>3
        <5>2. AsClient(q, i)
          BY <2>8, <3>1, <3>2, <5>1 DEF AsClient
        <5> QED
          BY <2>2, <2>6, <2>11, <3>1, <3>6, <5>1, <5>2
      <4>4. CASE made[q][i] = 2
        <5>1. HasMade(q, i, "ios2")
          BY <2>7, <3>1, <3>2, <4>4
        <5>2. queue[i][i] # <<>>
          BY <1>1, <2>2, <2>7, <2>8, <2>9, <3>1, <3>2, <4>1, <5>1 DEF IInv, PairInv
        <5> QED
          BY <2>2, <2>5, <5>2
      <4> QED
        BY <2>7, <3>1, <3>2, <4>2, <4>3, <4>4
    <3> QED
      BY <3>1, <3>5, <3>6 DEF Conn
  <2>12. CASE Complete(i, i)
    <3>1. PICK q \in Node : ~Complete(q, i)
      BY <2>1
    <3>2. i < q /\ q <= nP
      <4>1. i <= q /\ i # q
        BY <1>1, <2>2, <2>12, <3>1, NextFacts DEF IInv
      <4> QED
        BY <2>2, <4>1, RingSumAssumption DEF Node
    <3>3. HasMade(i, q, "ios") /\ HasMade(i, q, "ios2")
      <4>1. made[i][i] = 2 * (nP - i) /\ i \in Int /\ q \in Int /\ nP \in Int
        BY <2>2, <2>12, RingSumAssumption DEF Complete, ToMake, Node
      <4> QED
        BY <2>7, <3>2, <4>1 DEF HasMade
    <3>4. HasMade(q, i, "ios2") => Complete(q, i)
      BY <2>7, <3>2
    <3>5. made[q][i] = 0 \/ HasMade(q, i, "ios2")
      <4>1. IsClient(q, i, "ios2") /\ HasMade(i, q, "ios2") /\ q # i
        BY <2>2, <2>8, <3>2, <3>3, RingSumAssumption DEF Node
      <4> QED
        BY <1>1, <2>2, <2>9, <4>1 DEF IInv, PairInv
    <3> QED
      BY <2>2, <2>10, <3>1, <3>2, <3>3, <3>4, <3>5
  <2> QED
    BY <2>11, <2>12
<1> QED
  BY <1>1, Invariance, PTL DEF NoDeadlock
=============================================================================
