----------------------------- MODULE OfflineProofs -----------------------------
(***************************************************************************)
(* The offline phase for every circuit, number of parties and stream: the    *)
(* generators of dealer and parties stay in step, the last party gets what   *)
(* was dealt for it, and a node leaves sync only when all shares are there.  *)
(***************************************************************************)
EXTENDS Offline, OpsProofs
-----------------------------------------------------------------------------
(***************************************************************************)
(* The inductive invariant: where a node is in sync and which bytes are      *)
(* under way; what has been drawn and dealt for so many items; and what a    *)
(* connection holds.                                                        *)
(***************************************************************************)

\* The handshake in which node p meets q over c.
ShakeWith(p, q, c) == 2 * (IF q < p THEN q ELSE q - 1) + (IF c = "ios" THEN 1 ELSE 2)

\* Node p has sent its byte of handshake k, and it has read the other one.
HasSent(p, k) ==
  \/ k < shake[p]
  \/ k = shake[p] /\ IsServer(p, k) /\ step[p] \in {"flush", "recv"}

HasTaken(p, k) == k < shake[p] \/ (k = shake[p] /\ step[p] = "reply")

\* Where a node may be in sync.
SyncInv ==
  /\ shake \in [Node -> 1 .. 2 * nP + 1]
  /\ step \in [Node -> {"out", "send", "flush", "recv", "reply", "done"}]
  /\ \A p \in Node :
       /\ step[p] = "out" => shake[p] = 1
       /\ step[p] = "done" <=> shake[p] \notin Handshakes
       /\ step[p] = "send" => IsServer(p, shake[p])
       /\ step[p] = "reply" => ~IsServer(p, shake[p])

\* A byte that p has sent to q over c and that q has not read.
ByteUnderWay(p, q, c) == HasSent(p, ShakeWith(p, q, c)) /\ ~HasTaken(q, ShakeWith(q, p, c))

\* No node reads a byte that was not sent.
SentFirst ==
  \A p, q \in Node, c \in Conn :
    p # q /\ HasTaken(q, ShakeWith(q, p, c)) => HasSent(p, ShakeWith(p, q, c))

\* Among the first k items: those dealt at random, the r2, and the secrets.
RandomUpTo(k) == Cardinality({j \in 1 .. k : IsRandom(All[j])})

ShiftsUpTo(k) == Cardinality({j \in 1 .. k : All[j][2] = "r2"})

SecretsUpTo(k) == Cardinality({j \in 1 .. k : ~IsRandom(All[j])})

\* The draws that go with k items: the dealer draws for all parties, a party
\* for itself.
DealerDrawn(k) == [i \in Node |-> CASE i = Dealer -> ShiftsUpTo(k)
                                    [] i = nP     -> RandomUpTo(k)
                                    [] OTHER      -> k]

PartyDrawn(p, k) ==
  [i \in Node |-> IF i # 0 THEN 0 ELSE IF p < nP THEN k ELSE RandomUpTo(k)]

DealtAll == DealtShares(All, stream)

\* The order in which dealer and last party go through run.
StageInv ==
  /\ stage \in [Node -> {"deal", "sendShares", "recvLengths", "recvShares", "ran"}]
  /\ stage[Dealer] \in {"deal", "sendShares", "ran"}
  /\ \A p \in Party : p < nP => stage[p] \in {"deal", "ran"}
  /\ stage[nP] # "sendShares"
  /\ stage[nP] = "recvShares" => stage[Dealer] # "deal"
  /\ stage[nP] \in {"deal", "ran"} => stage[Dealer] = "ran"
  /\ \A n \in Node : step[n] # "out" => stage[n] = "ran"

\* What the dealer has dealt is the beginning of what it will have dealt.
DealerInv ==
  /\ Len(tp) \in Count /\ tp \in Seq([Party -> Ring])
  /\ \A k \in 1 .. Len(tp) : tp[k] = DealtAll[k]
  /\ stage[Dealer] # "deal" => Len(tp) = Len(All)
  /\ drawn[Dealer] = DealerDrawn(Len(tp))
  /\ Len(rand_sh_sec[Dealer]) = SecretsUpTo(Len(tp))
  /\ \A k \in 1 .. Len(tp) :
       ~IsRandom(All[k]) => rand_sh_sec[Dealer][SecretsUpTo(k)] = DealtAll[k][nP]

\* So is what a party has taken.
PartyInv ==
  \A p \in Party :
    /\ Len(share[p]) \in Count
    /\ \A k \in 1 .. Len(share[p]) : share[p][k] = DealtAll[k][p]
    /\ stage[p] = "ran" => Len(share[p]) = Len(All)
    /\ drawn[p] = PartyDrawn(p, Len(share[p]))

\* The last party uses what it was sent in order.
LastInv ==
  /\ stage[nP] \in {"recvLengths", "recvShares"} => share[nP] = <<>> /\ rand_sh_sec[nP] = <<>>
  /\ stage[nP] \in {"deal", "ran"} => rand_sh_sec[nP] = rand_sh_sec[Dealer]
  /\ idx = SecretsUpTo(Len(share[nP]))

DataInv == /\ stream \in Streams
           /\ drawn \in [Node -> [Node -> Nat]]
           /\ share \in [Party -> Seq(Ring)] /\ rand_sh_sec \in [{Dealer, nP} -> Seq(Ring)]
           /\ DealerInv /\ PartyInv /\ LastInv

\* What the connection from p to q holds, flushed or not: the dealer's data for
\* the last party, and after it the byte of sync.
Lengths == [kind |-> "lengths", num |-> Len(rand_sh_sec[Dealer])]
Dealt   == [kind |-> "shares", vals |-> rand_sh_sec[Dealer]]

Letters ==
  CASE stage[nP] = "recvLengths" ->
         IF stage[Dealer] = "deal" THEN <<>>
         ELSE IF stage[Dealer] = "sendShares" THEN <<Lengths>> ELSE <<Lengths, Dealt>>
    [] stage[nP] = "recvShares" -> IF stage[Dealer] = "ran" THEN <<Dealt>> ELSE <<>>
    [] OTHER -> <<>>

DataLine(p, q, c) == IF p = Dealer /\ q = nP /\ c = DataConn(p, q) THEN Letters ELSE <<>>

SyncLine(p, q, c) == IF ByteUnderWay(p, q, c) THEN <<Byte>> ELSE <<>>

UnderWay(p, q, c) == DataLine(p, q, c) \o SyncLine(p, q, c)

Message == [kind : {"byte"}] \cup [kind : {"lengths"}, num : Nat]
             \cup [kind : {"shares"}, vals : Seq(Ring)]

Channels == [Node -> [Node -> [Conn -> Seq(Message)]]]

LinesTyped == buffer \in Channels /\ socket \in Channels

LinesInv ==
  LinesTyped /\ \A p, q \in Node, c \in Conn :
    p # q => socket[p][q][c] \o buffer[p][q][c] = UnderWay(p, q, c)

IInv == SyncInv /\ SentFirst /\ StageInv /\ DataInv /\ LinesInv
-----------------------------------------------------------------------------

\* A node meets each peer over each connection in one handshake.
LEMMA ShakeFacts ==
  /\ \A p \in Node, k \in Handshakes :
       /\ Peer(p, k) \in Node /\ Peer(p, k) # p /\ ConnOf(k) \in Conn
       /\ ShakeWith(p, Peer(p, k), ConnOf(k)) = k
  /\ \A p, q \in Node, c \in Conn :
       p # q => /\ ShakeWith(p, q, c) \in Handshakes
                /\ Peer(p, ShakeWith(p, q, c)) = q /\ ConnOf(ShakeWith(p, q, c)) = c
<1>1. ASSUME NEW p \in Node, NEW k \in Handshakes
      PROVE  /\ Peer(p, k) \in Node /\ Peer(p, k) # p /\ ConnOf(k) \in Conn
             /\ ShakeWith(p, Peer(p, k), ConnOf(k)) = k
  <2> DEFINE i == (k - 1) \div 2
             r == (k - 1) % 2
  <2>1. p \in Nat /\ nP \in Nat /\ p <= nP /\ k \in Nat /\ 1 <= k /\ k <= 2 * nP
    BY <1>1, RingSumAssumption DEF Node, Handshakes
  <2>2. i \in Nat /\ i <= nP - 1 /\ r \in 0 .. 1 /\ k - 1 = 2 * i + r
    BY <2>1
  <2>3. k % 2 = 1 <=> r = 0
    BY <2>1
  <2>4. Peer(p, k) = IF i < p THEN i ELSE i + 1
    BY DEF Peer
  <2>5. ConnOf(k) = IF r = 0 THEN "ios" ELSE "ios2"
    BY <2>3 DEF ConnOf
  <2> HIDE DEF i, r
  <2>6. Peer(p, k) \in Node /\ Peer(p, k) # p
    BY <2>1, <2>2, <2>4 DEF Node
  <2>7. (IF Peer(p, k) < p THEN Peer(p, k) ELSE Peer(p, k) - 1) = i
    BY <2>1, <2>2, <2>4
  <2>8. (IF ConnOf(k) = "ios" THEN 1 ELSE 2) = r + 1
    BY <2>2, <2>5
  <2>9. ShakeWith(p, Peer(p, k), ConnOf(k)) = 2 * i + (r + 1)
    BY <2>7, <2>8 DEF ShakeWith
  <2> QED
    BY <2>1, <2>2, <2>5, <2>6, <2>9 DEF Conn
<1>2. ASSUME NEW p \in Node, NEW q \in Node, NEW c \in Conn, p # q
      PROVE  /\ ShakeWith(p, q, c) \in Handshakes
             /\ Peer(p, ShakeWith(p, q, c)) = q /\ ConnOf(ShakeWith(p, q, c)) = c
  <2> DEFINE i == IF q < p THEN q ELSE q - 1
             b == IF c = "ios" THEN 1 ELSE 2
             k == ShakeWith(p, q, c)
  <2>1. p \in Nat /\ q \in Nat /\ nP \in Nat /\ p <= nP /\ q <= nP
    BY RingSumAssumption DEF Node
  <2>2. i \in Nat /\ i <= nP - 1 /\ q = IF i < p THEN i ELSE i + 1
    BY <1>2, <2>1
  <2>3. b \in 1 .. 2 /\ c = (IF b = 1 THEN "ios" ELSE "ios2")
    BY DEF Conn
  <2>4. k = 2 * i + b
    BY DEF ShakeWith
  <2> HIDE DEF i, b, k
  <2>5. k \in Handshakes /\ (k - 1) \div 2 = i /\ (k % 2 = 1 <=> b = 1)
    BY <2>1, <2>2, <2>3, <2>4 DEF Handshakes
  <2>6. Peer(p, k) = q
    BY <2>2, <2>5 DEF Peer
  <2>7. ConnOf(k) = c
    BY <2>3, <2>5 DEF ConnOf
  <2> QED
    BY <2>5, <2>6, <2>7 DEF k
<1> QED
  BY <1>1, <1>2

\* What the steps of sync change of which bytes were sent and read: k is the
\* handshake the node is in.
Changes(p, k, sends, takes) ==
  \A q \in Node, h \in Handshakes :
    /\ HasSent(q, h)' <=> HasSent(q, h) \/ (sends /\ q = p /\ h = k)
    /\ HasTaken(q, h)' <=> HasTaken(q, h) \/ (takes /\ q = p /\ h = k)

LEMMA FirstStepFacts ==
  ASSUME NEW p \in Node, NEW k \in 1 .. 2 * nP + 1
  PROVE  /\ FirstStep(p, k) \in {"send", "flush", "done"}
         /\ FirstStep(p, k) = "done" <=> k \notin Handshakes
         /\ FirstStep(p, k) = "send" => IsServer(p, k)
         /\ FirstStep(p, k) = "flush" => ~IsServer(p, k)
BY DEF FirstStep

LEMMA InHandshake ==
  ASSUME SyncInv, NEW p \in Node, step[p] \notin {"out", "done"}
  PROVE  shake[p] \in Handshakes /\ shake[p] + 1 \in 1 .. 2 * nP + 1
<1>1. shake[p] \in Handshakes
  BY DEF SyncInv
<1> QED
  BY <1>1, RingSumAssumption DEF Handshakes

\* A step that leaves the node in its handshake, and one that ends it.
LEMMA StepWithin ==
  ASSUME SyncInv, NEW p \in Node, NEW s \in {"send", "flush", "recv", "reply"},
         shake[p] \in Handshakes, shake' = shake, step' = [step EXCEPT ![p] = s],
         s = "send" => IsServer(p, shake[p]), s = "reply" => ~IsServer(p, shake[p])
  PROVE  SyncInv'
<1>1. shake' \in [Node -> 1 .. 2 * nP + 1]
  BY DEF SyncInv
<1>2. step' \in [Node -> {"out", "send", "flush", "recv", "reply", "done"}]
  BY DEF SyncInv
<1>3. ASSUME NEW q \in Node
      PROVE  /\ step'[q] = "out" => shake'[q] = 1
             /\ step'[q] = "done" <=> shake'[q] \notin Handshakes
             /\ step'[q] = "send" => IsServer(q, shake'[q])
             /\ step'[q] = "reply" => ~IsServer(q, shake'[q])
  <2>1. CASE q # p
    BY <2>1 DEF SyncInv
  <2>2. CASE q = p
    <3>1. step'[q] = s
      BY <2>2 DEF SyncInv
    <3> QED
      BY <2>2, <3>1
  <2> QED
    BY <2>1, <2>2
<1> QED
  BY <1>1, <1>2, <1>3 DEF SyncInv

LEMMA EndFacts ==
  ASSUME SyncInv, NEW p \in Node, step[p] \notin {"out", "done"}, EndHandshake(p)
  PROVE  /\ SyncInv'
         /\ shake'[p] = shake[p] + 1 /\ step'[p] = FirstStep(p, shake[p] + 1)
         /\ \A q \in Node : q # p => shake'[q] = shake[q] /\ step'[q] = step[q]
<1> DEFINE k == shake[p] + 1
<1>1. k \in 1 .. 2 * nP + 1
  BY InHandshake
<1>2. shake' = [shake EXCEPT ![p] = k] /\ step' = [step EXCEPT ![p] = FirstStep(p, k)]
  BY DEF EndHandshake
<1>3. k # 1
  BY InHandshake, RingSumAssumption DEF Handshakes
<1> HIDE DEF k
<1>4. /\ FirstStep(p, k) \in {"send", "flush", "done"}
      /\ FirstStep(p, k) = "done" <=> k \notin Handshakes
      /\ FirstStep(p, k) = "send" => IsServer(p, k)
  BY <1>1, FirstStepFacts
<1>5. /\ shake' \in [Node -> 1 .. 2 * nP + 1]
      /\ step' \in [Node -> {"out", "send", "flush", "recv", "reply", "done"}]
  BY <1>1, <1>2, <1>4 DEF SyncInv
<1>6. /\ shake'[p] = k /\ step'[p] = FirstStep(p, k)
      /\ \A q \in Node : q # p => shake'[q] = shake[q] /\ step'[q] = step[q]
  BY <1>2 DEF SyncInv
<1>7. ASSUME NEW q \in Node
      PROVE  /\ step'[q] = "out" => shake'[q] = 1
             /\ step'[q] = "done" <=> shake'[q] \notin Handshakes
             /\ step'[q] = "send" => IsServer(q, shake'[q])
             /\ step'[q] = "reply" => ~IsServer(q, shake'[q])
  <2>1. CASE q # p
    BY <1>6, <2>1 DEF SyncInv
  <2>2. CASE q = p
    BY <1>4, <1>6, <2>2
  <2> QED
    BY <2>1, <2>2
<1>8. SyncInv'
  BY <1>5, <1>7 DEF SyncInv
<1> QED
  BY <1>6, <1>8 DEF k

LEMMA EnterEffect ==
  ASSUME SyncInv, NEW p \in Node, EnterSync(p)
  PROVE  SyncInv' /\ Changes(p, 1, FALSE, FALSE)
<1>1. /\ step[p] = "out" /\ shake[p] = 1 /\ shake' = shake
      /\ step' = [step EXCEPT ![p] = FirstStep(p, 1)]
  BY DEF EnterSync, SyncInv
<1>2. 1 \in Handshakes /\ 1 \in 1 .. 2 * nP + 1
  BY RingSumAssumption DEF Handshakes
<1> DEFINE s == FirstStep(p, 1)
<1>3. s \in {"send", "flush"} /\ (s = "send" => IsServer(p, 1)) /\ (s = "flush" => ~IsServer(p, 1))
  BY <1>2, FirstStepFacts
<1> HIDE DEF s
<1>4. step' = [step EXCEPT ![p] = s]
  BY <1>1 DEF s
<1>5. SyncInv'
  BY <1>1, <1>2, <1>3, <1>4, StepWithin
<1>6. step'[p] = s /\ \A q \in Node : q # p => step'[q] = step[q]
  BY <1>4 DEF SyncInv
<1>7. ASSUME NEW q \in Node, NEW h \in Handshakes
      PROVE  (HasSent(q, h)' <=> HasSent(q, h)) /\ (HasTaken(q, h)' <=> HasTaken(q, h))
  <2>1. CASE q # p
    BY <1>1, <1>6, <2>1 DEF HasSent, HasTaken
  <2>2. CASE q = p
    BY <1>1, <1>3, <1>6, <2>2 DEF HasSent, HasTaken
  <2> QED
    BY <2>1, <2>2
<1> QED
  BY <1>5, <1>7 DEF Changes

LEMMA SendEffect ==
  ASSUME SyncInv, NEW p \in Node, SyncSend(p)
  PROVE  SyncInv' /\ Changes(p, shake[p], TRUE, FALSE)
<1>1. /\ step[p] = "send" /\ shake' = shake /\ step' = [step EXCEPT ![p] = "flush"]
      /\ IsServer(p, shake[p])
  BY DEF SyncSend, SyncInv
<1>2. shake[p] \in Handshakes
  BY <1>1, InHandshake
<1>3. SyncInv'
  BY <1>1, <1>2, StepWithin
<1>4. step'[p] = "flush" /\ \A q \in Node : q # p => step'[q] = step[q]
  BY <1>1 DEF SyncInv
<1>5. ASSUME NEW q \in Node, NEW h \in Handshakes
      PROVE  /\ HasSent(q, h)' <=> HasSent(q, h) \/ (q = p /\ h = shake[p])
             /\ HasTaken(q, h)' <=> HasTaken(q, h)
  <2>1. CASE q # p
    BY <1>1, <1>4, <2>1 DEF HasSent, HasTaken
  <2>2. CASE q = p
    BY <1>1, <1>4, <2>2 DEF HasSent, HasTaken
  <2> QED
    BY <2>1, <2>2
<1> QED
  BY <1>3, <1>5 DEF Changes

LEMMA FlushEffect ==
  ASSUME SyncInv, NEW p \in Node, SyncFlush(p)
  PROVE  SyncInv' /\ Changes(p, shake[p], FALSE, FALSE)
<1>1. step[p] = "flush" /\ shake' = shake /\ step' = [step EXCEPT ![p] = "recv"]
  BY DEF SyncFlush
<1>2. shake[p] \in Handshakes
  BY <1>1, InHandshake
<1>3. SyncInv'
  BY <1>1, <1>2, StepWithin
<1>4. step'[p] = "recv" /\ \A q \in Node : q # p => step'[q] = step[q]
  BY <1>1 DEF SyncInv
<1>5. ASSUME NEW q \in Node, NEW h \in Handshakes
      PROVE  (HasSent(q, h)' <=> HasSent(q, h)) /\ (HasTaken(q, h)' <=> HasTaken(q, h))
  <2>1. CASE q # p
    BY <1>1, <1>4, <2>1 DEF HasSent, HasTaken
  <2>2. CASE q = p
    BY <1>1, <1>4, <2>2 DEF HasSent, HasTaken
  <2> QED
    BY <2>1, <2>2
<1> QED
  BY <1>3, <1>5 DEF Changes

LEMMA RecvEffect ==
  ASSUME SyncInv, NEW p \in Node, SyncRecv(p)
  PROVE  SyncInv' /\ Changes(p, shake[p], FALSE, TRUE)
<1>1. step[p] = "recv" /\ shake[p] \in Handshakes
  BY InHandshake DEF SyncRecv
<1>2. CASE IsServer(p, shake[p])
  <2>1. EndHandshake(p)
    BY <1>2 DEF SyncRecv
  <2>2. /\ SyncInv'
        /\ shake'[p] = shake[p] + 1 /\ step'[p] = FirstStep(p, shake[p] + 1)
        /\ \A q \in Node : q # p => shake'[q] = shake[q] /\ step'[q] = step[q]
    BY <1>1, <2>1, EndFacts
  <2>3. /\ step'[p] \in {"send", "flush", "done"}
        /\ step'[p] = "flush" => ~IsServer(p, shake[p] + 1)
    BY <1>1, <2>2, InHandshake, FirstStepFacts
  <2>4. ASSUME NEW q \in Node, NEW h \in Handshakes
        PROVE  /\ HasSent(q, h)' <=> HasSent(q, h)
               /\ HasTaken(q, h)' <=> HasTaken(q, h) \/ (q = p /\ h = shake[p])
    <3>1. CASE q # p
      BY <2>2, <3>1 DEF HasSent, HasTaken
    <3>2. CASE q = p
      BY <1>1, <1>2, <2>2, <2>3, <3>2 DEF HasSent, HasTaken, Handshakes
    <3> QED
      BY <3>1, <3>2
  <2> QED
    BY <2>2, <2>4 DEF Changes
<1>3. CASE ~IsServer(p, shake[p])
  <2>1. step' = [step EXCEPT ![p] = "reply"] /\ shake' = shake
    BY <1>3 DEF SyncRecv
  <2>2. SyncInv'
    BY <1>1, <1>3, <2>1, StepWithin
  <2>3. step'[p] = "reply" /\ \A q \in Node : q # p => step'[q] = step[q]
    BY <2>1 DEF SyncInv
  <2>4. ASSUME NEW q \in Node, NEW h \in Handshakes
        PROVE  /\ HasSent(q, h)' <=> HasSent(q, h)
               /\ HasTaken(q, h)' <=> HasTaken(q, h) \/ (q = p /\ h = shake[p])
    <3>1. CASE q # p
      BY <2>1, <2>3, <3>1 DEF HasSent, HasTaken
    <3>2. CASE q = p
      BY <1>1, <1>3, <2>1, <2>3, <3>2 DEF HasSent, HasTaken
    <3> QED
      BY <3>1, <3>2
  <2> QED
    BY <2>2, <2>4 DEF Changes
<1> QED
  BY <1>2, <1>3

LEMMA ReplyEffect ==
  ASSUME SyncInv, NEW p \in Node, SyncReply(p)
  PROVE  SyncInv' /\ Changes(p, shake[p], TRUE, FALSE)
<1>1. step[p] = "reply" /\ shake[p] \in Handshakes /\ ~IsServer(p, shake[p])
  BY InHandshake DEF SyncReply, SyncInv
<1>2. EndHandshake(p)
  BY DEF SyncReply
<1>3. /\ SyncInv'
      /\ shake'[p] = shake[p] + 1 /\ step'[p] = FirstStep(p, shake[p] + 1)
      /\ \A q \in Node : q # p => shake'[q] = shake[q] /\ step'[q] = step[q]
  BY <1>1, <1>2, EndFacts
<1>4. /\ step'[p] \in {"send", "flush", "done"}
      /\ step'[p] = "flush" => ~IsServer(p, shake[p] + 1)
  BY <1>1, <1>3, InHandshake, FirstStepFacts
<1>5. ASSUME NEW q \in Node, NEW h \in Handshakes
      PROVE  /\ HasSent(q, h)' <=> HasSent(q, h) \/ (q = p /\ h = shake[p])
             /\ HasTaken(q, h)' <=> HasTaken(q, h)
  <2>1. CASE q # p
    BY <1>3, <2>1 DEF HasSent, HasTaken
  <2>2. CASE q = p
    BY <1>1, <1>3, <1>4, <2>2 DEF HasSent, HasTaken, Handshakes
  <2> QED
    BY <2>1, <2>2
<1> QED
  BY <1>3, <1>5 DEF Changes
-----------------------------------------------------------------------------
\* A connection holds its flushed messages and then the others.
Line(p, q, c) == socket[p][q][c] \o buffer[p][q][c]

OtherLines(p, q, c) ==
  \A a, b \in Node, d \in Conn : (a # p \/ b # q \/ d # c) => Line(a, b, d)' = Line(a, b, d)

Updated(g, f, p, q, c, v) == g = [f EXCEPT ![p][q][c] = v]

LEMMA UpdatedFacts ==
  ASSUME NEW f \in Channels, NEW v \in Seq(Message),
         NEW p \in Node, NEW q \in Node, NEW c \in Conn,
         NEW g, Updated(g, f, p, q, c, v)
  PROVE  /\ g \in Channels /\ g[p][q][c] = v
         /\ \A a, b \in Node, d \in Conn : (a # p \/ b # q \/ d # c) => g[a][b][d] = f[a][b][d]
BY DEF Channels, Updated

LEMMA ChannelTyped ==
  ASSUME LinesTyped, NEW p \in Node, NEW q \in Node, NEW c \in Conn
  PROVE  socket[p][q][c] \in Seq(Message) /\ buffer[p][q][c] \in Seq(Message)
BY DEF LinesTyped, Channels

LEMMA SequenceFacts ==
  ASSUME NEW s \in Seq(Message), NEW b \in Seq(Message), NEW m \in Message
  PROVE  /\ s \o b \in Seq(Message) /\ Append(b, m) \in Seq(Message) /\ <<>> \in Seq(Message)
         /\ s \o Append(b, m) = (s \o b) \o <<m>>
         /\ (s \o b) \o <<m>> \in Seq(Message)
         /\ s \o <<>> = s
         /\ s # <<>> => /\ Head(s) \in Message /\ Tail(s) \in Seq(Message)
                        /\ s \o b = <<Head(s)>> \o (Tail(s) \o b)
<1>1. s \o b \in Seq(Message) /\ Append(b, m) \in Seq(Message) /\ <<>> \in Seq(Message) /\ <<m>> \in Seq(Message)
  OBVIOUS
<1>2. (s \o b) \o <<m>> \in Seq(Message)
  BY <1>1
<1>3. s \o Append(b, m) = (s \o b) \o <<m>>
  BY <1>1
<1>4. s \o <<>> = s
  OBVIOUS
<1>5. ASSUME s # <<>>
      PROVE  /\ Head(s) \in Message /\ Tail(s) \in Seq(Message)
             /\ s \o b = <<Head(s)>> \o (Tail(s) \o b)
  <2>1. Head(s) \in Message /\ Tail(s) \in Seq(Message)
    BY <1>5
  <2> QED
    BY <1>5, <2>1
<1> QED
  BY <1>1, <1>2, <1>3, <1>4, <1>5

LEMMA LineWritten ==
  ASSUME LinesTyped, NEW p \in Node, NEW q \in Node, NEW c \in Conn, NEW m \in Message,
         Write(p, q, c, m), socket' = socket
  PROVE  LinesTyped' /\ Line(p, q, c)' = Line(p, q, c) \o <<m>> /\ OtherLines(p, q, c)
<1> DEFINE s == socket[p][q][c]
           b == buffer[p][q][c]
<1>1. s \in Seq(Message) /\ b \in Seq(Message)
  BY ChannelTyped
<1> DEFINE v == Append(b, m)
<1>2. v \in Seq(Message) /\ s \o v = (s \o b) \o <<m>>
  <2> HIDE DEF s, b
  <2> QED
    BY <1>1, SequenceFacts
<1>3. Updated(buffer', buffer, p, q, c, v)
  BY DEF Write, Updated
<1> HIDE DEF v
<1>4. /\ buffer' \in Channels /\ buffer'[p][q][c] = v
      /\ \A x, y \in Node, d \in Conn : (x # p \/ y # q \/ d # c) => buffer'[x][y][d] = buffer[x][y][d]
  BY <1>2, <1>3, UpdatedFacts DEF LinesTyped
<1> QED
  BY <1>2, <1>4 DEF LinesTyped, Line, OtherLines

LEMMA LineFlushed ==
  ASSUME LinesTyped, NEW p \in Node, NEW q \in Node, NEW c \in Conn, Flush(p, q, c)
  PROVE  LinesTyped' /\ Line(p, q, c)' = Line(p, q, c) /\ OtherLines(p, q, c)
<1> DEFINE s == socket[p][q][c]
           b == buffer[p][q][c]
<1>1. s \in Seq(Message) /\ b \in Seq(Message) /\ <<>> \in Seq(Message)
  BY ChannelTyped
<1> DEFINE v == s \o b
           e == <<>>
<1>2. v \in Seq(Message) /\ v \o e = v /\ e \in Seq(Message)
  <2> HIDE DEF s, b
  <2> QED
    BY <1>1, SequenceFacts
<1>3. Updated(buffer', buffer, p, q, c, e) /\ Updated(socket', socket, p, q, c, v)
  BY DEF Flush, Updated
<1> HIDE DEF v, e
<1>4. /\ buffer' \in Channels /\ buffer'[p][q][c] = e
      /\ \A x, y \in Node, d \in Conn : (x # p \/ y # q \/ d # c) => buffer'[x][y][d] = buffer[x][y][d]
  BY <1>2, <1>3, UpdatedFacts DEF LinesTyped
<1>5. /\ socket' \in Channels /\ socket'[p][q][c] = v
      /\ \A x, y \in Node, d \in Conn : (x # p \/ y # q \/ d # c) => socket'[x][y][d] = socket[x][y][d]
  BY <1>2, <1>3, UpdatedFacts DEF LinesTyped
<1> QED
  BY <1>2, <1>4, <1>5 DEF LinesTyped, Line, OtherLines, v

Read(p, q, c) == /\ socket[p][q][c] # <<>> /\ buffer' = buffer
                 /\ socket' = [socket EXCEPT ![p][q][c] = Tail(@)]

LEMMA LineRead ==
  ASSUME LinesTyped, NEW p \in Node, NEW q \in Node, NEW c \in Conn,
         Read(p, q, c)
  PROVE  /\ LinesTyped' /\ OtherLines(p, q, c)
         /\ Line(p, q, c) = <<Head(socket[p][q][c])>> \o Line(p, q, c)'
         /\ Line(p, q, c)' \in Seq(Message)
<1> DEFINE s == socket[p][q][c]
           b == buffer[p][q][c]
<1>1. s \in Seq(Message) /\ b \in Seq(Message)
  BY ChannelTyped
<1> DEFINE v == Tail(s)
<1>2. v \in Seq(Message) /\ s \o b = <<Head(s)>> \o (v \o b) /\ v \o b \in Seq(Message)
  <2>1. s # <<>>
    BY DEF Read
  <2> HIDE DEF s, b
  <2>2. v \in Seq(Message) /\ s \o b = <<Head(s)>> \o (v \o b)
    BY <1>1, <2>1, SequenceFacts
  <2> HIDE DEF v
  <2> QED
    BY <1>1, <2>2
<1>3. Updated(socket', socket, p, q, c, v) /\ buffer' = buffer
  BY DEF Read, Updated
<1> HIDE DEF v
<1>4. /\ socket' \in Channels /\ socket'[p][q][c] = v
      /\ \A x, y \in Node, d \in Conn : (x # p \/ y # q \/ d # c) => socket'[x][y][d] = socket[x][y][d]
  BY <1>2, <1>3, UpdatedFacts DEF LinesTyped
<1>5. LinesTyped' /\ OtherLines(p, q, c)
  BY <1>3, <1>4 DEF LinesTyped, Line, OtherLines
<1>6. Line(p, q, c) = s \o b /\ Line(p, q, c)' = v \o b
  BY <1>3, <1>4 DEF Line
<1> QED
  BY <1>2, <1>5, <1>6

\* The client's answer goes out at once, after what was not flushed.
Answered(p, q, c, m) ==
  /\ socket' = [socket EXCEPT ![p][q][c] = @ \o buffer[p][q][c] \o <<m>>]
  /\ buffer' = [buffer EXCEPT ![p][q][c] = <<>>]

LEMMA LineAnswered ==
  ASSUME LinesTyped, NEW p \in Node, NEW q \in Node, NEW c \in Conn, NEW m \in Message,
         Answered(p, q, c, m)
  PROVE  LinesTyped' /\ Line(p, q, c)' = Line(p, q, c) \o <<m>> /\ OtherLines(p, q, c)
<1> DEFINE s == socket[p][q][c]
           b == buffer[p][q][c]
           t == (s \o b) \o <<m>>
           e == <<>>
<1>1. s \in Seq(Message) /\ b \in Seq(Message)
  BY ChannelTyped
<1>2. t \in Seq(Message) /\ e \in Seq(Message)
  <2> HIDE DEF s, b
  <2> QED
    BY <1>1, SequenceFacts
<1>3. t \o e = t
  <2> HIDE DEF t
  <2> QED
    BY <1>2, SequenceFacts
<1>4. Updated(buffer', buffer, p, q, c, e) /\ Updated(socket', socket, p, q, c, t)
  BY DEF Answered, Updated
<1> HIDE DEF t, e
<1>5. /\ buffer' \in Channels /\ buffer'[p][q][c] = e
      /\ \A x, y \in Node, d \in Conn : (x # p \/ y # q \/ d # c) => buffer'[x][y][d] = buffer[x][y][d]
  BY <1>2, <1>4, UpdatedFacts DEF LinesTyped
<1>6. /\ socket' \in Channels /\ socket'[p][q][c] = t
      /\ \A x, y \in Node, d \in Conn : (x # p \/ y # q \/ d # c) => socket'[x][y][d] = socket[x][y][d]
  BY <1>2, <1>4, UpdatedFacts DEF LinesTyped
<1>7. Line(p, q, c)' = t
  BY <1>3, <1>5, <1>6 DEF Line
<1>8. LinesTyped'
  BY <1>5, <1>6 DEF LinesTyped
<1> HIDE DEF s, b
<1>10. ASSUME NEW x \in Node, NEW y \in Node, NEW d \in Conn, x # p \/ y # q \/ d # c
       PROVE  Line(x, y, d)' = Line(x, y, d)
  <2>1. buffer'[x][y][d] = buffer[x][y][d] /\ socket'[x][y][d] = socket[x][y][d]
    BY <1>5, <1>6, <1>10
  <2> QED
    BY <2>1 DEF Line
<1>11. OtherLines(p, q, c)
  BY <1>10 DEF OtherLines
<1>9. t = Line(p, q, c) \o <<m>>
  BY DEF Line, t, s, b
<1> QED
  BY <1>7, <1>8, <1>9, <1>11
-----------------------------------------------------------------------------
\* Bytes under way after a step of sync.
OtherBytes(p, q, c) ==
  \A a, b \in Node, d \in Conn :
    a # b /\ (a # p \/ b # q \/ d # c) => (ByteUnderWay(a, b, d)' <=> ByteUnderWay(a, b, d))

SameBytes == \A a, b \in Node, d \in Conn :
               a # b => (ByteUnderWay(a, b, d)' <=> ByteUnderWay(a, b, d))

\* A handshake tells the peer and the connection.
LEMMA ShakeOne ==
  ASSUME NEW p \in Node, NEW k \in Handshakes, NEW q \in Node, NEW c \in Conn, p # q,
         ShakeWith(p, q, c) = k
  PROVE  q = Peer(p, k) /\ c = ConnOf(k)
BY ShakeFacts

LEMMA AfterNothing ==
  ASSUME SentFirst, NEW p \in Node, NEW k, Changes(p, k, FALSE, FALSE)
  PROVE  SentFirst' /\ SameBytes
<1>1. ASSUME NEW a \in Node, NEW b \in Node, NEW d \in Conn, a # b
      PROVE  /\ HasSent(a, ShakeWith(a, b, d))' <=> HasSent(a, ShakeWith(a, b, d))
             /\ HasTaken(b, ShakeWith(b, a, d))' <=> HasTaken(b, ShakeWith(b, a, d))
  <2>1. ShakeWith(a, b, d) \in Handshakes /\ ShakeWith(b, a, d) \in Handshakes
    BY <1>1, ShakeFacts
  <2> QED
    BY <2>1 DEF Changes
<1>2. SentFirst'
  BY <1>1 DEF SentFirst
<1>3. SameBytes
  BY <1>1 DEF SameBytes, ByteUnderWay
<1> QED
  BY <1>2, <1>3

LEMMA AfterSending ==
  ASSUME SentFirst, NEW p \in Node, NEW k \in Handshakes, Changes(p, k, TRUE, FALSE),
         ~HasSent(p, k)
  PROVE  /\ SentFirst' /\ OtherBytes(p, Peer(p, k), ConnOf(k))
         /\ ~ByteUnderWay(p, Peer(p, k), ConnOf(k)) /\ ByteUnderWay(p, Peer(p, k), ConnOf(k))'
<1> DEFINE q == Peer(p, k)
           c == ConnOf(k)
<1>1. q \in Node /\ q # p /\ c \in Conn /\ ShakeWith(p, q, c) = k
  BY ShakeFacts
<1>2. ASSUME NEW a \in Node, NEW b \in Node, NEW d \in Conn, a # b
      PROVE  /\ HasSent(a, ShakeWith(a, b, d))' <=>
                  HasSent(a, ShakeWith(a, b, d)) \/ (a = p /\ b = q /\ d = c)
             /\ HasTaken(b, ShakeWith(b, a, d))' <=> HasTaken(b, ShakeWith(b, a, d))
  <2>1. ShakeWith(a, b, d) \in Handshakes /\ ShakeWith(b, a, d) \in Handshakes
    BY <1>2, ShakeFacts
  <2>2. (a = p /\ ShakeWith(a, b, d) = k) <=> (a = p /\ b = q /\ d = c)
    BY <1>1, <1>2, ShakeOne
  <2> QED
    BY <2>1, <2>2 DEF Changes
<1> HIDE DEF q, c
<1>3. SentFirst'
  BY <1>2 DEF SentFirst
<1>4. OtherBytes(p, q, c)
  BY <1>2 DEF OtherBytes, ByteUnderWay
<1>5. ~ByteUnderWay(p, q, c)
  BY <1>1 DEF ByteUnderWay
<1>6. ~HasTaken(q, ShakeWith(q, p, c))
  BY <1>1 DEF SentFirst
<1>7. ByteUnderWay(p, q, c)'
  BY <1>1, <1>2, <1>6 DEF ByteUnderWay
<1> QED
  BY <1>3, <1>4, <1>5, <1>7 DEF q, c

LEMMA AfterTaking ==
  ASSUME SentFirst, NEW p \in Node, NEW k \in Handshakes, Changes(p, k, FALSE, TRUE),
         ByteUnderWay(Peer(p, k), p, ConnOf(k))
  PROVE  /\ SentFirst' /\ OtherBytes(Peer(p, k), p, ConnOf(k))
         /\ ~ByteUnderWay(Peer(p, k), p, ConnOf(k))'
<1> DEFINE q == Peer(p, k)
           c == ConnOf(k)
<1>1. q \in Node /\ q # p /\ c \in Conn /\ ShakeWith(p, q, c) = k
  BY ShakeFacts
<1>2. ASSUME NEW a \in Node, NEW b \in Node, NEW d \in Conn, a # b
      PROVE  /\ HasSent(a, ShakeWith(a, b, d))' <=> HasSent(a, ShakeWith(a, b, d))
             /\ HasTaken(b, ShakeWith(b, a, d))' <=>
                  HasTaken(b, ShakeWith(b, a, d)) \/ (a = q /\ b = p /\ d = c)
  <2>1. ShakeWith(a, b, d) \in Handshakes /\ ShakeWith(b, a, d) \in Handshakes
    BY <1>2, ShakeFacts
  <2>2. (b = p /\ ShakeWith(b, a, d) = k) <=> (a = q /\ b = p /\ d = c)
    BY <1>1, <1>2, ShakeOne
  <2> QED
    BY <2>1, <2>2 DEF Changes
<1> HIDE DEF q, c
<1>3. HasSent(q, ShakeWith(q, p, c))
  BY DEF ByteUnderWay, q, c
<1>4. SentFirst'
  BY <1>2, <1>3 DEF SentFirst
<1>5. OtherBytes(q, p, c)
  BY <1>2 DEF OtherBytes, ByteUnderWay
<1>6. ~ByteUnderWay(q, p, c)'
  BY <1>1, <1>2 DEF ByteUnderWay
<1> QED
  BY <1>4, <1>5, <1>6 DEF q, c

\* A node that has not called sync has sent nothing in it.
LEMMA OutHasNotSent ==
  ASSUME SyncInv, NEW p \in Node, step[p] = "out", NEW k \in Handshakes
  PROVE  ~HasSent(p, k)
<1>1. shake[p] = 1
  BY DEF SyncInv
<1> QED
  BY <1>1 DEF HasSent, Handshakes
-----------------------------------------------------------------------------
\* Lines and what is under way.
LEMMA LinesFollow ==
  ASSUME LinesInv, LinesTyped', NEW p \in Node, NEW q \in Node, NEW c \in Conn, p # q,
         OtherLines(p, q, c), OtherBytes(p, q, c), Line(p, q, c)' = UnderWay(p, q, c)',
         Letters' = Letters \/ (p = Dealer /\ q = nP /\ c = DataConn(Dealer, nP))
  PROVE  LinesInv'
<1>1. ASSUME NEW a \in Node, NEW b \in Node, NEW d \in Conn, a # b
      PROVE  Line(a, b, d)' = UnderWay(a, b, d)'
  <2>1. CASE a = p /\ b = q /\ d = c
    BY <2>1
  <2>2. CASE a # p \/ b # q \/ d # c
    <3>1. Line(a, b, d)' = Line(a, b, d)
      BY <2>2 DEF OtherLines
    <3>2. Line(a, b, d) = UnderWay(a, b, d)
      BY <1>1 DEF LinesInv, Line
    <3>3. SyncLine(a, b, d)' = SyncLine(a, b, d)
      BY <1>1, <2>2 DEF OtherBytes, SyncLine
    <3>4. DataLine(a, b, d)' = DataLine(a, b, d)
      BY <2>2 DEF DataLine
    <3> QED
      BY <3>1, <3>2, <3>3, <3>4 DEF UnderWay
  <2> QED
    BY <2>1, <2>2
<1> QED
  BY <1>1 DEF LinesInv, Line

LEMMA LinesStay ==
  ASSUME LinesInv, LinesTyped', SameBytes, Letters' = Letters,
         \A a, b \in Node, d \in Conn : Line(a, b, d)' = Line(a, b, d)
  PROVE  LinesInv'
<1>1. ASSUME NEW a \in Node, NEW b \in Node, NEW d \in Conn, a # b
      PROVE  Line(a, b, d)' = UnderWay(a, b, d)'
  <2>1. Line(a, b, d) = UnderWay(a, b, d)
    BY <1>1 DEF LinesInv, Line
  <2>2. SyncLine(a, b, d)' = SyncLine(a, b, d)
    BY <1>1 DEF SameBytes, SyncLine
  <2>3. DataLine(a, b, d)' = DataLine(a, b, d)
    BY DEF DataLine
  <2> QED
    BY <2>1, <2>2, <2>3 DEF UnderWay
<1> QED
  BY <1>1 DEF LinesInv, Line

LEMMA LettersTyped ==
  ASSUME rand_sh_sec[Dealer] \in Seq(Ring)
  PROVE  /\ Lengths \in Message /\ Dealt \in Message /\ Byte \in Message
         /\ Letters \in {<<>>, <<Lengths>>, <<Lengths, Dealt>>, <<Dealt>>}
         /\ Letters \in Seq(Message)
<1>1. Len(rand_sh_sec[Dealer]) \in Nat
  OBVIOUS
<1>2. Lengths \in Message
  BY <1>1 DEF Lengths, Message
<1>3. Dealt \in Message
  BY DEF Dealt, Message
<1>4. Byte \in Message
  BY DEF Byte, Message
<1>5. Letters \in {<<>>, <<Lengths>>, <<Lengths, Dealt>>, <<Dealt>>}
  BY DEF Letters
<1>6. ASSUME NEW l \in Message, NEW d \in Message
      PROVE  <<>> \in Seq(Message) /\ <<l>> \in Seq(Message) /\ <<l, d>> \in Seq(Message) /\ <<d>> \in Seq(Message)
  OBVIOUS
<1>7. Letters \in Seq(Message)
  BY <1>2, <1>3, <1>5, <1>6
<1> QED
  BY <1>2, <1>3, <1>4, <1>5, <1>7
-----------------------------------------------------------------------------
\* The stages of the nodes, the channels and sync.
Control == SyncInv /\ SentFirst /\ StageInv /\ LinesInv

LEMMA Nodes ==
  /\ Dealer \in Node /\ nP \in Node /\ nP \in Party /\ nP # Dealer /\ Dealer \notin Party
  /\ DataConn(Dealer, nP) = "ios" /\ "ios" \in Conn /\ Party \subseteq Node
BY RingSumAssumption DEF Dealer, Node, Party, DataConn, Conn

\* A step that leaves the channels, sync and the dealer's data as they are.
LEMMA ControlStays ==
  ASSUME Control, UNCHANGED syncVars, Letters' = Letters, StageInv'
  PROVE  Control'
<1>1. SyncInv' /\ SentFirst' /\ LinesTyped' /\ SameBytes
  BY DEF Control, syncVars, SyncInv, SentFirst, HasSent, HasTaken, LinesTyped, LinesInv,
         SameBytes, ByteUnderWay
<1>2. \A a, b \in Node, d \in Conn : Line(a, b, d)' = Line(a, b, d)
  BY DEF Line, syncVars
<1>3. LinesInv'
  BY <1>1, <1>2, LinesStay DEF Control
<1> QED
  BY <1>1, <1>3 DEF Control

\* A node that is not in a stage of its own moves to the end of run.
LEMMA StageMoves ==
  ASSUME StageInv, step' = step, NEW n \in Node, NEW s, step[n] = "out",
         stage' = [stage EXCEPT ![n] = s],
         \/ n = Dealer /\ stage[Dealer] = "deal" /\ s = "sendShares"
         \/ n = Dealer /\ stage[Dealer] = "sendShares" /\ s = "ran"
         \/ n = nP /\ stage[nP] = "recvLengths" /\ s = "recvShares" /\ stage[Dealer] # "deal"
         \/ n = nP /\ stage[nP] = "recvShares" /\ s = "deal" /\ stage[Dealer] = "ran"
         \/ n \in Party /\ stage[n] = "deal" /\ s = "ran"
  PROVE  StageInv' /\ stage'[n] = s /\ \A i \in Node : i # n => stage'[i] = stage[i]
<1>1. stage'[n] = s /\ \A i \in Node : i # n => stage'[i] = stage[i]
  BY DEF StageInv
<1>2. s \in {"deal", "sendShares", "recvLengths", "recvShares", "ran"}
  OBVIOUS
<1>3. stage' \in [Node -> {"deal", "sendShares", "recvLengths", "recvShares", "ran"}]
  BY <1>2 DEF StageInv
<1>4. \A i \in Node : step'[i] # "out" => stage'[i] = "ran"
  BY <1>1 DEF StageInv
<1>5. /\ stage'[Dealer] \in {"deal", "sendShares", "ran"}
      /\ stage'[nP] # "sendShares"
      /\ stage'[nP] = "recvShares" => stage'[Dealer] # "deal"
      /\ stage'[nP] \in {"deal", "ran"} => stage'[Dealer] = "ran"
  BY <1>1, Nodes DEF StageInv
<1>6. \A p \in Party : p < nP => stage'[p] \in {"deal", "ran"}
  <2>1. \A p \in Party : p < nP => p # nP /\ p \in Node /\ p # Dealer
    BY Nodes, RingSumAssumption DEF Party
  <2> QED
    BY <1>1, <2>1, Nodes DEF StageInv
<1> QED
  BY <1>1, <1>3, <1>4, <1>5, <1>6 DEF StageInv

LEMMA OutBeforeRan ==
  ASSUME Control, NEW n \in Node, stage[n] # "ran"
  PROVE  step[n] = "out"
BY DEF Control, StageInv

\* Before the dealer calls sync its line to the last party holds only data.
LEMMA DealerLine ==
  ASSUME Control, rand_sh_sec[Dealer] \in Seq(Ring)
  PROVE  /\ Line(Dealer, nP, "ios") = Letters \o SyncLine(Dealer, nP, "ios")
         /\ step[Dealer] = "out" => /\ ~ByteUnderWay(Dealer, nP, "ios")
                                    /\ SyncLine(Dealer, nP, "ios") = <<>>
                                    /\ Line(Dealer, nP, "ios") = Letters
<1>1. Line(Dealer, nP, "ios") = Letters \o SyncLine(Dealer, nP, "ios")
  BY Nodes DEF Control, LinesInv, Line, UnderWay, DataLine
<1>2. ASSUME step[Dealer] = "out"
      PROVE  /\ ~ByteUnderWay(Dealer, nP, "ios")
             /\ SyncLine(Dealer, nP, "ios") = <<>>
             /\ Line(Dealer, nP, "ios") = Letters
  <2>1. ShakeWith(Dealer, nP, "ios") \in Handshakes
    BY Nodes, ShakeFacts
  <2>2. ~ByteUnderWay(Dealer, nP, "ios")
    BY <1>2, <2>1, OutHasNotSent, Nodes DEF Control, ByteUnderWay
  <2>3. SyncLine(Dealer, nP, "ios") = <<>>
    BY <2>2 DEF SyncLine
  <2>4. Letters \in Seq(Message)
    BY LettersTyped
  <2> QED
    BY <1>1, <2>2, <2>3, <2>4, SequenceFacts, LettersTyped
<1> QED
  BY <1>1, <1>2

\* What is next on a line that is known from its front.
LEMMA FrontOfLine ==
  ASSUME NEW h, NEW t \in Seq(Message), NEW m, NEW u \in Seq(Message),
         <<h>> \o t = <<m>> \o u
  PROVE  h = m /\ t = u
<1>1. Len(<<h>> \o t) = 1 + Len(t) /\ Len(<<m>> \o u) = 1 + Len(u)
  OBVIOUS
<1>2. Len(t) = Len(u)
  BY <1>1
<1>3. h = (<<h>> \o t)[1] /\ m = (<<m>> \o u)[1]
  OBVIOUS
<1>4. \A i \in 1 .. Len(t) : t[i] = (<<h>> \o t)[i + 1]
  OBVIOUS
<1>5. \A i \in 1 .. Len(u) : u[i] = (<<m>> \o u)[i + 1]
  OBVIOUS
<1>6. \A i \in 1 .. Len(t) : t[i] = u[i]
  BY <1>2, <1>4, <1>5
<1>7. t = u
  BY <1>2, <1>6
<1> QED
  BY <1>3, <1>7

LEMMA EmptyLine ==
  ASSUME NEW h, NEW t \in Seq(Message)
  PROVE  <<h>> \o t # <<>>
<1>1. Len(<<h>> \o t) = 1 + Len(t)
  OBVIOUS
<1> QED
  BY <1>1

LEMMA Prepended ==
  ASSUME NEW m \in Message, NEW d \in Message, NEW t \in Seq(Message)
  PROVE  /\ <<m, d>> \o t = <<m>> \o (<<d>> \o t) /\ <<d>> \o t \in Seq(Message)
         /\ <<>> \o t = t
<1>1. <<m>> \in Seq(Message) /\ <<d>> \in Seq(Message)
  OBVIOUS
<1>2. <<d>> \o t \in Seq(Message)
  BY <1>1
<1>3. <<m, d>> = <<m>> \o <<d>>
  <2> DEFINE x == <<m>>
             y == <<d>>
             z == <<m, d>>
  <2>1. x \in Seq(Message) /\ Len(x) = 1 /\ x[1] = m
    OBVIOUS
  <2>2. y \in Seq(Message) /\ Len(y) = 1 /\ y[1] = d
    OBVIOUS
  <2>3. z \in Seq(Message) /\ Len(z) = 2 /\ z[1] = m /\ z[2] = d
    OBVIOUS
  <2> HIDE DEF x, y, z
  <2>4. x \o y \in Seq(Message) /\ Len(x \o y) = 2 /\ (x \o y)[1] = m /\ (x \o y)[2] = d
    <3>1. /\ x \o y \in Seq(Message) /\ Len(x \o y) = Len(x) + Len(y)
          /\ \A i \in 1 .. Len(x) : (x \o y)[i] = x[i]
          /\ \A j \in 1 .. Len(y) : (x \o y)[Len(x) + j] = y[j]
      <4>1. x \in Seq(Message) /\ y \in Seq(Message)
        BY <2>1, <2>2
      <4> QED
        BY <4>1, Concatenated
    <3>2. Len(x \o y) = 2
      BY <2>1, <2>2, <3>1
    <3>3. (x \o y)[1] = m
      BY <2>1, <3>1
    <3>4. (x \o y)[1 + 1] = d
      BY <2>1, <2>2, <3>1
    <3> QED
      BY <3>1, <3>2, <3>3, <3>4
  <2> DEFINE w == x \o y
  <2>5. w \in Seq(Message) /\ Len(w) = 2 /\ w[1] = m /\ w[2] = d
    BY <2>4
  <2> HIDE DEF w
  <2>6. \A i \in 1 .. 2 : z[i] = w[i]
    BY <2>3, <2>5
  <2>7. z = w
    BY <2>3, <2>5, <2>6
  <2> QED
    BY <2>7 DEF w, x, y, z
<1>4. (<<m>> \o <<d>>) \o t = <<m>> \o (<<d>> \o t)
  BY <1>1
<1>5. <<>> \o t = t
  OBVIOUS
<1> QED
  BY <1>2, <1>3, <1>4, <1>5

LEMMA SendLengthsControl ==
  ASSUME Control, rand_sh_sec[Dealer] \in Seq(Ring), SendLengths
  PROVE  Control'
<1>1. /\ stage[Dealer] = "deal" /\ stage' = [stage EXCEPT ![Dealer] = "sendShares"]
      /\ Write(Dealer, nP, "ios", Lengths)
      /\ UNCHANGED <<socket, shake, step, rand_sh_sec>>
  BY Nodes DEF SendLengths, Lengths
<1>2. step[Dealer] = "out"
  BY <1>1, OutBeforeRan, Nodes
<1>3. /\ StageInv' /\ stage'[Dealer] = "sendShares"
      /\ \A i \in Node : i # Dealer => stage'[i] = stage[i]
  BY <1>1, <1>2, StageMoves, Nodes DEF Control
<1>4. stage[nP] = "recvLengths"
  BY <1>1, Nodes DEF Control, StageInv
<1>5. SyncInv' /\ SentFirst' /\ SameBytes
  BY <1>1 DEF Control, SyncInv, SentFirst, HasSent, HasTaken, SameBytes, ByteUnderWay
<1>6. Letters = <<>> /\ Letters' = <<Lengths>>
  BY <1>1, <1>3, <1>4, Nodes DEF Letters, Lengths
<1>7. /\ LinesTyped' /\ OtherLines(Dealer, nP, "ios")
      /\ Line(Dealer, nP, "ios")' = Line(Dealer, nP, "ios") \o <<Lengths>>
  BY <1>1, LineWritten, LettersTyped, Nodes DEF Control, LinesInv
<1>8. Line(Dealer, nP, "ios") = <<>> /\ ~ByteUnderWay(Dealer, nP, "ios")
  BY <1>2, <1>6, DealerLine
<1>9. UnderWay(Dealer, nP, "ios")' = <<Lengths>>
  <2>1. ~ByteUnderWay(Dealer, nP, "ios")'
    BY <1>5, <1>8, Nodes DEF SameBytes
  <2>2. UnderWay(Dealer, nP, "ios")' = <<Lengths>> \o <<>>
    BY <1>6, <2>1, Nodes DEF UnderWay, DataLine, SyncLine
  <2> QED
    BY <2>2
<1>10. Line(Dealer, nP, "ios")' = UnderWay(Dealer, nP, "ios")'
  BY <1>7, <1>8, <1>9
<1>11. OtherBytes(Dealer, nP, "ios")
  BY <1>5 DEF SameBytes, OtherBytes
<1>12. LinesInv'
  BY <1>7, <1>10, <1>11, LinesFollow, Nodes DEF Control
<1> QED
  BY <1>3, <1>5, <1>12 DEF Control

LEMMA SendDealtControl ==
  ASSUME Control, rand_sh_sec[Dealer] \in Seq(Ring), SendDealt
  PROVE  Control'
<1>1. /\ stage[Dealer] = "sendShares" /\ stage' = [stage EXCEPT ![Dealer] = "ran"]
      /\ Write(Dealer, nP, "ios", Dealt)
      /\ UNCHANGED <<socket, shake, step, rand_sh_sec>>
  BY Nodes DEF SendDealt, Dealt
<1>2. step[Dealer] = "out"
  BY <1>1, OutBeforeRan, Nodes
<1>3. /\ StageInv' /\ stage'[Dealer] = "ran"
      /\ \A i \in Node : i # Dealer => stage'[i] = stage[i]
  BY <1>1, <1>2, StageMoves, Nodes DEF Control
<1>4. stage[nP] \in {"recvLengths", "recvShares"}
  BY <1>1, Nodes DEF Control, StageInv
<1>5. SyncInv' /\ SentFirst' /\ SameBytes
  BY <1>1 DEF Control, SyncInv, SentFirst, HasSent, HasTaken, SameBytes, ByteUnderWay
<1>6. /\ LinesTyped' /\ OtherLines(Dealer, nP, "ios")
      /\ Line(Dealer, nP, "ios")' = Line(Dealer, nP, "ios") \o <<Dealt>>
  BY <1>1, LineWritten, LettersTyped, Nodes DEF Control, LinesInv
<1>7. Line(Dealer, nP, "ios") = Letters /\ ~ByteUnderWay(Dealer, nP, "ios")
  BY <1>2, DealerLine
<1>8. Letters' = Letters \o <<Dealt>>
  <2>1. CASE stage[nP] = "recvLengths"
    BY <1>1, <1>3, <2>1, Nodes DEF Letters, Lengths, Dealt
  <2>2. CASE stage[nP] = "recvShares"
    BY <1>1, <1>3, <2>2, Nodes DEF Letters, Lengths, Dealt
  <2> QED
    BY <1>4, <2>1, <2>2
<1>9. UnderWay(Dealer, nP, "ios")' = Letters'
  <2>1. ~ByteUnderWay(Dealer, nP, "ios")'
    BY <1>5, <1>7, Nodes DEF SameBytes
  <2>2. UnderWay(Dealer, nP, "ios")' = Letters' \o <<>>
    BY <2>1, Nodes DEF UnderWay, DataLine, SyncLine
  <2>3. Letters \in Seq(Message) /\ Dealt \in Message
    BY LettersTyped
  <2>4. Letters' \in Seq(Message)
    <3> DEFINE l == Letters
               d == Dealt
    <3>1. l \in Seq(Message) /\ d \in Message
      BY <2>3
    <3> HIDE DEF l, d
    <3>2. l \o <<d>> \in Seq(Message)
      BY <3>1
    <3> QED
      BY <1>8, <3>2 DEF l, d
  <2>5. Letters' \o <<>> = Letters'
    BY <2>3, <2>4, SequenceFacts
  <2> QED
    BY <2>2, <2>5
<1>10. Line(Dealer, nP, "ios")' = UnderWay(Dealer, nP, "ios")'
  BY <1>6, <1>7, <1>8, <1>9
<1>11. OtherBytes(Dealer, nP, "ios")
  BY <1>5 DEF SameBytes, OtherBytes
<1>12. LinesInv'
  BY <1>6, <1>10, <1>11, LinesFollow, Nodes DEF Control
<1> QED
  BY <1>3, <1>5, <1>12 DEF Control

\* What the last party reads is what it reads for: Letters begins with it.
LEMMA LineToLast ==
  ASSUME Control, rand_sh_sec[Dealer] \in Seq(Ring), FromDealer # <<>>
  PROVE  /\ stage[nP] = "recvLengths" => stage[Dealer] # "deal" /\ Head(FromDealer) = Lengths
         /\ stage[nP] = "recvShares" => stage[Dealer] = "ran" /\ Head(FromDealer) = Dealt
<1> DEFINE L == Line(Dealer, nP, "ios")
           B == SyncLine(Dealer, nP, "ios")
           s == socket[Dealer][nP]["ios"]
           b == buffer[Dealer][nP]["ios"]
           h == Head(s)
           t == Tail(s) \o b
<1>1. s # <<>> /\ s \in Seq(Message) /\ b \in Seq(Message) /\ FromDealer = s
  BY ChannelTyped, Nodes DEF Control, LinesInv, FromDealer
<1>2. L = <<h>> \o t /\ t \in Seq(Message)
  <2>1. L = s \o b
    BY DEF Line
  <2> HIDE DEF s, b
  <2>2. s \o b = <<Head(s)>> \o (Tail(s) \o b) /\ Tail(s) \in Seq(Message)
    BY <1>1, SequenceFacts
  <2>3. Tail(s) \o b \in Seq(Message)
    BY <1>1, <2>2
  <2> QED
    BY <2>1, <2>2, <2>3
<1>3. L = Letters \o B /\ (step[Dealer] = "out" => L = Letters)
  BY DealerLine
<1>4. B \in Seq(Message)
  <2>1. Byte \in Message
    BY LettersTyped
  <2>2. <<>> \in Seq(Message) /\ (\A m \in Message : <<m>> \in Seq(Message))
    OBVIOUS
  <2> QED
    BY <2>1, <2>2 DEF SyncLine
<1> HIDE DEF L, B, t, s
<1>5. L # <<>>
  BY <1>2, EmptyLine
<1>6. stage[Dealer] # "ran" => step[Dealer] = "out"
  BY OutBeforeRan, Nodes
<1>7. stage[Dealer] \in {"deal", "sendShares", "ran"}
  BY DEF Control, StageInv
<1>8. Lengths \in Message /\ Dealt \in Message
  BY LettersTyped
<1>9. ASSUME stage[nP] = "recvLengths"
      PROVE  stage[Dealer] # "deal" /\ h = Lengths
  <2>1. stage[Dealer] # "deal"
    BY <1>3, <1>5, <1>6, <1>9 DEF Letters
  <2>2. CASE stage[Dealer] = "sendShares"
    <3>1. L = <<Lengths>> \o B
      BY <1>3, <1>9, <2>2 DEF Letters
    <3> QED
      BY <1>2, <1>4, <2>1, <3>1, FrontOfLine
  <2>3. CASE stage[Dealer] = "ran"
    <3>1. L = <<Lengths, Dealt>> \o B
      BY <1>3, <1>9, <2>3 DEF Letters
    <3>2. L = <<Lengths>> \o (<<Dealt>> \o B) /\ <<Dealt>> \o B \in Seq(Message)
      BY <1>4, <1>8, <3>1, Prepended
    <3> QED
      BY <1>2, <2>1, <3>2, FrontOfLine
  <2> QED
    BY <1>7, <2>1, <2>2, <2>3
<1>10. ASSUME stage[nP] = "recvShares"
       PROVE  stage[Dealer] = "ran" /\ h = Dealt
  <2>1. stage[Dealer] = "ran"
    BY <1>3, <1>5, <1>6, <1>10 DEF Letters
  <2>2. L = <<Dealt>> \o B
    BY <1>3, <1>10, <2>1 DEF Letters
  <2> QED
    BY <1>2, <1>4, <2>1, <2>2, FrontOfLine
<1> QED
  BY <1>1, <1>9, <1>10

LEMMA RecvLengthsControl ==
  ASSUME Control, rand_sh_sec[Dealer] \in Seq(Ring), RecvLengths
  PROVE  Control'
<1>1. /\ stage[nP] = "recvLengths" /\ stage' = [stage EXCEPT ![nP] = "recvShares"]
      /\ FromDealer # <<>> /\ Read(Dealer, nP, "ios")
      /\ UNCHANGED <<shake, step, rand_sh_sec>>
  BY Nodes DEF RecvLengths, FromDealer, Read
<1>2. step[nP] = "out" /\ stage[Dealer] # "deal"
  BY <1>1, OutBeforeRan, LineToLast, Nodes
<1>3. /\ StageInv' /\ stage'[nP] = "recvShares"
      /\ \A i \in Node : i # nP => stage'[i] = stage[i]
  BY <1>1, <1>2, StageMoves, Nodes DEF Control
<1>4. SyncInv' /\ SentFirst' /\ SameBytes
  BY <1>1 DEF Control, SyncInv, SentFirst, HasSent, HasTaken, SameBytes, ByteUnderWay
<1>5. /\ LinesTyped' /\ OtherLines(Dealer, nP, "ios")
      /\ Line(Dealer, nP, "ios") = <<Head(socket[Dealer][nP]["ios"])>> \o Line(Dealer, nP, "ios")'
      /\ Line(Dealer, nP, "ios")' \in Seq(Message)
  BY <1>1, LineRead, Nodes DEF Control, LinesInv
<1> DEFINE L == Line(Dealer, nP, "ios")
           B == SyncLine(Dealer, nP, "ios")
           h == Head(socket[Dealer][nP]["ios"])
<1>6. L = Letters \o B /\ (step[Dealer] = "out" => L = Letters)
  BY DealerLine
<1>7. B' = B
  BY <1>4, Nodes DEF SameBytes, SyncLine
<1>8. B \in Seq(Message)
  <2>1. Byte \in Message
    BY LettersTyped
  <2>2. <<>> \in Seq(Message) /\ (\A m \in Message : <<m>> \in Seq(Message))
    OBVIOUS
  <2> QED
    BY <2>1, <2>2 DEF SyncLine
<1>9. UnderWay(Dealer, nP, "ios")' = Letters' \o B
  BY <1>7, Nodes DEF UnderWay, DataLine
<1>10. stage[Dealer] \in {"sendShares", "ran"}
  BY <1>2 DEF Control, StageInv
<1>11. Lengths \in Message /\ Dealt \in Message /\ Lengths' = Lengths /\ Dealt' = Dealt
  BY <1>1, LettersTyped DEF Lengths, Dealt
<1>12. L = <<h>> \o L' /\ L' \in Seq(Message)
  BY <1>5
<1> HIDE DEF L, B, h
<1>13. L' = Letters' \o B
  <2>1. CASE stage[Dealer] = "sendShares"
    <3>1. Letters = <<Lengths>> /\ Letters' = <<>>
      BY <1>1, <1>3, <2>1, Nodes DEF Letters
    <3>2. <<h>> \o L' = <<Lengths>> \o B
      BY <1>6, <1>12, <3>1
    <3>3. L' = B
      BY <1>8, <1>12, <3>2, FrontOfLine
    <3>4. <<>> \o B = B
      BY <1>8
    <3> QED
      BY <3>1, <3>3, <3>4
  <2>2. CASE stage[Dealer] = "ran"
    <3>1. Letters = <<Lengths, Dealt>> /\ Letters' = <<Dealt>>
      BY <1>1, <1>3, <1>11, <2>2, Nodes DEF Letters
    <3>2. /\ <<Lengths, Dealt>> \o B = <<Lengths>> \o (<<Dealt>> \o B)
          /\ <<Dealt>> \o B \in Seq(Message)
      BY <1>8, <1>11, Prepended
    <3>3. <<h>> \o L' = <<Lengths>> \o (<<Dealt>> \o B)
      BY <1>6, <1>12, <3>1, <3>2
    <3>4. L' = <<Dealt>> \o B
      <4> DEFINE u == <<Dealt>> \o B
                 l == Lengths
                 K == L'
      <4>1. <<h>> \o K = <<l>> \o u /\ K \in Seq(Message) /\ u \in Seq(Message)
        BY <1>12, <3>2, <3>3
      <4> HIDE DEF u, l, K
      <4>2. K = u
        BY <4>1, FrontOfLine
      <4> QED
        BY <4>2 DEF u, K
    <3> QED
      BY <3>1, <3>4
  <2> QED
    BY <1>10, <2>1, <2>2
<1>14. Line(Dealer, nP, "ios")' = UnderWay(Dealer, nP, "ios")'
  BY <1>9, <1>13 DEF L
<1>15. OtherBytes(Dealer, nP, "ios")
  BY <1>4 DEF SameBytes, OtherBytes
<1>16. LinesInv'
  BY <1>5, <1>14, <1>15, LinesFollow, Nodes DEF Control
<1> QED
  BY <1>3, <1>4, <1>16 DEF Control

LEMMA RecvDealtControl ==
  ASSUME Control, rand_sh_sec[Dealer] \in Seq(Ring), rand_sh_sec'[Dealer] = rand_sh_sec[Dealer],
         RecvDealt
  PROVE  Control'
<1>1. /\ stage[nP] = "recvShares" /\ stage' = [stage EXCEPT ![nP] = "deal"]
      /\ FromDealer # <<>> /\ Read(Dealer, nP, "ios")
      /\ UNCHANGED <<shake, step>>
  BY Nodes DEF RecvDealt, FromDealer, Read
<1>2. step[nP] = "out" /\ stage[Dealer] = "ran"
  BY <1>1, OutBeforeRan, LineToLast, Nodes
<1>3. /\ StageInv' /\ stage'[nP] = "deal"
      /\ \A i \in Node : i # nP => stage'[i] = stage[i]
  BY <1>1, <1>2, StageMoves, Nodes DEF Control
<1>4. SyncInv' /\ SentFirst' /\ SameBytes
  BY <1>1 DEF Control, SyncInv, SentFirst, HasSent, HasTaken, SameBytes, ByteUnderWay
<1>5. /\ LinesTyped' /\ OtherLines(Dealer, nP, "ios")
      /\ Line(Dealer, nP, "ios") = <<Head(socket[Dealer][nP]["ios"])>> \o Line(Dealer, nP, "ios")'
      /\ Line(Dealer, nP, "ios")' \in Seq(Message)
  BY <1>1, LineRead, Nodes DEF Control, LinesInv
<1> DEFINE L == Line(Dealer, nP, "ios")
           B == SyncLine(Dealer, nP, "ios")
           h == Head(socket[Dealer][nP]["ios"])
<1>6. L = Letters \o B
  BY DealerLine
<1>7. B' = B
  BY <1>4, Nodes DEF SameBytes, SyncLine
<1>8. B \in Seq(Message)
  <2>1. Byte \in Message
    BY LettersTyped
  <2>2. <<>> \in Seq(Message) /\ (\A m \in Message : <<m>> \in Seq(Message))
    OBVIOUS
  <2> QED
    BY <2>1, <2>2 DEF SyncLine
<1>9. UnderWay(Dealer, nP, "ios")' = Letters' \o B
  BY <1>7, Nodes DEF UnderWay, DataLine
<1>10. Letters = <<Dealt>> /\ Letters' = <<>>
  BY <1>1, <1>2, <1>3, Nodes DEF Letters
<1>11. <<h>> \o L' = <<Dealt>> \o B /\ L' \in Seq(Message)
  BY <1>5, <1>6, <1>10
<1> HIDE DEF L, B, h
<1>12. L' = B
  BY <1>8, <1>11, FrontOfLine
<1>13. <<>> \o B = B
  BY <1>8
<1>14. Line(Dealer, nP, "ios")' = UnderWay(Dealer, nP, "ios")'
  BY <1>9, <1>10, <1>12, <1>13 DEF L
<1>15. OtherBytes(Dealer, nP, "ios")
  BY <1>4 DEF SameBytes, OtherBytes
<1>16. LinesInv'
  BY <1>5, <1>14, <1>15, LinesFollow, Nodes DEF Control
<1> QED
  BY <1>3, <1>4, <1>16 DEF Control
-----------------------------------------------------------------------------
\* A node that is in sync has finished run, and stays so.
LEMMA StageInSync ==
  ASSUME StageInv, stage' = stage, NEW n \in Node, stage[n] = "ran",
         \A i \in Node : i # n => step'[i] = step[i]
  PROVE  StageInv'
<1>1. \A i \in Node : step'[i] # "out" => stage'[i] = "ran"
  BY DEF StageInv
<1> QED
  BY <1>1 DEF StageInv

LEMMA LettersStay ==
  ASSUME stage' = stage, rand_sh_sec' = rand_sh_sec
  PROVE  Letters' = Letters
BY DEF Letters, Lengths, Dealt

LEMMA CallSyncControl ==
  ASSUME Control, NEW n \in Node, CallSync(n)
  PROVE  Control'
<1>1. /\ EnterSync(n) /\ stage[n] = "ran" /\ UNCHANGED <<buffer, socket, stage, rand_sh_sec>>
      /\ step' = [step EXCEPT ![n] = FirstStep(n, 1)]
  BY DEF CallSync, EnterSync
<1>2. SyncInv' /\ Changes(n, 1, FALSE, FALSE)
  BY <1>1, EnterEffect DEF Control
<1>3. SentFirst' /\ SameBytes
  BY <1>2, AfterNothing DEF Control
<1>4. \A i \in Node : i # n => step'[i] = step[i]
  BY <1>1 DEF Control, SyncInv
<1>5. StageInv'
  BY <1>1, <1>4, StageInSync DEF Control
<1>6. LinesTyped' /\ \A a, b \in Node, d \in Conn : Line(a, b, d)' = Line(a, b, d)
  BY <1>1 DEF Control, LinesInv, LinesTyped, Line
<1>7. LinesInv'
  BY <1>1, <1>3, <1>6, LettersStay, LinesStay DEF Control
<1> QED
  BY <1>2, <1>3, <1>5, <1>7 DEF Control

\* The line from p after its byte.
LEMMA ByteAppended ==
  ASSUME Control, rand_sh_sec[Dealer] \in Seq(Ring),
         NEW p \in Node, NEW q \in Node, NEW c \in Conn, p # q,
         LinesTyped', OtherLines(p, q, c), OtherBytes(p, q, c), Letters' = Letters,
         Line(p, q, c)' = Line(p, q, c) \o <<Byte>>,
         ~ByteUnderWay(p, q, c), ByteUnderWay(p, q, c)'
  PROVE  LinesInv'
<1> DEFINE D == DataLine(p, q, c)
<1>1. Line(p, q, c) = D \o <<>>
  BY DEF Control, LinesInv, Line, UnderWay, SyncLine
<1>2. D \in Seq(Message)
  <2>1. <<>> \in Seq(Message)
    OBVIOUS
  <2> QED
    BY <2>1, LettersTyped DEF DataLine
<1>3. DataLine(p, q, c)' = D
  BY DEF DataLine
<1>4. UnderWay(p, q, c)' = D \o <<Byte>>
  BY <1>3 DEF UnderWay, SyncLine, Byte
<1> HIDE DEF D
<1>5. D \o <<>> = D
  BY <1>2, SequenceFacts, LettersTyped
<1>6. Line(p, q, c)' = UnderWay(p, q, c)'
  BY <1>1, <1>4, <1>5
<1> QED
  BY <1>6, LinesFollow DEF Control

LEMMA InSyncControl ==
  ASSUME Control, rand_sh_sec[Dealer] \in Seq(Ring), NEW n \in Node, InSync(n)
  PROVE  Control'
<1>1. SyncStep(n) /\ stage' = stage /\ rand_sh_sec' = rand_sh_sec
  BY DEF InSync
<1>2. step[n] \in {"send", "flush", "recv", "reply"}
  BY <1>1 DEF SyncStep, SyncSend, SyncFlush, SyncRecv, SyncReply
<1>13. shake[n] \in Handshakes /\ stage[n] = "ran"
  BY <1>2, InHandshake DEF Control, StageInv
<1>14. PICK k \in Handshakes : shake[n] = k
  BY <1>13
<1>3. k \in Handshakes /\ stage[n] = "ran" /\ shake[n] = k
  BY <1>13, <1>14
<1> DEFINE q == Peer(n, k)
           c == ConnOf(k)
<1>4. q \in Node /\ q # n /\ c \in Conn
  BY <1>3, ShakeFacts
<1>5. Letters' = Letters /\ Byte \in Message
  BY <1>1, LettersStay, LettersTyped
<1>6. \A i \in Node : i # n => step'[i] = step[i]
  BY <1>1 DEF SyncStep, SyncSend, SyncFlush, SyncRecv, SyncReply, EndHandshake, Control, SyncInv
<1>7. StageInv'
  BY <1>1, <1>3, <1>6, StageInSync DEF Control
<1>8. SyncInv /\ SentFirst /\ LinesTyped /\ LinesInv
  BY DEF Control, LinesInv
<1>9. CASE SyncSend(n)
  <2>1. SyncInv' /\ Changes(n, k, TRUE, FALSE)
    BY <1>8, <1>9, <1>3, SendEffect
  <2>2. ~HasSent(n, k)
    BY <1>3, <1>9 DEF SyncSend, HasSent, Handshakes
  <2>3. Write(n, q, c, Byte) /\ socket' = socket
    BY <1>3, <1>9 DEF SyncSend
  <2> HIDE DEF q, c
  <2>4. /\ SentFirst' /\ OtherBytes(n, q, c) /\ ~ByteUnderWay(n, q, c) /\ ByteUnderWay(n, q, c)'
    BY <1>3, <1>8, <2>1, <2>2, AfterSending DEF q, c
  <2>5. /\ LinesTyped' /\ OtherLines(n, q, c) /\ Line(n, q, c)' = Line(n, q, c) \o <<Byte>>
    BY <1>4, <1>5, <1>8, <2>3, LineWritten
  <2>6. LinesInv'
    BY <1>4, <1>5, <2>4, <2>5, ByteAppended
  <2> QED
    BY <1>7, <2>1, <2>4, <2>6 DEF Control
<1>10. CASE SyncFlush(n)
  <2>1. SyncInv' /\ Changes(n, k, FALSE, FALSE)
    BY <1>8, <1>10, <1>3, FlushEffect
  <2>2. Flush(n, q, c)
    BY <1>3, <1>10 DEF SyncFlush
  <2> HIDE DEF q, c
  <2>3. SentFirst' /\ SameBytes
    BY <1>8, <2>1, AfterNothing
  <2>4. LinesTyped' /\ Line(n, q, c)' = Line(n, q, c) /\ OtherLines(n, q, c)
    BY <1>4, <1>8, <2>2, LineFlushed
  <2>5. \A a, b \in Node, d \in Conn : Line(a, b, d)' = Line(a, b, d)
    BY <2>4 DEF OtherLines
  <2>6. LinesInv'
    BY <1>5, <1>8, <2>3, <2>4, <2>5, LinesStay
  <2> QED
    BY <1>7, <2>1, <2>3, <2>6 DEF Control
<1>11. CASE SyncRecv(n)
  <2>1. SyncInv' /\ Changes(n, k, FALSE, TRUE)
    BY <1>8, <1>11, <1>3, RecvEffect
  <2>2. Read(q, n, c)
    BY <1>3, <1>11 DEF SyncRecv, Read, Incoming
  <2> HIDE DEF q, c
  <2>3. /\ LinesTyped' /\ OtherLines(q, n, c)
        /\ Line(q, n, c) = <<Head(socket[q][n][c])>> \o Line(q, n, c)'
        /\ Line(q, n, c)' \in Seq(Message)
    BY <1>4, <1>8, <2>2, LineRead
  <2>4. DataLine(q, n, c) = <<>>
    BY <1>3, Nodes DEF DataLine, Letters
  <2>5. Line(q, n, c) = <<>> \o SyncLine(q, n, c)
    BY <1>4, <1>8, <2>4 DEF LinesInv, Line, UnderWay
  <2> DEFINE L == Line(q, n, c)
             h == Head(socket[q][n][c])
             e == <<>>
  <2>6. e \in Seq(Message) /\ e \o <<Byte>> = <<Byte>> \o e /\ e \o e = e
    OBVIOUS
  <2>7. L = <<h>> \o L' /\ L' \in Seq(Message)
    BY <2>3
  <2>8. ByteUnderWay(q, n, c)
    <3>1. ASSUME ~ByteUnderWay(q, n, c)
          PROVE  FALSE
      <4>1. L = e
        BY <2>5, <2>6, <3>1 DEF SyncLine
      <4> HIDE DEF L, h
      <4> QED
        BY <2>7, <4>1, EmptyLine
    <3> QED
      BY <3>1
  <2>9. L = <<Byte>> \o e
    BY <2>5, <2>6, <2>8 DEF SyncLine
  <2>10. L' = e
    <3> DEFINE K == L'
               m == Byte
    <3>1. <<h>> \o K = <<m>> \o e /\ K \in Seq(Message)
      BY <2>7, <2>9
    <3> HIDE DEF K, m, L, h, e
    <3> QED
      BY <2>6, <3>1, FrontOfLine DEF K
  <2>11. /\ SentFirst' /\ OtherBytes(q, n, c) /\ ~ByteUnderWay(q, n, c)'
    BY <1>3, <1>8, <2>1, <2>8, AfterTaking DEF q, c
  <2>12. Line(q, n, c)' = UnderWay(q, n, c)'
    <3>1. DataLine(q, n, c)' = e
      BY <1>5, <2>4 DEF DataLine
    <3>2. UnderWay(q, n, c)' = e \o e
      BY <2>11, <3>1 DEF UnderWay, SyncLine
    <3> QED
      BY <2>6, <2>10, <3>2
  <2>13. LinesInv'
    BY <1>4, <1>5, <1>8, <2>3, <2>11, <2>12, LinesFollow
  <2> QED
    BY <1>7, <2>1, <2>11, <2>13 DEF Control
<1>12. CASE SyncReply(n)
  <2>1. SyncInv' /\ Changes(n, k, TRUE, FALSE)
    BY <1>8, <1>12, <1>3, ReplyEffect
  <2>2. ~HasSent(n, k)
    BY <1>3, <1>12 DEF SyncReply, HasSent, Handshakes
  <2>3. Answered(n, q, c, Byte)
    BY <1>3, <1>12 DEF SyncReply, Answered
  <2> HIDE DEF q, c
  <2>4. /\ SentFirst' /\ OtherBytes(n, q, c) /\ ~ByteUnderWay(n, q, c) /\ ByteUnderWay(n, q, c)'
    BY <1>3, <1>8, <2>1, <2>2, AfterSending DEF q, c
  <2>5. /\ LinesTyped' /\ OtherLines(n, q, c) /\ Line(n, q, c)' = Line(n, q, c) \o <<Byte>>
    BY <1>4, <1>5, <1>8, <2>3, LineAnswered
  <2>6. LinesInv'
    BY <1>4, <1>5, <2>4, <2>5, ByteAppended
  <2> QED
    BY <1>7, <2>1, <2>4, <2>6 DEF Control
<1> QED
  BY <1>1, <1>9, <1>10, <1>11, <1>12 DEF SyncStep
-----------------------------------------------------------------------------
\* Counting the items of a kind one by one.
CountTo(S, k) == Cardinality({j \in 1 .. k : j \in S})

LEMMA CountFacts ==
  ASSUME NEW S, NEW k \in Nat
  PROVE  /\ CountTo(S, k) \in 0 .. k
         /\ CountTo(S, k + 1) = CountTo(S, k) + (IF k + 1 \in S THEN 1 ELSE 0)
<1> DEFINE T == {j \in 1 .. k : j \in S}
<1>1. IsFiniteSet(1 .. k) /\ Cardinality(1 .. k) = k
  BY FS_Interval
<1>2. T \subseteq 1 .. k
  OBVIOUS
<1>3. IsFiniteSet(T) /\ Cardinality(T) <= k
  BY <1>1, <1>2, FS_Subset
<1>4. Cardinality(T) \in Nat
  BY <1>3, FS_CardinalityType
<1>5. CASE k + 1 \in S
  <2>1. {j \in 1 .. k + 1 : j \in S} = T \cup {k + 1}
    BY <1>5
  <2>2. k + 1 \notin T
    BY <1>2
  <2> HIDE DEF T
  <2>3. Cardinality(T \cup {k + 1}) = Cardinality(T) + 1
    BY <1>3, <2>2, FS_AddElement
  <2> QED
    BY <1>3, <1>4, <1>5, <2>1, <2>3 DEF CountTo, T
<1>6. CASE k + 1 \notin S
  <2>1. {j \in 1 .. k + 1 : j \in S} = T
    BY <1>6
  <2> HIDE DEF T
  <2> QED
    BY <1>3, <1>4, <1>6, <2>1 DEF CountTo, T
<1> QED
  BY <1>5, <1>6

LEMMA CountGrows ==
  ASSUME NEW S, NEW n \in Nat, NEW k \in 0 .. n
  PROVE  /\ CountTo(S, k) \in Nat /\ CountTo(S, n) \in Nat /\ CountTo(S, k) <= CountTo(S, n)
         /\ k \in S /\ k > 0 => CountTo(S, k) > 0
<1> DEFINE T == {j \in 1 .. k : j \in S}
           U == {j \in 1 .. n : j \in S}
<1>1. k \in Nat /\ T \subseteq U
  OBVIOUS
<1>2. IsFiniteSet(U)
  <2>1. IsFiniteSet(1 .. n) /\ U \subseteq 1 .. n
    BY FS_Interval
  <2> QED
    BY <2>1, FS_Subset
<1>3. IsFiniteSet(T) /\ Cardinality(T) <= Cardinality(U)
  BY <1>1, <1>2, FS_Subset
<1>4. CountTo(S, k) = Cardinality(T) /\ CountTo(S, n) = Cardinality(U)
  BY DEF CountTo
<1>5. CountTo(S, k) \in Nat /\ CountTo(S, n) \in Nat
  BY <1>1, CountFacts
<1>6. ASSUME k \in S, k > 0
      PROVE  CountTo(S, k) > 0
  <2>1. k \in T
    BY <1>1, <1>6
  <2>2. T # {}
    BY <2>1
  <2> HIDE DEF T
  <2>3. Cardinality(T) # 0
    BY <1>3, <2>2, FS_EmptySet
  <2> QED
    BY <1>4, <1>5, <2>3
<1> QED
  BY <1>3, <1>4, <1>5, <1>6

\* The items of the circuit by kind.
Randoms == {j \in Nat : IsRandom(All[j])}
Shifts  == {j \in Nat : All[j][2] = "r2"}
Secrets == {j \in Nat : ~IsRandom(All[j])}

LEMMA KindCounts ==
  ASSUME NEW k \in Nat
  PROVE  /\ RandomUpTo(k) = CountTo(Randoms, k)
         /\ ShiftsUpTo(k) = CountTo(Shifts, k)
         /\ SecretsUpTo(k) = CountTo(Secrets, k)
<1>1. {j \in 1 .. k : IsRandom(All[j])} = {j \in 1 .. k : j \in Randoms}
  BY DEF Randoms
<1>2. {j \in 1 .. k : All[j][2] = "r2"} = {j \in 1 .. k : j \in Shifts}
  BY DEF Shifts
<1>3. {j \in 1 .. k : ~IsRandom(All[j])} = {j \in 1 .. k : j \in Secrets}
  BY DEF Secrets
<1> QED
  BY <1>1, <1>2, <1>3 DEF RandomUpTo, ShiftsUpTo, SecretsUpTo, CountTo

LEMMA KindSteps ==
  ASSUME NEW k \in Nat
  PROVE  /\ RandomUpTo(k) \in 0 .. k /\ ShiftsUpTo(k) \in 0 .. k /\ SecretsUpTo(k) \in 0 .. k
         /\ RandomUpTo(k + 1) = RandomUpTo(k) + (IF IsRandom(All[k + 1]) THEN 1 ELSE 0)
         /\ ShiftsUpTo(k + 1) = ShiftsUpTo(k) + (IF All[k + 1][2] = "r2" THEN 1 ELSE 0)
         /\ SecretsUpTo(k + 1) = SecretsUpTo(k) + (IF IsRandom(All[k + 1]) THEN 0 ELSE 1)
<1>1. k + 1 \in Nat
  OBVIOUS
<1>2. k + 1 \in Randoms <=> IsRandom(All[k + 1])
  BY <1>1 DEF Randoms
<1>3. k + 1 \in Shifts <=> All[k + 1][2] = "r2"
  BY <1>1 DEF Shifts
<1>4. k + 1 \in Secrets <=> ~IsRandom(All[k + 1])
  BY <1>1 DEF Secrets
<1>5. RandomUpTo(k) \in 0 .. k /\ RandomUpTo(k + 1) = RandomUpTo(k) + (IF k + 1 \in Randoms THEN 1 ELSE 0)
  BY <1>1, CountFacts, KindCounts
<1>6. ShiftsUpTo(k) \in 0 .. k /\ ShiftsUpTo(k + 1) = ShiftsUpTo(k) + (IF k + 1 \in Shifts THEN 1 ELSE 0)
  BY <1>1, CountFacts, KindCounts
<1>7. SecretsUpTo(k) \in 0 .. k /\ SecretsUpTo(k + 1) = SecretsUpTo(k) + (IF k + 1 \in Secrets THEN 1 ELSE 0)
  BY <1>1, CountFacts, KindCounts
<1> QED
  BY <1>2, <1>3, <1>4, <1>5, <1>6, <1>7

LEMMA SecretsGrow ==
  ASSUME NEW n \in Nat, NEW k \in 0 .. n
  PROVE  /\ SecretsUpTo(k) <= SecretsUpTo(n) /\ SecretsUpTo(k) \in Nat /\ SecretsUpTo(n) \in Nat
         /\ k > 0 /\ ~IsRandom(All[k]) => SecretsUpTo(k) > 0
<1>1. k \in Nat
  OBVIOUS
<1>2. k \in Secrets <=> ~IsRandom(All[k])
  BY <1>1 DEF Secrets
<1> QED
  BY <1>1, <1>2, CountGrows, KindCounts

LEMMA NothingCounted == RandomUpTo(0) = 0 /\ ShiftsUpTo(0) = 0 /\ SecretsUpTo(0) = 0
BY KindSteps
-----------------------------------------------------------------------------
\* The list of items of the circuit.
LEMMA AllFacts ==
  /\ WordsAreBits /\ IsCircuit(gates) /\ Len(All) \in Nat /\ DOMAIN All = 1 .. Len(All)
  /\ Distinct(All) /\ Ordered(All)
  /\ \A s \in Streams : s \in Seq(Ring) /\ Len(s) >= Len(All)
  /\ \A k \in DOMAIN All : All[k] \in ItemSet(gates)
BY OfflineAssumption, ItemsFacts DEF All, ItemSet

\* The secret of an item is computed from the items it needs.
LEMMA SecretFromNeeded ==
  ASSUME NEW item, item \in ItemSet(gates), ~IsRandom(item), NEW v, NEW w, NEW d, NEW e,
         \A x : Needs(item, x) => v[x] = w[x], item[2] = "r2" => d = e
  PROVE  SecretOf(item, v, d) = SecretOf(item, w, e)
<1>1. PICK b \in 1 .. Len(gates) : IsItemOf(gates[b], item)
  BY ItemsFacts, OfflineAssumption
<1>2. item[2] \in {"c", "r1_bits", "r2", "r2_bits"}
  BY <1>1 DEF IsItemOf, IsRandom
<1>3. CASE item[2] = "c"
  <2>1. v[<<item[1], "a">>] = w[<<item[1], "a">>] /\ v[<<item[1], "b">>] = w[<<item[1], "b">>]
    BY <1>3 DEF Needs
  <2>2. \A u, f : SecretOf(item, u, f) = (u[<<item[1], "a">>] * u[<<item[1], "b">>]) % RingSize
    BY <1>3 DEF SecretOf
  <2> QED
    BY <2>1, <2>2
<1>4. CASE item[2] = "r1_bits"
  <2>1. v[<<item[1], "r1">>] = w[<<item[1], "r1">>]
    BY <1>4 DEF Needs
  <2>2. \A u, f : SecretOf(item, u, f) = Bit(u[<<item[1], "r1">>], item[3])
    BY <1>4 DEF SecretOf
  <2> QED
    BY <2>1, <2>2
<1>5. CASE item[2] = "r2"
  <2>1. \A u, f : SecretOf(item, u, f) = f % RINGSIZEBITS
    BY <1>5 DEF SecretOf
  <2> QED
    BY <1>5, <2>1
<1>6. CASE item[2] = "r2_bits"
  <2>1. v[<<item[1], "r2">>] = w[<<item[1], "r2">>]
    BY <1>6 DEF Needs
  <2>2. \A u, f : SecretOf(item, u, f) =
                    IF item[3] = u[<<item[1], "r2">>] % RINGSIZEBITS THEN 1 ELSE 0
    BY <1>6 DEF SecretOf
  <2> QED
    BY <2>1, <2>2
<1> QED
  BY <1>2, <1>3, <1>4, <1>5, <1>6

LEMMA NeededIsKnown ==
  ASSUME NEW item, NEW x, Needs(item, x)
  PROVE  IsRandom(x) \/ x[2] = "r2"
BY DEF Needs, IsRandom

\* What the dealer knows of the items that it needs is what they are.
LEMMA KnownValues ==
  ASSUME stream \in Streams, NEW k \in 1 .. Len(All), Len(tp) = k - 1, DOMAIN tp = 1 .. k - 1,
         \A j \in 1 .. k - 1 : tp[j] = DealtAll[j],
         NEW x, Needs(All[k], x)
  PROVE  value[x] = DealtValue(All, stream)[x]
<1>1. PICK j \in 1 .. Len(All) : j < k /\ All[j] = x
  BY AllFacts DEF Ordered
<1>2. j \in DOMAIN tp /\ x \in {All[i] : i \in DOMAIN tp}
  BY <1>1
<1>3. IndexOf(All, x) = j
  BY <1>1, AllFacts, IndexFacts DEF All
<1>4. value[x] = Total(tp[j])
  BY <1>2, <1>3 DEF value
<1>5. tp[j] = DealtShares(All, stream)[j]
  BY <1>1 DEF DealtAll
<1>6. x \in ItemSet(gates) /\ (IsRandom(x) \/ x[2] = "r2")
  BY <1>1, AllFacts, NeededIsKnown
<1>7. stream \in Seq(Ring) /\ Len(stream) >= Len(All)
  BY AllFacts
<1>8. Total(DealtShares(All, stream)[IndexOf(All, x)]) = DealtValue(All, stream)[x]
  BY <1>6, <1>7, AllFacts, DealtTotalIsValue DEF All
<1> QED
  BY <1>3, <1>4, <1>5, <1>8

LEMMA DrawsInStep ==
  ASSUME NEW k \in Nat, drawn[Dealer] = DealerDrawn(k)
  PROVE  /\ \A i \in Party : i < nP => NextDraw(Dealer, i) = stream[k + 1]
         /\ IsRandom(All[k + 1]) => NextDraw(Dealer, nP) = OwnDraw(All, stream, k + 1)
         /\ All[k + 1][2] = "r2" => NextDraw(Dealer, Dealer) = DealerDraw(All, stream, k + 1)
<1>1. /\ drawn[Dealer][Dealer] = ShiftsUpTo(k) /\ drawn[Dealer][nP] = RandomUpTo(k)
      /\ \A i \in Party : i < nP => drawn[Dealer][i] = k
  <2>1. \A i \in Party : i < nP => i \in Node /\ i # nP /\ i # Dealer
    BY Nodes, RingSumAssumption DEF Party
  <2> QED
    BY <2>1, Nodes DEF DealerDrawn
<1>2. \A i \in Party : i < nP => NextDraw(Dealer, i) = stream[k + 1]
  BY <1>1 DEF NextDraw
<1>3. ASSUME IsRandom(All[k + 1])
      PROVE  NextDraw(Dealer, nP) = OwnDraw(All, stream, k + 1)
  <2>1. RandomUpTo(k + 1) = RandomUpTo(k) + 1
    BY <1>3, KindSteps
  <2>2. OwnDraw(All, stream, k + 1) = stream[RandomUpTo(k + 1)]
    BY DEF OwnDraw, RandomUpTo
  <2> QED
    BY <1>1, <2>1, <2>2 DEF NextDraw
<1>4. ASSUME All[k + 1][2] = "r2"
      PROVE  NextDraw(Dealer, Dealer) = DealerDraw(All, stream, k + 1)
  <2>1. ShiftsUpTo(k + 1) = ShiftsUpTo(k) + 1
    BY <1>4, KindSteps
  <2>2. DealerDraw(All, stream, k + 1) = stream[ShiftsUpTo(k + 1)]
    BY DEF DealerDraw, ShiftsUpTo
  <2> QED
    BY <1>1, <2>1, <2>2 DEF NextDraw
<1> QED
  BY <1>2, <1>3, <1>4

LEMMA DealtIsNext ==
  ASSUME stream \in Streams, NEW k \in Nat, Len(tp) = k, k < Len(All), DOMAIN tp = 1 .. k,
         \A j \in 1 .. k : tp[j] = DealtAll[j], drawn[Dealer] = DealerDrawn(k)
  PROVE  NextDealt = DealtAll[k + 1] /\ DealtAll[k + 1] \in [Party -> Ring]
<1> DEFINE m == k + 1
           item == All[m]
           v == stream[m]
           t == LastShare(All, stream, m)
<1>1. m \in 1 .. Len(All) /\ m \in DOMAIN All /\ Len(All) \in Nat /\ m - 1 = k
  BY AllFacts
<1>2. stream \in Seq(Ring) /\ Len(stream) >= Len(All)
  BY AllFacts
<1>3. v \in Int /\ nP - 1 \in Int /\ RingSize \in Nat \ {0}
  <2>1. v \in Ring
    BY <1>1, <1>2
  <2> QED
    BY <2>1, RingSumAssumption DEF Ring
<1>4. DealtAll[m] = [p \in Party |-> IF p < nP THEN v ELSE t]
  BY <1>1 DEF DealtAll, DealtShares
<1>5. DealtAll[m] \in [Party -> Ring]
  <2>1. \A p \in Party : DealtAll[m][p] \in Ring
    BY <1>1, <1>2, AllFacts, DealtTyped DEF All, DealtAll
  <2> QED
    BY <1>4, <2>1
<1>6. /\ \A i \in Party : i < nP => NextDraw(Dealer, i) = v
      /\ IsRandom(item) => NextDraw(Dealer, nP) = OwnDraw(All, stream, m)
      /\ item[2] = "r2" => NextDraw(Dealer, Dealer) = DealerDraw(All, stream, m)
  BY DrawsInStep
<1>7. \A i \in Party : i < nP \/ i = nP
  BY RingSumAssumption DEF Party
<1>8. CASE IsRandom(item)
  <2>1. t = OwnDraw(All, stream, m)
    BY <1>8 DEF LastShare
  <2>2. NextDealt = [i \in Party |-> NextDraw(Dealer, i)]
    BY <1>8 DEF NextDealt, NextItem, DealtRandom
  <2> HIDE DEF m, v, t, item
  <2>3. \A i \in Party : NextDraw(Dealer, i) = IF i < nP THEN v ELSE t
    BY <1>6, <1>7, <1>8, <2>1, RingSumAssumption
  <2> QED
    BY <1>4, <1>5, <2>2, <2>3 DEF m
<1>9. CASE ~IsRandom(item)
  <2> DEFINE s == SecretOf(item, DealtValue(All, stream), DealerDraw(All, stream, m))
             ones == [i \in Party |-> IF i < nP THEN v ELSE 0]
             a == (nP - 1) * v
  <2>1. item \in ItemSet(gates)
    BY <1>1, AllFacts
  <2>2. ASSUME NEW x, Needs(item, x)
        PROVE  value[x] = DealtValue(All, stream)[x]
    <3>1. /\ m \in 1 .. Len(All) /\ Len(tp) = m - 1 /\ DOMAIN tp = 1 .. m - 1
          /\ \A j \in 1 .. m - 1 : tp[j] = DealtAll[j]
      BY <1>1
    <3> HIDE DEF m
    <3> QED
      BY <2>2, <3>1, KnownValues
  <2>3. SecretOf(item, value, NextDraw(Dealer, Dealer)) = s
    BY <1>6, <1>9, <2>1, <2>2, SecretFromNeeded
  <2>4. s \in Int
    <3>1. ~IsRandom(Items(gates)[m]) /\ m \in DOMAIN Items(gates) /\ Len(stream) >= Len(Items(gates))
      BY <1>1, <1>2, <1>9 DEF All
    <3> HIDE DEF m
    <3> QED
      BY <1>2, <3>1, AllFacts, DealtSecretTyped DEF All
  <2>5. [i \in Party |-> IF i < nP THEN NextDraw(Dealer, i) ELSE 0] = ones
    BY <1>6
  <2>6. NextDealt = [ones EXCEPT ![nP] = (s - Total(ones)) % RingSize]
    <3>1. NextDealt = DealtSecret(s)
      BY <1>9, <2>3 DEF NextDealt, NextItem, Dealer
    <3> HIDE DEF s
    <3>2. DealtSecret(s) = LET d == [i \in Party |-> IF i < nP THEN NextDraw(Dealer, i) ELSE 0]
                           IN  [d EXCEPT ![nP] = (s - Total(d)) % RingSize]
      BY DEF DealtSecret
    <3> HIDE DEF ones
    <3> QED
      BY <2>5, <3>1, <3>2
  <2>7. t = (s - a) % RingSize
    BY <1>9 DEF LastShare
  <2> HIDE DEF m, v, t, item, s
  <2>8. Total(ones) = (a + 0) % RingSize
    BY <1>3, TotalButLast
  <2>9. a \in Int
    BY <1>3
  <2> HIDE DEF a
  <2>10. a + 0 = a
    BY <2>9
  <2>11. (s - Total(ones)) % RingSize = t
    <3>1. (s - (a % RingSize)) % RingSize = (s - a) % RingSize
      BY <1>3, <2>4, <2>9, ModInside
    <3> HIDE DEF ones
    <3> QED
      BY <2>7, <2>8, <2>10, <3>1
  <2>12. [ones EXCEPT ![nP] = t] = [p \in Party |-> IF p < nP THEN v ELSE t]
    <3>1. \A p \in Party : [ones EXCEPT ![nP] = t][p] = IF p < nP THEN v ELSE t
      BY <1>7, Nodes, RingSumAssumption
    <3> QED
      BY <3>1
  <2> HIDE DEF ones
  <2> QED
    BY <1>4, <1>5, <2>6, <2>11, <2>12 DEF m
<1> QED
  BY <1>8, <1>9
-----------------------------------------------------------------------------
\* One more element at the end of a list.
LEMMA Appended ==
  ASSUME NEW X, NEW s \in Seq(X), NEW x \in X
  PROVE  /\ Append(s, x) \in Seq(X) /\ Len(s) \in Nat /\ Len(Append(s, x)) = Len(s) + 1
         /\ \A i \in 1 .. Len(s) : Append(s, x)[i] = s[i]
         /\ Append(s, x)[Len(s) + 1] = x
OBVIOUS

\* A node moves on in run; what it has dealt or taken stays.
LEMMA DataStays ==
  ASSUME DataInv, UNCHANGED <<stream, drawn, share, tp, rand_sh_sec, idx>>,
         stage'[Dealer] # "deal" => Len(tp) = Len(All),
         \A p \in Party : stage'[p] = "ran" => Len(share[p]) = Len(All),
         stage'[nP] \in {"recvLengths", "recvShares"} => stage[nP] \in {"recvLengths", "recvShares"},
         stage'[nP] \in {"deal", "ran"} => stage[nP] \in {"deal", "ran"}
  PROVE  DataInv'
<1>1. DealtAll' = DealtAll
  BY DEF DealtAll
<1>2. DealerInv'
  BY <1>1 DEF DataInv, DealerInv
<1>3. PartyInv'
  BY <1>1 DEF DataInv, PartyInv
<1>4. LastInv'
  BY DEF DataInv, LastInv
<1> QED
  BY <1>2, <1>3, <1>4 DEF DataInv

LEMMA DealData ==
  ASSUME DataInv, StageInv, Deal
  PROVE  DataInv'
<1> DEFINE k == Len(tp)
           dealt == NextDealt
           item == All[k + 1]
           extra == NextDraws
           R == rand_sh_sec[Dealer]
<1>1. /\ stage[Dealer] = "deal" /\ k < Len(All) /\ tp' = Append(tp, dealt)
      /\ drawn' = [drawn EXCEPT ![Dealer] = [i \in Node |-> drawn[Dealer][i] + extra[i]]]
      /\ rand_sh_sec' = IF IsRandom(item) THEN rand_sh_sec
                        ELSE [rand_sh_sec EXCEPT ![Dealer] = Append(R, dealt[nP])]
      /\ UNCHANGED <<stream, stage, share, idx>>
  BY DEF Deal, NextItem
<1>2. /\ stream \in Streams /\ k \in Nat /\ tp \in Seq([Party -> Ring]) /\ DOMAIN tp = 1 .. k
      /\ \A j \in 1 .. k : tp[j] = DealtAll[j]
      /\ drawn[Dealer] = DealerDrawn(k)
  BY DEF DataInv, DealerInv, Count
<1>3. dealt = DealtAll[k + 1] /\ dealt \in [Party -> Ring]
  BY <1>1, <1>2, DealtIsNext
<1>4. DealtAll' = DealtAll
  BY <1>1 DEF DealtAll
<1>5. R \in Seq(Ring) /\ dealt[nP] \in Ring /\ Len(R) = SecretsUpTo(k)
  BY <1>3, Nodes DEF DataInv, DealerInv
<1> HIDE DEF dealt
<1>6. /\ tp' \in Seq([Party -> Ring]) /\ Len(tp') = k + 1
      /\ \A j \in 1 .. k : tp'[j] = tp[j]
      /\ tp'[k + 1] = dealt
  BY <1>1, <1>2, <1>3, Appended
<1>7. \A j \in 1 .. k + 1 : tp'[j] = DealtAll[j]
  BY <1>2, <1>3, <1>6
<1>8. [i \in Node |-> drawn[Dealer][i] + extra[i]] = DealerDrawn(k + 1)
  <2>1. ASSUME NEW i \in Node
        PROVE  drawn[Dealer][i] + extra[i] = DealerDrawn(k + 1)[i]
    <3>1. drawn[Dealer][i] = DealerDrawn(k)[i]
      BY <1>2
    <3>2. /\ ShiftsUpTo(k + 1) = ShiftsUpTo(k) + (IF item[2] = "r2" THEN 1 ELSE 0)
          /\ RandomUpTo(k + 1) = RandomUpTo(k) + (IF IsRandom(item) THEN 1 ELSE 0)
      BY <1>2, KindSteps
    <3>6. extra[i] = CASE i = Dealer -> IF item[2] = "r2" THEN 1 ELSE 0
                       [] i = nP     -> IF IsRandom(item) THEN 1 ELSE 0
                       [] OTHER      -> 1
      BY DEF NextDraws, NextItem
    <3> HIDE DEF k, item, extra
    <3>3. CASE i = Dealer
      BY <3>1, <3>2, <3>3, <3>6 DEF DealerDrawn
    <3>4. CASE i = nP
      BY <3>1, <3>2, <3>4, <3>6, Nodes DEF DealerDrawn
    <3>5. CASE i # Dealer /\ i # nP
      BY <3>1, <3>5, <3>6 DEF DealerDrawn
    <3> QED
      BY <3>3, <3>4, <3>5
  <2> HIDE DEF extra
  <2> QED
    BY <2>1 DEF DealerDrawn
<1>9. /\ drawn' \in [Node -> [Node -> Nat]] /\ drawn'[Dealer] = DealerDrawn(k + 1)
      /\ \A p \in Party : drawn'[p] = drawn[p]
  <2>1. k + 1 \in Nat
    BY <1>2
  <2>2. DealerDrawn(k + 1) \in [Node -> Nat]
    <3>1. ShiftsUpTo(k + 1) \in Nat /\ RandomUpTo(k + 1) \in Nat
      BY <2>1, KindSteps
    <3> QED
      BY <2>1, <3>1 DEF DealerDrawn
  <2> DEFINE D == DealerDrawn(k + 1)
  <2>3. drawn' = [drawn EXCEPT ![Dealer] = D]
    BY <1>1, <1>8
  <2>4. D \in [Node -> Nat]
    BY <2>2
  <2> HIDE DEF D
  <2>5. \A p \in Party : p # Dealer /\ p \in Node
    BY Nodes
  <2>6. drawn \in [Node -> [Node -> Nat]]
    BY DEF DataInv
  <2> QED
    BY <2>3, <2>4, <2>5, <2>6, Nodes DEF D
<1>10. /\ rand_sh_sec' \in [{Dealer, nP} -> Seq(Ring)]
       /\ rand_sh_sec'[nP] = rand_sh_sec[nP]
       /\ rand_sh_sec'[Dealer] = IF IsRandom(item) THEN R ELSE Append(R, dealt[nP])
  <2>1. Append(R, dealt[nP]) \in Seq(Ring)
    BY <1>5
  <2> QED
    BY <1>1, <2>1, Nodes DEF DataInv
<1>11. /\ Len(rand_sh_sec'[Dealer]) = SecretsUpTo(k + 1)
       /\ \A j \in 1 .. k + 1 :
            ~IsRandom(All[j]) => rand_sh_sec'[Dealer][SecretsUpTo(j)] = DealtAll[j][nP]
  <2>1. \A j \in 1 .. k : ~IsRandom(All[j]) => R[SecretsUpTo(j)] = DealtAll[j][nP]
    BY DEF DataInv, DealerInv
  <2>2. SecretsUpTo(k + 1) = SecretsUpTo(k) + (IF IsRandom(item) THEN 0 ELSE 1)
    BY <1>2, KindSteps
  <2>3. \A j \in 1 .. k : ~IsRandom(All[j]) => SecretsUpTo(j) \in 1 .. SecretsUpTo(k)
    BY <1>2, SecretsGrow
  <2>4. SecretsUpTo(k) \in Nat
    BY <1>2, KindSteps
  <2>5. CASE IsRandom(item)
    <3>1. rand_sh_sec'[Dealer] = R /\ SecretsUpTo(k + 1) = SecretsUpTo(k)
      BY <1>10, <2>2, <2>4, <2>5
    <3>2. ASSUME NEW j \in 1 .. k + 1, ~IsRandom(All[j])
          PROVE  R[SecretsUpTo(j)] = DealtAll[j][nP]
      <4>1. j # k + 1
        BY <2>5, <3>2
      <4>2. j \in 1 .. k
        BY <1>2, <4>1
      <4> QED
        BY <2>1, <3>2, <4>2
    <3> QED
      BY <1>5, <3>1, <3>2
  <2>6. CASE ~IsRandom(item)
    <3> DEFINE Q == Append(R, dealt[nP])
    <3>1. /\ Len(R) \in Nat /\ Len(Q) = Len(R) + 1 /\ Q[Len(R) + 1] = dealt[nP]
          /\ \A i \in 1 .. Len(R) : Q[i] = R[i]
      BY <1>5, Appended
    <3>2. rand_sh_sec'[Dealer] = Q /\ SecretsUpTo(k + 1) = Len(R) + 1
      BY <1>5, <1>10, <2>2, <2>6
    <3> HIDE DEF Q
    <3>3. ASSUME NEW j \in 1 .. k + 1, ~IsRandom(All[j])
          PROVE  Q[SecretsUpTo(j)] = DealtAll[j][nP]
      <4>1. CASE j = k + 1
        BY <1>3, <3>1, <3>2, <4>1
      <4>2. CASE j # k + 1
        <5>1. j \in 1 .. k
          BY <1>2, <4>2
        <5>2. SecretsUpTo(j) \in 1 .. Len(R)
          BY <1>5, <2>3, <3>3, <5>1
        <5> QED
          BY <2>1, <3>1, <3>3, <5>1, <5>2
      <4> QED
        BY <4>1, <4>2
    <3> QED
      BY <3>1, <3>2, <3>3
  <2> QED
    BY <2>5, <2>6
<1>12. k + 1 \in Count
  BY <1>1, <1>2, AllFacts DEF Count
<1> HIDE DEF k, item, R, extra
<1>13. DealerInv'
  BY <1>1, <1>4, <1>6, <1>7, <1>9, <1>11, <1>12 DEF DealerInv
<1>14. PartyInv'
  BY <1>1, <1>4, <1>9 DEF DataInv, PartyInv
<1>15. LastInv'
  <2>1. stage[nP] \notin {"deal", "ran"}
    BY <1>1 DEF StageInv
  <2> QED
    BY <1>1, <1>10, <2>1 DEF DataInv, LastInv
<1> QED
  BY <1>1, <1>2, <1>9, <1>10, <1>13, <1>14, <1>15 DEF DataInv

\* A party takes its share of the next item.
LEMMA TakeData ==
  ASSUME DataInv, NEW p \in Party, Take(p)
  PROVE  DataInv'
<1> DEFINE k == Len(share[p])
           v == NextDraw(p, 0)
<1>1. /\ p < nP /\ stage[p] = "deal" /\ k < Len(All)
      /\ share' = [share EXCEPT ![p] = Append(share[p], v)]
      /\ drawn' = [drawn EXCEPT ![p][0] = @ + 1]
      /\ UNCHANGED <<stream, stage, tp, rand_sh_sec, idx>>
  BY DEF Take
<1>2. /\ stream \in Streams /\ share[p] \in Seq(Ring) /\ k \in Count /\ drawn[p] = PartyDrawn(p, k)
      /\ \A j \in 1 .. k : share[p][j] = DealtAll[j][p]
  BY DEF DataInv, PartyInv
<1>3. k \in Nat /\ k + 1 \in Count /\ k + 1 \in DOMAIN All /\ p \in Node /\ 0 \in Node /\ p # Dealer /\ p # nP
  <2>1. k \in Nat /\ k + 1 \in 1 .. Len(All)
    BY <1>1, <1>2, AllFacts DEF Count
  <2>2. p \in Node /\ 0 \in Node /\ p # Dealer /\ p # nP
    BY <1>1, Nodes, RingSumAssumption DEF Dealer
  <2> QED
    BY <2>1, <2>2, AllFacts DEF Count
<1>4. v = stream[k + 1] /\ v = DealtAll[k + 1][p] /\ v \in Ring
  <2>1. drawn[p][0] = k
    BY <1>1, <1>2, <1>3 DEF PartyDrawn
  <2>2. v = stream[k + 1]
    BY <2>1 DEF NextDraw
  <2>3. DealtAll[k + 1][p] = stream[k + 1]
    BY <1>1, <1>3 DEF DealtAll, DealtShares
  <2>4. stream \in Seq(Ring) /\ k + 1 \in 1 .. Len(stream)
    BY <1>2, <1>3, AllFacts DEF Count
  <2>5. stream[k + 1] \in Ring
    BY <2>4
  <2> QED
    BY <2>2, <2>3, <2>5
<1> HIDE DEF v
<1>5. DealtAll' = DealtAll
  BY <1>1 DEF DealtAll
<1>6. /\ Append(share[p], v) \in Seq(Ring) /\ Len(Append(share[p], v)) = k + 1
      /\ \A j \in 1 .. k : Append(share[p], v)[j] = share[p][j]
      /\ Append(share[p], v)[k + 1] = v
  BY <1>2, <1>4, Appended
<1> DEFINE s == Append(share[p], v)
<1>7. /\ share' \in [Party -> Seq(Ring)] /\ share'[p] = s
      /\ \A q \in Party : q # p => share'[q] = share[q]
  <2>1. s \in Seq(Ring) /\ share' = [share EXCEPT ![p] = s]
    BY <1>1, <1>6
  <2> HIDE DEF s
  <2> QED
    BY <2>1 DEF DataInv
<1>8. /\ drawn' \in [Node -> [Node -> Nat]] /\ drawn'[p] = PartyDrawn(p, k + 1)
      /\ \A n \in Node : n # p => drawn'[n] = drawn[n]
  <2>1. drawn \in [Node -> [Node -> Nat]]
    BY DEF DataInv
  <2>2. drawn[p] = [i \in Node |-> IF i # 0 THEN 0 ELSE k]
    BY <1>1, <1>2 DEF PartyDrawn
  <2>3. PartyDrawn(p, k + 1) = [i \in Node |-> IF i # 0 THEN 0 ELSE k + 1]
    BY <1>1 DEF PartyDrawn
  <2> HIDE DEF k
  <2>4. [drawn[p] EXCEPT ![0] = @ + 1] = PartyDrawn(p, k + 1)
    BY <1>3, <2>2, <2>3
  <2>5. drawn' = [drawn EXCEPT ![p] = [drawn[p] EXCEPT ![0] = @ + 1]]
    BY <1>1
  <2>6. PartyDrawn(p, k + 1) \in [Node -> Nat]
    BY <1>3, <2>3
  <2> QED
    BY <1>3, <2>1, <2>4, <2>5, <2>6
<1> HIDE DEF s
<1>9. DealerInv'
  BY <1>1, <1>3, <1>5, <1>8, Nodes DEF DataInv, DealerInv
<1>10. PartyInv'
  <2>1. ASSUME NEW q \in Party
        PROVE  /\ Len(share'[q]) \in Count
               /\ \A j \in 1 .. Len(share'[q]) : share'[q][j] = DealtAll[j][q]
               /\ stage'[q] = "ran" => Len(share'[q]) = Len(All)
               /\ drawn'[q] = PartyDrawn(q, Len(share'[q]))
    <3>1. CASE q # p
      BY <1>1, <1>7, <1>8, <3>1, Nodes DEF DataInv, PartyInv
    <3>2. CASE q = p
      <4>1. \A j \in 1 .. k + 1 : s[j] = DealtAll[j][p]
        BY <1>2, <1>3, <1>4, <1>6 DEF s
      <4>2. Len(s) = k + 1
        BY <1>6 DEF s
      <4> HIDE DEF k
      <4> QED
        BY <1>1, <1>3, <1>7, <1>8, <3>2, <4>1, <4>2
    <3> QED
      BY <3>1, <3>2
  <2> QED
    BY <1>5, <2>1 DEF PartyInv
<1>11. LastInv'
  BY <1>1, <1>3, <1>7, Nodes DEF DataInv, LastInv
<1> QED
  BY <1>1, <1>7, <1>8, <1>9, <1>10, <1>11 DEF DataInv

\* The last party draws its share of a random item, or finds that of a secret
\* among those it was sent.
LEMMA TakeLastData ==
  ASSUME DataInv, StageInv, TakeLast
  PROVE  DataInv'
<1> DEFINE k == Len(share[nP])
           item == All[k + 1]
           v == DealtAll[k + 1][nP]
<1>1. /\ stage[nP] = "deal" /\ k < Len(All) /\ UNCHANGED <<stream, stage, tp, rand_sh_sec>>
      /\ IsRandom(item) =>
           /\ share' = [share EXCEPT ![nP] = Append(share[nP], NextDraw(nP, 0))]
           /\ drawn' = [drawn EXCEPT ![nP][0] = @ + 1] /\ idx' = idx
      /\ ~IsRandom(item) =>
           /\ share' = [share EXCEPT ![nP] = Append(share[nP], rand_sh_sec[nP][idx + 1])]
           /\ idx' = idx + 1 /\ drawn' = drawn
  BY DEF TakeLast
<1>2. /\ stream \in Streams /\ share[nP] \in Seq(Ring) /\ k \in Count /\ drawn[nP] = PartyDrawn(nP, k)
      /\ \A j \in 1 .. k : share[nP][j] = DealtAll[j][nP]
      /\ idx = SecretsUpTo(k)
  BY Nodes DEF DataInv, PartyInv, LastInv
<1>3. k \in Nat /\ k + 1 \in Count /\ k + 1 \in DOMAIN All /\ k + 1 \in 1 .. Len(All) /\ 0 \in Node
  BY <1>1, <1>2, AllFacts, Nodes DEF Count, Dealer
<1>4. v \in Ring
  BY <1>2, <1>3, AllFacts, DealtTyped, Nodes DEF All, DealtAll
<1>5. /\ RandomUpTo(k + 1) = RandomUpTo(k) + (IF IsRandom(item) THEN 1 ELSE 0)
      /\ SecretsUpTo(k + 1) = SecretsUpTo(k) + (IF IsRandom(item) THEN 0 ELSE 1)
      /\ RandomUpTo(k) \in Nat /\ SecretsUpTo(k) \in Nat
  <2> HIDE DEF k
  <2>1. /\ RandomUpTo(k + 1) = RandomUpTo(k) + (IF IsRandom(All[k + 1]) THEN 1 ELSE 0)
        /\ SecretsUpTo(k + 1) = SecretsUpTo(k) + (IF IsRandom(All[k + 1]) THEN 0 ELSE 1)
        /\ RandomUpTo(k) \in 0 .. k /\ SecretsUpTo(k) \in 0 .. k
    BY <1>3, KindSteps
  <2> QED
    BY <1>3, <2>1
<1>6. share' = [share EXCEPT ![nP] = Append(share[nP], v)]
  <2>1. CASE IsRandom(item)
    <3>1. drawn[nP][0] = RandomUpTo(k)
      BY <1>2, <1>3, RingSumAssumption DEF PartyDrawn
    <3>2. NextDraw(nP, 0) = stream[RandomUpTo(k + 1)]
      BY <1>5, <2>1, <3>1 DEF NextDraw
    <3>3. OwnDraw(All, stream, k + 1) = stream[RandomUpTo(k + 1)]
      BY DEF OwnDraw, RandomUpTo
    <3>4. LastShare(All, stream, k + 1) = OwnDraw(All, stream, k + 1)
      BY <2>1 DEF LastShare
    <3>5. v = LastShare(All, stream, k + 1)
      BY <1>3, Nodes, RingSumAssumption DEF DealtAll, DealtShares
    <3> QED
      BY <1>1, <2>1, <3>2, <3>3, <3>4, <3>5
  <2>2. CASE ~IsRandom(item)
    <3>1. rand_sh_sec[nP] = rand_sh_sec[Dealer] /\ Len(tp) = Len(All)
      BY <1>1 DEF DataInv, DealerInv, LastInv, StageInv
    <3>2. rand_sh_sec[Dealer][SecretsUpTo(k + 1)] = v
      BY <1>3, <2>2, <3>1 DEF DataInv, DealerInv
    <3>3. SecretsUpTo(k + 1) = idx + 1
      BY <1>2, <1>5, <2>2
    <3> QED
      BY <1>1, <2>2, <3>1, <3>2, <3>3
  <2> QED
    BY <2>1, <2>2
<1>7. drawn' \in [Node -> [Node -> Nat]] /\ drawn'[nP] = PartyDrawn(nP, k + 1)
      /\ \A n \in Node : n # nP => drawn'[n] = drawn[n]
  <2>1. drawn \in [Node -> [Node -> Nat]]
    BY DEF DataInv
  <2> DEFINE r == RandomUpTo(k)
             t == RandomUpTo(k + 1)
  <2>2. drawn[nP] = [i \in Node |-> IF i # 0 THEN 0 ELSE r]
    BY <1>2, RingSumAssumption DEF PartyDrawn
  <2>3. PartyDrawn(nP, k + 1) = [i \in Node |-> IF i # 0 THEN 0 ELSE t]
    BY RingSumAssumption DEF PartyDrawn
  <2>4. r \in Nat /\ t = r + (IF IsRandom(item) THEN 1 ELSE 0)
    BY <1>5
  <2> HIDE DEF k, item, r, t
  <2>5. CASE IsRandom(item)
    <3>1. t = r + 1
      BY <2>4, <2>5
    <3>2. [drawn[nP] EXCEPT ![0] = @ + 1] = PartyDrawn(nP, k + 1)
      BY <1>3, <2>2, <2>3, <3>1
    <3>3. drawn' = [drawn EXCEPT ![nP] = [drawn[nP] EXCEPT ![0] = @ + 1]]
      BY <1>1, <2>5
    <3>4. PartyDrawn(nP, k + 1) \in [Node -> Nat]
      BY <2>3, <2>4, <3>1
    <3> QED
      BY <2>1, <3>2, <3>3, <3>4, Nodes
  <2>6. CASE ~IsRandom(item)
    <3>1. t = r /\ drawn' = drawn
      BY <1>1, <2>4, <2>6
    <3> QED
      BY <2>1, <2>2, <2>3, <3>1
  <2> QED
    BY <2>5, <2>6
<1>8. DealtAll' = DealtAll
  BY <1>1 DEF DealtAll
<1>9. idx' = SecretsUpTo(k + 1)
  BY <1>1, <1>2, <1>5
<1> DEFINE s == Append(share[nP], v)
<1> HIDE DEF v
<1>10. /\ s \in Seq(Ring) /\ Len(s) = k + 1 /\ s[k + 1] = v
       /\ \A j \in 1 .. k : s[j] = share[nP][j]
  BY <1>2, <1>4, Appended
<1>11. share' = [share EXCEPT ![nP] = s]
  BY <1>6
<1> HIDE DEF s
<1>12. /\ share' \in [Party -> Seq(Ring)] /\ share'[nP] = s
       /\ \A q \in Party : q # nP => share'[q] = share[q]
  BY <1>10, <1>11, Nodes DEF DataInv
<1>13. DealerInv'
  BY <1>1, <1>7, <1>8, Nodes DEF DataInv, DealerInv
<1>14. PartyInv'
  <2>1. ASSUME NEW q \in Party
        PROVE  /\ Len(share'[q]) \in Count
               /\ \A j \in 1 .. Len(share'[q]) : share'[q][j] = DealtAll[j][q]
               /\ stage'[q] = "ran" => Len(share'[q]) = Len(All)
               /\ drawn'[q] = PartyDrawn(q, Len(share'[q]))
    <3>1. CASE q # nP
      <4>1. /\ Len(share[q]) \in Count
            /\ \A j \in 1 .. Len(share[q]) : share[q][j] = DealtAll[j][q]
            /\ stage[q] = "ran" => Len(share[q]) = Len(All)
            /\ drawn[q] = PartyDrawn(q, Len(share[q]))
        BY DEF DataInv, PartyInv
      <4>2. share'[q] = share[q] /\ drawn'[q] = drawn[q] /\ stage' = stage
        BY <1>1, <1>7, <1>12, <3>1, Nodes
      <4> QED
        BY <4>1, <4>2
    <3>2. CASE q = nP
      <4>1. \A j \in 1 .. k + 1 : s[j] = DealtAll[j][nP]
        BY <1>2, <1>3, <1>10 DEF v
      <4>2. Len(s) = k + 1 /\ share'[nP] = s
        BY <1>10, <1>12
      <4> HIDE DEF k
      <4> QED
        BY <1>1, <1>3, <1>7, <3>2, <4>1, <4>2
    <3> QED
      BY <3>1, <3>2
  <2> QED
    BY <1>8, <2>1 DEF PartyInv
<1>15. LastInv'
  <2>1. Len(share'[nP]) = k + 1
    BY <1>10, <1>12
  <2> HIDE DEF k
  <2> QED
    BY <1>1, <1>9, <2>1 DEF DataInv, LastInv
<1> QED
  BY <1>1, <1>7, <1>12, <1>13, <1>14, <1>15 DEF DataInv
-----------------------------------------------------------------------------
LEMMA DealerShares ==
  ASSUME DataInv
  PROVE  rand_sh_sec[Dealer] \in Seq(Ring) /\ rand_sh_sec[nP] \in Seq(Ring)
BY DEF DataInv

\* The message with the shares arrives as it was sent.
LEMMA RecvDealtData ==
  ASSUME Control, DataInv, RecvDealt
  PROVE  DataInv' /\ rand_sh_sec'[Dealer] = rand_sh_sec[Dealer]
<1>1. /\ stage[nP] = "recvShares" /\ FromDealer # <<>> /\ stage' = [stage EXCEPT ![nP] = "deal"]
      /\ rand_sh_sec' = [rand_sh_sec EXCEPT ![nP] = Head(FromDealer).vals]
      /\ UNCHANGED <<stream, drawn, share, tp, idx>>
  BY DEF RecvDealt
<1>2. Head(FromDealer) = Dealt
  BY <1>1, DealerShares, LineToLast
<1>3. Head(FromDealer).vals = rand_sh_sec[Dealer]
  BY <1>2 DEF Dealt
<1>4. /\ rand_sh_sec' \in [{Dealer, nP} -> Seq(Ring)] /\ rand_sh_sec'[Dealer] = rand_sh_sec[Dealer]
      /\ rand_sh_sec'[nP] = rand_sh_sec[Dealer]
  BY <1>1, <1>3, DealerShares, Nodes DEF DataInv
<1>5. stage'[nP] = "deal" /\ \A n \in Node : n # nP => stage'[n] = stage[n]
  BY <1>1, Nodes DEF Control, StageInv
<1>6. DealtAll' = DealtAll
  BY <1>1 DEF DealtAll
<1>7. DealerInv'
  BY <1>1, <1>4, <1>5, <1>6, Nodes DEF DataInv, DealerInv
<1>8. PartyInv'
  BY <1>1, <1>5, <1>6, Nodes DEF DataInv, PartyInv
<1>9. LastInv'
  BY <1>1, <1>4, <1>5 DEF DataInv, LastInv
<1> QED
  BY <1>1, <1>4, <1>7, <1>8, <1>9 DEF DataInv

\* Moves from stage to stage that change no data.
LEMMA MoveData ==
  ASSUME Control, DataInv,
         SendLengths \/ SendDealt \/ RecvLengths \/ \E p \in Party : EndRun(p)
  PROVE  DataInv'
<1>1. \A n \in Node : stage[n] \in {"deal", "sendShares", "recvLengths", "recvShares", "ran"}
  BY DEF Control, StageInv
<1>2. /\ stage[Dealer] # "deal" => Len(tp) = Len(All)
      /\ \A p \in Party : stage[p] = "ran" => Len(share[p]) = Len(All)
  BY DEF DataInv, DealerInv, PartyInv
<1>3. stage \in [Node -> {"deal", "sendShares", "recvLengths", "recvShares", "ran"}]
  BY DEF Control, StageInv
<1>4. CASE SendLengths
  <2>1. /\ UNCHANGED <<stream, drawn, share, tp, rand_sh_sec, idx>> /\ Len(tp) = Len(All)
        /\ stage' = [stage EXCEPT ![Dealer] = "sendShares"]
    BY <1>4 DEF SendLengths
  <2>2. \A p \in Party : stage'[p] = stage[p]
    BY <1>3, <2>1, Nodes
  <2> QED
    BY <1>2, <2>1, <2>2, DataStays, Nodes
<1>5. CASE SendDealt
  <2>1. /\ UNCHANGED <<stream, drawn, share, tp, rand_sh_sec, idx>> /\ stage[Dealer] = "sendShares"
        /\ stage' = [stage EXCEPT ![Dealer] = "ran"]
    BY <1>5 DEF SendDealt
  <2>2. \A p \in Party : stage'[p] = stage[p]
    BY <1>3, <2>1, Nodes
  <2> QED
    BY <1>2, <2>1, <2>2, DataStays, Nodes
<1>6. CASE RecvLengths
  <2>1. /\ UNCHANGED <<stream, drawn, share, tp, rand_sh_sec, idx>> /\ stage[nP] = "recvLengths"
        /\ stage' = [stage EXCEPT ![nP] = "recvShares"]
    BY <1>6 DEF RecvLengths
  <2>2. stage'[nP] = "recvShares" /\ \A n \in Node : n # nP => stage'[n] = stage[n]
    BY <1>3, <2>1, Nodes
  <2> QED
    BY <1>2, <2>1, <2>2, DataStays, Nodes
<1>7. ASSUME NEW p \in Party, EndRun(p)
      PROVE  DataInv'
  <2>1. /\ UNCHANGED <<stream, drawn, share, tp, rand_sh_sec, idx>>
        /\ stage[p] = "deal" /\ Len(share[p]) = Len(All)
        /\ stage' = [stage EXCEPT ![p] = "ran"]
    BY <1>7 DEF EndRun
  <2>2. stage'[p] = "ran" /\ \A n \in Node : n # p => stage'[n] = stage[n]
    BY <1>3, <2>1, Nodes
  <2> QED
    BY <1>2, <2>1, <2>2, DataStays, Nodes
<1> QED
  BY <1>4, <1>5, <1>6, <1>7

\* Steps that leave the channels and sync alone.
LEMMA QuietControl ==
  ASSUME Control, DataInv,
         Deal \/ TakeLast \/ \E p \in Party : Take(p) \/ EndRun(p)
  PROVE  Control'
<1>1. CASE Deal
  <2>1. UNCHANGED syncVars /\ stage' = stage /\ stage[Dealer] = "deal"
    BY <1>1 DEF Deal
  <2>2. StageInv'
    BY <2>1 DEF Control, StageInv, syncVars
  <2>3. stage[nP] = "recvLengths"
    BY <2>1, Nodes DEF Control, StageInv
  <2>4. Letters' = Letters
    BY <2>1, <2>3 DEF Letters
  <2> QED
    BY <2>1, <2>2, <2>4, ControlStays
<1>2. CASE TakeLast \/ \E p \in Party : Take(p)
  <2>1. UNCHANGED syncVars /\ stage' = stage /\ rand_sh_sec' = rand_sh_sec
    BY <1>2 DEF Take, TakeLast
  <2>2. StageInv'
    BY <2>1 DEF Control, StageInv, syncVars
  <2> QED
    BY <2>1, <2>2, ControlStays, LettersStay
<1>3. ASSUME NEW p \in Party, EndRun(p)
      PROVE  Control'
  <2>1. /\ UNCHANGED syncVars /\ rand_sh_sec' = rand_sh_sec /\ stage[p] = "deal"
        /\ stage' = [stage EXCEPT ![p] = "ran"]
    BY <1>3 DEF EndRun
  <2>2. step' = step /\ p \in Node /\ step[p] = "out"
    BY <2>1, Nodes, OutBeforeRan DEF syncVars
  <2>3. StageInv' /\ stage'[p] = "ran" /\ \A i \in Node : i # p => stage'[i] = stage[i]
    BY <2>1, <2>2, StageMoves DEF Control
  <2>4. Letters' = Letters
    <3>1. CASE p = nP
      BY <2>1, <2>3, <3>1 DEF Letters
    <3>2. CASE p # nP
      <4>1. stage'[nP] = stage[nP] /\ stage'[Dealer] = stage[Dealer]
        BY <2>3, <3>2, Nodes
      <4> QED
        BY <2>1, <4>1 DEF Letters, Lengths, Dealt
    <3> QED
      BY <3>1, <3>2
  <2> QED
    BY <2>1, <2>3, <2>4, ControlStays
<1> QED
  BY <1>1, <1>2, <1>3

LEMMA InitEstablishes ==
  ASSUME Init
  PROVE  IInv
<1>1. /\ shake = [p \in Node |-> 1] /\ step = [p \in Node |-> "out"]
      /\ stage = [n \in Node |-> IF n = nP THEN "recvLengths" ELSE "deal"]
      /\ stream \in Streams /\ drawn = [n \in Node |-> [i \in Node |-> 0]]
      /\ share = [p \in Party |-> <<>>] /\ tp = <<>>
      /\ rand_sh_sec = [n \in {Dealer, nP} |-> <<>>] /\ idx = 0
  BY DEF Init, SyncInit
<1>2. /\ buffer = [p \in Node |-> [q \in Node |-> [c \in Conn |-> <<>>]]]
      /\ socket = [p \in Node |-> [q \in Node |-> [c \in Conn |-> <<>>]]]
  BY DEF Init, NetInit
<1>3. SyncInv
  <2>1. 1 \in 1 .. 2 * nP + 1 /\ 1 \in Handshakes
    BY RingSumAssumption DEF Handshakes
  <2> QED
    BY <1>1, <2>1 DEF SyncInv
<1>4. \A p \in Node, k \in Handshakes : ~HasSent(p, k) /\ ~HasTaken(p, k)
  BY <1>1 DEF HasSent, HasTaken, Handshakes
<1>5. \A p, q \in Node, c \in Conn :
        p # q => ~HasTaken(q, ShakeWith(q, p, c)) /\ ~ByteUnderWay(p, q, c)
  BY <1>4, ShakeFacts DEF ByteUnderWay
<1>6. SentFirst
  BY <1>5 DEF SentFirst
<1>7. stage[nP] = "recvLengths" /\ \A n \in Node : n # nP => stage[n] = "deal"
  BY <1>1, Nodes
<1>8. StageInv
  <2>1. stage \in [Node -> {"deal", "sendShares", "recvLengths", "recvShares", "ran"}]
    BY <1>1
  <2>2. \A p \in Party : p < nP => stage[p] = "deal"
    BY <1>7, Nodes, RingSumAssumption DEF Party
  <2> QED
    BY <1>1, <1>7, <2>1, <2>2, Nodes DEF StageInv
<1>9. <<>> \in Seq(Ring) /\ <<>> \in Seq(Message) /\ <<>> \in Seq([Party -> Ring])
  OBVIOUS
<1>10. 0 \in Count /\ Len(<<>>) = 0
  BY AllFacts DEF Count
<1>11. DealerDrawn(0) = [i \in Node |-> 0] /\ \A p \in Party : PartyDrawn(p, 0) = [i \in Node |-> 0]
  BY NothingCounted DEF DealerDrawn, PartyDrawn
<1>12. DealerInv
  <2>1. tp \in Seq([Party -> Ring]) /\ Len(tp) = 0 /\ rand_sh_sec[Dealer] = <<>>
    BY <1>1, <1>9, <1>10, Nodes
  <2>2. drawn[Dealer] = DealerDrawn(0)
    BY <1>1, <1>11, Nodes
  <2> QED
    BY <1>7, <1>10, <2>1, <2>2, Nodes, NothingCounted DEF DealerInv
<1>13. PartyInv
  <2>1. ASSUME NEW p \in Party
        PROVE  share[p] = <<>> /\ stage[p] # "ran" /\ drawn[p] = PartyDrawn(p, 0)
    BY <1>1, <1>7, <1>11, Nodes
  <2>2. \A p \in Party : Len(share[p]) = 0
    BY <1>10, <2>1
  <2> QED
    BY <1>10, <2>1, <2>2 DEF PartyInv
<1>14. LastInv
  <2>1. share[nP] = <<>> /\ rand_sh_sec[nP] = <<>> /\ Len(share[nP]) = 0
    BY <1>1, <1>10, Nodes
  <2> QED
    BY <1>1, <1>7, <2>1, NothingCounted DEF LastInv
<1>15. DataInv
  <2>1. drawn \in [Node -> [Node -> Nat]]
    BY <1>1
  <2>2. share \in [Party -> Seq(Ring)] /\ rand_sh_sec \in [{Dealer, nP} -> Seq(Ring)]
    BY <1>1, <1>9
  <2> QED
    BY <1>1, <1>12, <1>13, <1>14, <2>1, <2>2 DEF DataInv
<1>16. LinesInv
  <2>1. LinesTyped
    BY <1>2, <1>9 DEF LinesTyped, Channels
  <2>2. <<>> \o <<>> = <<>>
    OBVIOUS
  <2>3. Letters = <<>>
    BY <1>7, Nodes DEF Letters
  <2>4. ASSUME NEW p \in Node, NEW q \in Node, NEW c \in Conn, p # q
        PROVE  socket[p][q][c] \o buffer[p][q][c] = UnderWay(p, q, c)
    <3>1. socket[p][q][c] = <<>> /\ buffer[p][q][c] = <<>>
      BY <1>2
    <3>2. DataLine(p, q, c) = <<>> /\ SyncLine(p, q, c) = <<>>
      BY <1>5, <2>3, <2>4 DEF DataLine, SyncLine
    <3> QED
      BY <2>2, <3>1, <3>2 DEF UnderWay
  <2> QED
    BY <2>1, <2>4 DEF LinesInv
<1> QED
  BY <1>3, <1>6, <1>8, <1>15, <1>16 DEF IInv

LEMMA StepPreserves ==
  ASSUME IInv, [Next]_vars
  PROVE  IInv'
<1>1. Control /\ DataInv /\ StageInv /\ rand_sh_sec[Dealer] \in Seq(Ring)
  BY DealerShares DEF IInv, Control
<1>2. SUFFICES Control' /\ DataInv'
  BY DEF IInv, Control
<1>3. CASE UNCHANGED vars
  <2>1. UNCHANGED syncVars /\ UNCHANGED <<stream, stage, drawn, share, tp, rand_sh_sec, idx>>
    BY <1>3 DEF vars
  <2>2. StageInv'
    BY <1>1, <2>1 DEF StageInv, syncVars
  <2>3. Control'
    BY <1>1, <2>1, <2>2, ControlStays, LettersStay
  <2>4. DataInv'
    BY <1>1, <2>1, DataStays DEF DataInv, DealerInv, PartyInv
  <2> QED
    BY <2>3, <2>4
<1>4. ASSUME NEW n \in Node, NodeStep(n)
      PROVE  Control' /\ DataInv'
  <2>1. CASE Deal
    BY <1>1, <2>1, QuietControl, DealData
  <2>2. CASE SendLengths
    BY <1>1, <2>2, SendLengthsControl, MoveData
  <2>3. CASE SendDealt
    BY <1>1, <2>3, SendDealtControl, MoveData
  <2>4. ASSUME n \in Party, Take(n)
        PROVE  Control' /\ DataInv'
    BY <1>1, <2>4, QuietControl, TakeData
  <2>5. ASSUME n \in Party, EndRun(n)
        PROVE  Control' /\ DataInv'
    BY <1>1, <2>5, QuietControl, MoveData
  <2>6. CASE RecvLengths
    BY <1>1, <2>6, RecvLengthsControl, MoveData
  <2>7. CASE RecvDealt
    BY <1>1, <2>7, RecvDealtControl, RecvDealtData
  <2>8. CASE TakeLast
    BY <1>1, <2>8, QuietControl, TakeLastData
  <2>9. CASE CallSync(n)
    <3>1. UNCHANGED <<stream, stage, drawn, share, tp, rand_sh_sec, idx>>
      BY <2>9 DEF CallSync
    <3>2. DataInv'
      BY <1>1, <3>1, DataStays DEF DataInv, DealerInv, PartyInv
    <3> QED
      BY <1>1, <2>9, <3>2, CallSyncControl
  <2>10. CASE InSync(n)
    <3>1. UNCHANGED <<stream, stage, drawn, share, tp, rand_sh_sec, idx>>
      BY <2>10 DEF InSync
    <3>2. DataInv'
      BY <1>1, <3>1, DataStays DEF DataInv, DealerInv, PartyInv
    <3> QED
      BY <1>1, <2>10, <3>2, InSyncControl
  <2> QED
    BY <1>4, <2>1, <2>2, <2>3, <2>4, <2>5, <2>6, <2>7, <2>8, <2>9, <2>10 DEF NodeStep
<1> QED
  BY <1>3, <1>4 DEF Next

\* Where the nodes are, what they hold and what their lines carry fit together.
THEOREM Invariance == Spec => []IInv
<1>1. Init => IInv
  BY InitEstablishes
<1>2. IInv /\ [Next]_vars => IInv'
  BY StepPreserves
<1> QED
  BY <1>1, <1>2, PTL DEF Spec
-----------------------------------------------------------------------------
\* What follows for the types: the draws are counted by the items.
LEMMA InvTyped ==
  ASSUME IInv
  PROVE  TypeOK
<1>1. /\ stage \in [Node -> {"deal", "sendShares", "recvLengths", "recvShares", "ran"}]
      /\ step \in [Node -> {"out", "send", "flush", "recv", "reply", "done"}]
      /\ shake \in [Node -> 1 .. 2 * nP + 1]
  BY DEF IInv, StageInv, SyncInv
<1>2. \A k \in Count : /\ 0 \in Count /\ k \in Nat /\ RandomUpTo(k) \in Count
                       /\ ShiftsUpTo(k) \in Count /\ SecretsUpTo(k) \in 0 .. k
  <2>1. SUFFICES ASSUME NEW k \in Count
                 PROVE  /\ 0 \in Count /\ k \in Nat /\ RandomUpTo(k) \in Count
                        /\ ShiftsUpTo(k) \in Count /\ SecretsUpTo(k) \in 0 .. k
    OBVIOUS
  <2>2. Len(All) \in Nat /\ k \in Nat /\ k <= Len(All)
    BY AllFacts DEF Count
  <2>3. RandomUpTo(k) \in 0 .. k /\ ShiftsUpTo(k) \in 0 .. k /\ SecretsUpTo(k) \in 0 .. k
    BY <2>2, KindSteps
  <2> QED
    BY <2>2, <2>3 DEF Count
<1>3. drawn \in [Node -> [Node -> Count]]
  <2>1. drawn \in [Node -> [Node -> Nat]]
    BY DEF IInv, DataInv
  <2>2. ASSUME NEW n \in Node, NEW i \in Node
        PROVE  drawn[n][i] \in Count
    <3>1. CASE n = Dealer
      <4>1. Len(tp) \in Count /\ drawn[Dealer] = DealerDrawn(Len(tp))
        BY DEF IInv, DataInv, DealerInv
      <4> DEFINE k == Len(tp)
      <4>2. drawn[n][i] = CASE i = Dealer -> ShiftsUpTo(k)
                            [] i = nP     -> RandomUpTo(k)
                            [] OTHER      -> k
        BY <3>1, <4>1 DEF DealerDrawn
      <4> HIDE DEF k
      <4>3. k \in Count
        BY <4>1 DEF k
      <4> QED
        BY <1>2, <4>2, <4>3
    <3>2. CASE n # Dealer
      <4>1. n \in Party
        BY <3>2, RingSumAssumption DEF Node, Party, Dealer
      <4>2. Len(share[n]) \in Count /\ drawn[n] = PartyDrawn(n, Len(share[n]))
        BY <4>1 DEF IInv, DataInv, PartyInv
      <4> DEFINE k == Len(share[n])
      <4>3. drawn[n][i] = IF i # 0 THEN 0 ELSE IF n < nP THEN k ELSE RandomUpTo(k)
        BY <4>2 DEF PartyDrawn
      <4> HIDE DEF k
      <4>4. k \in Count
        BY <4>2 DEF k
      <4> QED
        BY <1>2, <4>3, <4>4
    <3> QED
      BY <3>1, <3>2
  <2> HIDE DEF Count
  <2>3. \A n \in Node : drawn[n] \in [Node -> Count]
    BY <2>1, <2>2
  <2> QED
    BY <2>1, <2>3
<1>4. \A p \in Party : Len(share[p]) \in Count /\ \A k \in DOMAIN share[p] : share[p][k] \in Ring
  BY DEF IInv, DataInv, PartyInv
<1>5. Len(tp) \in Count /\ \A k \in DOMAIN tp : tp[k] \in [Party -> Ring]
  BY DEF IInv, DataInv, DealerInv
<1>6. idx \in 0 .. Len(rand_sh_sec[nP])
  <2>1. /\ idx = SecretsUpTo(Len(share[nP])) /\ Len(share[nP]) \in Count
        /\ rand_sh_sec[nP] \in Seq(Ring)
    BY Nodes DEF IInv, DataInv, LastInv, PartyInv
  <2>2. CASE stage[nP] \in {"recvLengths", "recvShares"}
    <3>1. Len(share[nP]) = 0 /\ Len(rand_sh_sec[nP]) = 0
      BY <2>2 DEF IInv, DataInv, LastInv
    <3> QED
      BY <2>1, <3>1, NothingCounted
  <2>3. CASE stage[nP] \in {"deal", "ran"}
    <3>1. stage[Dealer] = "ran" /\ rand_sh_sec[nP] = rand_sh_sec[Dealer]
      BY <2>3 DEF IInv, StageInv, DataInv, LastInv
    <3>2. Len(rand_sh_sec[nP]) = SecretsUpTo(Len(All))
      BY <3>1 DEF IInv, DataInv, DealerInv
    <3>3. Len(All) \in Nat /\ Len(share[nP]) \in 0 .. Len(All)
      BY <2>1, AllFacts DEF Count
    <3>4. SecretsUpTo(Len(share[nP])) <= SecretsUpTo(Len(All))
          /\ SecretsUpTo(Len(share[nP])) \in Nat /\ SecretsUpTo(Len(All)) \in Nat
      BY <3>3, SecretsGrow
    <3> QED
      BY <2>1, <3>2, <3>4
  <2>4. stage[nP] \in {"deal", "recvLengths", "recvShares", "ran"}
    BY <1>1, Nodes DEF IInv, StageInv
  <2> QED
    BY <2>2, <2>3, <2>4
<1> QED
  BY <1>1, <1>3, <1>4, <1>5, <1>6 DEF TypeOK

\* The state of dealer and parties stays in its domains: no generator is drawn
\* from more often than there are items, and the last party never reads past
\* the shares it was sent (offline_evaluator.cpp:46).
THEOREM TypeCorrect == Spec => []TypeOK
<1>1. IInv => TypeOK
  BY InvTyped
<1> QED
  BY <1>1, Invariance, PTL

\* Both sides hold beginnings of one and the same list.
LEMMA InvAgrees ==
  ASSUME IInv
  PROVE  DealerAgrees
<1>1. SUFFICES ASSUME NEW p \in Party, NEW k \in DOMAIN share[p] \cap DOMAIN tp
               PROVE  share[p][k] = tp[k][p]
  BY DEF DealerAgrees
<1>2. share[p] \in Seq(Ring) /\ tp \in Seq([Party -> Ring])
  BY DEF IInv, DataInv, DealerInv
<1>3. k \in 1 .. Len(share[p]) /\ k \in 1 .. Len(tp)
  BY <1>2
<1>4. share[p][k] = DealtAll[k][p]
  BY <1>3 DEF IInv, DataInv, PartyInv
<1>5. tp[k] = DealtAll[k]
  BY <1>3 DEF IInv, DataInv, DealerInv
<1> QED
  BY <1>4, <1>5

\* Whatever the order in which the nodes run, a party holds the shares the
\* dealer believes it holds (offline_evaluator.cpp:31 and :46).
THEOREM DealerAgreesAlways == Spec => []DealerAgrees
<1>1. IInv => DealerAgrees
  BY InvAgrees
<1> QED
  BY <1>1, Invariance, PTL

\* In sync, a node reads the byte of its handshake: the line it reads from is
\* free of the dealer's data by then.
LEMMA ByteInFront ==
  ASSUME Control, NEW n \in Node, step[n] = "recv", Incoming(n) # <<>>
  PROVE  Head(Incoming(n)) = Byte
<1>1. shake[n] \in Handshakes /\ stage[n] = "ran"
  BY InHandshake DEF Control, StageInv
<1>2. PICK k \in Handshakes : shake[n] = k
  BY <1>1
<1> DEFINE q == Peer(n, k)
           c == ConnOf(k)
           s == socket[q][n][c]
           b == buffer[q][n][c]
           h == Head(s)
           t == Tail(s) \o b
           e == <<>>
<1>3. q \in Node /\ q # n /\ c \in Conn
  BY ShakeFacts
<1>4. s = Incoming(n) /\ s # <<>>
  BY <1>2 DEF Incoming
<1>5. s \in Seq(Message) /\ b \in Seq(Message)
  <2> HIDE DEF q, c
  <2> QED
    BY <1>3, ChannelTyped DEF Control, LinesInv
<1>6. DataLine(q, n, c) = <<>>
  BY <1>1, Nodes DEF DataLine, Letters
<1>7. s \o b = <<>> \o SyncLine(q, n, c)
  <2> HIDE DEF q, c
  <2> QED
    BY <1>3, <1>6 DEF Control, LinesInv, UnderWay
<1>8. e \in Seq(Message) /\ e \o <<Byte>> = <<Byte>> \o e /\ e \o e = e
  OBVIOUS
<1>9. s \o b = <<h>> \o t /\ t \in Seq(Message)
  <2> HIDE DEF s, b
  <2>1. Tail(s) \in Seq(Message) /\ s \o b = <<Head(s)>> \o (Tail(s) \o b)
    <3>1. Byte \in Message
      BY DEF Byte, Message
    <3> QED
      BY <1>4, <1>5, <3>1, SequenceFacts
  <2> QED
    BY <1>5, <2>1
<1> DEFINE L == s \o b
<1>10. CASE ByteUnderWay(q, n, c)
  <2>1. L = <<Byte>> \o e
    BY <1>7, <1>8, <1>10 DEF SyncLine
  <2>2. L = <<h>> \o t
    BY <1>9
  <2> DEFINE m == Byte
  <2>3. <<h>> \o t = <<m>> \o e
    BY <2>1, <2>2
  <2>4. h = m
    <3> HIDE DEF h, t, e, m, L
    <3> QED
      BY <1>8, <1>9, <2>3, FrontOfLine
  <2> QED
    BY <1>4, <2>4
<1>11. CASE ~ByteUnderWay(q, n, c)
  <2>1. L = e
    BY <1>7, <1>8, <1>11 DEF SyncLine
  <2>2. L = <<h>> \o t
    BY <1>9
  <2> HIDE DEF h, t, L
  <2> QED
    BY <1>9, <2>1, <2>2, EmptyLine
<1> QED
  BY <1>10, <1>11

LEMMA InvRightMessage ==
  ASSUME IInv
  PROVE  RightMessage
<1>1. Control /\ rand_sh_sec[Dealer] \in Seq(Ring)
  BY DealerShares DEF IInv, Control
<1>2. \A n \in Node : step[n] = "recv" /\ Incoming(n) # <<>> => Head(Incoming(n)).kind = "byte"
  <2>1. ASSUME NEW n \in Node, step[n] = "recv", Incoming(n) # <<>>
        PROVE  Head(Incoming(n)).kind = "byte"
    <3>1. Head(Incoming(n)) = Byte
      BY <1>1, <2>1, ByteInFront
    <3> QED
      BY <3>1 DEF Byte
  <2> QED
    BY <2>1
<1>3. stage[nP] = "recvLengths" /\ FromDealer # <<>> =>
        Head(FromDealer) = [kind |-> "lengths", num |-> Len(rand_sh_sec[Dealer])]
  BY <1>1, LineToLast DEF Lengths
<1>4. stage[nP] = "recvShares" /\ FromDealer # <<>> => Head(FromDealer).kind = "shares"
  <2>1. ASSUME stage[nP] = "recvShares", FromDealer # <<>>
        PROVE  Head(FromDealer).kind = "shares"
    <3>1. Head(FromDealer) = Dealt
      BY <1>1, <2>1, LineToLast
    <3> QED
      BY <3>1 DEF Dealt
  <2> QED
    BY <2>1
<1> QED
  BY <1>2, <1>3, <1>4 DEF RightMessage

\* A receive takes the kind of message it is written for, though the dealer's
\* data and the bytes of sync share a connection (netmp.h:108 and :253).
THEOREM RightMessageAlways == Spec => []RightMessage
<1>1. IInv => RightMessage
  BY InvRightMessage
<1> QED
  BY <1>1, Invariance, PTL
-----------------------------------------------------------------------------
\* A node that is through sync has heard of every other node.
LEMMA DoneHeardAll ==
  ASSUME SyncInv, SentFirst, NEW n \in Node, step[n] = "done", NEW q \in Node
  PROVE  step[q] # "out"
<1>1. CASE q = n
  BY <1>1
<1>2. CASE q # n
  <2>1. "ios" \in Conn
    BY DEF Conn
  <2> DEFINE h == ShakeWith(n, q, "ios")
             k == ShakeWith(q, n, "ios")
  <2>2. h \in Handshakes /\ k \in Handshakes
    BY <1>2, <2>1, ShakeFacts
  <2>3. shake[n] \in 1 .. 2 * nP + 1 /\ shake[n] \notin Handshakes
    BY DEF SyncInv
  <2>4. HasTaken(n, h)
    <3> HIDE DEF h
    <3>1. h < shake[n]
      BY <2>2, <2>3, RingSumAssumption DEF Handshakes
    <3> QED
      BY <3>1 DEF HasTaken
  <2>5. HasSent(q, k)
    BY <1>2, <2>1, <2>4 DEF SentFirst
  <2> HIDE DEF k
  <2> QED
    BY <2>2, <2>5, OutHasNotSent
<1> QED
  BY <1>1, <1>2

\* When run has returned on all parties they hold all of the material.
LEMMA AllTaken ==
  ASSUME DataInv, \A n \in Node : stage[n] = "ran"
  PROVE  /\ \A p \in Party, k \in DOMAIN All : share[p][k] = DealtAll[k][p]
         /\ \A k \in DOMAIN All : [p \in Party |-> share[p][k]] = DealtAll[k]
<1>1. ASSUME NEW p \in Party, NEW k \in DOMAIN All
      PROVE  share[p][k] = DealtAll[k][p]
  <2>1. stage[p] = "ran"
    BY Nodes
  <2>2. Len(share[p]) = Len(All) /\ \A j \in 1 .. Len(share[p]) : share[p][j] = DealtAll[j][p]
    BY <2>1 DEF DataInv, PartyInv
  <2> QED
    BY <2>2, AllFacts
<1>2. ASSUME NEW k \in DOMAIN All
      PROVE  [p \in Party |-> share[p][k]] = DealtAll[k]
  <2>1. DealtAll[k] = [p \in Party |-> IF p < nP THEN stream[k] ELSE LastShare(All, stream, k)]
    BY DEF DealtAll, DealtShares
  <2> HIDE DEF DealtAll
  <2> DEFINE D == DealtAll[k]
  <2>2. D = [p \in Party |-> D[p]]
    BY <2>1
  <2>3. \A p \in Party : share[p][k] = D[p]
    BY <1>1
  <2> HIDE DEF D
  <2>4. [p \in Party |-> share[p][k]] = D
    BY <2>2, <2>3
  <2> QED
    BY <2>4 DEF D
<1> QED
  BY <1>1, <1>2

LEMMA InvReady ==
  ASSUME IInv
  PROVE  ReadyWhenSynced
<1>1. SUFFICES ASSUME NEW n \in Node, step[n] = "done"
               PROVE  /\ \A q \in Node : stage[q] = "ran"
                      /\ \A p \in Party, k \in DOMAIN All : share[p][k] = DealtShares(All, stream)[k][p]
                      /\ Related(gates, [item \in ItemSet(gates) |->
                            Total([p \in Party |-> share[p][IndexOf(All, item)]])])
  BY DEF ReadyWhenSynced
<1>2. \A q \in Node : stage[q] = "ran"
  BY <1>1, DoneHeardAll DEF IInv, StageInv
<1>3. /\ \A p \in Party, k \in DOMAIN All : share[p][k] = DealtAll[k][p]
      /\ \A k \in DOMAIN All : [p \in Party |-> share[p][k]] = DealtAll[k]
  BY <1>2, AllTaken DEF IInv
<1> DEFINE s == [item \in ItemSet(gates) |-> Total([p \in Party |-> share[p][IndexOf(All, item)]])]
<1>4. stream \in Seq(Ring) /\ Len(stream) >= Len(All)
  BY AllFacts DEF IInv, DataInv
<1>5. ASSUME NEW item \in ItemSet(gates)
      PROVE  s[item] = DealtSum(gates, stream, item)
  <2> DEFINE k == IndexOf(All, item)
  <2>1. k \in DOMAIN All
    BY AllFacts, IndexFacts DEF All
  <2>2. [p \in Party |-> share[p][k]] = DealtAll[k]
    <3> HIDE DEF k
    <3> QED
      BY <1>3, <2>1
  <2>3. s[item] = Total([p \in Party |-> share[p][k]])
    OBVIOUS
  <2>4. s[item] = Total(DealtAll[k])
    <3> HIDE DEF s, k
    <3> QED
      BY <2>2, <2>3
  <2> QED
    BY <2>4 DEF DealtSum, DealtAll, All
<1>6. Related(gates, s)
  <2> HIDE DEF s
  <2>1. WordsAreBits /\ IsCircuit(gates) /\ Len(stream) >= Len(Items(gates))
    BY <1>4, AllFacts DEF All
  <2>2. \A item \in ItemSet(gates) : s[item] = DealtSum(gates, stream, item)
    BY <1>5
  <2> QED
    BY <1>4, <2>1, <2>2, RelatedDealt
<1> QED
  BY <1>2, <1>3, <1>6 DEF DealtAll

\* A node leaves sync only after every node has finished the offline phase, and
\* then the parties hold the material that the dealer meant, which is related
\* as online evaluation needs it (netmp.h:248, called after run).
THEOREM ReadyAlways == Spec => []ReadyWhenSynced
<1>1. IInv => ReadyWhenSynced
  BY InvReady
<1> QED
  BY <1>1, Invariance, PTL
-----------------------------------------------------------------------------
(***************************************************************************)
(* Nobody gets stuck: what a node waits for has left its peer's buffer.      *)
(***************************************************************************)

\* Node p has flushed what it sent up to its byte of handshake k.
Flushed(p, k) == k < shake[p] \/ (k = shake[p] /\ step[p] \in {"recv", "reply"})

FlushInv ==
  \A p, q \in Node, c \in Conn :
    p # q /\ Flushed(p, ShakeWith(p, q, c)) => buffer[p][q][c] = <<>>

\* The steps of which a node can always take one, and those that wait for a
\* message.
CanSync(n) == \/ step[n] = "out" /\ stage[n] = "ran"
              \/ step[n] \in {"send", "flush", "reply"}
              \/ step[n] = "recv" /\ Incoming(n) # <<>>

CanRun(n) == \/ stage[n] \in {"deal", "sendShares"}
             \/ stage[n] \in {"recvLengths", "recvShares"} /\ FromDealer # <<>>

NoDeadlock == AllSynced \/ \E n \in Node : CanSync(n) \/ CanRun(n)

\* A step that leaves the buffers and sync alone, or fills a buffer that is not
\* flushed.
LEMMA FlushStays ==
  ASSUME FlushInv, shake' = shake, step' = step,
         \A p, q \in Node, c \in Conn :
           p # q => \/ buffer'[p][q][c] = buffer[p][q][c]
                    \/ ~Flushed(p, ShakeWith(p, q, c))
  PROVE  FlushInv'
<1> SUFFICES ASSUME NEW p \in Node, NEW q \in Node, NEW c \in Conn, p # q,
                    Flushed(p, ShakeWith(p, q, c))'
             PROVE  buffer'[p][q][c] = <<>>
  BY DEF FlushInv
<1>1. ShakeWith(p, q, c)' = ShakeWith(p, q, c)
  BY DEF ShakeWith
<1>2. Flushed(p, ShakeWith(p, q, c))
  BY <1>1 DEF Flushed
<1> QED
  BY <1>2 DEF FlushInv

\* The dealer's sends fill a buffer that it flushes in sync.
LEMMA SendsUnflushed ==
  ASSUME Control, FlushInv, SendLengths \/ SendDealt
  PROVE  FlushInv'
<1>1. /\ step' = step /\ shake' = shake /\ step[Dealer] = "out"
      /\ \E m : Write(Dealer, nP, "ios", m)
  BY OutBeforeRan, Nodes DEF SendLengths, SendDealt
<1>2. PICK m : Write(Dealer, nP, "ios", m)
  BY <1>1
<1>3. buffer \in Channels
  BY DEF Control, LinesInv, LinesTyped
<1>4. \A p, q \in Node, c \in Conn :
        p # Dealer \/ q # nP \/ c # "ios" => buffer'[p][q][c] = buffer[p][q][c]
  BY <1>2, <1>3, Nodes DEF Write, Channels
<1>5. ~Flushed(Dealer, ShakeWith(Dealer, nP, "ios"))
  <2> DEFINE k == ShakeWith(Dealer, nP, "ios")
  <2>1. k \in Handshakes /\ shake[Dealer] = 1
    BY <1>1, ShakeFacts, Nodes DEF Control, SyncInv
  <2> HIDE DEF k
  <2>2. ~Flushed(Dealer, k)
    BY <1>1, <2>1 DEF Flushed, Handshakes
  <2> QED
    BY <2>2 DEF k
<1> QED
  BY <1>1, <1>4, <1>5, FlushStays

\* A node that calls sync has flushed nothing in it.
LEMMA CallFlush ==
  ASSUME SyncInv, FlushInv, NEW n \in Node, EnterSync(n)
  PROVE  FlushInv'
<1>1. /\ step[n] = "out" /\ shake[n] = 1 /\ shake' = shake /\ buffer' = buffer
      /\ step' = [step EXCEPT ![n] = FirstStep(n, 1)]
  BY DEF EnterSync, SyncInv
<1>2. 1 \in 1 .. 2 * nP + 1
  BY RingSumAssumption
<1>3. FirstStep(n, 1) \notin {"recv", "reply"}
  BY <1>2, FirstStepFacts
<1>4. \A p \in Node : step'[p] \in {"recv", "reply"} => step'[p] = step[p]
  BY <1>1, <1>3 DEF SyncInv
<1> SUFFICES ASSUME NEW p \in Node, NEW q \in Node, NEW c \in Conn, p # q,
                    Flushed(p, ShakeWith(p, q, c))'
             PROVE  buffer'[p][q][c] = <<>>
  BY DEF FlushInv
<1>5. ShakeWith(p, q, c)' = ShakeWith(p, q, c)
  BY DEF ShakeWith
<1>6. Flushed(p, ShakeWith(p, q, c))
  BY <1>1, <1>4, <1>5 DEF Flushed
<1> QED
  BY <1>1, <1>6 DEF FlushInv

\* Setting the buffer of one connection leaves all others as they are.
LEMMA OneBufferSet ==
  ASSUME LinesTyped, NEW n \in Node, NEW q \in Node, NEW c \in Conn,
         \/ buffer' = [buffer EXCEPT ![n][q][c] = Append(@, Byte)]
         \/ buffer' = [buffer EXCEPT ![n][q][c] = <<>>],
         NEW a \in Node, NEW b \in Node, NEW d \in Conn, a # n \/ b # q \/ d # c
  PROVE  buffer'[a][b][d] = buffer[a][b][d]
<1>1. PICK v : buffer' = [buffer EXCEPT ![n][q][c] = v]
  OBVIOUS
<1>2. buffer \in [Node -> [Node -> [Conn -> Seq(Message)]]]
  BY DEF LinesTyped, Channels
<1>3. CASE a # n
  BY <1>1, <1>2, <1>3
<1>4. CASE a = n /\ b # q
  BY <1>1, <1>2, <1>4
<1>5. CASE a = n /\ b = q /\ d # c
  <2>1. buffer'[n] = [buffer[n] EXCEPT ![q][c] = v]
    BY <1>1, <1>2
  <2>2. buffer'[n][q] = [buffer[n][q] EXCEPT ![c] = v]
    BY <1>2, <2>1
  <2> QED
    BY <1>2, <1>5, <2>2
<1> QED
  BY <1>3, <1>4, <1>5

\* Inside a handshake a node fills the buffer before it flushes it, and goes on
\* to the next only with an empty one.
LEMMA InSyncFlush ==
  ASSUME SyncInv, LinesTyped, FlushInv, NEW n \in Node, SyncStep(n)
  PROVE  FlushInv'
<1>1. step[n] \in {"send", "flush", "recv", "reply"}
  BY DEF SyncStep, SyncSend, SyncFlush, SyncRecv, SyncReply
<1>2. PICK k \in Handshakes : shake[n] = k
  BY <1>1, InHandshake
<1>3. k + 1 \in 1 .. 2 * nP + 1 /\ k \in Nat
  BY <1>1, <1>2, InHandshake DEF Handshakes
<1> DEFINE q == Peer(n, k)
           c == ConnOf(k)
<1>4. q \in Node /\ q # n /\ c \in Conn
  BY ShakeFacts
<1>5. \A a, b \in Node, d \in Conn :
        a # n \/ b # q \/ d # c => buffer'[a][b][d] = buffer[a][b][d]
  <2> HIDE DEF q, c
  <2>1. CASE SyncSend(n)
    <3>1. buffer' = [buffer EXCEPT ![n][q][c] = Append(@, Byte)]
      BY <1>2, <2>1 DEF SyncSend, Write, q, c
    <3> QED
      BY <1>4, <3>1, OneBufferSet
  <2>2. CASE SyncFlush(n) \/ SyncReply(n)
    <3>1. buffer' = [buffer EXCEPT ![n][q][c] = <<>>]
      BY <1>2, <2>2 DEF SyncFlush, SyncReply, Flush, q, c
    <3> QED
      BY <1>4, <3>1, OneBufferSet
  <2>3. CASE SyncRecv(n)
    BY <2>3 DEF SyncRecv
  <2> QED
    BY <2>1, <2>2, <2>3 DEF SyncStep
<1>6. SyncFlush(n) \/ SyncReply(n) => buffer'[n][q][c] = <<>>
  <2> HIDE DEF q, c
  <2>1. ASSUME SyncFlush(n) \/ SyncReply(n)
        PROVE  buffer' = [buffer EXCEPT ![n][q][c] = <<>>]
    BY <1>2, <2>1 DEF SyncFlush, SyncReply, Flush, q, c
  <2> QED
    BY <1>4, <2>1 DEF LinesTyped, Channels
<1>7. \A a \in Node : a # n => shake'[a] = shake[a] /\ step'[a] = step[a]
  BY DEF SyncStep, SyncSend, SyncFlush, SyncRecv, SyncReply, EndHandshake, SyncInv
<1>8. FirstStep(n, k + 1) \notin {"recv", "reply"}
  BY <1>3, FirstStepFacts
<1>9. ASSUME NEW h \in Handshakes
      PROVE  /\ h # k => (Flushed(n, h)' <=> Flushed(n, h))
             /\ Flushed(n, k)' => \/ SyncFlush(n) \/ SyncReply(n)
                                  \/ SyncRecv(n) /\ Flushed(n, k)
  <2>1. h \in Nat
    BY DEF Handshakes
  <2>2. CASE SyncSend(n)
    <3>1. step[n] = "send" /\ shake'[n] = k /\ step'[n] = "flush"
      BY <1>2, <2>2 DEF SyncSend, SyncInv
    <3> QED
      BY <1>2, <1>3, <2>1, <3>1 DEF Flushed
  <2>3. CASE SyncFlush(n)
    <3>1. step[n] = "flush" /\ shake'[n] = k /\ step'[n] = "recv"
      BY <1>2, <2>3 DEF SyncFlush, SyncInv
    <3> QED
      BY <1>2, <1>3, <2>1, <2>3, <3>1 DEF Flushed
  <2>4. CASE SyncRecv(n)
    <3>1. step[n] = "recv"
      BY <2>4 DEF SyncRecv
    <3>2. \/ shake'[n] = k /\ step'[n] = "reply"
          \/ shake'[n] = k + 1 /\ step'[n] = FirstStep(n, k + 1)
      BY <1>2, <2>4 DEF SyncRecv, EndHandshake, SyncInv
    <3> QED
      BY <1>2, <1>3, <1>8, <2>1, <2>4, <3>1, <3>2 DEF Flushed
  <2>5. CASE SyncReply(n)
    <3>1. step[n] = "reply"
      BY <2>5 DEF SyncReply
    <3>2. shake'[n] = k + 1 /\ step'[n] = FirstStep(n, k + 1)
      BY <1>2, <2>5 DEF SyncReply, EndHandshake, SyncInv
    <3> QED
      BY <1>2, <1>3, <1>8, <2>1, <2>5, <3>1, <3>2 DEF Flushed
  <2> QED
    BY <2>2, <2>3, <2>4, <2>5 DEF SyncStep
<1> SUFFICES ASSUME NEW a \in Node, NEW b \in Node, NEW d \in Conn, a # b,
                    Flushed(a, ShakeWith(a, b, d))'
             PROVE  buffer'[a][b][d] = <<>>
  BY DEF FlushInv
<1>10. PICK h \in Handshakes : h = ShakeWith(a, b, d)
  BY ShakeFacts
<1>11. Flushed(a, h)'
  <2>1. ShakeWith(a, b, d)' = ShakeWith(a, b, d)
    BY DEF ShakeWith
  <2> QED
    BY <1>10, <2>1 DEF Flushed
<1>12. CASE a # n
  <2>1. Flushed(a, h)
    BY <1>7, <1>11, <1>12 DEF Flushed
  <2> QED
    BY <1>5, <1>10, <1>12, <2>1 DEF FlushInv
<1>13. CASE a = n /\ h # k
  <2>1. Flushed(a, h)
    BY <1>9, <1>11, <1>13
  <2>2. b # q \/ d # c
    BY <1>10, <1>13, ShakeFacts
  <2> QED
    BY <1>5, <1>10, <2>1, <2>2 DEF FlushInv
<1>14. CASE a = n /\ h = k
  <2>1. b = q /\ d = c
    BY <1>10, <1>14, ShakeOne
  <2>2. CASE SyncFlush(n) \/ SyncReply(n)
    BY <1>6, <1>14, <2>1, <2>2
  <2>3. CASE SyncRecv(n) /\ Flushed(n, k)
    <3>1. buffer' = buffer
      BY <2>3 DEF SyncRecv
    <3> QED
      BY <1>10, <1>14, <2>3, <3>1 DEF FlushInv
  <2> QED
    BY <1>9, <1>11, <1>14, <2>2, <2>3
<1> QED
  BY <1>12, <1>13, <1>14

LEMMA FlushPreserved ==
  ASSUME IInv, FlushInv, [Next]_vars
  PROVE  FlushInv'
<1>1. Control /\ SyncInv /\ LinesTyped
  BY DEF IInv, Control, LinesInv
<1>2. CASE UNCHANGED <<buffer, shake, step>>
  BY <1>2, FlushStays
<1>3. ASSUME NEW n \in Node, NodeStep(n)
      PROVE  FlushInv'
  <2>1. CASE Deal \/ Take(n) \/ EndRun(n) \/ TakeLast \/ RecvLengths \/ RecvDealt
    BY <1>2, <2>1 DEF Deal, Take, EndRun, TakeLast, RecvLengths, RecvDealt, syncVars
  <2>2. CASE SendLengths \/ SendDealt
    BY <1>1, <2>2, SendsUnflushed
  <2>3. CASE CallSync(n)
    BY <1>1, <2>3, CallFlush DEF CallSync
  <2>4. CASE InSync(n)
    BY <1>1, <2>4, InSyncFlush DEF InSync
  <2> QED
    BY <1>3, <2>1, <2>2, <2>3, <2>4 DEF NodeStep
<1> QED
  BY <1>2, <1>3 DEF Next, vars, syncVars

LEMMA FlushInitially ==
  ASSUME Init
  PROVE  FlushInv
<1>1. buffer = [p \in Node |-> [q \in Node |-> [c \in Conn |-> <<>>]]]
  BY DEF Init, NetInit
<1> QED
  BY <1>1 DEF FlushInv

\* A byte that was sent and flushed is there to be read.
LEMMA Delivered ==
  ASSUME IInv, FlushInv, NEW p \in Node, NEW q \in Node, NEW c \in Conn, p # q,
         Flushed(p, ShakeWith(p, q, c)), ByteUnderWay(p, q, c)
  PROVE  socket[p][q][c] # <<>>
<1> DEFINE D == DataLine(p, q, c)
           s == socket[p][q][c]
           b == buffer[p][q][c]
<1>1. b = <<>> /\ s \o b = D \o <<Byte>>
  BY DEF FlushInv, IInv, LinesInv, UnderWay, SyncLine
<1>2. s \in Seq(Message) /\ D \in Seq(Message) /\ Byte \in Message
  <2>1. <<>> \in Seq(Message)
    OBVIOUS
  <2> QED
    BY <2>1, ChannelTyped, LettersTyped, DealerShares DEF IInv, LinesInv, DataLine
<1> HIDE DEF D, s, b
<1>3. Len(s \o b) = Len(s) + Len(b) /\ Len(D \o <<Byte>>) = Len(D) + 1
  BY <1>1, <1>2
<1>4. Len(s) # 0
  BY <1>1, <1>2, <1>3
<1>5. s # <<>>
  BY <1>4
<1> QED
  BY <1>5 DEF s

\* What node n waits for in its handshake, as a place in the order of all of
\* them: a node that waits for n at an earlier handshake of its own has a
\* lower one.
Place(n) == 2 * (n + Peer(n, shake[n])) + (IF ConnOf(shake[n]) = "ios" THEN 0 ELSE 1)

LEMMA PlaceFacts ==
  ASSUME SyncInv, NEW n \in Node, step[n] = "recv"
  PROVE  /\ Place(n) \in Nat
         /\ \A q \in Node, c \in Conn :
              q # n /\ shake[n] < ShakeWith(n, q, c) =>
                Place(n) < 2 * (n + q) + (IF c = "ios" THEN 0 ELSE 1)
<1>1. PICK k \in Handshakes : shake[n] = k
  BY InHandshake
<1> DEFINE r == Peer(n, k)
           d == ConnOf(k)
<1>2. r \in Node /\ r # n /\ d \in Conn /\ ShakeWith(n, r, d) = k
  BY ShakeFacts
<1>3. Place(n) = 2 * (n + r) + (IF d = "ios" THEN 0 ELSE 1)
  BY <1>1 DEF Place
<1> HIDE DEF r, d
<1>4. n \in Nat /\ r \in Nat
  BY <1>2, RingSumAssumption DEF Node
<1>5. Place(n) \in Nat
  BY <1>3, <1>4
<1>6. ASSUME NEW q \in Node, NEW c \in Conn, q # n, shake[n] < ShakeWith(n, q, c)
      PROVE  Place(n) < 2 * (n + q) + (IF c = "ios" THEN 0 ELSE 1)
  <2>1. q \in Nat
    BY RingSumAssumption DEF Node
  <2>2. ShakeWith(n, r, d) < ShakeWith(n, q, c)
    BY <1>1, <1>2, <1>6
  <2> QED
    BY <1>2, <1>3, <1>4, <1>6, <2>1, <2>2 DEF ShakeWith, Conn
<1> QED
  BY <1>5, <1>6

\* A node that waits in its handshake with q while q is in the same one: one of
\* the two can read.
LEMMA OneReads ==
  ASSUME IInv, FlushInv, NEW n \in Node, NEW q \in Node, NEW k \in Handshakes, NEW c \in Conn,
         step[n] = "recv", shake[n] = k, q = Peer(n, k), c = ConnOf(k),
         \/ ShakeWith(q, n, c) < shake[q]
         \/ ShakeWith(q, n, c) = shake[q] /\ step[q] = "recv"
  PROVE  Incoming(n) # <<>> \/ (step[q] = "recv" /\ Incoming(q) # <<>>)
<1>1. q # n /\ ShakeWith(n, q, c) = k
  BY ShakeFacts
<1>2. PICK h \in Handshakes : h = ShakeWith(q, n, c)
  BY <1>1, ShakeFacts
<1>3. Peer(q, h) = n /\ ConnOf(h) = c
  BY <1>1, <1>2, ShakeFacts
<1>4. IsServer(q, h) <=> ~IsServer(n, k)
  <2>1. n \in Nat /\ q \in Nat
    BY RingSumAssumption DEF Node
  <2> QED
    BY <1>1, <1>3, <2>1 DEF IsServer
<1>5. k \in Nat /\ h \in Nat /\ k = shake[n]
  BY DEF Handshakes
<1>6. Flushed(q, h)
  BY <1>2 DEF Flushed
<1>7. CASE h < shake[q] \/ IsServer(q, h)
  <2>1. HasSent(q, h)
    BY <1>2, <1>7 DEF HasSent
  <2>2. ~HasTaken(n, k)
    BY <1>5 DEF HasTaken
  <2>3. ByteUnderWay(q, n, c)
    BY <1>1, <1>2, <2>1, <2>2 DEF ByteUnderWay
  <2>4. socket[q][n][c] # <<>>
    BY <1>1, <1>2, <1>6, <2>3, Delivered
  <2> QED
    BY <2>4 DEF Incoming
<1>8. CASE h = shake[q] /\ step[q] = "recv" /\ IsServer(n, k)
  <2>1. HasSent(n, k) /\ Flushed(n, k)
    BY <1>8 DEF HasSent, Flushed
  <2>2. ~HasTaken(q, h)
    BY <1>5, <1>8 DEF HasTaken
  <2>3. ByteUnderWay(n, q, c)
    BY <1>1, <1>2, <2>1, <2>2 DEF ByteUnderWay
  <2>4. socket[n][q][c] # <<>>
    BY <1>1, <2>1, <2>3, Delivered
  <2> QED
    BY <1>3, <1>8, <2>4 DEF Incoming
<1> QED
  BY <1>2, <1>4, <1>7, <1>8

\* While the last party waits for the dealer's data, the dealer is not in the
\* handshake of sync that would have sent them off.
LEMMA DealerDelivers ==
  ASSUME IInv, FlushInv, step[Dealer] = "recv", step[nP] = "out",
         Peer(Dealer, shake[Dealer]) = nP,
         stage[nP] \in {"recvLengths", "recvShares"}
  PROVE  FromDealer # <<>>
<1>1. Control /\ SyncInv /\ rand_sh_sec[Dealer] \in Seq(Ring) /\ stage[Dealer] = "ran"
  BY DealerShares, Nodes DEF IInv, Control, StageInv
<1>2. PICK k \in Handshakes : shake[Dealer] = k
  BY <1>1, InHandshake, Nodes
<1>3. PICK c \in Conn : c = ConnOf(k) /\ ShakeWith(Dealer, nP, c) = k
  BY <1>2, ShakeFacts, Nodes
<1>4. ~HasTaken(Dealer, ShakeWith(Dealer, nP, "ios"))
  <2>1. ShakeWith(nP, Dealer, "ios") \in Handshakes
    BY ShakeFacts, Nodes
  <2>2. ~HasSent(nP, ShakeWith(nP, Dealer, "ios"))
    BY <1>1, <2>1, OutHasNotSent, Nodes
  <2> QED
    BY <2>2, Nodes DEF IInv, SentFirst
<1>5. c = "ios"
  <2>1. ASSUME c = "ios2"
        PROVE  FALSE
    <3>1. ShakeWith(Dealer, nP, "ios") < ShakeWith(Dealer, nP, "ios2")
      BY RingSumAssumption DEF ShakeWith, Dealer
    <3>2. ShakeWith(Dealer, nP, "ios") < shake[Dealer]
      BY <1>2, <1>3, <2>1, <3>1
    <3> QED
      BY <1>4, <3>2 DEF HasTaken
  <2> QED
    BY <2>1 DEF Conn
<1>6. buffer[Dealer][nP]["ios"] = <<>>
  <2>1. Flushed(Dealer, ShakeWith(Dealer, nP, "ios"))
    BY <1>2, <1>3, <1>5 DEF Flushed
  <2> QED
    BY <2>1, Nodes DEF FlushInv
<1>7. Letters \in {<<Lengths, Dealt>>, <<Dealt>>}
  BY <1>1 DEF Letters
<1> DEFINE s == socket[Dealer][nP]["ios"]
           B == SyncLine(Dealer, nP, "ios")
           L == Letters
<1>8. s \o <<>> = L \o B
  BY <1>1, <1>6, DealerLine DEF Line
<1>9. s \in Seq(Message) /\ L \in Seq(Message) /\ B \in Seq(Message) /\ Len(L) # 0
  <2>1. s \in Seq(Message)
    BY <1>1, ChannelTyped, Nodes DEF Control, LinesInv
  <2>2. L \in Seq(Message) /\ Byte \in Message
    BY <1>1, LettersTyped
  <2>3. <<>> \in Seq(Message) /\ \A m \in Message : <<m>> \in Seq(Message)
    OBVIOUS
  <2>4. Len(L) # 0
    <3>1. CASE L = <<Lengths, Dealt>>
      <4>1. Len(<<Lengths, Dealt>>) = 2
        OBVIOUS
      <4> HIDE DEF L
      <4> QED
        BY <3>1, <4>1
    <3>2. CASE L = <<Dealt>>
      <4>1. Len(<<Dealt>>) = 1
        OBVIOUS
      <4> HIDE DEF L
      <4> QED
        BY <3>2, <4>1
    <3> QED
      BY <1>7, <3>1, <3>2
  <2> QED
    BY <2>1, <2>2, <2>3, <2>4 DEF SyncLine
<1> HIDE DEF s, B, L
<1>10. Len(s) = Len(L) + Len(B)
  BY <1>8, <1>9
<1>11. s # <<>>
  BY <1>9, <1>10
<1> QED
  BY <1>11, Nodes DEF s, FromDealer

\* Take the node with the lowest place among those that wait in sync: its peer
\* is through, or waits in the same handshake, or is the last party, which
\* waits for the dealer.
LEMMA InvDeadlockFree ==
  ASSUME IInv, FlushInv
  PROVE  NoDeadlock
<1> SUFFICES ASSUME ~AllSynced, \A n \in Node : ~CanSync(n) /\ ~CanRun(n)
             PROVE  FALSE
  BY DEF NoDeadlock
<1>1. SyncInv /\ StageInv /\ SentFirst
  BY DEF IInv
<1>2. \A n \in Node : stage[n] \in {"recvLengths", "recvShares", "ran"}
  BY <1>1 DEF CanRun, StageInv
<1>3. \A n \in Node : n # nP => stage[n] = "ran"
  <2>1. \A n \in Node : n = Dealer \/ (n \in Party /\ n <= nP)
    BY RingSumAssumption DEF Node, Party, Dealer
  <2> QED
    BY <1>1, <1>2, <2>1, RingSumAssumption DEF StageInv, Node
<1>4. \A n \in Node :
        \/ step[n] \in {"recv", "done"}
        \/ n = nP /\ step[n] = "out" /\ stage[nP] \in {"recvLengths", "recvShares"}
  BY <1>1, <1>2, <1>3 DEF CanSync, SyncInv
<1>5. step[nP] = "out" => step[Dealer] = "recv" /\ FromDealer = <<>>
  <2>1. ASSUME step[nP] = "out"
        PROVE  step[Dealer] # "done"
    BY <1>1, <2>1, DoneHeardAll, Nodes
  <2> QED
    BY <1>4, <2>1, Nodes DEF CanRun
<1> DEFINE Stuck == {n \in Node : step[n] = "recv"}
           T == {Place(n) : n \in Stuck}
<1>6. T \subseteq Nat /\ T # {}
  <2>1. Stuck # {}
    <3>1. PICK n \in Node : step[n] # "done"
      BY DEF AllSynced
    <3> QED
      BY <1>4, <1>5, <3>1, Nodes
  <2> QED
    BY <1>1, <2>1, PlaceFacts
<1>7. PICK n \in Stuck : \A m \in Stuck : Place(n) <= Place(m)
  <2>1. PICK a \in T : \A b \in T : a <= b
    <3> HIDE DEF T
    <3> QED
      BY <1>6, LeastNatural
  <2> QED
    BY <2>1
<1>8. PICK k \in Handshakes : shake[n] = k
  BY <1>1, InHandshake
<1>9. PICK q \in Node : q = Peer(n, k) /\ q # n
  BY ShakeFacts
<1>10. PICK c \in Conn : c = ConnOf(k) /\ ShakeWith(n, q, c) = k
  BY <1>9, ShakeFacts
<1>11. Place(n) = 2 * (n + q) + (IF c = "ios" THEN 0 ELSE 1)
  BY <1>8, <1>9, <1>10 DEF Place
<1>12. PICK h \in Handshakes : h = ShakeWith(q, n, c)
  BY <1>9, ShakeFacts
<1>13. n \in Nat /\ q \in Nat /\ nP \in Nat /\ n <= nP /\ q <= nP /\ h \in Nat
  BY RingSumAssumption DEF Node, Handshakes
<1>14. CASE step[q] = "done"
  <2>1. h < shake[q]
    BY <1>1, <1>13, <1>14, RingSumAssumption DEF SyncInv, Handshakes
  <2> QED
    BY <1>8, <1>9, <1>10, <1>12, <2>1, OneReads DEF CanSync
<1>15. CASE step[q] = "recv"
  <2>1. shake[q] \in Nat
    BY <1>1, RingSumAssumption DEF SyncInv
  <2>2. CASE h < shake[q] \/ h = shake[q]
    BY <1>8, <1>9, <1>10, <1>12, <1>15, <2>2, OneReads DEF CanSync
  <2>3. CASE shake[q] < h
    <3>1. Place(q) < 2 * (q + n) + (IF c = "ios" THEN 0 ELSE 1)
      BY <1>1, <1>9, <1>12, <1>15, <2>3, PlaceFacts
    <3>2. Place(n) <= Place(q) /\ Place(q) \in Nat
      BY <1>1, <1>7, <1>15, PlaceFacts
    <3> QED
      BY <1>11, <1>13, <3>1, <3>2
  <2> QED
    BY <1>13, <2>1, <2>2, <2>3
<1>16. CASE q = nP /\ step[nP] = "out" /\ stage[nP] \in {"recvLengths", "recvShares"}
  <2>1. step[Dealer] = "recv" /\ FromDealer = <<>>
    BY <1>5, <1>16
  <2>2. n = Dealer
    <3>1. PICK j \in Handshakes : shake[Dealer] = j
      BY <1>1, <2>1, InHandshake, Nodes
    <3>2. Peer(Dealer, j) \in Node
      BY ShakeFacts, Nodes
    <3>3. Place(Dealer) <= 2 * nP + 1
      <4> DEFINE r == Peer(Dealer, j)
      <4>1. Place(Dealer) = 2 * (Dealer + r) + (IF ConnOf(j) = "ios" THEN 0 ELSE 1)
        BY <3>1 DEF Place
      <4>2. r \in Nat /\ r <= nP
        BY <3>2, RingSumAssumption DEF Node
      <4> HIDE DEF r
      <4> QED
        BY <1>13, <4>1, <4>2 DEF Dealer
    <3>4. Place(n) <= Place(Dealer) /\ Place(Dealer) \in Nat
      BY <1>1, <1>7, <2>1, PlaceFacts, Nodes
    <3> QED
      BY <1>11, <1>13, <1>16, <3>3, <3>4 DEF Dealer
  <2> QED
    BY <1>8, <1>9, <1>16, <2>1, <2>2, DealerDelivers
<1> QED
  BY <1>4, <1>14, <1>15, <1>16

\* The offline phase never comes to a stop before every node is through sync:
\* the dealer's data for the last party leave with the dealer's byte
\* (offline_evaluator.cpp:201, netmp.h:252), and the two nodes of a handshake
\* never both wait.
THEOREM DeadlockFree == Spec => []NoDeadlock
<1>1. Init => IInv /\ FlushInv
  BY InitEstablishes, FlushInitially
<1>2. IInv /\ FlushInv /\ [Next]_vars => IInv' /\ FlushInv'
  BY StepPreserves, FlushPreserved
<1>3. IInv /\ FlushInv => NoDeadlock
  BY InvDeadlockFree
<1> QED
  BY <1>1, <1>2, <1>3, PTL DEF Spec
=============================================================================
