-------------------------- MODULE ReconstructProofs --------------------------
(***************************************************************************)
(* Proofs about Reconstruct, for every number of parties, every sequence of *)
(* calls, modes and list lengths, every ring and both builds of send.       *)
(***************************************************************************)
EXTENDS Reconstruct, OpsProofs

USE DEF Party, Node, Call, pKing

\* The loop over the parties advances, skips nobody it has to talk to, never
\* stops at the party itself and ends at nP + 1.
LEMMA NextPeerFacts ==
  ASSUME NEW p \in Party, Reconstructing(p), NEW a \in 0 .. nP
  PROVE  /\ NextPeer(p, a) \in 1 .. nP + 1
         /\ NextPeer(p, a) > a
         /\ NextPeer(p, a) # p
         /\ ~LoopsOverAll(p) => NextPeer(p, a) \in {pKing, nP + 1}
         /\ \A q \in Party : Peers(p, q, call[p])
              => (q < NextPeer(p, a) <=> q <= a)
BY RingSumAssumption, ReconstructAssumption
   DEF NextPeer, LoopsOverAll, Peers, Reconstructing

\* A party talks only to its peers of the call.
LEMMA AtPeer ==
  ASSUME TypeOK, NEW p \in Party, phase[p] # "idle", at[p] <= nP
  PROVE  /\ at[p] \in Party /\ at[p] # p /\ Reconstructing(p)
         /\ Peers(p, at[p], call[p]) /\ Peers(at[p], p, call[p])
BY RingSumAssumption, ReconstructAssumption
   DEF TypeOK, Peers, LoopsOverAll, Reconstructing

\* The types of the program counters.
LEMMA PcTypes ==
  ASSUME TypeOK, NEW p \in Party
  PROVE  /\ at[p] \in 0 .. nP + 1 /\ call[p] \in 1 .. numCalls + 1
         /\ at[p] > nP => \A q \in Party : q < at[p]
         /\ call[p] \in Int /\ at[p] \in Int
<1>1. at[p] \in 0 .. nP + 1 /\ call[p] \in 1 .. numCalls + 1
  BY DEF TypeOK
<1> QED
  BY <1>1, RingSumAssumption, ReconstructAssumption

\* A filled-in list is never None.
LEMMA ListNotNone == \A c \in Call : None \notin Vec(numShares[c])
<1>1. SUFFICES ASSUME NEW c \in Call, <<>> \in [1 .. numShares[c] -> Ring]
               PROVE  FALSE
  BY DEF None, Vec
<1>2. 1 \in 1 .. numShares[c] /\ numShares[c] \in Nat
  BY ReconstructAssumption
<1>3. DOMAIN <<>> = 1 .. numShares[c]
  BY <1>1
<1> QED
  BY <1>2, <1>3

-----------------------------------------------------------------------------
\* A message is only sent in a call its sender has entered, and a sum only
\* after every party has entered the call.
LEMMA SentEntered ==
  ASSUME IInv, NEW p \in Party, NEW q \in Party, NEW c \in Call, SentIn(p, q, c)
  PROVE  Entered(p, c)
BY DEF IInv, TypeOK, SentIn, SentNow, Entered

\* Every party has entered a call that some party has returned from, and a
\* call whose king is replying.
LEMMA AllEntered ==
  ASSUME IInv, NEW p \in Party, NEW c \in Call,
         \/ c < call[p]
         \/ viaKing[c] /\ p = pKing /\ c = call[p] /\ phase[p] = "reply",
         NEW r \in Party
  PROVE  Entered(r, c)
<1>1. ASSUME NEW k \in Party, TakenIn(k, r, c)
      PROVE  Entered(r, c)
  BY <1>1, SentEntered DEF IInv, TakenAfterSent
<1>2. CASE r = p
  BY <1>2 DEF Entered
<1>3. CASE r # p /\ (~viaKing[c] \/ p = pKing)
  BY <1>1, <1>3 DEF TakenIn, Peers, TakenNow
<1>4. CASE r # p /\ viaKing[c] /\ p # pKing
  <2>1. pKing \in Party
    BY RingSumAssumption
  <2>2. TakenIn(p, pKing, c)
    BY <1>4 DEF TakenIn, Peers
  <2>3. SentIn(pKing, p, c)
    BY <2>1, <2>2 DEF IInv, TakenAfterSent
  <2>4. Entered(pKing, c)
    BY <2>1, <2>3, SentEntered
  <2>5. c < call[pKing] \/ (c = call[pKing] /\ phase[pKing] = "reply")
    BY <2>1, <2>3, <1>4 DEF IInv, TypeOK, SentIn, SentNow, Replies
  <2>6. r # pKing => TakenIn(pKing, r, c)
    BY <2>5 DEF TakenIn, Peers, TakenNow
  <2> QED
    BY <1>1, <2>1, <2>4, <2>6
<1> QED
  BY <1>2, <1>3, <1>4

\* Hence what a message carries no longer depends on who enters next.
LEMMA SentStable ==
  ASSUME IInv, NEW p \in Party, NEW q \in Party, NEW c \in Call, SentIn(p, q, c),
         NEW r \in Party, (viaKing[c] /\ p = pKing) \/ r = p
  PROVE  Entered(r, c)
<1>1. CASE r = p
  BY <1>1, SentEntered
<1>2. CASE viaKing[c] /\ p = pKing
  <2>1. c < call[p] \/ (c = call[p] /\ phase[p] = "reply")
    BY <1>2 DEF IInv, TypeOK, SentIn, SentNow, Replies
  <2> QED
    BY <1>2, <2>1, AllEntered
<1> QED
  BY <1>1, <1>2

\* A list given to a call that was entered, and the sum of a call that all
\* have entered, are lists of that call.
LEMMA EnteredList ==
  ASSUME IInv, NEW p \in Party, NEW c \in Call, Entered(p, c)
  PROVE  arg[p][c] \in Vec(numShares[c]) /\ arg[p][c] \in Lists
BY DEF IInv, DataInv, Lists

LEMMA SumOfList ==
  ASSUME IInv, NEW c \in Call, \A p \in Party : Entered(p, c)
  PROVE  SumOf(c) \in Vec(numShares[c]) /\ SumOf(c) \in Lists
<1> DEFINE x == [p \in Party |-> arg[p][c]]
<1>1. x \in [Party -> Vec(numShares[c])]
  BY EnteredList
<1>2. numShares[c] \in Nat
  BY ReconstructAssumption
<1> HIDE DEF x
<1>3. VecTotal(x, numShares[c]) \in Vec(numShares[c])
  BY <1>1, <1>2, VecTotalInVec
<1> QED
  BY <1>3 DEF SumOf, Lists, x

\* The value of a message that was sent is a list.
LEMMA PayloadList ==
  ASSUME IInv, NEW p \in Party, NEW q \in Party, NEW c \in Call, SentIn(p, q, c)
  PROVE  Payload(p, c) \in Lists
<1>1. CASE viaKing[c] /\ p = pKing
  BY <1>1, SentStable, SumOfList DEF Payload
<1>2. CASE ~(viaKing[c] /\ p = pKing)
  BY <1>2, SentEntered, EnteredList DEF Payload
<1> QED
  BY <1>1, <1>2

\* What reconstruct returns once every list it waits for has arrived.
LEMMA ReconstructedIsSum ==
  ASSUME IInv, NEW p \in Party, phase[p] # "idle",
         \A q \in Party : Peers(q, p, call[p]) => TakenNow(p, q)
  PROVE  Reconstructed(p) = SumOf(call[p])
<1>1. call[p] \in Call
  BY DEF IInv, TypeOK, Reconstructing
<1>2. CASE LoopsOverAll(p)
  <2>1. \A q \in Party : share_recv[p][q] = arg[q][call[p]]
    BY <1>1, <1>2 DEF IInv, DataInv, Payload, LoopsOverAll, Peers
  <2>2. share_recv[p] = [q \in Party |-> arg[q][call[p]]]
    BY <2>1 DEF IInv, TypeOK
  <2> QED
    BY <1>2, <2>2 DEF Reconstructed, SumOf
<1>3. CASE ~LoopsOverAll(p)
  <2>1. pKing \in Party
    BY RingSumAssumption
  <2>2. viaKing[call[p]] /\ p # pKing
    BY <1>3 DEF LoopsOverAll
  <2>3. share_recv[p][pKing] = Payload(pKing, call[p])
    BY <1>1, <2>1, <2>2 DEF IInv, DataInv, Peers
  <2> QED
    BY <1>3, <2>2, <2>3 DEF Reconstructed, Payload
<1> QED
  BY <1>2, <1>3

-----------------------------------------------------------------------------
\* Channels hold sequences of messages.
LEMMA ChannelTyped ==
  ASSUME TypeOK, NEW p \in Party, NEW q \in Party
  PROVE  /\ chan[p][q] \in Seq(Msg)
         /\ \A i \in 1 .. Len(chan[p][q]) : /\ chan[p][q][i] \in Msg
                                            /\ chan[p][q][i].call \in Call
<1>1. chan \in [Node -> [Node -> Seq(Msg)]] /\ p \in Node /\ q \in Node
  BY DEF TypeOK
<1>2. chan[p][q] \in Seq(Msg)
  BY <1>1
<1>3. ASSUME NEW i \in 1 .. Len(chan[p][q])
      PROVE  chan[p][q][i] \in Msg
  BY <1>2, <1>3, ElementOfSeq
<1> QED
  BY <1>2, <1>3 DEF Msg

\* Whatever is in a channel is a message between peers of its call, sent in
\* a call of the sender not later than the current one.
LEMMA InFlightPeers ==
  ASSUME IInv, NEW p \in Party, NEW q \in Party, NEW i \in 1 .. Len(chan[p][q])
  PROVE  /\ Peers(p, q, chan[p][q][i].call)
         /\ chan[p][q][i].call \in call[q] .. call[p]
         /\ chan[p][q][i].call = call[p] => SentNow(p, q)
         /\ chan[p][q][i].call = call[q] => ~TakenNow(q, p)
<1>1. PICK c \in Call : chan[p][q][i].call = c
  BY ChannelTyped DEF IInv
<1>2. SentIn(p, q, c) /\ ~TakenIn(q, p, c)
  BY <1>1 DEF IInv, ChannelInv, InFlight
<1>3. call[p] \in Int /\ call[q] \in Int /\ c \in Int
  BY DEF IInv, TypeOK
<1> QED
  BY <1>1, <1>2, <1>3 DEF SentIn, TakenIn, Peers

\* Only Begin changes what is sent.
LEMMA PayloadFramed ==
  ASSUME UNCHANGED arg, NEW p, NEW c
  PROVE  Payload(p, c)' = Payload(p, c) /\ SumOf(c)' = SumOf(c)
BY DEF Payload, SumOf

\* Channels and what was sent and taken on them are left alone: so are the
\* two invariants that relate them.
LEMMA ChannelsFramed ==
  ASSUME IInv, UNCHANGED chan,
         \A p, q \in Party, c \in Call :
           SentIn(p, q, c) => Payload(p, c)' = Payload(p, c),
         \A p, q \in Party, c \in Call : /\ SentIn(p, q, c)' <=> SentIn(p, q, c)
                                         /\ TakenIn(q, p, c)' <=> TakenIn(q, p, c)
  PROVE  TakenAfterSent' /\ ChannelInv'
<1>1. TakenAfterSent'
  BY DEF IInv, TakenAfterSent
<1>2. \A p, q \in Party, c \in Call : InFlight(p, q, c)' <=> InFlight(p, q, c)
  BY DEF InFlight
<1>3. \A p, q \in Party, c \in Call :
        InFlight(p, q, c) => Payload(p, c)' = Payload(p, c)
  BY DEF InFlight
<1>4. ChannelInv'
  BY <1>2, <1>3 DEF IInv, ChannelInv
<1> QED
  BY <1>1, <1>4

\* The lists are left alone and nobody has taken more: so is DataInv.
LEMMA DataFramed ==
  ASSUME IInv, UNCHANGED <<arg, res, share_recv, call>>,
         \A q \in Party : phase'[q] = "idle" <=> phase[q] = "idle",
         \A q, r \in Party :
           Peers(r, q, call[q]) /\ TakenNow(q, r)' => TakenNow(q, r)
  PROVE  DataInv'
<1>1. \A q \in Party, c \in Call : /\ Payload(q, c)' = Payload(q, c)
                                   /\ SumOf(c)' = SumOf(c)
                                   /\ Entered(q, c)' <=> Entered(q, c)
                                   /\ LoopsOverAll(q)' <=> LoopsOverAll(q)
  BY PayloadFramed DEF Entered, LoopsOverAll
<1> QED
  BY <1>1 DEF IInv, DataInv

LEMMA InitInv == Init => IInv
<1> SUFFICES ASSUME Init
             PROVE  IInv
  OBVIOUS
<1> USE DEF Init, NetInit
<1>1. TypeOK
  BY RingSumAssumption, ReconstructAssumption DEF TypeOK, None, Msg
<1>2. \A p, q \in Party, c \in Call : ~SentIn(p, q, c) /\ ~TakenIn(p, q, c)
  BY DEF SentIn, SentNow, TakenIn, TakenNow
<1>3. \A p, q \in Party : chan[p][q] = <<>> /\ Len(chan[p][q]) = 0
                            /\ inSock[p][q] = 0
  BY RingSumAssumption
<1>4. DataInv
  BY DEF DataInv, Entered
<1>5. TakenAfterSent
  BY <1>2 DEF TakenAfterSent
<1>6. ChannelInv
  BY <1>2, <1>3 DEF ChannelInv, InFlight
<1>7. FlushInv
  BY <1>3 DEF FlushInv
<1> QED
  BY <1>1, <1>4, <1>5, <1>6, <1>7 DEF IInv

LEMMA BeginInv ==
  ASSUME IInv, NEW p \in Party, Begin(p)
  PROVE  IInv'
<1>1. PICK v \in Vec(numShares[call[p]]) :
            /\ arg' = [arg EXCEPT ![p][call[p]] = v]
            /\ share_recv' = [share_recv EXCEPT ![p][p] = v]
  BY DEF Begin, BeginWith
<1>2. /\ Reconstructing(p) /\ call[p] \in Call /\ phase[p] = "idle"
      /\ phase' = [phase EXCEPT ![p] = IF Replies(p) THEN "recv" ELSE "send"]
      /\ at' = [at EXCEPT ![p] = NextPeer(p, 0)]
      /\ UNCHANGED <<netVars, call, res>>
  BY DEF Begin, BeginWith, Reconstructing
<1> DEFINE b == NextPeer(p, 0)
<1>3. /\ b \in 1 .. nP + 1 /\ b # p
      /\ ~LoopsOverAll(p) => b \in {pKing, nP + 1}
      /\ \A q \in Party : Peers(p, q, call[p]) => ~(q < b)
  <2>1. 0 \in 0 .. nP /\ \A q \in Party : ~(q <= 0)
    BY RingSumAssumption
  <2> QED
    BY <1>2, <2>1, NextPeerFacts
<1> HIDE DEF b
<1>4. v \in Lists /\ ~Entered(p, call[p])
  BY <1>2 DEF Lists, Entered
<1>5. \A q \in Party : /\ phase'[q] = IF q = p
                                      THEN IF Replies(p) THEN "recv" ELSE "send"
                                      ELSE phase[q]
                       /\ at'[q] = IF q = p THEN b ELSE at[q]
                       /\ call'[q] = call[q]
                       /\ Replies(q)' = Replies(q)
                       /\ LoopsOverAll(q)' = LoopsOverAll(q)
                       /\ Reconstructing(q)' = Reconstructing(q)
                       /\ \A c \in Call : arg'[q][c] = IF q = p /\ c = call[p]
                                                       THEN v ELSE arg[q][c]
                       /\ \A r \in Party : share_recv'[q][r] =
                            IF q = p /\ r = p THEN v ELSE share_recv[q][r]
  BY <1>1, <1>2 DEF IInv, TypeOK, Replies, LoopsOverAll, Reconstructing, b
<1>6. \A x, y \in Party, c \in Call : /\ SentIn(x, y, c)' <=> SentIn(x, y, c)
                                      /\ TakenIn(y, x, c)' <=> TakenIn(y, x, c)
  BY <1>2, <1>3, <1>5 DEF SentIn, SentNow, TakenIn, TakenNow, Peers
<1>7. \A c \in Call : c # call[p] => SumOf(c)' = SumOf(c)
  <2> SUFFICES ASSUME NEW c \in Call, c # call[p]
               PROVE  SumOf(c)' = SumOf(c)
    OBVIOUS
  <2>1. [q \in Party |-> arg'[q][c]] = [q \in Party |-> arg[q][c]]
    BY <1>5
  <2> QED
    BY <2>1 DEF SumOf
<1>8. \A x, y \in Party, c \in Call :
        SentIn(x, y, c) => Payload(x, c)' = Payload(x, c)
  BY <1>4, <1>5, <1>7, SentStable DEF Payload
<1>9. TypeOK'
  <2>1. /\ arg' \in [Party -> [Call -> Lists \cup {None}]]
        /\ share_recv' \in [Party -> [Party -> Lists \cup {None}]]
    BY <1>1, <1>2, <1>4 DEF IInv, TypeOK
  <2>2. /\ phase' \in [Party -> {"idle", "send", "recv", "wait", "reply"}]
        /\ at' \in [Party -> 0 .. nP + 1]
    BY <1>2, <1>3 DEF IInv, TypeOK, b
  <2>3. \A q \in Party :
          /\ phase'[q] # "idle" => Reconstructing(q)' /\ at'[q] >= 1 /\ at'[q] # q
          /\ phase'[q] # "idle" /\ ~LoopsOverAll(q)' => at'[q] \in {pKing, nP + 1}
          /\ phase'[q] = "wait" => at'[q] <= nP
          /\ phase'[q] = "send" => ~Replies(q)'
          /\ phase'[q] = "reply" => Replies(q)'
    BY <1>2, <1>3, <1>5 DEF IInv, TypeOK
  <2> QED
    BY <1>2, <2>1, <2>2, <2>3 DEF IInv, TypeOK, netVars
<1>10. DataInv'
  <2>1. ASSUME NEW q \in Party, NEW c \in Call
        PROVE  /\ arg'[q][c] \in Vec(numShares[c]) \cup {None}
               /\ arg'[q][c] # None <=> Entered(q, c)'
    BY <1>2, <1>5, ListNotNone DEF IInv, DataInv, Entered
  <2>2. ASSUME NEW q \in Party, NEW c \in Call
        PROVE  res'[q][c] = IF c < call'[q] THEN SumOf(c)' ELSE None
    BY <1>2, <1>4, <1>7, AllEntered DEF IInv, DataInv
  <2>3. ASSUME NEW q \in Party, NEW c \in Call, c = call'[q],
               phase'[q] # "idle", LoopsOverAll(q)'
        PROVE  share_recv'[q][q] = arg'[q][c]
    BY <1>2, <1>5, <2>3 DEF IInv, DataInv
  <2>4. ASSUME NEW q \in Party, NEW c \in Call, c = call'[q],
               phase'[q] # "idle", NEW r \in Party,
               Peers(r, q, c), TakenNow(q, r)'
        PROVE  share_recv'[q][r] = Payload(r, c)'
    <3>1. CASE q = p
      BY <1>2, <1>3, <1>5, <2>4, <3>1 DEF TakenNow, Peers
    <3>2. CASE q # p
      <4>1. phase[q] # "idle" /\ c = call[q]
        BY <1>5, <2>4, <3>2
      <4>2. TakenNow(q, r)
        BY <1>5, <2>4, <3>2 DEF TakenNow
      <4>3. TakenIn(q, r, c)
        BY <2>4, <4>1, <4>2 DEF TakenIn
      <4>4. SentIn(r, q, c)
        BY <4>3 DEF IInv, TakenAfterSent
      <4>5. share_recv[q][r] = Payload(r, c)
        BY <2>4, <4>1, <4>2 DEF IInv, DataInv
      <4>6. Payload(r, c)' = Payload(r, c)
        BY <1>8, <4>4
      <4>7. share_recv'[q][r] = share_recv[q][r]
        BY <1>5, <3>2
      <4> QED
        BY <4>5, <4>6, <4>7
    <3> QED
      BY <3>1, <3>2
  <2> QED
    BY <2>1, <2>2, <2>3, <2>4 DEF DataInv
<1>11. TakenAfterSent' /\ ChannelInv'
  BY <1>2, <1>6, <1>8, ChannelsFramed DEF netVars
<1>12. FlushInv'
  <2> SUFFICES ASSUME NEW x \in Party, NEW y \in Party,
                      NEW i \in 1 .. Len(chan[x][y]),
                      chan[x][y][i].call < call[x] \/ FlushedNow(x, y)'
               PROVE  i <= inSock[x][y]
    BY <1>2, <1>5 DEF IInv, FlushInv, netVars
  <2>1. x # y
    BY ChannelTyped DEF IInv, ChannelInv, InFlight, SentIn, Peers
  <2>2. FlushedNow(x, y)' => FlushedNow(x, y)
    BY <1>2, <1>3, <1>5, <2>1 DEF FlushedNow, Replies, Peers
  <2> QED
    BY <2>2 DEF IInv, FlushInv
<1> QED
  BY <1>9, <1>10, <1>11, <1>12 DEF IInv

\* Steps of p that only move it inside a call, to phase ph and loop index b.
Moves(p, ph, b) == /\ phase' = [phase EXCEPT ![p] = ph]
                   /\ at' = [at EXCEPT ![p] = b]
                   /\ UNCHANGED <<call, arg, res>>

LEMMA MoveFacts ==
  ASSUME TypeOK, NEW p \in Party, NEW ph, NEW b, Moves(p, ph, b)
  PROVE  \A q \in Party : /\ phase'[q] = IF q = p THEN ph ELSE phase[q]
                          /\ at'[q] = IF q = p THEN b ELSE at[q]
                          /\ call'[q] = call[q]
                          /\ Replies(q)' <=> Replies(q)
                          /\ LoopsOverAll(q)' <=> LoopsOverAll(q)
                          /\ Reconstructing(q)' <=> Reconstructing(q)
BY DEF Moves, TypeOK, Replies, LoopsOverAll, Reconstructing

\* They keep TypeOK when phase and index fit the call.
LEMMA MoveType ==
  ASSUME TypeOK, NEW p \in Party, NEW ph, NEW b, Moves(p, ph, b),
         phase[p] # "idle", ph \in {"send", "recv", "wait", "reply"},
         b \in 1 .. nP + 1, b # p, ~LoopsOverAll(p) => b \in {pKing, nP + 1},
         ph = "wait" => b <= nP, ph = "send" => ~Replies(p),
         ph = "reply" => Replies(p),
         chan' \in [Node -> [Node -> Seq(Msg)]],
         inSock' \in [Node -> [Node -> Nat]],
         sent' \in [Node -> [Node -> BOOLEAN]],
         share_recv' \in [Party -> [Party -> Lists \cup {None}]]
  PROVE  TypeOK'
<1>1. /\ phase' \in [Party -> {"idle", "send", "recv", "wait", "reply"}]
      /\ at' \in [Party -> 0 .. nP + 1]
      /\ UNCHANGED <<call, arg, res>>
  BY DEF Moves, TypeOK
<1>2. \A q \in Party :
        /\ phase'[q] # "idle" => Reconstructing(q)' /\ at'[q] >= 1 /\ at'[q] # q
        /\ phase'[q] # "idle" /\ ~LoopsOverAll(q)' => at'[q] \in {pKing, nP + 1}
        /\ phase'[q] = "wait" => at'[q] <= nP
        /\ phase'[q] = "send" => ~Replies(q)'
        /\ phase'[q] = "reply" => Replies(q)'
  BY MoveFacts DEF TypeOK
<1> QED
  BY <1>1, <1>2 DEF TypeOK

LEMMA EndSendInv ==
  ASSUME IInv, NEW p \in Party, EndSend(p)
  PROVE  IInv'
<1> DEFINE b == NextPeer(p, 0)
<1>1. /\ phase[p] = "send" /\ at[p] > nP /\ Reconstructing(p) /\ ~Replies(p)
      /\ Moves(p, "recv", b) /\ UNCHANGED <<netVars, share_recv>>
  BY DEF EndSend, Moves, IInv, TypeOK
<1>2. /\ b \in 1 .. nP + 1 /\ b # p
      /\ ~LoopsOverAll(p) => b \in {pKing, nP + 1}
      /\ \A q \in Party : Peers(p, q, call[p]) => ~(q < b)
  <2>1. 0 \in 0 .. nP /\ \A q \in Party : ~(q <= 0)
    BY RingSumAssumption
  <2> QED
    BY <1>1, <2>1, NextPeerFacts
<1> HIDE DEF b
<1>3. TypeOK'
  BY <1>1, <1>2, MoveType DEF IInv, TypeOK, netVars
<1>4. \A q \in Party : q < at[p]
  BY <1>1, PcTypes DEF IInv
<1>5. \A x, y \in Party, c \in Call : /\ SentIn(x, y, c)' <=> SentIn(x, y, c)
                                      /\ TakenIn(y, x, c)' <=> TakenIn(y, x, c)
  BY <1>1, <1>2, <1>4, MoveFacts
     DEF IInv, SentIn, SentNow, TakenIn, TakenNow, Peers
<1>6. TakenAfterSent' /\ ChannelInv'
  BY <1>1, <1>5, ChannelsFramed, PayloadFramed DEF Moves, netVars
<1>7. DataInv'
  <2>1. \A q \in Party : phase'[q] = "idle" <=> phase[q] = "idle"
    BY <1>1, MoveFacts DEF IInv
  <2>2. \A q, r \in Party :
          Peers(r, q, call[q]) /\ TakenNow(q, r)' => TakenNow(q, r)
    BY <1>1, <1>2, MoveFacts DEF IInv, TakenNow, Peers
  <2> QED
    BY <1>1, <2>1, <2>2, DataFramed DEF Moves
<1>8. FlushInv'
  <2> SUFFICES ASSUME NEW x \in Party, NEW y \in Party,
                      NEW i \in 1 .. Len(chan[x][y]),
                      chan[x][y][i].call < call[x] \/ FlushedNow(x, y)'
               PROVE  i <= inSock[x][y]
    BY <1>1 DEF IInv, FlushInv, netVars, Moves
  <2>2. CASE x = p /\ FlushedNow(x, y)'
    <3>1. y < b
      BY <1>1, <2>2, MoveFacts DEF IInv, FlushedNow
    <3>2. chan[x][y][i].call < call[x]
      BY <1>2, <2>2, <3>1, InFlightPeers, PcTypes DEF IInv, Peers
    <3> QED
      BY <3>2 DEF IInv, FlushInv
  <2>3. CASE ~(x = p /\ FlushedNow(x, y)')
    BY <1>1, <2>3, MoveFacts DEF IInv, FlushInv, FlushedNow
  <2> QED
    BY <2>2, <2>3
<1> QED
  BY <1>3, <1>6, <1>7, <1>8 DEF IInv

LEMMA AggregateInv ==
  ASSUME IInv, NEW p \in Party, Aggregate(p)
  PROVE  IInv'
<1> DEFINE b == NextPeer(p, 0)
<1>1. /\ phase[p] = "recv" /\ at[p] > nP /\ Reconstructing(p) /\ Replies(p)
      /\ Moves(p, "reply", b) /\ UNCHANGED <<netVars, share_recv>>
  BY DEF Aggregate, Moves, IInv, TypeOK
<1>2. /\ b \in 1 .. nP + 1 /\ b # p
      /\ ~LoopsOverAll(p) => b \in {pKing, nP + 1}
      /\ \A q \in Party : Peers(p, q, call[p]) => ~(q < b)
  <2>1. 0 \in 0 .. nP /\ \A q \in Party : ~(q <= 0)
    BY RingSumAssumption
  <2> QED
    BY <1>1, <2>1, NextPeerFacts
<1> HIDE DEF b
<1>3. TypeOK'
  BY <1>1, <1>2, MoveType DEF IInv, TypeOK, netVars
<1>4. \A q \in Party : q < at[p]
  BY <1>1, PcTypes DEF IInv
<1>5. \A x, y \in Party, c \in Call : /\ SentIn(x, y, c)' <=> SentIn(x, y, c)
                                      /\ TakenIn(y, x, c)' <=> TakenIn(y, x, c)
  BY <1>1, <1>2, <1>4, MoveFacts
     DEF IInv, SentIn, SentNow, TakenIn, TakenNow, Peers
<1>6. TakenAfterSent' /\ ChannelInv'
  BY <1>1, <1>5, ChannelsFramed, PayloadFramed DEF Moves, netVars
<1>7. DataInv'
  <2>1. \A q \in Party : phase'[q] = "idle" <=> phase[q] = "idle"
    BY <1>1, MoveFacts DEF IInv
  <2>2. \A q, r \in Party :
          Peers(r, q, call[q]) /\ TakenNow(q, r)' => TakenNow(q, r)
    BY <1>1, <1>4, MoveFacts DEF IInv, TakenNow
  <2> QED
    BY <1>1, <2>1, <2>2, DataFramed DEF Moves
<1>8. FlushInv'
  <2> SUFFICES ASSUME NEW x \in Party, NEW y \in Party,
                      NEW i \in 1 .. Len(chan[x][y]),
                      chan[x][y][i].call < call[x] \/ FlushedNow(x, y)'
               PROVE  i <= inSock[x][y]
    BY <1>1 DEF IInv, FlushInv, netVars, Moves
  <2>1. FlushedNow(x, y)' => FlushedNow(x, y)
    BY <1>1, <1>4, MoveFacts DEF IInv, FlushedNow
  <2> QED
    BY <2>1 DEF IInv, FlushInv
<1> QED
  BY <1>3, <1>6, <1>7, <1>8 DEF IInv

LEMMA EnterRecvInv ==
  ASSUME IInv, NEW p \in Party, EnterRecv(p)
  PROVE  IInv'
<1> DEFINE q == at[p]
<1>1. /\ phase[p] = "recv" /\ q <= nP
      /\ Moves(p, "wait", q) /\ UNCHANGED <<chan, sent, share_recv>>
      /\ inSock' = IF sent[p][q] THEN [inSock EXCEPT ![p][q] = Len(chan[p][q])]
                                 ELSE inSock
  BY DEF EnterRecv, FlushBeforeRecv, Moves, IInv, TypeOK
<1>2. q \in Party /\ q # p
  BY <1>1, AtPeer DEF IInv
<1>3. Len(chan[p][q]) \in Nat /\ inSock' \in [Node -> [Node -> Nat]]
  <2>1. Len(chan[p][q]) \in Nat
    BY <1>2, ChannelTyped, LenProperties DEF IInv
  <2> QED
    BY <1>1, <2>1 DEF IInv, TypeOK
<1>4. TypeOK'
  <2>1. q \in 1 .. nP + 1 /\ (~LoopsOverAll(p) => q \in {pKing, nP + 1})
    BY <1>1, <1>2 DEF IInv, TypeOK
  <2> QED
    BY <1>1, <1>2, <1>3, <2>1, MoveType DEF IInv, TypeOK
<1>5. \A x, y \in Party, c \in Call : /\ SentIn(x, y, c)' <=> SentIn(x, y, c)
                                      /\ TakenIn(y, x, c)' <=> TakenIn(y, x, c)
  BY <1>1, MoveFacts DEF IInv, SentIn, SentNow, TakenIn, TakenNow
<1>6. TakenAfterSent' /\ ChannelInv'
  BY <1>1, <1>5, ChannelsFramed, PayloadFramed DEF Moves
<1>7. DataInv'
  <2>1. \A r \in Party : phase'[r] = "idle" <=> phase[r] = "idle"
    BY <1>1, MoveFacts DEF IInv
  <2>2. \A x, y \in Party :
          Peers(y, x, call[x]) /\ TakenNow(x, y)' => TakenNow(x, y)
    BY <1>1, MoveFacts DEF IInv, TakenNow
  <2> QED
    BY <1>1, <2>1, <2>2, DataFramed DEF Moves
<1>8. FlushInv'
  <2>1. ASSUME NEW x \in Party, NEW y \in Party
        PROVE  inSock'[x][y] = IF x = p /\ y = q /\ sent[p][q]
                               THEN Len(chan[p][q]) ELSE inSock[x][y]
    <3>1. inSock \in [Node -> [Node -> Nat]]
      BY DEF IInv, TypeOK
    <3>2. p \in Node /\ q \in Node /\ x \in Node /\ y \in Node
      BY <1>2
    <3> HIDE DEF q
    <3>3. CASE sent[p][q]
      BY <1>1, <3>1, <3>2, <3>3
    <3>4. CASE ~sent[p][q]
      BY <1>1, <3>4
    <3> QED
      BY <3>3, <3>4
  <2>2. ~sent[p][q] => Len(chan[p][q]) = 0
    <3>1. ~sent[p][q] => chan[p][q] = <<>>
      BY <1>2 DEF IInv, FlushInv
    <3> QED
      BY <3>1
  <2>3. ASSUME NEW x \in Party, NEW y \in Party
        PROVE  /\ inSock'[x][y] \in 0 .. Len(chan[x][y])
               /\ chan[x][y] # <<>> => sent[x][y]
    <3>1. /\ inSock[x][y] \in 0 .. Len(chan[x][y])
          /\ chan[x][y] # <<>> => sent[x][y]
      BY DEF IInv, FlushInv
    <3> QED
      BY <1>3, <2>1, <3>1
  <2>4. ASSUME NEW x \in Party, NEW y \in Party, NEW i \in 1 .. Len(chan[x][y]),
               chan[x][y][i].call < call[x] \/ FlushedNow(x, y)'
        PROVE  i <= inSock'[x][y]
    <3>1. CASE x = p /\ y = q
      BY <1>2, <1>3, <2>1, <2>2, <2>4, <3>1
    <3>2. CASE ~(x = p /\ y = q)
      <4>1. FlushedNow(x, y)' => FlushedNow(x, y)
        BY <1>1, <3>2, PcTypes, MoveFacts DEF IInv, FlushedNow
      <4> QED
        BY <2>1, <2>4, <3>2, <4>1 DEF IInv, FlushInv
    <3> QED
      BY <3>1, <3>2
  <2> QED
    BY <1>1, <2>3, <2>4 DEF FlushInv, Moves
<1> QED
  BY <1>4, <1>6, <1>7, <1>8 DEF IInv

-----------------------------------------------------------------------------
\* What SendShares and Reply have in common: p appends its message of the
\* call for the peer its loop is at, and b says whether it flushes.
Posts(p, b) ==
  /\ Moves(p, phase[p], NextPeer(p, at[p]))
  /\ chan' = [chan EXCEPT ![p][at[p]] =
                Append(@, [call |-> call[p], val |-> Payload(p, call[p])])]
  /\ sent' = [sent EXCEPT ![p][at[p]] = TRUE]
  /\ inSock' = IF b THEN [inSock EXCEPT ![p][at[p]] = Len(chan[p][at[p]]) + 1]
                    ELSE inSock
  /\ UNCHANGED share_recv

LEMMA PostInv ==
  ASSUME IInv, NEW p \in Party, NEW b \in BOOLEAN, Posts(p, b), at[p] <= nP,
         phase[p] = "send" \/ (phase[p] = "reply" /\ b)
  PROVE  IInv'
<1> DEFINE q == at[p]
           k == call[p]
           m == [call |-> k, val |-> Payload(p, k)]
           n == NextPeer(p, q)
           ch == chan[p][q]
<1>1. /\ Moves(p, phase[p], n) /\ UNCHANGED <<share_recv, arg, call, res>>
      /\ chan' = [chan EXCEPT ![p][q] = Append(@, m)]
      /\ sent' = [sent EXCEPT ![p][q] = TRUE]
      /\ inSock' = IF b THEN [inSock EXCEPT ![p][q] = Len(ch) + 1] ELSE inSock
  BY DEF Posts, Moves
<1>2. /\ q \in Party /\ q # p /\ k \in Call /\ k \in Int
      /\ Peers(p, q, k) /\ Peers(q, p, k) /\ Reconstructing(p)
  BY AtPeer, PcTypes DEF IInv, Reconstructing
<1>3. /\ n \in 1 .. nP + 1 /\ n # p
      /\ ~LoopsOverAll(p) => n \in {pKing, nP + 1}
      /\ \A r \in Party : Peers(p, r, k) => (r < n <=> r < q \/ r = q)
  <2>1. q \in 0 .. nP
    BY <1>2, RingSumAssumption
  <2>2. \A r \in Party : r <= q <=> r < q \/ r = q
    BY <1>2
  <2> QED
    BY <1>2, <2>1, <2>2, NextPeerFacts
<1> USE <1>2
<1> HIDE DEF n, q
<1>4. phase[p] # "idle" /\ phase[p] \in {"send", "reply"}
      /\ (phase[p] = "send" => ~Replies(p)) /\ (phase[p] = "reply" => Replies(p))
  BY DEF IInv, TypeOK
<1>5. \A x, y \in Party, c \in Call :
        /\ SentIn(x, y, c)' <=> (SentIn(x, y, c) \/ (x = p /\ y = q /\ c = k))
        /\ TakenIn(y, x, c)' <=> TakenIn(y, x, c)
  <2> DEFINE F(x) == /\ phase'[x] = phase[x] /\ call'[x] = call[x]
                     /\ at'[x] = IF x = p THEN n ELSE at[x]
                     /\ Replies(x)' <=> Replies(x)
  <2>1. \A x \in Party : F(x)
    BY <1>1, MoveFacts DEF IInv, q
  <2>2. ASSUME NEW x \in Party, NEW y \in Party, NEW c \in Call
        PROVE  SentIn(x, y, c)' <=> SentIn(x, y, c) \/ (x = p /\ y = q /\ c = k)
    BY <1>3, <1>4, <2>1, <2>2 DEF SentIn, SentNow, q, Peers
  <2>3. ASSUME NEW x \in Party, NEW y \in Party, NEW c \in Call
        PROVE  TakenIn(y, x, c)' <=> TakenIn(y, x, c)
    BY <1>4, <2>1, <2>3 DEF TakenIn, TakenNow
  <2> QED
    BY <2>2, <2>3
<1>6. ~SentIn(p, q, k) /\ ~TakenIn(q, p, k)
  <2>1. ~SentIn(p, q, k)
    BY <1>2, <1>4 DEF SentIn, SentNow, q
  <2> QED
    BY <2>1 DEF IInv, TakenAfterSent
<1>7. /\ m \in Msg /\ ch \in Seq(Msg) /\ Len(ch) \in Nat
      /\ Append(ch, m) \in Seq(Msg) /\ Len(Append(ch, m)) = Len(ch) + 1
      /\ \A i \in 1 .. Len(ch) : Append(ch, m)[i] = ch[i]
      /\ Append(ch, m)[Len(ch) + 1] = m
  <2>1. Payload(p, k) \in Lists
    <3>1. CASE Replies(p)
      <4>1. \A r \in Party : Entered(r, k)
        BY <1>4, <3>1, AllEntered DEF Replies
      <4> QED
        BY <3>1, <4>1, SumOfList DEF Payload, Replies
    <3>2. CASE ~Replies(p)
      BY <1>4, <3>2, EnteredList DEF Payload, Replies, Entered
    <3> QED
      BY <3>1, <3>2
  <2>2. m \in Msg
    BY <2>1 DEF Msg
  <2>3. ch \in Seq(Msg)
    BY ChannelTyped DEF IInv
  <2> HIDE DEF m, ch
  <2> QED
    BY <2>2, <2>3, AppendProperties, LenProperties
<1>8. \A x, y \in Party :
        /\ chan'[x][y] = IF x = p /\ y = q THEN Append(ch, m) ELSE chan[x][y]
        /\ sent'[x][y] = IF x = p /\ y = q THEN TRUE ELSE sent[x][y]
        /\ inSock'[x][y] = IF x = p /\ y = q /\ b THEN Len(ch) + 1
                                                  ELSE inSock[x][y]
  <2> SUFFICES ASSUME NEW x \in Party, NEW y \in Party
               PROVE  /\ chan'[x][y] = IF x = p /\ y = q THEN Append(ch, m)
                                                         ELSE chan[x][y]
                      /\ sent'[x][y] = IF x = p /\ y = q THEN TRUE ELSE sent[x][y]
                      /\ inSock'[x][y] = IF x = p /\ y = q /\ b
                                         THEN Len(ch) + 1 ELSE inSock[x][y]
    OBVIOUS
  <2>1. p \in Node /\ q \in Node /\ x \in Node /\ y \in Node
    OBVIOUS
  <2>2. /\ chan \in [Node -> [Node -> Seq(Msg)]]
        /\ sent \in [Node -> [Node -> BOOLEAN]]
        /\ inSock \in [Node -> [Node -> Nat]]
    BY DEF IInv, TypeOK
  <2> HIDE DEF m
  <2>3. chan'[x][y] = IF x = p /\ y = q THEN Append(ch, m) ELSE chan[x][y]
    BY <1>1, <2>1, <2>2
  <2>4. sent'[x][y] = IF x = p /\ y = q THEN TRUE ELSE sent[x][y]
    BY <1>1, <2>1, <2>2
  <2>5. inSock'[x][y] = IF x = p /\ y = q /\ b THEN Len(ch) + 1
                                               ELSE inSock[x][y]
    BY <1>1, <2>1, <2>2
  <2> QED
    BY <2>3, <2>4, <2>5
<1>9. TypeOK'
  <2>1. chan' \in [Node -> [Node -> Seq(Msg)]]
    <3> HIDE DEF m
    <3> QED
      BY <1>1, <1>7 DEF IInv, TypeOK
  <2>2. /\ sent' \in [Node -> [Node -> BOOLEAN]]
        /\ inSock' \in [Node -> [Node -> Nat]]
    <3>1. /\ sent \in [Node -> [Node -> BOOLEAN]]
          /\ inSock \in [Node -> [Node -> Nat]]
          /\ Len(ch) + 1 \in Nat
      BY <1>7 DEF IInv, TypeOK
    <3> HIDE DEF ch
    <3>2. sent' \in [Node -> [Node -> BOOLEAN]]
      BY <1>1, <3>1
    <3>3. [inSock EXCEPT ![p][q] = Len(ch) + 1] \in [Node -> [Node -> Nat]]
      BY <3>1
    <3> QED
      BY <1>1, <3>1, <3>2, <3>3
  <2> QED
    BY <1>1, <1>3, <1>4, <2>1, <2>2, MoveType DEF IInv, TypeOK
<1>10. TakenAfterSent'
  BY <1>5 DEF IInv, TakenAfterSent
<1>11. DataInv'
  <2>1. \A r \in Party : phase'[r] = "idle" <=> phase[r] = "idle"
    BY <1>1, MoveFacts DEF IInv
  <2>2. \A x, y \in Party :
          Peers(y, x, call[x]) /\ TakenNow(x, y)' => TakenNow(x, y)
    BY <1>1, <1>4, MoveFacts DEF IInv, TakenNow
  <2> QED
    BY <1>1, <2>1, <2>2, DataFramed
<1>12. ChannelInv'
  <2> SUFFICES ASSUME NEW x \in Party, NEW y \in Party
               PROVE  /\ \A i \in 1 .. Len(chan'[x][y]), c \in Call :
                           chan'[x][y][i].call = c
                             => /\ InFlight(x, y, c)'
                                /\ chan'[x][y][i].val = Payload(x, c)'
                      /\ \A i, j \in 1 .. Len(chan'[x][y]) :
                           i < j => chan'[x][y][i].call < chan'[x][y][j].call
                      /\ \A c \in Call : InFlight(x, y, c)'
                           => \E i \in 1 .. Len(chan'[x][y]) :
                                chan'[x][y][i].call = c
    BY DEF ChannelInv
  <2>1. \A c \in Call : /\ InFlight(x, y, c)' <=>
                             InFlight(x, y, c) \/ (x = p /\ y = q /\ c = k)
                        /\ Payload(x, c)' = Payload(x, c)
    BY <1>1, <1>5, <1>6, PayloadFramed DEF InFlight
  <2>2. CASE ~(x = p /\ y = q)
    <3>1. chan'[x][y] = chan[x][y]
      BY <1>8, <2>2
    <3>2. \A c \in Call : /\ InFlight(x, y, c)' <=> InFlight(x, y, c)
                          /\ Payload(x, c)' = Payload(x, c)
      BY <2>1, <2>2
    <3>3. /\ \A i \in 1 .. Len(chan[x][y]), c \in Call :
               chan[x][y][i].call = c
                 => InFlight(x, y, c) /\ chan[x][y][i].val = Payload(x, c)
          /\ \A i, j \in 1 .. Len(chan[x][y]) :
               i < j => chan[x][y][i].call < chan[x][y][j].call
          /\ \A c \in Call : InFlight(x, y, c)
               => \E i \in 1 .. Len(chan[x][y]) : chan[x][y][i].call = c
      BY DEF IInv, ChannelInv
    <3> QED
      BY <3>1, <3>2, <3>3
  <2>3. CASE x = p /\ y = q
    <3>1. /\ \A i \in 1 .. Len(ch), c \in Call :
               ch[i].call = c => InFlight(p, q, c) /\ ch[i].val = Payload(p, c)
          /\ \A i, j \in 1 .. Len(ch) : i < j => ch[i].call < ch[j].call
          /\ \A c \in Call : InFlight(p, q, c)
               => \E i \in 1 .. Len(ch) : ch[i].call = c
      BY DEF IInv, ChannelInv
    <3>2. \A i \in 1 .. Len(ch) : ch[i].call \in Call /\ ch[i].call < k
      <4> SUFFICES ASSUME NEW i \in 1 .. Len(ch)
                   PROVE  ch[i].call \in Call /\ ch[i].call < k
        OBVIOUS
      <4>1. ch[i].call \in Call
        BY ChannelTyped DEF IInv
      <4>2. SentIn(p, q, ch[i].call)
        BY <3>1, <4>1 DEF InFlight
      <4>3. ch[i].call <= k /\ ch[i].call # k
        BY <1>6, <4>1, <4>2 DEF SentIn
      <4> QED
        BY <4>1, <4>3
    <3> DEFINE ap == Append(ch, m)
    <3>3. /\ ap[Len(ch) + 1].call = k /\ ap[Len(ch) + 1].val = Payload(p, k)
          /\ Len(ap) = Len(ch) + 1
          /\ \A i \in 1 .. Len(ap) : i = Len(ch) + 1 \/ i \in 1 .. Len(ch)
          /\ \A i \in 1 .. Len(ch) : i \in 1 .. Len(ap) /\ ap[i] = ch[i]
          /\ Len(ch) + 1 \in 1 .. Len(ap)
      BY <1>7
    <3> HIDE DEF ap, ch
    <3>4. \A i \in 1 .. Len(ap), c \in Call :
            ap[i].call = c
              => (InFlight(p, q, c) \/ c = k) /\ ap[i].val = Payload(p, c)
      BY <3>1, <3>3
    <3>5. \A i, j \in 1 .. Len(ap) : i < j => ap[i].call < ap[j].call
      <4> SUFFICES ASSUME NEW i \in 1 .. Len(ap), NEW j \in 1 .. Len(ap), i < j
                   PROVE  ap[i].call < ap[j].call
        OBVIOUS
      <4>1. i \in 1 .. Len(ch)
        BY <1>7, <3>3
      <4> QED
        BY <3>1, <3>2, <3>3, <4>1
    <3>6. \A c \in Call : InFlight(p, q, c) \/ c = k
            => \E i \in 1 .. Len(ap) : ap[i].call = c
      BY <3>1, <3>3
    <3>7. chan'[x][y] = ap
      BY <1>8, <2>3 DEF ap
    <3> QED
      BY <2>1, <2>3, <3>4, <3>5, <3>6, <3>7
  <2> QED
    BY <2>2, <2>3
<1>13. FlushInv'
  <2> SUFFICES ASSUME NEW x \in Party, NEW y \in Party
               PROVE  /\ inSock'[x][y] \in 0 .. Len(chan'[x][y])
                      /\ chan'[x][y] # <<>> => sent'[x][y]
                      /\ \A i \in 1 .. Len(chan'[x][y]) :
                           chan'[x][y][i].call < call'[x] \/ FlushedNow(x, y)'
                             => i <= inSock'[x][y]
    BY DEF FlushInv
  <2>1. /\ inSock[x][y] \in 0 .. Len(chan[x][y])
        /\ chan[x][y] # <<>> => sent[x][y]
        /\ \A i \in 1 .. Len(chan[x][y]) :
             chan[x][y][i].call < call[x] \/ FlushedNow(x, y)
               => i <= inSock[x][y]
    BY DEF IInv, FlushInv
  <2>2. FlushedNow(x, y)' <=> FlushedNow(x, y)
    BY <1>1, <1>4, MoveFacts DEF IInv, FlushedNow
  <2>3. CASE ~(x = p /\ y = q)
    BY <1>1, <1>8, <2>1, <2>2, <2>3
  <2>4. CASE x = p /\ y = q
    <3>1. CASE b
      <4>1. /\ inSock'[x][y] = Len(ch) + 1 /\ sent'[x][y]
            /\ Len(chan'[x][y]) = Len(ch) + 1
        BY <1>7, <1>8, <2>4, <3>1
      <4> HIDE DEF ch
      <4> QED
        BY <1>7, <4>1
    <3>2. CASE ~b
      <4>1. phase[p] = "send" /\ ~FlushedNow(x, y)'
        BY <2>2, <2>4, <3>2 DEF FlushedNow
      <4>2. Append(ch, m)[Len(ch) + 1].call = k
        BY <1>7
      <4> HIDE DEF m
      <4>3. /\ inSock'[x][y] = inSock[x][y] /\ sent'[x][y]
            /\ chan'[x][y] = Append(ch, m) /\ call'[x] = k
        BY <1>1, <1>8, <2>4, <3>2
      <4>4. inSock'[x][y] \in 0 .. Len(chan'[x][y])
        BY <1>7, <2>1, <2>4, <4>3
      <4>5. ASSUME NEW i \in 1 .. Len(chan'[x][y]), chan'[x][y][i].call < k
            PROVE  i <= inSock'[x][y]
        <5>1. i \in 1 .. Len(ch) \/ i = Len(ch) + 1
          BY <1>7, <4>3
        <5>2. i # Len(ch) + 1
          BY <4>2, <4>3, <4>5
        <5>3. i \in 1 .. Len(ch) /\ ch[i].call < k
          BY <1>7, <4>3, <4>5, <5>1, <5>2
        <5> QED
          BY <2>1, <2>4, <4>3, <5>3
      <4> QED
        BY <4>1, <4>3, <4>4, <4>5
    <3> QED
      BY <3>1, <3>2
  <2> QED
    BY <2>3, <2>4
<1> QED
  BY <1>9, <1>10, <1>11, <1>12, <1>13 DEF IInv

LEMMA SendSharesInv ==
  ASSUME IInv, NEW p \in Party, SendShares(p)
  PROVE  IInv'
<1>1. phase[p] = "send" /\ at[p] <= nP /\ ~Replies(p)
  BY DEF SendShares, IInv, TypeOK
<1>2. Payload(p, call[p]) = arg[p][call[p]]
  BY <1>1 DEF Payload, Replies
<1>3. Moves(p, phase[p], NextPeer(p, at[p]))
  BY <1>1 DEF SendShares, Moves, IInv, TypeOK
<1>4. Posts(p, Clang)
  BY <1>2, <1>3 DEF SendShares, Send, Message, Posts
<1> QED
  BY <1>1, <1>4, PostInv, NetIOMPAssumption

LEMMA ReplyInv ==
  ASSUME IInv, NEW p \in Party, Reply(p)
  PROVE  IInv'
<1>1. phase[p] = "reply" /\ at[p] <= nP /\ Replies(p)
  BY DEF Reply, IInv, TypeOK
<1>2. Payload(p, call[p]) = Reconstructed(p)
  <2>1. Reconstructed(p) = SumOf(call[p])
    BY <1>1, ReconstructedIsSum DEF TakenNow
  <2> QED
    BY <1>1, <2>1 DEF Payload, Replies
<1>3. Moves(p, phase[p], NextPeer(p, at[p]))
  BY <1>1 DEF Reply, Moves, IInv, TypeOK
<1>4. Posts(p, TRUE)
  BY <1>2, <1>3 DEF Reply, SendAndFlush, Message, Posts
<1> QED
  BY <1>1, <1>4, PostInv

-----------------------------------------------------------------------------
\* The message a receive takes is the one of its own call: an older one was
\* taken before, and the sender queued this one before any later one.
LEMMA HeadIsCall ==
  ASSUME IInv, NEW p \in Party, phase[p] = "wait", Arrived(p, at[p])
  PROVE  /\ chan[at[p]][p] # <<>>
         /\ Len(chan[at[p]][p]) \in Nat \ {0}
         /\ SentIn(at[p], p, call[p])
         /\ chan[at[p]][p][1].call = call[p]
<1> DEFINE q == at[p]
           ch == chan[q][p]
<1>1. /\ q \in Party /\ q # p /\ call[p] \in Call
      /\ Peers(p, q, call[p]) /\ Peers(q, p, call[p])
  BY AtPeer DEF IInv, TypeOK, Reconstructing
<1>2. ch \in Seq(Msg) /\ Len(ch) \in Nat
  BY <1>1, ChannelTyped, LenProperties DEF IInv
<1>3. inSock[q][p] \in 0 .. Len(ch) /\ inSock[q][p] > 0
  BY <1>1 DEF IInv, FlushInv, Arrived
<1>4. Len(ch) > 0 /\ 1 \in 1 .. Len(ch)
  BY <1>2, <1>3
<1>5. ch # <<>>
  BY <1>4
<1> DEFINE k == ch[1].call
<1>6. k \in Call /\ k \in call[p] .. call[q]
  BY <1>1, <1>4, ChannelTyped, InFlightPeers DEF IInv
<1>7. SentIn(q, p, k)
  BY <1>1, <1>4, <1>6 DEF IInv, ChannelInv, InFlight
<1>8. call[p] <= k /\ k <= call[q] /\ call[p] \in Int /\ call[q] \in Int
  BY <1>1, <1>6, PcTypes DEF IInv
<1>9. SentIn(q, p, call[p])
  <2> HIDE DEF k, q
  <2>1. call[p] < call[q] \/ (call[p] = call[q] /\ k = call[q])
    BY <1>8, <1>6
  <2> QED
    BY <1>1, <1>7, <1>8, <2>1 DEF SentIn
<1>10. ~TakenIn(p, q, call[p])
  BY <1>1, PcTypes DEF IInv, TakenIn, TakenNow
<1>11. PICK i \in 1 .. Len(ch) : ch[i].call = call[p]
  BY <1>1, <1>9, <1>10 DEF IInv, ChannelInv, InFlight
<1>12. i = 1
  <2>1. 1 < i => k < call[p]
    BY <1>1, <1>4, <1>11 DEF IInv, ChannelInv
  <2> QED
    BY <1>2, <1>8, <1>6, <2>1
<1> QED
  BY <1>2, <1>4, <1>5, <1>9, <1>11, <1>12

LEMMA RecvInv ==
  ASSUME IInv, NEW p \in Party, Recv(p)
  PROVE  IInv'
<1> DEFINE q == at[p]
           k == call[p]
           n == NextPeer(p, q)
           ch == chan[q][p]
           v == Head(ch).val
<1>1. /\ phase[p] = "wait" /\ Arrived(p, q)
      /\ Moves(p, "recv", n) /\ UNCHANGED <<sent, arg, call, res>>
      /\ chan' = [chan EXCEPT ![q][p] = Tail(ch)]
      /\ inSock' = [inSock EXCEPT ![q][p] = inSock[q][p] - 1]
      /\ share_recv' = [share_recv EXCEPT ![p][q] = v]
  BY DEF Recv, TakeMessage, Moves
<1>2. /\ q \in Party /\ q # p /\ k \in Call /\ k \in Int
      /\ Peers(p, q, k) /\ Peers(q, p, k) /\ Reconstructing(p)
  <2>1. phase[p] # "idle" /\ at[p] <= nP
    BY <1>1 DEF IInv, TypeOK
  <2> QED
    BY <2>1, AtPeer, PcTypes DEF IInv, Reconstructing
<1>3. /\ n \in 1 .. nP + 1 /\ n # p
      /\ ~LoopsOverAll(p) => n \in {pKing, nP + 1}
      /\ \A r \in Party : Peers(p, r, k) => (r < n <=> r < q \/ r = q)
  <2>1. q \in 0 .. nP
    BY <1>2, RingSumAssumption
  <2>2. \A r \in Party : r <= q <=> r < q \/ r = q
    BY <1>2
  <2> QED
    BY <1>2, <2>1, <2>2, NextPeerFacts
<1>4. /\ ch \in Seq(Msg) /\ Len(ch) \in Nat \ {0} /\ 1 \in 1 .. Len(ch)
      /\ Tail(ch) \in Seq(Msg) /\ Len(Tail(ch)) = Len(ch) - 1
      /\ \A i \in 1 .. Len(ch) - 1 : Tail(ch)[i] = ch[i + 1]
      /\ SentIn(q, p, k) /\ ch[1].call = k /\ v = ch[1].val
      /\ ch[1] \in Msg
  <2>1. /\ ch # <<>> /\ Len(ch) \in Nat \ {0}
        /\ SentIn(q, p, k) /\ ch[1].call = k
    BY <1>1, HeadIsCall
  <2>2. ch \in Seq(Msg)
    BY <1>2, ChannelTyped DEF IInv
  <2>3. /\ Tail(ch) \in Seq(Msg) /\ Len(Tail(ch)) = Len(ch) - 1
        /\ \A i \in 1 .. Len(Tail(ch)) : Tail(ch)[i] = ch[i + 1]
        /\ Head(ch) = ch[1]
    <3> HIDE DEF ch
    <3> QED
      BY <2>1, <2>2, HeadTailProperties
  <2>4. ch[1] \in Msg
    BY <1>2, <2>1, ChannelTyped DEF IInv
  <2> QED
    BY <2>1, <2>2, <2>3, <2>4
<1> USE <1>2
<1> HIDE DEF n, q, v
<1>5. /\ \A x, y \in Party, c \in Call :
           /\ SentIn(x, y, c)' <=> SentIn(x, y, c)
           /\ TakenIn(y, x, c)' <=> TakenIn(y, x, c) \/ (x = q /\ y = p /\ c = k)
      /\ \A x \in Party : /\ call'[x] = call[x]
                          /\ x # p => phase'[x] = phase[x] /\ at'[x] = at[x]
      /\ phase'[p] = "recv" /\ at'[p] = n
  <2> DEFINE F(x) == /\ phase'[x] = IF x = p THEN "recv" ELSE phase[x]
                     /\ call'[x] = call[x]
                     /\ at'[x] = IF x = p THEN n ELSE at[x]
                     /\ Replies(x)' <=> Replies(x)
  <2>1. \A x \in Party : F(x)
    BY <1>1, MoveFacts DEF IInv
  <2>2. ASSUME NEW x \in Party, NEW y \in Party, NEW c \in Call
        PROVE  SentIn(x, y, c)' <=> SentIn(x, y, c)
    BY <1>1, <2>1, <2>2 DEF SentIn, SentNow
  <2>3. ASSUME NEW x \in Party, NEW y \in Party, NEW c \in Call
        PROVE  TakenIn(y, x, c)' <=> TakenIn(y, x, c)
                                       \/ (x = q /\ y = p /\ c = k)
    BY <1>1, <1>3, <2>1, <2>3 DEF TakenIn, TakenNow, Peers, q
  <2> QED
    BY <2>1, <2>2, <2>3
<1>6. \A x, y \in Party :
        /\ chan'[x][y] = IF x = q /\ y = p THEN Tail(ch) ELSE chan[x][y]
        /\ inSock'[x][y] = IF x = q /\ y = p THEN inSock[q][p] - 1
                                             ELSE inSock[x][y]
        /\ share_recv'[x][y] = IF x = p /\ y = q THEN v ELSE share_recv[x][y]
  <2> SUFFICES ASSUME NEW x \in Party, NEW y \in Party
               PROVE
        /\ chan'[x][y] = IF x = q /\ y = p THEN Tail(ch) ELSE chan[x][y]
        /\ inSock'[x][y] = IF x = q /\ y = p THEN inSock[q][p] - 1
                                             ELSE inSock[x][y]
        /\ share_recv'[x][y] = IF x = p /\ y = q THEN v ELSE share_recv[x][y]
    OBVIOUS
  <2>1. p \in Node /\ q \in Node /\ x \in Node /\ y \in Node
    OBVIOUS
  <2>2. /\ chan \in [Node -> [Node -> Seq(Msg)]]
        /\ inSock \in [Node -> [Node -> Nat]]
        /\ share_recv \in [Party -> [Party -> Lists \cup {None}]]
    BY DEF IInv, TypeOK
  <2>3. chan'[x][y] = IF x = q /\ y = p THEN Tail(ch) ELSE chan[x][y]
    BY <1>1, <2>1, <2>2
  <2>4. inSock'[x][y] = IF x = q /\ y = p THEN inSock[q][p] - 1 ELSE inSock[x][y]
    BY <1>1, <2>1, <2>2
  <2>5. share_recv'[x][y] = IF x = p /\ y = q THEN v ELSE share_recv[x][y]
    BY <1>1, <2>1, <2>2
  <2> QED
    BY <2>3, <2>4, <2>5
<1>7. inSock[q][p] \in 1 .. Len(ch) /\ inSock[q][p] - 1 \in Nat
  BY <1>1, <1>4 DEF IInv, FlushInv, Arrived
<1>8. TypeOK'
  <2>1. chan' \in [Node -> [Node -> Seq(Msg)]]
    <3>1. chan \in [Node -> [Node -> Seq(Msg)]]
      BY DEF IInv, TypeOK
    <3> HIDE DEF ch
    <3> QED
      BY <1>1, <1>4, <3>1
  <2>2. inSock' \in [Node -> [Node -> Nat]]
    <3>1. inSock \in [Node -> [Node -> Nat]]
      BY DEF IInv, TypeOK
    <3> QED
      BY <1>1, <1>7, <3>1
  <2>3. share_recv' \in [Party -> [Party -> Lists \cup {None}]]
    <3>1. v \in Lists
      BY <1>4 DEF Msg
    <3>2. share_recv \in [Party -> [Party -> Lists \cup {None}]]
      BY DEF IInv, TypeOK
    <3> QED
      BY <1>1, <3>1, <3>2
  <2>4. sent' \in [Node -> [Node -> BOOLEAN]]
    BY <1>1 DEF IInv, TypeOK
  <2> QED
    BY <1>1, <1>3, <2>1, <2>2, <2>3, <2>4, MoveType DEF IInv
<1>9. TakenAfterSent'
  BY <1>4, <1>5 DEF IInv, TakenAfterSent
<1>10. DataInv'
  <2>1. \A x \in Party, c \in Call : /\ Payload(x, c)' = Payload(x, c)
                                     /\ SumOf(c)' = SumOf(c)
                                     /\ Entered(x, c)' <=> Entered(x, c)
                                     /\ LoopsOverAll(x)' <=> LoopsOverAll(x)
    BY <1>1, <1>5, PayloadFramed DEF Entered, LoopsOverAll
  <2>2. v = Payload(q, k)
    <3>1. 1 \in 1 .. Len(ch) /\ ch[1].call = k /\ v = ch[1].val
      BY <1>4
    <3> QED
      BY <3>1 DEF IInv, ChannelInv
  <2>3. ASSUME NEW x \in Party, NEW c \in Call
        PROVE  /\ arg'[x][c] \in Vec(numShares[c]) \cup {None}
               /\ arg'[x][c] # None <=> Entered(x, c)'
               /\ res'[x][c] = IF c < call'[x] THEN SumOf(c)' ELSE None
    BY <1>1, <2>1 DEF IInv, DataInv
  <2>4. ASSUME NEW x \in Party, NEW c \in Call, c = call'[x],
               phase'[x] # "idle", LoopsOverAll(x)'
        PROVE  share_recv'[x][x] = arg'[x][c]
    BY <1>1, <1>5, <1>6, <2>1, <2>4 DEF IInv, DataInv
  <2>5. ASSUME NEW x \in Party, NEW c \in Call, c = call'[x],
               phase'[x] # "idle", NEW y \in Party, Peers(y, x, c),
               TakenNow(x, y)'
        PROVE  share_recv'[x][y] = Payload(y, c)'
    <3>1. phase[x] # "idle" /\ c = call[x]
      BY <1>1, <1>5, <2>5
    <3>2. CASE x = p /\ y = q
      BY <1>6, <2>1, <2>2, <3>1, <3>2
    <3>3. CASE ~(x = p /\ y = q)
      <4>1. TakenNow(x, y)
        BY <1>1, <1>3, <1>5, <2>5, <3>1, <3>3 DEF TakenNow, Peers, q
      <4>2. share_recv[x][y] = Payload(y, c)
        BY <2>5, <3>1, <4>1 DEF IInv, DataInv
      <4> QED
        BY <1>6, <2>1, <3>3, <4>2
    <3> QED
      BY <3>2, <3>3
  <2> QED
    BY <2>3, <2>4, <2>5 DEF DataInv
<1>11. ChannelInv'
  <2> SUFFICES ASSUME NEW x \in Party, NEW y \in Party
               PROVE  /\ \A i \in 1 .. Len(chan'[x][y]), c \in Call :
                           chan'[x][y][i].call = c
                             => /\ InFlight(x, y, c)'
                                /\ chan'[x][y][i].val = Payload(x, c)'
                      /\ \A i, j \in 1 .. Len(chan'[x][y]) :
                           i < j => chan'[x][y][i].call < chan'[x][y][j].call
                      /\ \A c \in Call : InFlight(x, y, c)'
                           => \E i \in 1 .. Len(chan'[x][y]) :
                                chan'[x][y][i].call = c
    BY DEF ChannelInv
  <2>1. \A c \in Call : /\ InFlight(x, y, c)' <=>
                             InFlight(x, y, c) /\ ~(x = q /\ y = p /\ c = k)
                        /\ Payload(x, c)' = Payload(x, c)
    BY <1>1, <1>5, PayloadFramed DEF InFlight
  <2>2. /\ \A i \in 1 .. Len(chan[x][y]), c \in Call :
             chan[x][y][i].call = c
               => InFlight(x, y, c) /\ chan[x][y][i].val = Payload(x, c)
        /\ \A i, j \in 1 .. Len(chan[x][y]) :
             i < j => chan[x][y][i].call < chan[x][y][j].call
        /\ \A c \in Call : InFlight(x, y, c)
             => \E i \in 1 .. Len(chan[x][y]) : chan[x][y][i].call = c
    BY DEF IInv, ChannelInv
  <2>3. CASE ~(x = q /\ y = p)
    <3>1. chan'[x][y] = chan[x][y]
      BY <1>6, <2>3
    <3>2. \A c \in Call : /\ InFlight(x, y, c)' <=> InFlight(x, y, c)
                          /\ Payload(x, c)' = Payload(x, c)
      BY <2>1, <2>3
    <3> QED
      BY <2>2, <3>1, <3>2
  <2>4. CASE x = q /\ y = p
    <3> DEFINE tl == Tail(ch)
    <3>1. /\ chan'[x][y] = tl /\ chan[x][y] = ch
          /\ Len(ch) \in Nat \ {0} /\ Len(tl) = Len(ch) - 1
          /\ \A i \in 1 .. Len(tl) : tl[i] = ch[i + 1]
          /\ ch[1].call = k
      BY <1>4, <1>6, <2>4
    <3> HIDE DEF ch, tl
    <3>2. \A i \in 1 .. Len(tl) : i + 1 \in 1 .. Len(ch) /\ 1 < i + 1
      BY <3>1
    <3>3. \A i \in 1 .. Len(tl), c \in Call : tl[i].call = c
            => InFlight(x, y, c) /\ c # k /\ tl[i].val = Payload(x, c)
      <4> SUFFICES ASSUME NEW i \in 1 .. Len(tl), NEW c \in Call, tl[i].call = c
                   PROVE  InFlight(x, y, c) /\ c # k /\ tl[i].val = Payload(x, c)
        OBVIOUS
      <4>1. /\ tl[i] = ch[i + 1] /\ i + 1 \in 1 .. Len(ch)
            /\ 1 < i + 1 /\ 1 \in 1 .. Len(ch)
        BY <3>1, <3>2
      <4>2. k < c
        BY <2>2, <3>1, <4>1
      <4> QED
        BY <2>2, <3>1, <4>1, <4>2
    <3>4. \A i, j \in 1 .. Len(tl) : i < j => tl[i].call < tl[j].call
      <4> SUFFICES ASSUME NEW i \in 1 .. Len(tl), NEW j \in 1 .. Len(tl), i < j
                   PROVE  tl[i].call < tl[j].call
        OBVIOUS
      <4>1. /\ i + 1 \in 1 .. Len(ch) /\ j + 1 \in 1 .. Len(ch) /\ i + 1 < j + 1
            /\ tl[i] = ch[i + 1] /\ tl[j] = ch[j + 1]
        BY <3>1, <3>2
      <4> QED
        BY <2>2, <3>1, <4>1
    <3>5. \A c \in Call : InFlight(x, y, c) /\ c # k
            => \E i \in 1 .. Len(tl) : tl[i].call = c
      <4> SUFFICES ASSUME NEW c \in Call, InFlight(x, y, c), c # k
                   PROVE  \E i \in 1 .. Len(tl) : tl[i].call = c
        OBVIOUS
      <4>1. PICK j \in 1 .. Len(ch) : ch[j].call = c
        BY <2>2, <3>1
      <4>2. j # 1
        BY <3>1, <4>1
      <4>3. j - 1 \in 1 .. Len(tl) /\ (j - 1) + 1 = j
        BY <3>1, <4>2
      <4> QED
        BY <3>1, <4>1, <4>3
    <3> QED
      BY <2>1, <2>4, <3>1, <3>3, <3>4, <3>5
  <2> QED
    BY <2>3, <2>4
<1>12. FlushInv'
  <2> SUFFICES ASSUME NEW x \in Party, NEW y \in Party
               PROVE  /\ inSock'[x][y] \in 0 .. Len(chan'[x][y])
                      /\ chan'[x][y] # <<>> => sent'[x][y]
                      /\ \A i \in 1 .. Len(chan'[x][y]) :
                           chan'[x][y][i].call < call'[x] \/ FlushedNow(x, y)'
                             => i <= inSock'[x][y]
    BY DEF FlushInv
  <2>1. /\ inSock[x][y] \in 0 .. Len(chan[x][y])
        /\ chan[x][y] # <<>> => sent[x][y]
        /\ \A i \in 1 .. Len(chan[x][y]) :
             chan[x][y][i].call < call[x] \/ FlushedNow(x, y)
               => i <= inSock[x][y]
    BY DEF IInv, FlushInv
  <2>2. CASE x = q /\ y = p
    <3>1. /\ chan'[x][y] = Tail(ch) /\ chan[x][y] = ch
          /\ inSock'[x][y] = inSock[x][y] - 1
          /\ sent'[x][y] = sent[x][y] /\ call'[x] = call[x]
          /\ FlushedNow(x, y)' <=> FlushedNow(x, y)
      BY <1>1, <1>5, <1>6, <2>2 DEF FlushedNow
    <3>2. sent[x][y]
      BY <1>4, <2>1, <2>2
    <3> DEFINE tl == Tail(ch)
    <3>3. /\ Len(ch) \in Nat \ {0} /\ Len(tl) = Len(ch) - 1
          /\ \A i \in 1 .. Len(tl) : tl[i] = ch[i + 1]
      BY <1>4
    <3>4. inSock[x][y] \in 1 .. Len(ch)
      BY <1>7, <2>2
    <3> HIDE DEF tl, ch
    <3>5. chan'[x][y] = tl
      BY <3>1 DEF tl
    <3>6. inSock'[x][y] \in 0 .. Len(tl)
      BY <3>1, <3>3, <3>4
    <3>7. ASSUME NEW i \in 1 .. Len(tl), tl[i].call < call[x] \/ FlushedNow(x, y)
          PROVE  i <= inSock'[x][y]
      <4>1. i + 1 \in 1 .. Len(ch) /\ tl[i] = ch[i + 1]
        BY <3>3
      <4>2. i + 1 <= inSock[x][y]
        BY <2>1, <3>1, <3>7, <4>1
      <4> QED
        BY <3>1, <3>4, <4>2
    <3> QED
      BY <3>1, <3>2, <3>5, <3>6, <3>7
  <2>3. CASE ~(x = q /\ y = p)
    <3>1. /\ chan'[x][y] = chan[x][y] /\ inSock'[x][y] = inSock[x][y]
          /\ sent'[x][y] = sent[x][y] /\ call'[x] = call[x]
      BY <1>1, <1>5, <1>6, <2>3
    <3>2. ASSUME NEW i \in 1 .. Len(chan[x][y]), FlushedNow(x, y)'
          PROVE  FlushedNow(x, y) \/ chan[x][y][i].call < call[x]
      <4>1. CASE x # p
        BY <1>5, <3>2, <4>1 DEF FlushedNow
      <4>2. CASE x = p /\ y <= q
        BY <1>1, <4>2 DEF FlushedNow, q
      <4>3. CASE x = p /\ ~(y <= q)
        <5>1. y < n
          BY <1>5, <3>2, <4>3 DEF FlushedNow
        <5>2. ~Peers(p, y, k)
          BY <1>3, <4>3, <5>1
        <5>3. Peers(p, y, chan[x][y][i].call) /\ chan[x][y][i].call \in call[y] .. k
          BY <4>3, InFlightPeers
        <5> QED
          BY <4>3, <5>2, <5>3, PcTypes DEF IInv
      <4> QED
        BY <4>1, <4>2, <4>3
    <3> QED
      BY <2>1, <3>1, <3>2
  <2> QED
    BY <2>2, <2>3
<1> QED
  BY <1>8, <1>9, <1>10, <1>11, <1>12 DEF IInv

\* When p leaves a call it has sent and taken everything, all have entered the
\* call, and what it returns is the sum of their lists.
LEMMA ReturnFacts ==
  ASSUME IInv, NEW p \in Party, Return(p)
  PROVE  /\ phase[p] # "idle" /\ call[p] \in Call /\ call[p] \in Int
         /\ \A q \in Party : /\ Peers(q, p, call[p]) => TakenNow(p, q)
                             /\ Peers(p, q, call[p]) => SentNow(p, q)
                             /\ FlushedNow(p, q)
                             /\ Entered(q, call[p])
         /\ Reconstructed(p) = SumOf(call[p])
<1>1. /\ phase[p] = IF Replies(p) THEN "reply" ELSE "recv"
      /\ at[p] > nP /\ call[p] \in Call /\ call[p] \in Int
  BY PcTypes DEF Return, Reconstructing, IInv
<1>2. \A q \in Party : q < at[p]
  BY <1>1, PcTypes DEF IInv
<1>3. \A q \in Party : TakenNow(p, q) /\ SentNow(p, q) /\ FlushedNow(p, q)
  BY <1>1, <1>2 DEF TakenNow, SentNow, FlushedNow
<1>4. Reconstructed(p) = SumOf(call[p])
  BY <1>1, <1>3, ReconstructedIsSum
<1>5. ASSUME NEW q \in Party
      PROVE  Entered(q, call[p])
  <2>1. ASSUME NEW r \in Party, Peers(r, p, call[p])
        PROVE  SentIn(r, p, call[p])
    <3>1. TakenIn(p, r, call[p])
      BY <1>3, <2>1 DEF TakenIn
    <3> QED
      BY <1>1, <3>1 DEF IInv, TakenAfterSent
  <2>2. CASE q = p
    BY <1>1, <2>2 DEF Entered
  <2>3. CASE q # p /\ LoopsOverAll(p)
    BY <1>1, <2>1, <2>3, SentEntered DEF Peers, LoopsOverAll
  <2>4. CASE q # p /\ ~LoopsOverAll(p)
    <3>1. pKing \in Party /\ viaKing[call[p]] /\ Peers(pKing, p, call[p])
      BY <2>4, RingSumAssumption DEF LoopsOverAll, Peers
    <3> QED
      BY <1>1, <2>1, <3>1, SentStable
  <2> QED
    BY <2>2, <2>3, <2>4
<1> QED
  BY <1>1, <1>3, <1>4, <1>5

LEMMA ReturnInv ==
  ASSUME IInv, NEW p \in Party, Return(p)
  PROVE  IInv'
<1> DEFINE k == call[p]
<1>1. /\ res' = [res EXCEPT ![p][k] = SumOf(k)]
      /\ share_recv' = [share_recv EXCEPT ![p] = [q \in Party |-> None]]
      /\ phase' = [phase EXCEPT ![p] = "idle"]
      /\ call' = [call EXCEPT ![p] = k + 1]
      /\ at' = [at EXCEPT ![p] = 0]
      /\ UNCHANGED <<chan, inSock, sent, arg>>
  BY ReturnFacts DEF Return, netVars
<1>2. /\ phase[p] # "idle" /\ k \in Call /\ k \in Int
      /\ \A q \in Party : /\ Peers(q, p, k) => TakenNow(p, q)
                          /\ Peers(p, q, k) => SentNow(p, q)
                          /\ FlushedNow(p, q)
                          /\ Entered(q, k)
  BY ReturnFacts
<1>3. \A x \in Party : /\ phase'[x] = IF x = p THEN "idle" ELSE phase[x]
                       /\ at'[x] = IF x = p THEN 0 ELSE at[x]
                       /\ call'[x] = IF x = p THEN k + 1 ELSE call[x]
                       /\ x # p => /\ Replies(x)' <=> Replies(x)
                                   /\ LoopsOverAll(x)' <=> LoopsOverAll(x)
                                   /\ Reconstructing(x)' <=> Reconstructing(x)
                                   /\ share_recv'[x] = share_recv[x]
                       /\ call[x] \in Int
                       /\ \A c \in Call : res'[x][c] = IF x = p /\ c = k
                                            THEN SumOf(k) ELSE res[x][c]
  <2>1. /\ phase \in [Party -> {"idle", "send", "recv", "wait", "reply"}]
        /\ at \in [Party -> 0 .. nP + 1] /\ call \in [Party -> 1 .. numCalls + 1]
        /\ share_recv \in [Party -> [Party -> Lists \cup {None}]]
        /\ res \in [Party -> [Call -> Lists \cup {None}]]
    BY DEF IInv, TypeOK
  <2>2. \A x \in Party : /\ phase'[x] = IF x = p THEN "idle" ELSE phase[x]
                         /\ at'[x] = IF x = p THEN 0 ELSE at[x]
                         /\ call'[x] = IF x = p THEN k + 1 ELSE call[x]
                         /\ x # p => share_recv'[x] = share_recv[x]
    BY <1>1, <2>1
  <2>3. \A x \in Party : \A c \in Call :
          res'[x][c] = IF x = p /\ c = k THEN SumOf(k) ELSE res[x][c]
    BY <1>1, <1>2, <2>1
  <2>4. \A x \in Party : call[x] \in Int
    BY PcTypes DEF IInv
  <2> HIDE DEF k
  <2> QED
    BY <2>2, <2>3, <2>4 DEF Replies, LoopsOverAll, Reconstructing
<1> HIDE DEF k
<1>4. TypeOK'
  <2>1. /\ phase' \in [Party -> {"idle", "send", "recv", "wait", "reply"}]
        /\ at' \in [Party -> 0 .. nP + 1]
    <3>1. /\ phase \in [Party -> {"idle", "send", "recv", "wait", "reply"}]
          /\ at \in [Party -> 0 .. nP + 1]
      BY DEF IInv, TypeOK
    <3>2. 0 \in 0 .. nP + 1
      BY RingSumAssumption
    <3> QED
      BY <1>1, <3>1, <3>2
  <2>2. call' \in [Party -> 1 .. numCalls + 1]
    <3>1. k + 1 \in 1 .. numCalls + 1
      BY <1>2, ReconstructAssumption
    <3> QED
      BY <1>1, <3>1 DEF IInv, TypeOK
  <2>3. share_recv' \in [Party -> [Party -> Lists \cup {None}]]
    BY <1>1 DEF IInv, TypeOK
  <2>4. res' \in [Party -> [Call -> Lists \cup {None}]]
    <3>1. SumOf(k) \in Lists
      BY <1>2, SumOfList
    <3>2. res \in [Party -> [Call -> Lists \cup {None}]]
      BY DEF IInv, TypeOK
    <3> QED
      BY <1>1, <1>2, <3>1, <3>2
  <2>5. \A q \in Party :
          /\ phase'[q] # "idle" => Reconstructing(q)' /\ at'[q] >= 1 /\ at'[q] # q
          /\ phase'[q] # "idle" /\ ~LoopsOverAll(q)' => at'[q] \in {pKing, nP + 1}
          /\ phase'[q] = "wait" => at'[q] <= nP
          /\ phase'[q] = "send" => ~Replies(q)'
          /\ phase'[q] = "reply" => Replies(q)'
    BY <1>3 DEF IInv, TypeOK
  <2> QED
    BY <1>1, <2>1, <2>2, <2>3, <2>4, <2>5 DEF IInv, TypeOK
<1>5. \A x, y \in Party, c \in Call : /\ SentIn(x, y, c)' <=> SentIn(x, y, c)
                                      /\ TakenIn(y, x, c)' <=> TakenIn(y, x, c)
  <2>1. ASSUME NEW x \in Party, NEW y \in Party, NEW c \in Call
        PROVE  SentIn(x, y, c)' <=> SentIn(x, y, c)
    <3>1. CASE x = p
      <4>1. ~SentNow(p, y)'
        BY <1>3 DEF SentNow
      <4>2. SentIn(x, y, c)' <=> Peers(x, y, c) /\ c < k + 1
        BY <1>3, <3>1, <4>1 DEF SentIn
      <4>3. SentIn(x, y, c) <=> Peers(x, y, c) /\ (c < k \/ c = k)
        BY <1>2, <3>1 DEF SentIn, k
      <4> QED
        BY <1>2, <4>2, <4>3
    <3>2. CASE x # p
      BY <1>3, <3>2 DEF SentIn, SentNow
    <3> QED
      BY <3>1, <3>2
  <2>2. ASSUME NEW x \in Party, NEW y \in Party, NEW c \in Call
        PROVE  TakenIn(y, x, c)' <=> TakenIn(y, x, c)
    <3>1. CASE y = p
      <4>1. ~TakenNow(p, x)'
        BY <1>3 DEF TakenNow
      <4>2. TakenIn(y, x, c)' <=> Peers(x, y, c) /\ c < k + 1
        BY <1>3, <3>1, <4>1 DEF TakenIn
      <4>3. TakenIn(y, x, c) <=> Peers(x, y, c) /\ (c < k \/ c = k)
        BY <1>2, <3>1 DEF TakenIn, k
      <4> QED
        BY <1>2, <4>2, <4>3
    <3>2. CASE y # p
      BY <1>3, <3>2 DEF TakenIn, TakenNow
    <3> QED
      BY <3>1, <3>2
  <2> QED
    BY <2>1, <2>2
<1>6. TakenAfterSent' /\ ChannelInv'
  BY <1>1, <1>5, ChannelsFramed, PayloadFramed
<1>7. DataInv'
  <2>1. \A x \in Party, c \in Call : /\ Payload(x, c)' = Payload(x, c)
                                     /\ SumOf(c)' = SumOf(c)
    BY <1>1, PayloadFramed
  <2>2. ASSUME NEW x \in Party, NEW c \in Call
        PROVE  Entered(x, c)' <=> Entered(x, c)
    BY <1>2, <1>3 DEF Entered, k
  <2>3. ASSUME NEW x \in Party, NEW c \in Call
        PROVE  /\ arg'[x][c] \in Vec(numShares[c]) \cup {None}
               /\ arg'[x][c] # None <=> Entered(x, c)'
               /\ res'[x][c] = IF c < call'[x] THEN SumOf(c)' ELSE None
    <3>1. /\ arg[x][c] \in Vec(numShares[c]) \cup {None}
          /\ arg[x][c] # None <=> Entered(x, c)
          /\ res[x][c] = IF c < call[x] THEN SumOf(c) ELSE None
      BY DEF IInv, DataInv
    <3>2. res'[x][c] = IF c < call'[x] THEN SumOf(c)' ELSE None
      BY <1>2, <1>3, <2>1, <3>1 DEF k
    <3> QED
      BY <1>1, <2>2, <3>1, <3>2
  <2>4. ASSUME NEW x \in Party, NEW c \in Call, c = call'[x],
               phase'[x] # "idle"
        PROVE  /\ LoopsOverAll(x)' => share_recv'[x][x] = arg'[x][c]
               /\ \A y \in Party : Peers(y, x, c) /\ TakenNow(x, y)'
                                     => share_recv'[x][y] = Payload(y, c)'
    <3>1. x # p /\ c = call[x] /\ phase[x] # "idle"
      BY <1>3, <2>4
    <3>2. \A y \in Party : TakenNow(x, y)' <=> TakenNow(x, y)
      BY <1>3, <3>1 DEF TakenNow
    <3> QED
      BY <1>1, <1>3, <2>1, <3>1, <3>2 DEF IInv, DataInv
  <2> QED
    BY <2>3, <2>4 DEF DataInv
<1>8. FlushInv'
  <2> SUFFICES ASSUME NEW x \in Party, NEW y \in Party,
                      NEW i \in 1 .. Len(chan[x][y]),
                      chan[x][y][i].call < call'[x] \/ FlushedNow(x, y)'
               PROVE  i <= inSock[x][y]
    BY <1>1 DEF IInv, FlushInv
  <2>1. CASE x = p
    BY <1>2, <2>1 DEF IInv, FlushInv
  <2>2. CASE x # p
    BY <1>3, <2>2 DEF IInv, FlushInv, FlushedNow
  <2> QED
    BY <2>1, <2>2
<1> QED
  BY <1>4, <1>6, <1>7, <1>8 DEF IInv

-----------------------------------------------------------------------------
LEMMA StepInv == IInv /\ [Next]_vars => IInv'
<1> SUFFICES ASSUME IInv, [Next]_vars
             PROVE  IInv'
  OBVIOUS
<1>1. CASE UNCHANGED vars
  <2>1. UNCHANGED <<chan, inSock, sent, phase, call, at, share_recv, arg, res>>
    BY <1>1 DEF vars, netVars, pcVars
  <2>2. TypeOK'
    BY <2>1 DEF IInv, TypeOK, Replies, LoopsOverAll, Reconstructing
  <2>3. \A x, y \in Party, c \in Call : /\ SentIn(x, y, c)' <=> SentIn(x, y, c)
                                        /\ TakenIn(y, x, c)' <=> TakenIn(y, x, c)
    BY <2>1 DEF SentIn, TakenIn, SentNow, TakenNow, Replies
  <2>4. TakenAfterSent' /\ ChannelInv'
    BY <2>1, <2>3, ChannelsFramed, PayloadFramed
  <2>5. DataInv'
    BY <2>1, DataFramed DEF TakenNow
  <2>6. FlushInv'
    BY <2>1 DEF IInv, FlushInv, FlushedNow
  <2> QED
    BY <2>2, <2>4, <2>5, <2>6 DEF IInv
<1>2. ASSUME NEW p \in Party, Step(p)
      PROVE  IInv'
  BY <1>2, BeginInv, SendSharesInv, EndSendInv, EnterRecvInv, RecvInv,
     AggregateInv, ReplyInv, ReturnInv DEF Step
<1> QED
  BY <1>1, <1>2 DEF Next, Finished

\* The inductive invariant holds in every reachable state.
THEOREM Invariance == Spec => []IInv
BY InitInv, StepInv, PTL DEF Spec

\* Type correctness: every loop variable stays inside its loop and every
\* channel, list and result holds what it should.
THEOREM TypeCorrect == Spec => []TypeOK
<1>1. IInv => TypeOK
  BY DEF IInv
<1> QED
  BY <1>1, Invariance, PTL

\* Calls cannot be mixed up: a receive takes the message of its own call.
THEOREM RightCallAlways == Spec => []RightCall
<1>1. IInv => RightCall
  <2> SUFFICES ASSUME IInv, NEW p \in Party, phase[p] = "wait", Arrived(p, at[p])
               PROVE  Head(chan[at[p]][p]).call = call[p]
    BY DEF RightCall
  <2>1. chan[at[p]][p] # <<>> /\ chan[at[p]][p][1].call = call[p]
    BY HeadIsCall
  <2> QED
    BY <2>1
<1> QED
  BY <1>1, Invariance, PTL

\* The reconstruction is a barrier up to one call.
THEOREM OneCallAheadAlways == Spec => []OneCallAhead
<1>1. IInv => OneCallAhead
  <2> SUFFICES ASSUME IInv, NEW p \in Party, NEW q \in Party
               PROVE  call[p] <= call[q] + 1
    BY DEF OneCallAhead
  <2>1. call[p] \in 1 .. numCalls + 1 /\ call[q] \in 1 .. numCalls + 1
    BY PcTypes DEF IInv
  <2>2. CASE call[p] = 1
    BY <2>1, <2>2
  <2>3. CASE call[p] > 1
    <3>1. call[p] - 1 \in Call
      BY <2>1, <2>3, ReconstructAssumption
    <3>2. Entered(q, call[p] - 1)
      BY <2>1, <3>1, AllEntered
    <3> QED
      BY <2>1, <3>2 DEF Entered
  <2> QED
    BY <2>1, <2>2, <2>3
<1> QED
  BY <1>1, Invariance, PTL

\* When all calls have returned the channels are empty.
THEOREM NothingLeftAlways == Spec => []NothingLeft
<1>1. IInv => NothingLeft
  <2> SUFFICES ASSUME IInv, AllReturned, NEW p \in Party, NEW q \in Party,
                      chan[p][q] # <<>>
               PROVE  FALSE
    BY DEF NothingLeft
  <2>1. chan[p][q] \in Seq(Msg)
    BY ChannelTyped DEF IInv
  <2>2. 1 \in 1 .. Len(chan[p][q])
    BY <2>1, EmptySeq
  <2>3. chan[p][q][1].call \in Call /\ chan[p][q][1].call >= call[q]
    BY <2>2, ChannelTyped, InFlightPeers, PcTypes DEF IInv
  <2>4. call[q] > numCalls /\ call[q] \in Int
    BY PcTypes DEF AllReturned, IInv
  <2> QED
    BY <2>3, <2>4, ReconstructAssumption
<1> QED
  BY <1>1, Invariance, PTL

\* A channel holds the lists of two calls at most.
THEOREM TwoListsAlways == Spec => []TwoListsAtMost
<1>1. IInv /\ OneCallAhead => TwoListsAtMost
  <2> SUFFICES ASSUME IInv, OneCallAhead, NEW p \in Party, NEW q \in Party
               PROVE  Len(chan[p][q]) <= 2
    BY DEF TwoListsAtMost
  <2> DEFINE ch == chan[p][q]
  <2>1. Len(ch) \in Nat
    BY ChannelTyped, LenProperties DEF IInv
  <2>2. call[p] <= call[q] + 1 /\ call[p] \in Int /\ call[q] \in Int
    BY PcTypes DEF IInv, OneCallAhead
  <2>3. \A i \in 1 .. Len(ch) : ch[i].call \in call[q] .. call[p]
    BY InFlightPeers
  <2>4. \A i, j \in 1 .. Len(ch) : i < j => ch[i].call < ch[j].call
    BY DEF IInv, ChannelInv
  <2> HIDE DEF ch
  <2>5. SUFFICES ASSUME Len(ch) > 2
                 PROVE  FALSE
    BY <2>1 DEF ch
  <2>6. 1 \in 1 .. Len(ch) /\ 2 \in 1 .. Len(ch) /\ 3 \in 1 .. Len(ch)
    BY <2>1, <2>5
  <2>7. ch[1].call < ch[2].call /\ ch[2].call < ch[3].call
    BY <2>4, <2>6
  <2> QED
    BY <2>2, <2>3, <2>6, <2>7
<1> QED
  BY <1>1, Invariance, OneCallAheadAlways, PTL

-----------------------------------------------------------------------------
\* A party blocks on a peer only while the peer's message of the call has not
\* been sent, or sits in a buffer of the current call that is not flushed.
LEMMA BlockedOn ==
  ASSUME IInv, NEW p \in Party, Blocked(p), SentIn(at[p], p, call[p])
  PROVE  ~(call[p] < call[at[p]]) /\ ~FlushedNow(at[p], p)
<1> DEFINE q == at[p]
           k == call[p]
<1>1. /\ q \in Party /\ k \in Call /\ phase[p] = "wait"
      /\ k \in Int /\ at[p] \in Int
  BY AtPeer, PcTypes DEF Blocked, IInv, TypeOK, Reconstructing
<1>2. ~TakenIn(p, q, k)
  BY <1>1 DEF TakenIn, TakenNow
<1>3. PICK i \in 1 .. Len(chan[q][p]) : chan[q][p][i].call = k
  BY <1>1, <1>2 DEF IInv, ChannelInv, InFlight
<1>4. inSock[q][p] \in 0 .. Len(chan[q][p]) /\ ~(inSock[q][p] > 0)
  BY <1>1 DEF Blocked, Arrived, IInv, FlushInv
<1>5. ~(i <= inSock[q][p])
  BY <1>4
<1> QED
  BY <1>1, <1>3, <1>5 DEF IInv, FlushInv

\* Some party can always move on: among the parties of the earliest call, in
\* the direct mode whoever waits for q is waited for, through q, by a party
\* of smaller index, so index plus awaited index cannot descend for ever.
LEMMA InvDeadlockFree == IInv => NoDeadlock
<1>1. ASSUME IInv, ~AllReturned, \A p \in Party : Reconstructing(p) => Blocked(p)
      PROVE  FALSE
  <2>1. \A p \in Party :
           call[p] \in Call => /\ at[p] \in Party
                              /\ phase[p] = "wait" /\ Blocked(p)
                              /\ at[p] # p /\ Peers(at[p], p, call[p])
    BY <1>1, AtPeer DEF Blocked, IInv, TypeOK, Reconstructing
  <2> DEFINE C == {call[p] : p \in Party}
  <2>2. PICK r \in C : \A s \in C : r <= s
    <3>1. C \in SUBSET Nat
      BY <1>1, ReconstructAssumption DEF IInv, TypeOK
    <3>2. call[1] \in C
      BY RingSumAssumption
    <3> HIDE DEF C
    <3> QED
      BY <3>1, <3>2, LeastNatural
  <2> DEFINE S == {p \in Party : call[p] = r}
  <2>3. /\ r \in Call /\ r \in Nat /\ S # {}
        /\ \A p \in Party : call[p] \in Nat /\ (call[p] = r \/ r < call[p])
    <3>1. PICK p \in Party : r = call[p]
      OBVIOUS
    <3>2. PICK q \in Party : ~(call[q] > numCalls)
      BY <1>1 DEF AllReturned
    <3>3. \A x \in Party : call[x] \in 1 .. numCalls + 1 /\ r <= call[x]
      BY <1>1, <2>2 DEF IInv, TypeOK
    <3>4. r \in Call /\ r \in Nat /\ p \in S
      BY <3>1, <3>2, <3>3, ReconstructAssumption
    <3> QED
      BY <3>3, <3>4, ReconstructAssumption
  <2>4. ASSUME NEW p \in S
        PROVE  at[p] \in S
    <3>1. at[p] \in Party /\ (call[at[p]] = r \/ r < call[at[p]])
      BY <2>1, <2>3, <2>4
    <3>2. CASE r < call[at[p]]
      <4>1. SentIn(at[p], p, call[p])
        BY <2>1, <2>3, <2>4, <3>2 DEF SentIn
      <4> QED
        BY <1>1, <2>1, <2>3, <2>4, <3>2, <4>1, BlockedOn
    <3> QED
      BY <3>1, <3>2
  <2>5. ASSUME NEW p \in S, ~Replies(at[p])
        PROVE  at[at[p]] < p
    <3>1. /\ at[p] \in Party /\ call[at[p]] = r /\ call[p] = r /\ p \in Party
          /\ phase[at[p]] = "wait" /\ at[at[p]] \in Party
          /\ Blocked(p) /\ Peers(at[p], p, r)
      BY <2>1, <2>3, <2>4, <2>5
    <3>2. SentIn(at[p], p, call[p])
      BY <2>5, <3>1 DEF SentIn, SentNow
    <3>3. ~FlushedNow(at[p], p)
      BY <1>1, <3>1, <3>2, BlockedOn
    <3> QED
      BY <3>1, <3>3 DEF FlushedNow
  <2>6. ASSUME NEW p \in S
        PROVE  ~Replies(p)
    <3>1. SUFFICES ASSUME Replies(p)
                   PROVE  FALSE
      OBVIOUS
    <3>2. /\ viaKing[r] /\ p = pKing /\ at[p] # pKing
          /\ at[p] \in S /\ at[p] \in Party
      BY <2>1, <2>3, <2>4, <2>6, <3>1 DEF Replies
    <3>3. ~Replies(at[p])
      BY <3>2 DEF Replies
    <3>4. at[at[p]] < pKing
      BY <2>5, <2>6, <3>2, <3>3
    <3>5. at[at[p]] \in Party
      BY <2>1, <2>3, <3>2
    <3> QED
      BY <3>4, <3>5 DEF Party, pKing
  <2> DEFINE D == {p + at[p] : p \in S}
  <2>7. PICK m \in D : \A n \in D : m <= n
    <3>1. D \in SUBSET Nat /\ D # {}
      BY <2>1, <2>3 DEF Party
    <3> HIDE DEF D
    <3> QED
      BY <3>1, LeastNatural
  <2>8. PICK p \in S : m = p + at[p]
    BY <2>7
  <2>9. at[p] \in S /\ at[at[p]] < p
    BY <2>4, <2>5, <2>6
  <2>10. m <= at[p] + at[at[p]]
    BY <2>7, <2>9
  <2>11. p \in Nat /\ at[p] \in Nat /\ at[at[p]] \in Nat
    BY <2>1, <2>3, <2>9 DEF Party
  <2> QED
    BY <2>8, <2>9, <2>10, <2>11
<1> QED
  BY <1>1 DEF NoDeadlock

\* As long as a party has calls to make, one that has is not blocked, whatever
\* the number of parties (netmp.h:162 flushes towards one peer only).
THEOREM DeadlockFree == Spec => []NoDeadlock
BY InvDeadlockFree, Invariance, PTL

-----------------------------------------------------------------------------
\* reconstruct implements the abstract exchange: entering a call is the
\* abstract Enter, returning the abstract Leave, and all messages in between
\* leave the abstract state alone.
THEOREM Refinement == Spec => ImplementsAllReduce
<1> USE DEF Exchange!Call, Exchange!Party, Exchange!None, None
<1>1. Init => Exchange!Init
  BY DEF Init, Exchange!Init
<1>2. \A c \in Call : /\ Exchange!Vec(numShares[c]) = Vec(numShares[c])
                      /\ Exchange!VecTotal([q \in Party |-> arg[q][c]],
                                           numShares[c]) = SumOf(c)
  BY DEF Exchange!Vec, Vec, Exchange!Ring, Ring, SumOf, Exchange!VecTotal,
         VecTotal, Exchange!Total, Total, Exchange!Partial, Partial
<1>3. ASSUME IInv, NEW p \in Party, Begin(p)
      PROVE  Exchange!Next
  <2>1. PICK v \in Vec(numShares[call[p]]) :
               arg' = [arg EXCEPT ![p][call[p]] = v]
    BY <1>3 DEF Begin, BeginWith
  <2>2. call[p] \in Call /\ phase[p] = "idle" /\ UNCHANGED res
    BY <1>3 DEF Begin, BeginWith, Reconstructing
  <2>3. arg[p][call[p]] = <<>>
    BY <1>3, <2>2 DEF IInv, DataInv, Entered
  <2>4. ASSUME NEW b \in 1 .. call[p] - 1
        PROVE  res[p][b] # <<>>
    <3>1. b \in Call /\ b < call[p]
      BY <2>2, ReconstructAssumption
    <3>2. res[p][b] = SumOf(b)
      BY <1>3, <3>1 DEF IInv, DataInv
    <3>3. SumOf(b) \in Vec(numShares[b])
      BY <1>3, <3>1, AllEntered, SumOfList
    <3> QED
      BY <3>1, <3>2, <3>3, ListNotNone
  <2>5. Exchange!Enter(p, call[p], v)
    BY <2>1, <2>2, <2>3, <2>4 DEF Exchange!Enter
  <2> QED
    BY <1>2, <2>1, <2>2, <2>5 DEF Exchange!Next
<1>4. ASSUME IInv, NEW p \in Party, Return(p)
      PROVE  Exchange!Next
  <2>1. /\ call[p] \in Call /\ \A q \in Party : Entered(q, call[p])
        /\ res' = [res EXCEPT ![p][call[p]] = SumOf(call[p])]
        /\ UNCHANGED arg
    BY <1>3, <1>4, ReturnFacts DEF Return
  <2>2. res[p][call[p]] = <<>> /\ \A q \in Party : arg[q][call[p]] # <<>>
    BY <1>4, <2>1, PcTypes DEF IInv, DataInv
  <2>3. Exchange!Leave(p, call[p])
    BY <1>2, <2>1, <2>2 DEF Exchange!Leave
  <2> QED
    BY <2>1, <2>3 DEF Exchange!Next
<1>5. IInv /\ [Next]_vars => [Exchange!Next]_Exchange!vars
  <2> SUFFICES ASSUME IInv, [Next]_vars
               PROVE  [Exchange!Next]_Exchange!vars
    OBVIOUS
  <2>1. CASE UNCHANGED vars
    BY <2>1 DEF vars, Exchange!vars
  <2>2. ASSUME NEW p \in Party, Step(p)
        PROVE  Exchange!Next \/ UNCHANGED Exchange!vars
    BY <1>3, <1>4, <2>2
       DEF Step, SendShares, EndSend, EnterRecv, Recv, Aggregate, Reply,
           Exchange!vars
  <2> QED
    BY <2>1, <2>2 DEF Next, Finished
<1> QED
  BY <1>1, <1>5, Invariance, PTL DEF Spec, ImplementsAllReduce, Exchange!Spec
=============================================================================
