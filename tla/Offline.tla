------------------------------- MODULE Offline -------------------------------
(***************************************************************************)
(* The offline phase (OfflineEvaluator::run, then the sync every caller      *)
(* makes): dealer and parties expand the same pseudo-random streams, each on *)
(* its own, so that the parties' shares fit together without messages; only  *)
(* party nP is sent its shares of the secrets the dealer computes.           *)
(***************************************************************************)
EXTENDS Preproc, Sync

CONSTANTS gates,     \* the circuit
          Streams    \* the sequences a generator may produce, long enough

All == Items(gates)

\* What Circuit builds; generators that produce as many values as are drawn.
ASSUME OfflineAssumption == /\ WordsAreBits
                            /\ IsCircuit(gates)
                            /\ \A s \in Streams : s \in Seq(Ring) /\ Len(s) >= Len(All)

Dealer == 0

\* Every generator of a RandGenPool is seeded alike (rand_gen_pool.cpp:13),
\* so all of them produce the one stream.
VARIABLES stream,
          stage,         \* where node n is in run
          drawn,         \* drawn[n][i]: draws node n made from pi(i), or from
                         \* p0() for i = 0
          share,         \* share[p]: the shares party p holds, item by item
          tp,            \* the dealer's copy of everyone's shares
          rand_sh_sec,   \* rand_sh_sec[n]: the last party's shares of secrets
          idx            \* idx_rand_sh_sec: how many of them nP has used

vars == <<syncVars, stream, stage, drawn, share, tp, rand_sh_sec, idx>>

Init ==
  /\ NetInit
  /\ SyncInit
  /\ stream \in Streams
  /\ stage = [n \in Node |-> IF n = nP THEN "recvLengths" ELSE "deal"]
  /\ drawn = [n \in Node |-> [i \in Node |-> 0]]
  /\ share = [p \in Party |-> <<>>]
  /\ tp    = <<>>
  /\ rand_sh_sec = [n \in {Dealer, nP} |-> <<>>]
  /\ idx = 0

NextDraw(n, i) == stream[drawn[n][i] + 1]

\* The values of the items that have been dealt.
value == [item \in {All[k] : k \in DOMAIN tp} |-> Total(tp[IndexOf(All, item)])]

\* The shares a dealer hands out: all drawn, or the last one computed.
DealtRandom == [i \in Party |-> NextDraw(Dealer, i)]

DealtSecret(secret) ==
  LET drawnOnes == [i \in Party |-> IF i < nP THEN NextDraw(Dealer, i) ELSE 0]
  IN  [drawnOnes EXCEPT ![nP] = (secret - Total(drawnOnes)) % RingSize]

\* What the dealer shares next, the shares of it, and the draws it makes from
\* each generator.
NextItem == All[Len(tp) + 1]

NextDealt ==
  IF IsRandom(NextItem) THEN DealtRandom
  ELSE DealtSecret(SecretOf(NextItem, value, NextDraw(Dealer, 0)))

NextDraws == [i \in Node |-> CASE i = Dealer -> IF NextItem[2] = "r2" THEN 1 ELSE 0
                               [] i = nP     -> IF IsRandom(NextItem) THEN 1 ELSE 0
                               [] OTHER      -> 1]

\* randomShare and randomShareSecret on the dealer.
Deal ==
  /\ stage[Dealer] = "deal"
  /\ Len(tp) < Len(All)
  /\ tp' = Append(tp, NextDealt)
  /\ drawn' = [drawn EXCEPT ![Dealer] = [i \in Node |-> @[i] + NextDraws[i]]]
  /\ rand_sh_sec' = IF IsRandom(NextItem) THEN rand_sh_sec
                    ELSE [rand_sh_sec EXCEPT ![Dealer] = Append(@, NextDealt[nP])]
  /\ UNCHANGED <<syncVars, stream, stage, share, idx>>

\* setWireMasks: the dealer sends the last party its shares, without a flush.
SendLengths ==
  /\ stage[Dealer] = "deal"
  /\ Len(tp) = Len(All)
  /\ Write(Dealer, nP, DataConn(Dealer, nP),
           [kind |-> "lengths", num |-> Len(rand_sh_sec[Dealer])])
  /\ stage' = [stage EXCEPT ![Dealer] = "sendShares"]
  /\ UNCHANGED <<socket, shake, step, stream, drawn, share, tp, rand_sh_sec, idx>>

SendDealt ==
  /\ stage[Dealer] = "sendShares"
  /\ Write(Dealer, nP, DataConn(Dealer, nP),
           [kind |-> "shares", vals |-> rand_sh_sec[Dealer]])
  /\ stage' = [stage EXCEPT ![Dealer] = "ran"]
  /\ UNCHANGED <<socket, shake, step, stream, drawn, share, tp, rand_sh_sec, idx>>

\* Fault: the loop over the items runs once too often.
TakeOneMore(p) ==
  /\ p < nP
  /\ stage[p] = "deal"
  /\ Len(share[p]) <= Len(All)
  /\ share' = [share EXCEPT ![p] = Append(@, NextDraw(p, 0))]
  /\ drawn' = [drawn EXCEPT ![p][0] = @ + 1]
  /\ UNCHANGED <<syncVars, stream, stage, tp, rand_sh_sec, idx>>

\* randomShare and randomShareSecret on a party other than the last.
Take(p) ==
  /\ p < nP
  /\ stage[p] = "deal"
  /\ Len(share[p]) < Len(All)
  /\ share' = [share EXCEPT ![p] = Append(@, NextDraw(p, 0))]
  /\ drawn' = [drawn EXCEPT ![p][0] = @ + 1]
  /\ UNCHANGED <<syncVars, stream, stage, tp, rand_sh_sec, idx>>

\* Faults: the last party draws its share of a secret too; it does not move
\* on in what it was sent.
TakeLastAlwaysDraws ==
  /\ stage[nP] = "deal"
  /\ Len(share[nP]) < Len(All)
  /\ LET item == All[Len(share[nP]) + 1]
     IN  share' = [share EXCEPT ![nP] = Append(@,
                     IF IsRandom(item) THEN NextDraw(nP, 0)
                     ELSE rand_sh_sec[nP][idx + 1])]
  /\ drawn' = [drawn EXCEPT ![nP][0] = @ + 1]
  /\ idx' = IF IsRandom(All[Len(share[nP]) + 1]) THEN idx ELSE idx + 1
  /\ UNCHANGED <<syncVars, stream, stage, tp, rand_sh_sec>>

TakeLastStuckIndex ==
  /\ stage[nP] = "deal"
  /\ Len(share[nP]) < Len(All)
  /\ IF IsRandom(All[Len(share[nP]) + 1])
     THEN /\ share' = [share EXCEPT ![nP] = Append(@, NextDraw(nP, 0))]
          /\ drawn' = [drawn EXCEPT ![nP][0] = @ + 1]
     ELSE /\ share' = [share EXCEPT ![nP] = Append(@, rand_sh_sec[nP][1])]
          /\ UNCHANGED drawn
  /\ UNCHANGED <<syncVars, stream, stage, tp, rand_sh_sec, idx>>

\* The same on the last party, which takes its shares of secrets from what
\* the dealer sent.
TakeLast ==
  /\ stage[nP] = "deal"
  /\ Len(share[nP]) < Len(All)
  /\ IF IsRandom(All[Len(share[nP]) + 1])
     THEN /\ share' = [share EXCEPT ![nP] = Append(@, NextDraw(nP, 0))]
          /\ drawn' = [drawn EXCEPT ![nP][0] = @ + 1]
          /\ UNCHANGED idx
     ELSE /\ share' = [share EXCEPT ![nP] = Append(@, rand_sh_sec[nP][idx + 1])]
          /\ idx' = idx + 1
          /\ UNCHANGED drawn
  /\ UNCHANGED <<syncVars, stream, stage, tp, rand_sh_sec>>

\* The last party blocks in recv for the lengths and then the shares.
FromDealer == socket[Dealer][nP][DataConn(Dealer, nP)]

RecvLengths ==
  /\ stage[nP] = "recvLengths"
  /\ FromDealer # <<>>
  /\ socket' = [socket EXCEPT ![Dealer][nP][DataConn(Dealer, nP)] = Tail(@)]
  /\ stage' = [stage EXCEPT ![nP] = "recvShares"]
  /\ UNCHANGED <<buffer, shake, step, stream, drawn, share, tp, rand_sh_sec, idx>>

RecvDealt ==
  /\ stage[nP] = "recvShares"
  /\ FromDealer # <<>>
  /\ rand_sh_sec' = [rand_sh_sec EXCEPT ![nP] = Head(FromDealer).vals]
  /\ socket' = [socket EXCEPT ![Dealer][nP][DataConn(Dealer, nP)] = Tail(@)]
  /\ stage' = [stage EXCEPT ![nP] = "deal"]
  /\ UNCHANGED <<buffer, shake, step, stream, drawn, share, tp, idx>>

\* run returns on a party.
EndRun(p) ==
  /\ stage[p] = "deal"
  /\ Len(share[p]) = Len(All)
  /\ stage' = [stage EXCEPT ![p] = "ran"]
  /\ UNCHANGED <<syncVars, stream, drawn, share, tp, rand_sh_sec, idx>>

\* Fault: the caller goes on without waiting for run to finish.
CallSyncEarly(n) ==
  /\ EnterSync(n)
  /\ UNCHANGED <<stream, stage, drawn, share, tp, rand_sh_sec, idx>>

\* The caller of run synchronises all nodes before the online phase.
CallSync(n) ==
  /\ stage[n] = "ran"
  /\ EnterSync(n)
  /\ UNCHANGED <<stream, stage, drawn, share, tp, rand_sh_sec, idx>>

InSync(n) == SyncStep(n)
             /\ UNCHANGED <<stream, stage, drawn, share, tp, rand_sh_sec, idx>>

NodeStep(n) ==
  \/ n = Dealer /\ (Deal \/ SendLengths \/ SendDealt)
  \/ n \in Party /\ (Take(n) \/ EndRun(n))
  \/ n = nP /\ (RecvLengths \/ RecvDealt \/ TakeLast)
  \/ CallSync(n) \/ InSync(n)

AllSynced == \A n \in Node : step[n] = "done"

Next == (\E n \in Node : NodeStep(n)) \/ (AllSynced /\ UNCHANGED vars)

\* Every node is a process that the operating system keeps running.
Spec == Init /\ [][Next]_vars /\ \A n \in Node : WF_vars(NodeStep(n))
-----------------------------------------------------------------------------
Count == 0 .. Len(All)

\* Type invariant; a generator is never drawn from more often than there are
\* values to share, and the last party uses what it was sent in order.
TypeOK ==
  /\ stage \in [Node -> {"deal", "sendShares", "recvLengths", "recvShares", "ran"}]
  /\ step \in [Node -> {"out", "send", "flush", "recv", "reply", "done"}]
  /\ shake \in [Node -> 1 .. 2 * nP + 1]
  /\ drawn \in [Node -> [Node -> Count]]
  /\ \A p \in Party : Len(share[p]) \in Count /\ \A k \in DOMAIN share[p] : share[p][k] \in Ring
  /\ Len(tp) \in Count
  /\ \A k \in DOMAIN tp : tp[k] \in [Party -> Ring]
  /\ idx \in 0 .. Len(rand_sh_sec[nP])

\* Whatever the order the nodes run in, a party holds the share the dealer
\* believes it holds: their generators stay in step (offline_evaluator.cpp:31
\* and :46 draw on both sides, or on neither).
DealerAgrees ==
  \A p \in Party : \A k \in DOMAIN share[p] \cap DOMAIN tp : share[p][k] = tp[k][p]

\* When a node leaves sync, all nodes have finished the offline phase, the
\* parties hold the shares of DealtShares, from which SecureEval starts, and
\* these add up to related values, so the online phase may begin.
ReadyWhenSynced ==
  (\E n \in Node : step[n] = "done") =>
    /\ \A n \in Node : stage[n] = "ran"
    /\ \A p \in Party, k \in DOMAIN All : share[p][k] = DealtShares(All, stream)[k][p]
    /\ Related(gates, [item \in ItemSet(gates) |->
          Total([p \in Party |-> share[p][IndexOf(All, item)]])])

\* A receive takes the kind of message it is written for: the bytes of sync
\* and the dealer's data share a connection and carry no headers.
RightMessage ==
  /\ \A n \in Node : step[n] = "recv" /\ Incoming(n) # <<>> => Head(Incoming(n)).kind = "byte"
  /\ stage[nP] = "recvLengths" /\ FromDealer # <<>> =>
       Head(FromDealer) = [kind |-> "lengths", num |-> Len(rand_sh_sec[Dealer])]
  /\ stage[nP] = "recvShares" /\ FromDealer # <<>> => Head(FromDealer).kind = "shares"

\* Every node gets through: the dealer does not flush what the last party
\* waits for (offline_evaluator.cpp:201), its next call does.
AllGetThrough == <>AllSynced
=============================================================================
