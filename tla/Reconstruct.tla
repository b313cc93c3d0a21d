----------------------------- MODULE Reconstruct -----------------------------
(***************************************************************************)
(* OnlineEvaluator::reconstruct, run by parties 1..nP for a sequence of     *)
(* calls, over the buffered channels of NetIOMP.  evaluateCircuit makes the *)
(* same calls in the same order on every party (the dealer makes none), and *)
(* its last exchange, getOutputs, is reconstruct with via_pking = false.    *)
(***************************************************************************)
EXTENDS NetIOMP

CONSTANTS numCalls,    \* how many times reconstruct is called
          viaKing,     \* viaKing[c]: the via_pking argument of call c
          numShares    \* numShares[c]: the length of its shares_list

Call == 1 .. numCalls

ASSUME ReconstructAssumption == /\ numCalls \in Nat
                                /\ viaKing \in [Call -> BOOLEAN]
                                /\ numShares \in [Call -> Nat \ {0}]

None == <<>>    \* a list that has not been filled in; numShares is never 0

VARIABLES phase,        \* where party p is inside reconstruct
          call,         \* the call p makes next or is in
          at,           \* the loop variable over the parties
          share_recv,   \* the lists p holds in this call
          arg,          \* arg[p][c]: the shares_list p passed to call c
          res           \* res[p][c]: the reconstructed_list call c gave p

pcVars == <<phase, call, at>>
vars   == <<netVars, pcVars, share_recv, arg, res>>

-----------------------------------------------------------------------------
Reconstructing(p) == call[p] \in Call

\* The parties that loop over all the others: everyone in the direct mode,
\* the king in the king mode, where the rest only talk to the king.
LoopsOverAll(p) == ~viaKing[call[p]] \/ p = pKing

Replies(p) == viaKing[call[p]] /\ p = pKing

\* Fault: the loop does not skip the party itself.
NextPeerOrSelf(p, a) ==
  IF LoopsOverAll(p) THEN a + 1 ELSE IF a = 0 THEN pKing ELSE nP + 1

\* The peer after a in p's loop; nP + 1 when the loop is over.
NextPeer(p, a) ==
  IF LoopsOverAll(p) THEN IF a + 1 = p THEN a + 2 ELSE a + 1
                     ELSE IF a = 0 THEN pKing ELSE nP + 1

\* Fault: the party's own list is missing from the sum.
ReconstructedFromOthers(p) ==
  IF LoopsOverAll(p)
  THEN VecTotal([share_recv[p] EXCEPT ![p] = [i \in DOMAIN @ |-> 0]],
                numShares[call[p]])
  ELSE share_recv[p][pKing]

Reconstructed(p) ==
  IF LoopsOverAll(p) THEN VecTotal(share_recv[p], numShares[call[p]])
                     ELSE share_recv[p][pKing]

\* Messages carry no header in the code.  The call number is a history tag
\* that no action reads.
Message(p, v) == [call |-> call[p], val |-> v]

Init ==
  /\ NetInit
  /\ phase = [p \in Party |-> "idle"]
  /\ call  = [p \in Party |-> 1]
  /\ at    = [p \in Party |-> 0]
  /\ share_recv = [p \in Party |-> [q \in Party |-> None]]
  /\ arg   = [p \in Party |-> [c \in Call |-> None]]
  /\ res   = [p \in Party |-> [c \in Call |-> None]]

\* reconstruct is called with the list v.
BeginWith(p, v) ==
  /\ phase[p] = "idle"
  /\ arg' = [arg EXCEPT ![p][call[p]] = v]
  /\ share_recv' = [share_recv EXCEPT ![p][p] = v]
  /\ phase' = [phase EXCEPT ![p] = IF Replies(p) THEN "recv" ELSE "send"]
  /\ at' = [at EXCEPT ![p] = NextPeer(p, 0)]
  /\ UNCHANGED <<netVars, call, res>>

Begin(p) == Reconstructing(p) /\ \E v \in Vec(numShares[call[p]]) : BeginWith(p, v)

\* Fault: a retry sends the list a second time.
SendSharesTwice(p) ==
  /\ phase[p] = "send"
  /\ at[p] <= nP
  /\ LET m == Message(p, arg[p][call[p]])
     IN  chan' = [chan EXCEPT ![p][at[p]] = @ \o <<m, m>>]
  /\ sent' = [sent EXCEPT ![p][at[p]] = TRUE]
  /\ at' = [at EXCEPT ![p] = NextPeer(p, at[p])]
  /\ UNCHANGED <<inSock, phase, call, share_recv, arg, res>>

SendShares(p) ==
  /\ phase[p] = "send"
  /\ at[p] <= nP
  /\ Send(p, at[p], Message(p, arg[p][call[p]]))
  /\ at' = [at EXCEPT ![p] = NextPeer(p, at[p])]
  /\ UNCHANGED <<phase, call, share_recv, arg, res>>

EndSend(p) ==
  /\ phase[p] = "send"
  /\ at[p] > nP
  /\ phase' = [phase EXCEPT ![p] = "recv"]
  /\ at' = [at EXCEPT ![p] = NextPeer(p, 0)]
  /\ UNCHANGED <<netVars, call, share_recv, arg, res>>

EnterRecv(p) ==
  /\ phase[p] = "recv"
  /\ at[p] <= nP
  /\ FlushBeforeRecv(p, at[p])
  /\ phase' = [phase EXCEPT ![p] = "wait"]
  /\ UNCHANGED <<call, at, share_recv, arg, res>>

Recv(p) ==
  /\ phase[p] = "wait"
  /\ TakeMessage(p, at[p])
  /\ share_recv' = [share_recv EXCEPT ![p][at[p]] = Head(chan[at[p]][p]).val]
  /\ phase' = [phase EXCEPT ![p] = "recv"]
  /\ at' = [at EXCEPT ![p] = NextPeer(p, at[p])]
  /\ UNCHANGED <<call, arg, res>>

\* The king has aggregated the shares and turns to sending the sums.
Aggregate(p) ==
  /\ phase[p] = "recv"
  /\ at[p] > nP
  /\ Replies(p)
  /\ phase' = [phase EXCEPT ![p] = "reply"]
  /\ at' = [at EXCEPT ![p] = NextPeer(p, 0)]
  /\ UNCHANGED <<netVars, call, share_recv, arg, res>>

\* Faults: the king forgets to flush, or replies with its own list.
ReplyUnflushed(p) ==
  /\ phase[p] = "reply"
  /\ at[p] <= nP
  /\ Send(p, at[p], Message(p, Reconstructed(p)))
  /\ at' = [at EXCEPT ![p] = NextPeer(p, at[p])]
  /\ UNCHANGED <<phase, call, share_recv, arg, res>>

ReplyOwnList(p) ==
  /\ phase[p] = "reply"
  /\ at[p] <= nP
  /\ SendAndFlush(p, at[p], Message(p, arg[p][call[p]]))
  /\ at' = [at EXCEPT ![p] = NextPeer(p, at[p])]
  /\ UNCHANGED <<phase, call, share_recv, arg, res>>

Reply(p) ==
  /\ phase[p] = "reply"
  /\ at[p] <= nP
  /\ SendAndFlush(p, at[p], Message(p, Reconstructed(p)))
  /\ at' = [at EXCEPT ![p] = NextPeer(p, at[p])]
  /\ UNCHANGED <<phase, call, share_recv, arg, res>>

\* Fault: the receive loop stops one party short and leaves zeros.
ReturnEarly(p) ==
  /\ Reconstructing(p)
  /\ phase[p] = IF Replies(p) THEN "reply" ELSE "recv"
  /\ at[p] >= nP
  /\ res' = [res EXCEPT ![p][call[p]] = [i \in 1 .. numShares[call[p]] |-> 0]]
  /\ share_recv' = [share_recv EXCEPT ![p] = [q \in Party |-> None]]
  /\ phase' = [phase EXCEPT ![p] = "idle"]
  /\ call' = [call EXCEPT ![p] = @ + 1]
  /\ at' = [at EXCEPT ![p] = 0]
  /\ UNCHANGED <<netVars, arg>>

Return(p) ==
  /\ Reconstructing(p)
  /\ phase[p] = IF Replies(p) THEN "reply" ELSE "recv"
  /\ at[p] > nP
  /\ res' = [res EXCEPT ![p][call[p]] = Reconstructed(p)]
  /\ share_recv' = [share_recv EXCEPT ![p] = [q \in Party |-> None]]
  /\ phase' = [phase EXCEPT ![p] = "idle"]
  /\ call' = [call EXCEPT ![p] = @ + 1]
  /\ at' = [at EXCEPT ![p] = 0]
  /\ UNCHANGED <<netVars, arg>>

Step(p) == \/ Begin(p) \/ SendShares(p) \/ EndSend(p) \/ EnterRecv(p)
           \/ Recv(p)  \/ Aggregate(p)  \/ Reply(p)   \/ Return(p)

AllReturned == \A p \in Party : call[p] > numCalls

\* Every party has left its last call; the program goes on elsewhere.
Finished == AllReturned /\ UNCHANGED vars

Next == (\E p \in Party : Step(p)) \/ Finished

\* Every party is a process that the operating system keeps running, and a
\* flushed message reaches the peer's socket.
Fairness == \A p \in Party : WF_vars(Step(p))

Spec     == Init /\ [][Next]_vars
FairSpec == Spec /\ Fairness
-----------------------------------------------------------------------------
Lists == UNION {Vec(numShares[c]) : c \in Call}
Msg   == [call : Call, val : Lists]

\* Type invariant: the loop variable stays inside the loop of the phase and
\* skips the party itself, and only the king of a king-mode call replies.
TypeOK ==
  /\ chan \in [Node -> [Node -> Seq(Msg)]]
  /\ inSock \in [Node -> [Node -> Nat]]
  /\ sent \in [Node -> [Node -> BOOLEAN]]
  /\ phase \in [Party -> {"idle", "send", "recv", "wait", "reply"}]
  /\ call \in [Party -> 1 .. numCalls + 1]
  /\ at \in [Party -> 0 .. nP + 1]
  /\ share_recv \in [Party -> [Party -> Lists \cup {None}]]
  /\ arg \in [Party -> [Call -> Lists \cup {None}]]
  /\ res \in [Party -> [Call -> Lists \cup {None}]]
  /\ \A p \in Party :
       /\ phase[p] # "idle" => Reconstructing(p) /\ at[p] >= 1 /\ at[p] # p
       /\ phase[p] # "idle" /\ ~LoopsOverAll(p) => at[p] \in {pKing, nP + 1}
       /\ phase[p] = "wait" => at[p] <= nP
       /\ phase[p] = "send" => ~Replies(p)
       /\ phase[p] = "reply" => Replies(p)

Blocked(p) == phase[p] = "wait" /\ ~Arrived(p, at[p])

\* Deadlock freedom (recv flushes only the channel to the peer it waits for,
\* netmp.h:162, so other peers' shares may still sit in its buffer): as long
\* as a party has calls to make, one that has is not blocked in a receive.
NoDeadlock == AllReturned \/ \E p \in Party : Reconstructing(p) /\ ~Blocked(p)

\* The byte streams carry no call numbers: the message a receive takes was
\* sent in the very call that receives it, although its sender may already
\* have queued the list of the next call behind it.
RightCall == \A p \in Party :
               phase[p] = "wait" /\ Arrived(p, at[p])
                 => Head(chan[at[p]][p]).call = call[p]

\* A reconstruction is a barrier up to one call: no party is two calls ahead
\* of another, also where the two exchange no message at all (king mode).
OneCallAhead == \A p, q \in Party : call[p] <= call[q] + 1

\* Hence a channel never has to hold more than the lists of two calls, which
\* is what the socket buffers have to be dimensioned for.
TwoListsAtMost == \A p, q \in Party : Len(chan[p][q]) <= 2

\* When the last call has returned everywhere nothing is left in a buffer or
\* a socket, where whoever uses the network next would read it as its own.
NothingLeft == AllReturned => \A p, q \in Party : chan[p][q] = <<>>

\* The calls implement the abstract exchange: same lists in, and sums out
\* only after every party has entered the call.
Exchange == INSTANCE AllReduce WITH arg <- arg, res <- res
ImplementsAllReduce == Exchange!Spec

\* Every call returns on every party, with no fairness other than that each
\* party keeps running.
Terminates == <>AllReturned
-----------------------------------------------------------------------------
(***************************************************************************)
(* The inductive invariant behind the properties above.                     *)
(***************************************************************************)

\* p and q exchange a message in call c.
Peers(p, q, c) == p # q /\ (~viaKing[c] \/ p = pKing \/ q = pKing)

\* In its current call p has sent to q; q has taken p's message.
SentNow(p, q) == \/ phase[p] \in {"recv", "wait"} /\ ~Replies(p)
                 \/ phase[p] \in {"send", "reply"} /\ q < at[p]

TakenNow(q, p) == \/ phase[q] \in {"recv", "wait"} /\ p < at[q]
                  \/ phase[q] = "reply"

SentIn(p, q, c)  == /\ Peers(p, q, c)
                    /\ c < call[p] \/ (c = call[p] /\ SentNow(p, q))
TakenIn(q, p, c) == /\ Peers(p, q, c)
                    /\ c < call[q] \/ (c = call[q] /\ TakenNow(q, p))

InFlight(p, q, c) == SentIn(p, q, c) /\ ~TakenIn(q, p, c)

\* What p sends in call c.
SumOf(c) == VecTotal([q \in Party |-> arg[q][c]], numShares[c])

Payload(p, c) == IF viaKing[c] /\ p = pKing THEN SumOf(c) ELSE arg[p][c]

Entered(p, c) == c < call[p] \/ (c = call[p] /\ phase[p] # "idle")

\* The histories and the lists of the current call hold what they should.
DataInv ==
  \A p \in Party, c \in Call :
    /\ arg[p][c] \in Vec(numShares[c]) \cup {None}
    /\ arg[p][c] # None <=> Entered(p, c)
    /\ res[p][c] = IF c < call[p] THEN SumOf(c) ELSE None
    /\ c = call[p] /\ phase[p] # "idle" =>
         /\ LoopsOverAll(p) => share_recv[p][p] = arg[p][c]
         /\ \A q \in Party : Peers(q, p, c) /\ TakenNow(p, q)
                               => share_recv[p][q] = Payload(q, c)

\* Nothing is taken before it is sent.
TakenAfterSent ==
  \A p, q \in Party, c \in Call : TakenIn(q, p, c) => SentIn(p, q, c)

\* A channel holds exactly the messages sent and not yet taken, in the order
\* of their calls.
ChannelInv ==
  \A p, q \in Party :
    /\ \A i \in 1 .. Len(chan[p][q]), c \in Call :
         chan[p][q][i].call = c
           => InFlight(p, q, c) /\ chan[p][q][i].val = Payload(p, c)
    /\ \A i, j \in 1 .. Len(chan[p][q]) :
         i < j => chan[p][q][i].call < chan[p][q][j].call
    /\ \A c \in Call :
         InFlight(p, q, c) => \E i \in 1 .. Len(chan[p][q]) : chan[p][q][i].call = c

\* Where p is done with q in its current call, or about to block on it, its
\* buffer to q is empty; only messages of the current call are ever buffered.
FlushedNow(p, q) == \/ phase[p] = "recv" /\ q < at[p]
                    \/ phase[p] = "wait" /\ q <= at[p]
                    \/ phase[p] = "reply"

FlushInv ==
  \A p, q \in Party :
    /\ inSock[p][q] \in 0 .. Len(chan[p][q])
    /\ chan[p][q] # <<>> => sent[p][q]
    /\ \A i \in 1 .. Len(chan[p][q]) :
         chan[p][q][i].call < call[p] \/ FlushedNow(p, q) => i <= inSock[p][q]

IInv == TypeOK /\ DataInv /\ TakenAfterSent /\ ChannelInv /\ FlushInv
=============================================================================
