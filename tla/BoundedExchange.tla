--------------------------- MODULE BoundedExchange ---------------------------
(***************************************************************************)
(* Exchanges of long lists over connections of bounded capacity.  NetIOMP    *)
(* leaves the sizes of the stdio and socket buffers to the system, and the   *)
(* benchmarks enlarge the latter "to prevent deadlocks": a send blocks when  *)
(* both are full, a flush when the socket is.  Sockets are asked for in      *)
(* bytes; lists and buffers are counted in elements here.  What they carry   *)
(* and which call reads it is the subject of Reconstruct.                    *)
(***************************************************************************)
EXTENDS Parties, Sequences

CONSTANTS numCalls,
          RingBytes,      \* sizeof(Ring)
          IntMax,         \* INT_MAX
          MinRequest,     \* 16 * 1024 * 1024
          FixedRequest,   \* 128 * 1024 * 1024
          Cases           \* records of a mode, the length of a list, what the
                          \* system grants a socket, and the room of a buffer

Modes == {"direct", "king", "vector"}

\* A party alone exchanges nothing, and every socket takes an element.
ASSUME BoundedExchangeAssumption ==
  /\ nP \in Nat \ {0, 1} /\ numCalls \in Nat
  /\ RingBytes \in Nat \ {0} /\ IntMax \in Nat
  /\ MinRequest \in Nat /\ RingBytes <= MinRequest
  /\ FixedRequest \in Nat /\ RingBytes <= FixedRequest
  /\ Cases \subseteq [mode : Modes, length : Nat \ {0},
                      limit : {n \in Nat : RingBytes <= n}, bufCap : Nat \ {0}]

VARIABLES setup,    \* the case of this run, with the capacity of its sockets
          call,     \* the call party p makes
          pc,       \* the operation of the call it is in
          moved,    \* how many units of its list the operation has moved
          buffered, \* buffered[p][q]: units in p's buffer to q
          socket    \* socket[p][q]: units in the socket from p to q

exchangeVars == <<setup, call, pc, moved, buffered, socket>>

-----------------------------------------------------------------------------
(* What a party does in one call: the sequence of its blocking operations.   *)

\* The loops over the other parties, in ascending order.
Others(p) == [k \in 1 .. nP - 1 |-> IF k < p THEN k ELSE k + 1]

\* The operations ops for every peer in qs, one peer after the other.
ForEach(qs, ops) ==
  [k \in 1 .. Len(qs) * Len(ops) |->
     [op |-> ops[1 + ((k - 1) % Len(ops))], peer |-> qs[1 + ((k - 1) \div Len(ops))]]]

\* recv flushes the channel to the peer first.
RecvOps == <<"flush", "recv">>

\* Fault: the king leaves its answers in the buffers.
KingCallUnflushed(p) ==
  IF p = pKing
  THEN ForEach(Others(p), RecvOps) \o ForEach(Others(p), <<"send">>)
  ELSE ForEach(<<pKing>>, <<"send">> \o RecvOps)

KingCall(p) ==
  IF p = pKing
  THEN ForEach(Others(p), RecvOps) \o ForEach(Others(p), <<"send", "flush">>)
  ELSE ForEach(<<pKing>>, <<"send">> \o RecvOps)

DirectCall(p) == ForEach(Others(p), <<"send">>) \o ForEach(Others(p), RecvOps)

\* Fault: the receive loop stops one peer short.
VectorCallShort(p) == ForEach(Others(p), <<"send">>) \o ForEach(Others(p), <<"flush">>)
                        \o ForEach(SubSeq(Others(p), 1, nP - 2), RecvOps)

\* The benchmark numbers its parties from zero.
VectorCall(p) == ForEach(Others(p), <<"send">>) \o ForEach(Others(p), <<"flush">>)
                   \o ForEach(Others(p), RecvOps)

Ops == [king   |-> [p \in Party |-> KingCall(p)],
        direct |-> [p \in Party |-> DirectCall(p)],
        vector |-> [p \in Party |-> VectorCall(p)]]

Program(p) == Ops[setup.mode][p]

-----------------------------------------------------------------------------
(* What the sockets hold.                                                    *)

\* What is left of a number in an int.
Wrapped(v) == ((v + IntMax + 1) % (2 * (IntMax + 1))) - (IntMax + 1)

Larger(a, b) == IF a > b THEN a ELSE b

\* Fault: the elements are counted, not their bytes.
VectorRequestElements(length) == Larger(MinRequest, Wrapped(length * 2))

\* The vector benchmark asks for twice its vector, computed in int.
VectorRequest(length) == Larger(MinRequest, Wrapped(length * RingBytes * 2))

\* How many elements a socket takes: increaseSocketBuffers asks for the same at
\* every channel, and the system grants no more than its limit.
Capacity(c) ==
  LET request == IF c.mode = "vector" THEN VectorRequest(c.length) ELSE FixedRequest
      granted == IF request < c.limit THEN request ELSE c.limit
  IN  granted \div RingBytes

Setups == {[mode |-> c.mode, length |-> c.length, limit |-> c.limit, bufCap |-> c.bufCap,
            sockCap |-> Capacity(c)] : c \in Cases}

-----------------------------------------------------------------------------
(* The calls.                                                                *)

ExchangeInit ==
  /\ setup \in Setups
  /\ call  = [p \in Party |-> 1]
  /\ pc    = [p \in Party |-> 1]
  /\ moved = [p \in Party |-> 0]
  /\ buffered = [p \in Party |-> [q \in Party |-> 0]]
  /\ socket   = [p \in Party |-> [q \in Party |-> 0]]

InCall(p) == call[p] <= numCalls

Doing(p, op) == InCall(p) /\ Program(p)[pc[p]].op = op

PeerOf(p) == Program(p)[pc[p]].peer

\* The operation has ended, and with the last one the call.
Advance(p) ==
  IF pc[p] = Len(Program(p))
  THEN /\ pc' = [pc EXCEPT ![p] = 1]
       /\ call' = [call EXCEPT ![p] = @ + 1]
  ELSE /\ pc' = [pc EXCEPT ![p] = @ + 1]
       /\ UNCHANGED call

\* One more unit is moved; the operation ends with the last one.
Move(p) == IF moved[p] + 1 = setup.length
           THEN /\ moved' = [moved EXCEPT ![p] = 0]
                /\ Advance(p)
           ELSE /\ moved' = [moved EXCEPT ![p] = @ + 1]
                /\ UNCHANGED <<call, pc>>

\* send_data appends to the buffer as long as there is room.
Buffer(p) ==
  /\ Doing(p, "send")
  /\ buffered[p][PeerOf(p)] < setup.bufCap
  /\ buffered' = [buffered EXCEPT ![p][PeerOf(p)] = @ + 1]
  /\ Move(p)
  /\ UNCHANGED <<setup, socket>>

\* A full buffer, or one that is flushed, empties into the socket, where
\* there is room.
MustDrain(p) == \/ Doing(p, "send") /\ buffered[p][PeerOf(p)] = setup.bufCap
                \/ Doing(p, "flush") /\ buffered[p][PeerOf(p)] > 0

Drain(p) ==
  /\ MustDrain(p)
  /\ socket[p][PeerOf(p)] < setup.sockCap
  /\ buffered' = [buffered EXCEPT ![p][PeerOf(p)] = @ - 1]
  /\ socket' = [socket EXCEPT ![p][PeerOf(p)] = @ + 1]
  /\ UNCHANGED <<setup, call, pc, moved>>

Flushed(p) ==
  /\ Doing(p, "flush")
  /\ buffered[p][PeerOf(p)] = 0
  /\ Advance(p)
  /\ UNCHANGED <<setup, moved, buffered, socket>>

\* recv_data reads what has arrived, until it has the list.
Receive(p) ==
  /\ Doing(p, "recv")
  /\ socket[PeerOf(p)][p] > 0
  /\ socket' = [socket EXCEPT ![PeerOf(p)][p] = @ - 1]
  /\ Move(p)
  /\ UNCHANGED <<setup, buffered>>

PartyStep(p) == Buffer(p) \/ Drain(p) \/ Flushed(p) \/ Receive(p)

ExchangeNext == \E p \in Party : PartyStep(p)

\* Every party is a process that the operating system keeps running.
ExchangeSpec == /\ ExchangeInit /\ [][ExchangeNext]_exchangeVars
                /\ \A p \in Party : WF_exchangeVars(PartyStep(p))
-----------------------------------------------------------------------------
AllReturned == \A p \in Party : ~InCall(p)

\* What the benchmarks count on.  Through the king an exchange asks nothing of
\* the sockets.  A list that is sent head-on has to fit: into what the system
\* grants, and into what is asked for, which in the vector benchmark is twice
\* the vector as long as that is an int.
Promised ==
  \/ setup.mode = "king"
  \/ /\ setup.length * RingBytes <= setup.limit
     /\ \/ setup.mode = "direct" /\ setup.length * RingBytes <= FixedRequest
        \/ setup.mode = "vector" /\ setup.length * RingBytes * 2 <= IntMax

\* Every party then returns from all its calls, although parties that are a call
\* ahead have a second list under way: "with increased buffer sizes, this should
\* not deadlock" (vector_reconstruction.cpp:104).
EndsWhenPromised == Promised ~> AllReturned

\* The guards of Buffer and Drain, of Drain and Flushed, and of Receive.
CanMove(p) ==
  \/ /\ Doing(p, "send")
     /\ buffered[p][PeerOf(p)] < setup.bufCap \/ socket[p][PeerOf(p)] < setup.sockCap
  \/ /\ Doing(p, "flush")
     /\ buffered[p][PeerOf(p)] = 0 \/ socket[p][PeerOf(p)] < setup.sockCap
  \/ Doing(p, "recv") /\ socket[PeerOf(p)][p] > 0

\* On the way the parties never all wait for one another, each in a send or a
\* flush that finds no room or in a receive that finds nothing: the parties of a
\* direct exchange all send before they receive (online_evaluator_load_balanced.cpp:58).
NeverStuck == Promised => AllReturned \/ \E p \in Party : CanMove(p)

\* Nothing is left in the buffers when everyone has returned.
NothingLeft ==
  AllReturned => \A p, q \in Party : buffered[p][q] = 0 /\ socket[p][q] = 0
=============================================================================
