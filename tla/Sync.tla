--------------------------------- MODULE Sync ---------------------------------
(***************************************************************************)
(* NetIOMP::sync over the NetIO connections (io/netmp.h).  Every two nodes   *)
(* share two connections: the data from the lower to the higher node goes   *)
(* over ios, the data the other way over ios2, and sync sends one byte in   *)
(* each direction of both.  NetIO is emp-tool's class, modelled from its use *)
(* here: send appends to the stdio buffer of the connection, recv flushes    *)
(* that buffer before it blocks, and a connection opened with an address is  *)
(* the client, which answers the byte of the server.                         *)
(***************************************************************************)
EXTENDS RingSum, Sequences

Node == 0 .. nP

Conn == {"ios", "ios2"}

VARIABLES buffer,   \* buffer[p][q][c]: what p has sent to q and not flushed
          socket,   \* socket[p][q][c]: what has left p and q has not read
          shake,    \* the handshake of sync that node p is in
          step      \* and where p is inside it

syncVars == <<buffer, socket, shake, step>>

Handshakes == 1 .. 2 * nP

\* sync goes through the pairs of nodes in lexicographic order, so a node
\* meets its peers in ascending order, first over ios, then over ios2.
Peer(p, k) == LET i == (k - 1) \div 2 IN IF i < p THEN i ELSE i + 1

ConnOf(k) == IF k % 2 = 1 THEN "ios" ELSE "ios2"

\* The constructor gives ios an address, and so makes it a client, on the
\* lower node of a pair; ios2 on the higher one.
IsServer(p, k) == (ConnOf(k) = "ios") <=> (p > Peer(p, k))

\* NetIOMP::send picks the connection by the direction of the data.
DataConn(p, dst) == IF p < dst THEN "ios" ELSE "ios2"

NetInit ==
  LET none == [p \in Node |-> [q \in Node |-> [c \in Conn |-> <<>>]]]
  IN  buffer = none /\ socket = none

Write(p, q, c, m) == buffer' = [buffer EXCEPT ![p][q][c] = Append(@, m)]

Flush(p, q, c) ==
  /\ socket' = [socket EXCEPT ![p][q][c] = @ \o buffer[p][q][c]]
  /\ buffer' = [buffer EXCEPT ![p][q][c] = <<>>]

Byte == [kind |-> "byte"]

FirstStep(p, k) ==
  IF k \notin Handshakes THEN "done" ELSE IF IsServer(p, k) THEN "send" ELSE "flush"

SyncInit == /\ shake = [p \in Node |-> 1]
            /\ step  = [p \in Node |-> "out"]

\* A node calls sync.
EnterSync(p) ==
  /\ step[p] = "out"
  /\ step' = [step EXCEPT ![p] = FirstStep(p, 1)]
  /\ UNCHANGED <<buffer, socket, shake>>

EndHandshake(p) ==
  /\ shake' = [shake EXCEPT ![p] = @ + 1]
  /\ step' = [step EXCEPT ![p] = FirstStep(p, shake[p] + 1)]

SyncSend(p) ==
  /\ step[p] = "send"
  /\ Write(p, Peer(p, shake[p]), ConnOf(shake[p]), Byte)
  /\ step' = [step EXCEPT ![p] = "flush"]
  /\ UNCHANGED <<socket, shake>>

SyncFlush(p) ==
  /\ step[p] = "flush"
  /\ Flush(p, Peer(p, shake[p]), ConnOf(shake[p]))
  /\ step' = [step EXCEPT ![p] = "recv"]
  /\ UNCHANGED shake

\* What the node reads next in its handshake.
Incoming(p) == socket[Peer(p, shake[p])][p][ConnOf(shake[p])]

SyncRecv(p) ==
  /\ step[p] = "recv"
  /\ Incoming(p) # <<>>
  /\ socket' = [socket EXCEPT ![Peer(p, shake[p])][p][ConnOf(shake[p])] = Tail(@)]
  /\ IF IsServer(p, shake[p])
     THEN EndHandshake(p)
     ELSE step' = [step EXCEPT ![p] = "reply"] /\ UNCHANGED shake
  /\ UNCHANGED buffer

\* Fault: the client leaves its answer in the buffer.
SyncReplyUnflushed(p) ==
  /\ step[p] = "reply"
  /\ Write(p, Peer(p, shake[p]), ConnOf(shake[p]), Byte)
  /\ EndHandshake(p)
  /\ UNCHANGED socket

SyncReply(p) ==
  /\ step[p] = "reply"
  /\ LET q == Peer(p, shake[p])
         c == ConnOf(shake[p])
     IN  /\ socket' = [socket EXCEPT ![p][q][c] = @ \o buffer[p][q][c] \o <<Byte>>]
         /\ buffer' = [buffer EXCEPT ![p][q][c] = <<>>]
  /\ EndHandshake(p)

SyncStep(p) == SyncSend(p) \/ SyncFlush(p) \/ SyncRecv(p) \/ SyncReply(p)
=============================================================================
