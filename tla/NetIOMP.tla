------------------------------- MODULE NetIOMP -------------------------------
(***************************************************************************)
(* Point-to-point channels between the nP + 1 processes (io/netmp.h).  For  *)
(* every ordered pair there is one NetIO stream: send appends to the stdio  *)
(* buffer of that stream, and only a flush hands the buffered messages to   *)
(* the socket, where the peer can read them.  chan[p][q] holds what p has   *)
(* sent to q and q has not read yet, oldest first, and the first            *)
(* inSock[p][q] messages of it have left p's buffer.                        *)
(***************************************************************************)
EXTENDS RingSum, Sequences

CONSTANT Clang   \* TRUE when built with clang: send flushes at once

ASSUME NetIOMPAssumption == Clang \in BOOLEAN

Node == 0 .. nP

VARIABLES chan,     \* chan[p][q]: the messages from p to q not yet read
          inSock,   \* inSock[p][q]: how many of them have been flushed
          sent      \* sent[p][q]: p has sent to q at least once

netVars == <<chan, inSock, sent>>

NetInit == /\ chan   = [p \in Node |-> [q \in Node |-> <<>>]]
           /\ inSock = [p \in Node |-> [q \in Node |-> 0]]
           /\ sent   = [p \in Node |-> [q \in Node |-> FALSE]]

\* NetIOMP::send; the message stays in the buffer unless send flushes.
Send(p, dst, m) ==
  /\ chan' = [chan EXCEPT ![p][dst] = Append(@, m)]
  /\ sent' = [sent EXCEPT ![p][dst] = TRUE]
  /\ inSock' = IF Clang
               THEN [inSock EXCEPT ![p][dst] = Len(chan[p][dst]) + 1]
               ELSE inSock

\* send followed by flush(dst).
SendAndFlush(p, dst, m) ==
  /\ chan' = [chan EXCEPT ![p][dst] = Append(@, m)]
  /\ sent' = [sent EXCEPT ![p][dst] = TRUE]
  /\ inSock' = [inSock EXCEPT ![p][dst] = Len(chan[p][dst]) + 1]

\* flush() without a peer.
FlushAll(p) ==
  /\ inSock' = [inSock EXCEPT ![p] = [q \in Node |-> Len(chan[p][q])]]
  /\ UNCHANGED <<chan, sent>>

\* Fault: recv blocks without flushing.
NoFlushBeforeRecv(p, src) == UNCHANGED netVars

\* Fault: the flags have no entry for the last node.
FlushBeforeRecvShort(p, src) ==
  /\ inSock' = IF src < nP /\ sent[p][src]
               THEN [inSock EXCEPT ![p][src] = Len(chan[p][src])]
               ELSE inSock
  /\ UNCHANGED <<chan, sent>>

\* The first half of NetIOMP::recv: flush what was sent to the peer before
\* blocking on what the peer sends.
FlushBeforeRecv(p, src) ==
  /\ inSock' = IF sent[p][src]
               THEN [inSock EXCEPT ![p][src] = Len(chan[p][src])]
               ELSE inSock
  /\ UNCHANGED <<chan, sent>>

\* The second half of NetIOMP::recv: recv_data blocks until the peer's next
\* message is in the socket and takes it.
Arrived(p, src) == inSock[src][p] > 0

TakeMessage(p, src) ==
  /\ Arrived(p, src)
  /\ chan' = [chan EXCEPT ![src][p] = Tail(@)]
  /\ inSock' = [inSock EXCEPT ![src][p] = @ - 1]
  /\ UNCHANGED sent

-----------------------------------------------------------------------------
\* The peer that sendRelative and recvRelative address: the remainder of C++,
\* made positive.
Relative(p, offset) == (p + offset) % (nP + 1)
=============================================================================
