-------------------------------- MODULE Relay --------------------------------
(***************************************************************************)
(* The programs of test/io.cpp: node 0 sends a message and receives what     *)
(* comes back, every other node receives it and passes it on.  In            *)
(* mssg_pass_4P it goes once round all nodes and every send is flushed; in   *)
(* echo_bool (and echo_2P) node 1 returns it to node 0, nobody calls         *)
(* flush(), and the last word leaves its buffer when NetIO is destroyed.     *)
(***************************************************************************)
EXTENDS NetIOMP, BitPacking

CONSTANT Lengths   \* of the messages, in bits

ASSUME RelayAssumption == Lengths \subseteq Nat \ {0}

VARIABLES test,       \* the program that runs
          message,    \* the bits node 0 sends
          at,         \* where node p is in its program
          pos,        \* the loop variable of sendBool and recvBool
          data        \* the bits it sends, or has received so far

relayVars == <<netVars, test, message, at, pos, data>>

Tests == {"mssg_pass_4P", "echo_bool"}

\* The nodes that take part, and the neighbours that they send to and receive
\* from.
Members == IF test = "mssg_pass_4P" THEN Node ELSE {0, 1}

To(p)   == IF test = "mssg_pass_4P" THEN Relative(p, 1) ELSE 1 - p
From(p) == IF test = "mssg_pass_4P" THEN Relative(p, -1) ELSE 1 - p

Size == Len(message)

\* A string is one message on its stream, as a list that fits a word is.
RelayInit ==
  /\ NetInit
  /\ test \in Tests
  /\ message \in UNION {[1 .. n -> BOOLEAN] : n \in Lengths}
  /\ test = "mssg_pass_4P" => Size <= WORDBITS
  /\ at   = [p \in Node |-> IF p = 0 THEN "send" ELSE "recv"]
  /\ pos  = [p \in Node |-> 0]
  /\ data = [p \in Node |-> IF p = 0 THEN message ELSE <<>>]

Constant == UNCHANGED <<test, message>>

\* One turn of the loop of sendBool.
SendWord(p) ==
  /\ at[p] = "send"
  /\ pos[p] < Size
  /\ Send(p, To(p), PackFrom(data[p], pos[p], WORDBITS))
  /\ pos' = [pos EXCEPT ![p] = @ + Filled(@, Size, WORDBITS)]
  /\ Constant /\ UNCHANGED <<at, data>>

\* The message is sent; node 0 turns to receiving.
MessageSent(p) ==
  /\ at[p] = "send"
  /\ pos[p] = Size
  /\ IF test = "mssg_pass_4P" THEN FlushAll(p) ELSE UNCHANGED netVars
  /\ pos' = [pos EXCEPT ![p] = 0]
  /\ at' = [at EXCEPT ![p] = IF p = 0 THEN "recv" ELSE "end"]
  /\ data' = [data EXCEPT ![p] = IF p = 0 THEN <<>> ELSE @]
  /\ Constant

\* One turn of the loop of recvBool.
AwaitWord(p) ==
  /\ at[p] = "recv"
  /\ pos[p] < Size
  /\ FlushBeforeRecv(p, From(p))
  /\ at' = [at EXCEPT ![p] = "wait"]
  /\ Constant /\ UNCHANGED <<pos, data>>

RecvWord(p) ==
  /\ at[p] = "wait"
  /\ TakeMessage(p, From(p))
  /\ LET n == Filled(pos[p], Size, WORDBITS)
     IN  /\ data' = [data EXCEPT ![p] = @ \o UnpackWord(Head(chan[From(p)][p]), n)]
         /\ pos' = [pos EXCEPT ![p] = @ + n]
  /\ at' = [at EXCEPT ![p] = "recv"]
  /\ Constant

\* The message is received; every node but node 0 passes it on.
MessageReceived(p) ==
  /\ at[p] = "recv"
  /\ pos[p] = Size
  /\ pos' = [pos EXCEPT ![p] = 0]
  /\ at' = [at EXCEPT ![p] = IF p = 0 THEN "end" ELSE "send"]
  /\ Constant /\ UNCHANGED <<netVars, data>>

\* Fault: the connections are closed as they are.
CloseUnflushed(p) ==
  /\ at[p] = "end"
  /\ at' = [at EXCEPT ![p] = "closed"]
  /\ Constant /\ UNCHANGED <<netVars, pos, data>>

\* The program ends, and the destructor of NetIO flushes.
Close(p) ==
  /\ at[p] = "end"
  /\ FlushAll(p)
  /\ at' = [at EXCEPT ![p] = "closed"]
  /\ Constant /\ UNCHANGED <<pos, data>>

NodeStep(p) == \/ SendWord(p) \/ MessageSent(p)     \/ AwaitWord(p)
               \/ RecvWord(p) \/ MessageReceived(p) \/ Close(p)

RelayNext == \E p \in Members : NodeStep(p)

\* Every node is a process or thread that keeps running.
RelaySpec == /\ RelayInit /\ [][RelayNext]_relayVars
             /\ \A p \in Node : WF_relayVars(p \in Members /\ NodeStep(p))
-----------------------------------------------------------------------------
\* p has the whole message: node 0 when it ends, the others from when they
\* start to pass it on.
HasAll(p) == \/ at[p] \in {"end", "closed"}
             \/ p # 0 /\ at[p] = "send"

\* A node that has the whole message has it as node 0 sent it, whatever its
\* length leaves of its last word: both ends round a list up to the same number
\* of words and fill them in the same order (netmp.h:140, netmp.h:189).
BitsArrive == \A p \in Members : HasAll(p) => data[p] = message

\* p is not blocked in a receive, and has not ended.
NodeGoesOn(p) == \/ at[p] \in {"send", "recv", "end"}
                 \/ at[p] = "wait" /\ Arrived(p, From(p))

\* The nodes never all wait for one another.  A node that waits has flushed what
\* it sent, by flush() or because recv flushes to the node it reads from, which
\* in an echo is the one it has sent to (netmp.h:162).
RingGoesOn == \/ \A p \in Members : at[p] = "closed"
              \/ \E p \in Members : NodeGoesOn(p)

\* Every program ends.  In an echo the last send of node 1 is flushed by nothing
\* but the end of its program (test/io.cpp:18-19).
EveryoneEnds == <>(\A p \in Members : at[p] = "closed")

\* The three layouts agree: unpacking is the inverse of packing, in words and in
\* bytes; a little-endian word is the bytes of its bits; a word is its bits.
LayoutsAgree ==
  LET w == packBool(message)
      b == pack(message)
      perWord == WORDBITS \div BYTEBITS
  IN  /\ unpackBool(w, Size) = message
      /\ unpack(b, Size) = message
      /\ \A k \in DOMAIN w, j \in 1 .. perWord :
           (w[k] \div 2 ^ (BYTEBITS * (j - 1))) % 2 ^ BYTEBITS =
             IF (k - 1) * perWord + j \in DOMAIN b THEN b[(k - 1) * perWord + j] ELSE 0
      /\ \A k \in DOMAIN w : packBool(bitDecompose(w[k])) = << w[k] >>
=============================================================================
