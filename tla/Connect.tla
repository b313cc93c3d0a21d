------------------------------- MODULE Connect -------------------------------
(***************************************************************************)
(* The constructor of NetIOMP (io/netmp.h): every two of the nP + 1 nodes   *)
(* open two connections, ios and ios2.  Each node runs a loop over i, which *)
(* OpenMP may spread over several threads, and creates the connections      *)
(* (i, j) that it is part of, blocking in each.  Creating a NetIO is        *)
(* emp-tool's code: with an address it retries to connect until somebody    *)
(* listens there, without one it binds, listens and accepts one client.     *)
(***************************************************************************)
EXTENDS RingSum, Sequences

CONSTANT Threads   \* how many threads OpenMP may give a process

ASSUME ConnectAssumption == Threads \subseteq Nat \ {0}

Node == 0 .. nP
Conn == {"ios", "ios2"}

VARIABLES threads,     \* threads[p]: what OpenMP gave process p
          localhost,   \* are all processes on one machine?
          made,        \* made[p][i]: connections iteration i of p has made
          stage,       \* stage[p][i]: is it waiting in accept?
          queue,       \* queue[p][i]: clients connected to its listener
          link         \* link[p][q][c]: whom p's connection c to q reaches

vars == <<threads, localhost, made, stage, queue, link>>
-----------------------------------------------------------------------------
\* The loop is cut into contiguous chunks of nearly equal size, one a thread.
Thread(p, i) == (i * threads[p]) \div (nP + 1)

\* Iteration i = p serves all j > p, an iteration below p only the pair (i, p).
ToMake(p, i) == IF i = p THEN 2 * (nP - p) ELSE IF i < p THEN 2 ELSE 0

Complete(p, i) == made[p][i] = ToMake(p, i)

Running(p, i) == /\ ~Complete(p, i)
                 /\ \A k \in 0 .. i - 1 : Thread(p, k) = Thread(p, i) => Complete(p, k)

\* Fault: the higher node of a pair opens ios2 first.
ConnSwapped(p, i, k) == IF (k % 2 = 1) <=> (i = p) THEN "ios" ELSE "ios2"

\* The k-th connection of iteration i: which one it is, and to whom.
ConnAt(p, i, k) == IF k % 2 = 1 THEN "ios" ELSE "ios2"
PeerAt(p, i, k) == IF i = p THEN p + (k + 1) \div 2 ELSE i

\* The lower node of a pair has the address for ios, the higher for ios2.
IsClient(p, q, c) == (c = "ios") <=> (p < q)

\* Fault: consecutive pairs get consecutive ports.
PortPacked(p, q, c) ==
  LET i == IF p < q THEN p ELSE q
      j == IF p < q THEN q ELSE p
  IN  i * (nP + 1) + j + (IF c = "ios" THEN 0 ELSE 1)

\* The port of a connection, less the base port.
Port(p, q, c) ==
  LET i == IF p < q THEN p ELSE q
      j == IF p < q THEN q ELSE p
  IN  2 * (i * (nP + 1) + j) + (IF c = "ios" THEN 0 ELSE 1)

Host(p) == IF localhost THEN 0 ELSE p

\* The connection that iteration i of p makes next, and where its server is.
NextConn(p, i) == ConnAt(p, i, made[p][i] + 1)
NextPeer(p, i) == PeerAt(p, i, made[p][i] + 1)
AsClient(p, i) == IsClient(p, NextPeer(p, i), NextConn(p, i))

Address(p, i) == <<Host(IF AsClient(p, i) THEN NextPeer(p, i) ELSE p),
                   Port(p, NextPeer(p, i), NextConn(p, i))>>

Nobody == <<>>
-----------------------------------------------------------------------------
Init ==
  /\ threads \in [Node -> Threads]
  /\ localhost \in BOOLEAN
  /\ made  = [p \in Node |-> [i \in Node |-> 0]]
  /\ stage = [p \in Node |-> [i \in Node |-> "create"]]
  /\ queue = [p \in Node |-> [i \in Node |-> <<>>]]
  /\ link  = [p \in Node |-> [q \in Node |-> [c \in Conn |-> Nobody]]]

\* The connection that iteration i of p makes reaches e.
Made(p, i, e) ==
  /\ link' = [link EXCEPT ![p][NextPeer(p, i)][NextConn(p, i)] = e]
  /\ made' = [made EXCEPT ![p][i] = @ + 1]

\* This end, as the other end sees it.
End(p, i) == <<p, NextPeer(p, i), NextConn(p, i)>>

\* A server binds and listens; an address that is in use would end the process.
Listen(p, i) ==
  /\ Running(p, i)
  /\ stage[p][i] = "create"
  /\ ~AsClient(p, i)
  /\ \A q \in Node, k \in Node : stage[q][k] = "accept" => Address(q, k) # Address(p, i)
  /\ stage' = [stage EXCEPT ![p][i] = "accept"]
  /\ UNCHANGED <<threads, localhost, made, queue, link>>

\* A client gets through as soon as somebody listens at the address, before
\* the server has accepted.
Connect(p, i) ==
  /\ Running(p, i)
  /\ AsClient(p, i)
  /\ \E q \in Node, k \in Node :
       /\ stage[q][k] = "accept"
       /\ Address(q, k) = Address(p, i)
       /\ queue' = [queue EXCEPT ![q][k] = Append(@, End(p, i))]
       /\ Made(p, i, End(q, k))
  /\ UNCHANGED <<threads, localhost, stage>>

\* The server takes the first client and closes the listening socket.
Accept(p, i) ==
  /\ stage[p][i] = "accept"
  /\ queue[p][i] # <<>>
  /\ Made(p, i, Head(queue[p][i]))
  /\ stage' = [stage EXCEPT ![p][i] = "create"]
  /\ queue' = [queue EXCEPT ![p][i] = <<>>]
  /\ UNCHANGED <<threads, localhost>>

Step(p, i) == Listen(p, i) \/ Connect(p, i) \/ Accept(p, i)

\* The constructor returns when all iterations are complete.
Constructed(p) == \A i \in Node : Complete(p, i)

Finished == (\A p \in Node : Constructed(p)) /\ UNCHANGED vars

Next == (\E p, i \in Node : Step(p, i)) \/ Finished

\* The threads of every process keep running.
Spec == /\ Init /\ [][Next]_vars
        /\ \A p, i \in Node : WF_vars(Step(p, i))
-----------------------------------------------------------------------------
\* Type invariant.
Ends == Node \X Node \X Conn

TypeOK ==
  /\ threads \in [Node -> Threads]
  /\ made \in [Node -> [Node -> Nat]]
  /\ \A p, i \in Node : made[p][i] <= ToMake(p, i)
  /\ stage \in [Node -> [Node -> {"create", "accept"}]]
  /\ queue \in [Node -> [Node -> Seq(Ends)]]
  /\ link \in [Node -> [Node -> [Conn -> Ends \cup {Nobody}]]]

\* Nothing in the code says hello on a new connection, so the ports alone must
\* pair the ends: a connection to q leads to q, to q's connection of the same
\* name with this node, also when all processes share one machine.
RightPeer ==
  \A p, q \in Node, c \in Conn : link[p][q][c] \in {Nobody, <<q, p, c>>}

\* The blocking connects and accepts never wait for one another in a circle,
\* however many threads each process has: every constructor returns.
AllConstructed == <>(\A p \in Node : Constructed(p))

\* The guards of Listen, Connect and Accept.
CanListen(p, i) ==
  /\ Running(p, i) /\ stage[p][i] = "create" /\ ~AsClient(p, i)
  /\ \A q, k \in Node : stage[q][k] = "accept" => Address(q, k) # Address(p, i)
CanConnect(p, i) ==
  /\ Running(p, i) /\ AsClient(p, i)
  /\ \E q, k \in Node : stage[q][k] = "accept" /\ Address(q, k) = Address(p, i)
CanAccept(p, i) == stage[p][i] = "accept" /\ queue[p][i] # <<>>

\* As long as a constructor has not returned, some iteration of some process
\* can go on, and it is not an address in use that it stops at.
NoDeadlock ==
  \/ \A p \in Node : Constructed(p)
  \/ \E p, i \in Node : CanListen(p, i) \/ CanConnect(p, i) \/ CanAccept(p, i)
=============================================================================
