------------------------------ MODULE AllReduce ------------------------------
(***************************************************************************)
(* What one reconstruction promises to the evaluator, whatever messages     *)
(* carry it: a call returns on a party only after every party has entered   *)
(* the same call, and it returns the element-wise sum of the lists the      *)
(* parties entered it with.  Calls are matched by their position in each    *)
(* party's sequence of calls.                                               *)
(***************************************************************************)
EXTENDS RingSum

CONSTANTS numCalls, numShares

Call == 1 .. numCalls
None == <<>>

VARIABLES arg,   \* arg[p][c]: the list p entered call c with, or None
          res    \* res[p][c]: the list call c returned on p, or None

vars == <<arg, res>>

Init == /\ arg = [p \in Party |-> [c \in Call |-> None]]
        /\ res = [p \in Party |-> [c \in Call |-> None]]

\* Party p enters its next call.
Enter(p, c, v) ==
  /\ arg[p][c] = None
  /\ \A b \in 1 .. c - 1 : res[p][b] # None
  /\ arg' = [arg EXCEPT ![p][c] = v]
  /\ UNCHANGED res

Leave(p, c) ==
  /\ res[p][c] = None
  /\ \A q \in Party : arg[q][c] # None
  /\ res' = [res EXCEPT ![p][c] =
               VecTotal([q \in Party |-> arg[q][c]], numShares[c])]
  /\ UNCHANGED arg

Next == \E p \in Party, c \in Call :
          \/ \E v \in Vec(numShares[c]) : Enter(p, c, v)
          \/ Leave(p, c)

Spec == Init /\ [][Next]_vars
=============================================================================
