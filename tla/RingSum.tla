------------------------------- MODULE RingSum -------------------------------
(***************************************************************************)
(* The aggregation of one ring element per party, as every reconstruction   *)
(* does it.                                                                 *)
(***************************************************************************)
EXTENDS Words, Parties

ASSUME RingSumAssumption == /\ nP \in Nat \ {0}
                            /\ RingSize \in Nat \ {0}

\* The aggregation loop: an accumulator that starts at zero and takes the
\* parties' values one after the other, wrapping at every step.
Partial(x) ==
  LET acc[k \in 0 .. nP] == IF k = 0 THEN 0 ELSE (acc[k - 1] + x[k]) % RingSize
  IN  acc

Total(x) == Partial(x)[nP]

\* A list of n ring elements, as reconstruct and getOutputs exchange them.
Vec(n) == [1 .. n -> Ring]

\* The element-wise aggregation of one list per party.
VecTotal(x, n) == [i \in 1 .. n |-> Total([p \in Party |-> x[p][i]])]
=============================================================================
