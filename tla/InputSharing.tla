----------------------------- MODULE InputSharing -----------------------------
(***************************************************************************)
(* OnlineEvaluator::setInputs: without a message, every party turns its      *)
(* pseudo-random streams into a share of each input, and a party that takes  *)
(* itself for the owner of the input expands the streams of all the others   *)
(* into what is left of it.  The loop works on the party's own copies of the *)
(* generators pi(i), so it is a function of its arguments.                   *)
(***************************************************************************)
EXTENDS RingSum, Sequences

\* The state of the loop: the shares of the inputs seen so far, and how often
\* the party has drawn from its pi(i).
Start == [share |-> <<>>, drawn |-> [i \in Party |-> 0]]

\* All generators of all pools are seeded alike and produce the same stream.
NextDraw(s, i, stream) == stream[s.drawn[i] + 1]

\* Fault: the owner draws all the others' shares from its own generator.
OwnFromSelf(p, v, s, stream) ==
  [share |-> Append(s.share, (v - (nP - 1) * NextDraw(s, p, stream)) % RingSize),
   drawn |-> [s.drawn EXCEPT ![p] = @ + nP - 1]]

\* The owner draws what each of the others will hold and keeps the rest.
Own(p, v, s, stream) ==
  LET others == [i \in Party |-> IF i = p THEN 0 ELSE NextDraw(s, i, stream)]
  IN  [share |-> Append(s.share, (v - Total(others)) % RingSize),
       drawn |-> [i \in Party |-> IF i = p THEN s.drawn[i] ELSE s.drawn[i] + 1]]

\* Everyone else draws its share from its own generator.
Hold(p, s, stream) ==
  [share |-> Append(s.share, NextDraw(s, p, stream)),
   drawn |-> [s.drawn EXCEPT ![p] = @ + 1]]

\* The whole loop on party p, which takes owner[k] for the owner of the k-th
\* input and knows value[k] where that is p itself.
SharesOfInputs(p, owner, value, stream) ==
  LET after[k \in 0 .. Len(owner)] ==
        IF k = 0 THEN Start
        ELSE IF owner[k] = p THEN Own(p, value[k], after[k - 1], stream)
                             ELSE Hold(p, after[k - 1], stream)
  IN  after[Len(owner)]

\* setRandomInputs: every party draws its share of every input.
RandomShares(p, n, stream) ==
  LET after[k \in 0 .. n] == IF k = 0 THEN Start ELSE Hold(p, after[k - 1], stream)
  IN  after[n]
=============================================================================
