----------------------------- MODULE MCSecureEval -----------------------------
(***************************************************************************)
(* Circuits for SecureEval.                                                 *)
(***************************************************************************)
EXTENDS SecureEval

\* Every kind of gate, local gates above and below interactive ones of the
\* same level, an equality test next to a reconstruction, and an opened wire
\* that is read by a local gate and is an output.
EveryGate == << Gate("kInp", 0), Gate("kInp", 1), ConstOpGate("kConstAdd", 0, 1, 2),
                FIn2Gate("kMul", 2, 1, 3), FIn2Gate("kSub", 3, 0, 4),
                ConstOpGate("kConstMul", 4, 3, 5), FIn1Gate("kEqz", 5, 6),
                FIn1Gate("kRec", 4, 7), FIn2Gate("kAdd", 6, 7, 8) >>
EveryOutputs == <<5, 7, 8>>

\* Draws under which the equality test wraps for some inputs and not others.
SomeStreams == { <<3, 1, 2, 0, 3, 2, 1, 3, 0>>, <<2, 3, 0, 1, 2, 1, 3, 0, 1>>,
                 <<1, 0, 3, 3, 2, 0, 2, 1, 3>>, <<0, 2, 1, 2, 3, 3, 0, 2, 1>>,
                 <<1, 3, 2, 1, 0, 2, 3, 1, 2>>, <<2, 1, 3, 3, 1, 0, 2, 3, 0>> }

OneTest == << Gate("kInp", 0), FIn1Gate("kEqz", 0, 1) >>
TestOutput == <<1>>

TwoInputs == << Gate("kInp", 0), Gate("kInp", 1) >>
NoOutput  == <<>>

\* All processes name the same owner for each input, who has the value v.
Agreed(owner, v) == [random |-> FALSE, owner |-> [p \in Party |-> owner],
                     value |-> [p \in Party |-> v]]

\* All inputs from party 2.
OneOwner == {Agreed([k \in 1 .. numInputs |-> 2], v) : v \in Vec(numInputs)}

\* The owner map of benchmark/reconstruction.cpp, where every process takes
\* itself for the owner and has values of its own; owner 0 for all inputs
\* (test/offline.cpp:463); and setRandomInputs.
OwnIds == [random |-> FALSE,
           owner |-> [p \in Party |-> [k \in 1 .. numInputs |-> p]],
           value |-> [p \in Party |-> [k \in 1 .. numInputs |-> (2 * p + k) % RingSize]]]
Nobody == Agreed([k \in 1 .. numInputs |-> 0], [k \in 1 .. numInputs |-> 0])
Random == [Nobody EXCEPT !.random = TRUE]

AllCases == OneOwner \cup {OwnIds, Nobody, Random}

\* One input from each of two parties (test/online.cpp:358).
TwoOwners == {Agreed(<<1, 2>>, v) : v \in Vec(2)}
=============================================================================
