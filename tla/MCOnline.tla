------------------------------- MODULE MCOnline -------------------------------
(***************************************************************************)
(* A circuit for Online: a multiplication above a constant, an equality     *)
(* test and the opening of the product, a local gate on both; four calls     *)
(* through the king, of two values and of one, then the outputs.                       *)
(***************************************************************************)
EXTENDS Online

TestOfProduct == << Gate("kInp", 0), ConstOpGate("kConstAdd", 0, 1, 1), FIn2Gate("kMul", 0, 1, 2),
                    FIn1Gate("kEqz", 2, 3), FIn1Gate("kRec", 2, 4),
                    FIn2Gate("kSub", 3, 4, 5) >>
BothOutputs == <<5, 2>>

\* The input comes from party 2.
OneOwner == {[random |-> FALSE,
              owner  |-> [p \in Party |-> <<2>>],
              value  |-> [p \in Party |-> <<v>>]] : v \in Ring}

TwoStreams == { <<3, 1, 2, 0, 3, 2, 1, 3, 0>>, <<2, 3, 0, 1, 2, 1, 3, 0, 1>> }
=============================================================================
