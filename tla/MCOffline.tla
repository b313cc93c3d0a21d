------------------------------ MODULE MCOffline ------------------------------
(***************************************************************************)
(* Offline for a circuit with one multiplication and one equality test, over *)
(* two-bit words and streams with no two neighbouring values alike.          *)
(***************************************************************************)
EXTENDS Offline

MulThenEqz == << Gate("kInp", 0), Gate("kInp", 1), FIn2Gate("kMul", 0, 1, 2),
                 FIn1Gate("kEqz", 2, 3) >>

SomeStreams == { <<3, 1, 2, 0, 3, 2, 1, 3, 0, 2>>, <<2, 3, 0, 1, 2, 1, 3, 0, 1, 0>> }
=============================================================================
