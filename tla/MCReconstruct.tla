---------------------------- MODULE MCReconstruct ----------------------------
(***************************************************************************)
(* An instance of Reconstruct: a level through the king, the outputs of that  *)
(* circuit, which are a direct call, and a level of the next, after which a    *)
(* caller of evaluateGatesAtDepth may stop.                                  *)
(***************************************************************************)
EXTENDS Reconstruct

KingDirectKing == <<TRUE, FALSE, TRUE>>
OneEach        == <<1, 1, 1>>
=============================================================================
