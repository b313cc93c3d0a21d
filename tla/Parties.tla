------------------------------- MODULE Parties -------------------------------
(***************************************************************************)
(* The computing parties; the dealer has id 0.                              *)
(***************************************************************************)
EXTENDS Integers

CONSTANT nP   \* number of computing parties

Party == 1 .. nP
pKing == 1
=============================================================================
