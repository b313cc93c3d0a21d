-------------------------- MODULE MCBoundedExchange --------------------------
(***************************************************************************)
(* Elements of four bytes.  Direct exchanges ask for room for two, vectors   *)
(* for twice their length until that is no int: 8 * 4 exceeds 31.            *)
(***************************************************************************)
EXTENDS BoundedExchange

AroundTheLimits == [mode : Modes, length : 1 .. 4, limit : {4, 8, 15}, bufCap : {1, 3}]
=============================================================================
