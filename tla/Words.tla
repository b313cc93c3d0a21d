-------------------------------- MODULE Words --------------------------------
(***************************************************************************)
(* The ring that values and shares live in.  Ring is uint64_t in the code   *)
(* (utils/types.h), so its arithmetic wraps at RingSize = 2^64; the models  *)
(* keep the modulus as a constant.                                          *)
(***************************************************************************)
EXTENDS Integers

CONSTANT RingSize   \* 2^64 in the code

Ring == 0 .. RingSize - 1
=============================================================================
