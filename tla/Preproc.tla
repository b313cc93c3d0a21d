------------------------------- MODULE Preproc -------------------------------
(***************************************************************************)
(* The material the offline phase deals for a circuit: which values are     *)
(* shared for which gate, in which order, and how they must be related for   *)
(* the online phase to be right (offline_evaluator.cpp, preproc.h).          *)
(***************************************************************************)
EXTENDS CircuitOps, RingSum, FiniteSets

CONSTANT RINGSIZEBITS   \* 64 in the code

Bits == 0 .. RINGSIZEBITS - 1

\* The words are the numbers of RINGSIZEBITS bits; the modules that deal or use
\* material assume it, with what defines the powers of two they use.
WordsAreBits == /\ RINGSIZEBITS \in Nat \ {0}
                /\ RingSize = 2 ^ RINGSIZEBITS
                /\ 2 ^ 0 = 1
                /\ \A j \in Bits : 2 ^ (j + 1) = 2 * 2 ^ j

\* bitDecomposeToInt, least significant bit first.
Bit(v, j) == (v \div 2 ^ j) % 2

\* The values shared for gate g, in the order setWireMasksParty shares them:
\* the triple a, b, c = a * b of a multiplication; for an equality test r1,
\* its bits, r2, and r2 in unary.
GateItems(g) ==
  CASE g.type = "kMul" -> << <<g.out, "a">>, <<g.out, "b">>, <<g.out, "c">> >>
    [] g.type = "kEqz" ->
         << <<g.out, "r1">> >>
           \o [j \in 1 .. RINGSIZEBITS |-> <<g.out, "r1_bits", j - 1>>]
           \o << <<g.out, "r2">> >>
           \o [j \in 1 .. RINGSIZEBITS |-> <<g.out, "r2_bits", j - 1>>]
    [] OTHER -> <<>>

\* All of them, level by level, gate by gate.
LevelItems(level) == Joined([k \in DOMAIN level |-> GateItems(level[k])])

Items(gs) ==
  LET levels == GatesByLevel(gs)
  IN  Joined([l \in DOMAIN levels |-> LevelItems(levels[l])])

ItemSet(gs) == {Items(gs)[k] : k \in DOMAIN Items(gs)}

\* randomShare deals a uniform value; all others are shares of a secret that
\* the dealer computes, with the last party's share sent by message.
IsRandom(item) == item[2] \in {"a", "b", "r1"}

-----------------------------------------------------------------------------
IndexOf(items, item) == CHOOSE k \in DOMAIN items : items[k] = item

\* The secret behind an item that is not random, from the values of the items
\* dealt before it; draw is the dealer's private draw for it.
SecretOf(item, value, draw) ==
  LET w == item[1]
  IN  CASE item[2] = "c"       -> (value[<<w, "a">>] * value[<<w, "b">>]) % RingSize
        [] item[2] = "r1_bits" -> Bit(value[<<w, "r1">>], item[3])
        [] item[2] = "r2"      -> draw % RINGSIZEBITS
        [] item[2] = "r2_bits" -> IF item[3] = value[<<w, "r2">>] % RINGSIZEBITS
                                  THEN 1 ELSE 0

\* The draw that a generator makes for the k-th item when it is used for random
\* items only, and when it is used for the r2 of equality tests only.
OwnDraw(items, stream, k) == stream[Cardinality({j \in 1 .. k : IsRandom(items[j])})]

DealerDraw(items, stream, k) == stream[Cardinality({j \in 1 .. k : items[j][2] = "r2"})]

\* The random values and the r2 that a whole run deals when every generator
\* produces stream.
DealtValue(items, stream) ==
  [item \in {items[k] : k \in DOMAIN items} |->
     LET k == IndexOf(items, item)
     IN  IF item[2] = "r2" THEN DealerDraw(items, stream, k) % RINGSIZEBITS
         ELSE ((nP - 1) * stream[k] + OwnDraw(items, stream, k)) % RingSize]

LastShare(items, stream, k) ==
  IF IsRandom(items[k]) THEN OwnDraw(items, stream, k)
  ELSE (SecretOf(items[k], DealtValue(items, stream), DealerDraw(items, stream, k))
          - (nP - 1) * stream[k]) % RingSize

\* The shares that come of it: each party but the last draws all of its shares,
\* the last party those of random values only.
DealtShares(items, stream) ==
  [k \in DOMAIN items |->
     [p \in Party |-> IF p < nP THEN stream[k] ELSE LastShare(items, stream, k)]]

\* What the shared values s must satisfy.
Related(gs, s) ==
  \A k \in DOMAIN gs :
    LET w == gs[k].out
    IN  /\ gs[k].type = "kMul" =>
             s[<<w, "c">>] = (s[<<w, "a">>] * s[<<w, "b">>]) % RingSize
        /\ gs[k].type = "kEqz" =>
             /\ s[<<w, "r2">>] \in Bits
             /\ \A j \in Bits :
                  /\ s[<<w, "r1_bits", j>>] = Bit(s[<<w, "r1">>], j)
                  /\ s[<<w, "r2_bits", j>>] = IF j = s[<<w, "r2">>] THEN 1 ELSE 0
=============================================================================
