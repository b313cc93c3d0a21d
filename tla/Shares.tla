-------------------------------- MODULE Shares --------------------------------
(***************************************************************************)
(* The share types of sharing.h.  The dealer holds a value as a TPShare, one *)
(* slot per party and slot 0 for itself; a party holds its AddShare, which   *)
(* getAS takes out of the party's slot.  The dealer and the parties run the   *)
(* same program on their shares, with the operators of the two classes.      *)
(***************************************************************************)
EXTENDS RingSum

CONSTANTS Var,       \* the variables of the program
          Consts,    \* the public constants in it
          Amounts    \* the amounts it shifts by

ASSUME SharesAssumption == /\ RingSize % 2 = 0
                           /\ Consts \subseteq Ring
                           /\ Amounts \subseteq Nat
                           /\ \A k \in Amounts : 2 ^ k > 0

Node == 0 .. nP

VARIABLES tp,      \* tp[v]: the dealer's TPShare of v
          as,      \* as[p][v]: party p's AddShare of v
          value,   \* value[v]: what v stands for in the program
          linear,  \* linear[v]: v was computed with linear operators only
          moved    \* moved[v]: a constant was added to v, which TPShare cannot

vars == <<tp, as, value, linear, moved>>

Plus(x, y) == (x + y) % RingSize

\* The unary operators, as functions of a ring element.
Times(c)      == [x \in Ring |-> (x * c) % RingSize]
ShiftLeft(k)  == [x \in Ring |-> (x * 2 ^ k) % RingSize]
ShiftRight(k) == [x \in Ring |-> x \div 2 ^ k]
TopBit        == [x \in Ring |-> IF x >= RingSize \div 2 THEN 1 ELSE 0]

\* Subtraction adds the right-hand side times R(-1).
Minus(x, y) == Plus(x, Times(RingSize - 1)[y])

\* Fault: the loop ends a slot early.
SlotsOfButLast(t, f) == [i \in Node |-> IF i \in {0, nP} THEN t[i] ELSE f[t[i]]]

\* TPShare's operators go over the slots from 1.
SlotsOf(t, f) == [i \in Node |-> IF i = 0 THEN t[0] ELSE f[t[i]]]

secret(t) == Plus(t[0], Total([p \in Party |-> t[p]]))

getAS(t, pid) == t[pid]

\* Every TPShare is built with a zero in slot 0.
Init ==
  /\ tp \in [Var -> {t \in [Node -> Ring] : t[0] = 0}]
  /\ as = [p \in Party |-> [v \in Var |-> getAS(tp[v], p)]]
  /\ value = [v \in Var |-> secret(tp[v])]
  /\ linear = [v \in Var |-> TRUE]
  /\ moved = [v \in Var |-> FALSE]

\* v becomes f of itself; the value is followed as long as f is linear.
Apply(v, f, isLinear) ==
  /\ tp' = [tp EXCEPT ![v] = SlotsOf(@, f)]
  /\ as' = [p \in Party |-> [as[p] EXCEPT ![v] = f[@]]]
  /\ linear' = [linear EXCEPT ![v] = @ /\ isLinear]
  /\ value' = [value EXCEPT ![v] = IF linear[v] /\ isLinear THEN f[@] ELSE 0]
  /\ UNCHANGED moved

Multiply(v) == \E c \in Consts  : Apply(v, Times(c), TRUE)
Shl(v)      == \E k \in Amounts : Apply(v, ShiftLeft(k), TRUE)
Shr(v)      == \E k \in Amounts : Apply(v, ShiftRight(k), FALSE)
Shift(v)    == Apply(v, TopBit, FALSE)

\* What a step from v and w makes of v besides its shares.
Meets(v, w, x) ==
  /\ linear' = [linear EXCEPT ![v] = @ /\ linear[w]]
  /\ value' = [value EXCEPT ![v] = IF linear[v] /\ linear[w] THEN x ELSE 0]
  /\ moved' = [moved EXCEPT ![v] = @ \/ moved[w]]

\* v = w: operator+ and the others without = work on a copy of their left side.
Copy(v, w) ==
  /\ tp' = [tp EXCEPT ![v] = tp[w]]
  /\ as' = [p \in Party |-> [as[p] EXCEPT ![v] = as[p][w]]]
  /\ value' = [value EXCEPT ![v] = value[w]]
  /\ linear' = [linear EXCEPT ![v] = linear[w]]
  /\ moved' = [moved EXCEPT ![v] = moved[w]]

\* v += w and v -= w, where w may be v.
AddTo(v, w) ==
  /\ tp' = [tp EXCEPT ![v] = [i \in Node |-> IF i = 0 THEN @[0] ELSE Plus(@[i], tp[w][i])]]
  /\ as' = [p \in Party |-> [as[p] EXCEPT ![v] = Plus(@, as[p][w])]]
  /\ Meets(v, w, Plus(value[v], value[w]))

SubtractFrom(v, w) ==
  /\ tp' = [tp EXCEPT ![v] = [i \in Node |-> IF i = 0 THEN @[0] ELSE Minus(@[i], tp[w][i])]]
  /\ as' = [p \in Party |-> [as[p] EXCEPT ![v] = Minus(@, as[p][w])]]
  /\ Meets(v, w, (value[v] + RingSize - value[w]) % RingSize)

\* Fault: every party adds the constant.
AddConstantAll(v, adder) ==
  \E c \in Consts :
    /\ as' = [p \in Party |-> [as[p] EXCEPT ![v] = Plus(@, c)]]
    /\ value' = [value EXCEPT ![v] = IF linear[v] THEN Plus(@, c) ELSE 0]
    /\ moved' = [moved EXCEPT ![v] = TRUE]
    /\ UNCHANGED <<tp, linear>>

\* addWithAdder, and add with party 1 as the adder; TPShare has neither.
AddConstant(v, adder) ==
  \E c \in Consts :
    /\ as' = [as EXCEPT ![adder][v] = Plus(@, c)]
    /\ value' = [value EXCEPT ![v] = IF linear[v] THEN Plus(@, c) ELSE 0]
    /\ moved' = [moved EXCEPT ![v] = TRUE]
    /\ UNCHANGED <<tp, linear>>

Next ==
  \E v \in Var :
    \/ Multiply(v) \/ Shl(v) \/ Shr(v) \/ Shift(v)
    \/ \E w \in Var : Copy(v, w) \/ AddTo(v, w) \/ SubtractFrom(v, w)
    \/ \E p \in Party : AddConstant(v, p)

Spec == Init /\ [][Next]_vars
-----------------------------------------------------------------------------
\* Type invariant; the operators leave slot 0 of a TPShare at zero.
TypeOK ==
  /\ tp \in [Var -> {t \in [Node -> Ring] : t[0] = 0}]
  /\ as \in [Party -> [Var -> Ring]]
  /\ value \in [Var -> Ring]
  /\ linear \in [Var -> BOOLEAN] /\ moved \in [Var -> BOOLEAN]

\* Whatever operators a value has gone through, in whatever order and with
\* whatever aliasing, every party's AddShare is still its slot of the dealer's
\* TPShare (sharing.h:148-231 against 40-119), until a constant is added.
SlotsAgree == \A v \in Var : ~moved[v] => \A p \in Party : as[p][v] = getAS(tp[v], p)

\* The shares that the parties hold add up to the value as long as only linear
\* operators were used, a shift to the left among them; subtraction through
\* R(-1), x += x and x -= x included.  So does secret(), which takes in slot 0
\* although the operators leave it out (sharing.h:145).
SharesAddUp ==
  \A v \in Var : linear[v] =>
    /\ Total([p \in Party |-> as[p][v]]) = value[v]
    /\ ~moved[v] => secret(tp[v]) = value[v]
=============================================================================
