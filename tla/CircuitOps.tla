------------------------------ MODULE CircuitOps ------------------------------
(***************************************************************************)
(* Arithmetic circuits as sequences of gates (utils/circuit.h): their       *)
(* levels, and their evaluation on plaintext inputs.  A gate is a record    *)
(* of its type, the wires it reads (in1 = in2 when it reads one), its       *)
(* constant and the wire it drives.                                         *)
(***************************************************************************)
EXTENDS Words, Sequences

Types == {"kInp", "kRec", "kAdd", "kMul", "kSub", "kEqz", "kConstAdd", "kConstMul"}

\* The constructors of the gate classes.
Gate(type, out)               == [type |-> type, in1 |-> 0, in2 |-> 0, cval |-> 0, out |-> out]
FIn2Gate(type, in1, in2, out) == [Gate(type, out) EXCEPT !.in1 = in1, !.in2 = in2]
FIn1Gate(type, in, out)       == FIn2Gate(type, in, in, out)
ConstOpGate(type, in, c, out) == [FIn1Gate(type, in, out) EXCEPT !.cval = c]

GateRecord == [type : Types, in1 : Nat, in2 : Nat, cval : Ring, out : Nat]

Reads(g) == IF g.type = "kInp" THEN {} ELSE {g.in1, g.in2}

\* What makes every index of orderGatesByLevel and evaluate fall inside its
\* vector: gate k drives wire k - 1 and reads earlier wires only.
IsCircuit(gs) ==
  /\ gs \in Seq(GateRecord)
  /\ \A k \in 1 .. Len(gs) :
       gs[k].out = k - 1 /\ \A w \in Reads(gs[k]) : w < k - 1

\* The gates that parties have to exchange messages for.
Interactive == {"kMul", "kEqz", "kRec"}

Wires(gs) == 0 .. Len(gs) - 1

\* The loops that push some of the elements of s to a vector, in their order,
\* or several vectors one after the other.
Picked(s, keep) ==
  LET picked[k \in 0 .. Len(s)] ==
        IF k = 0 THEN <<>>
        ELSE IF k \in keep THEN Append(picked[k - 1], s[k]) ELSE picked[k - 1]
  IN  picked[Len(s)]

Joined(parts) ==
  LET joined[k \in 0 .. Len(parts)] ==
        IF k = 0 THEN <<>> ELSE joined[k - 1] \o parts[k]
  IN  joined[Len(parts)]

\* The gates of a level that have one of the types.
OfTypes(level, types) == Picked(level, {k \in DOMAIN level : level[k].type \in types})

Higher(a, b) == IF a > b THEN a ELSE b

\* Faults: an equality test keeps its input's level; only the first input's
\* level counts.
NewLevelEqzFree(g, lev) ==
  IF g.type = "kInp" THEN 0
  ELSE Higher(lev[g.in1], lev[g.in2]) + (IF g.type \in {"kMul", "kRec"} THEN 1 ELSE 0)

NewLevelFirstInput(g, lev) ==
  IF g.type = "kInp" THEN 0
  ELSE lev[g.in1] + (IF g.type \in Interactive THEN 1 ELSE 0)

NewLevel(g, lev) ==
  IF g.type = "kInp" THEN 0
  ELSE Higher(lev[g.in1], lev[g.in2]) + (IF g.type \in Interactive THEN 1 ELSE 0)

\* gate_level after the first k gates: one pass in the order they were added.
LevelsAfter(gs) ==
  LET after[k \in 0 .. Len(gs)] ==
        IF k = 0 THEN [w \in Wires(gs) |-> 0]
        ELSE [after[k - 1] EXCEPT ![gs[k].out] = NewLevel(gs[k], after[k - 1])]
  IN  after

GateLevel(gs) == LevelsAfter(gs)[Len(gs)]

Depth(gs) ==
  CHOOSE d \in 0 .. Len(gs) :
    /\ \A w \in Wires(gs) : GateLevel(gs)[w] <= d
    /\ d = 0 \/ \E w \in Wires(gs) : GateLevel(gs)[w] = d

\* Fault: gates are put in front of their level.
PushedInFront(gs, lev, d) ==
  LET pushed[k \in 0 .. Len(gs)] ==
        IF k = 0 THEN <<>>
        ELSE IF lev[gs[k].out] = d THEN <<gs[k]>> \o pushed[k - 1]
                                   ELSE pushed[k - 1]
  IN  pushed[Len(gs)]

\* What the loop over the gates pushes to level d.
Pushed(gs, lev, d) == Picked(gs, {k \in DOMAIN gs : lev[gs[k].out] = d})

\* gates_by_level; element l holds the gates of level l - 1.
GatesByLevel(gs) == [l \in 1 .. Depth(gs) + 1 |-> Pushed(gs, GateLevel(gs), l - 1)]

-----------------------------------------------------------------------------
\* What gate g puts on its wire when its inputs are on the wires v.
GateValue(g, v, inputs) ==
  CASE g.type = "kInp"      -> inputs[g.out]
    [] g.type = "kAdd"      -> (v[g.in1] + v[g.in2]) % RingSize
    [] g.type = "kSub"      -> (v[g.in1] - v[g.in2]) % RingSize
    [] g.type = "kMul"      -> (v[g.in1] * v[g.in2]) % RingSize
    [] g.type = "kConstAdd" -> (v[g.in1] + g.cval) % RingSize
    [] g.type = "kConstMul" -> (v[g.in1] * g.cval) % RingSize
    [] g.type = "kEqz"      -> IF v[g.in1] = 0 THEN 1 ELSE 0

InputWires(gs) == {gs[k].out : k \in {j \in DOMAIN gs : gs[j].type = "kInp"}}

\* evaluate throws on a circuit with a reconstruction gate.
Evaluable(gs) == \A k \in DOMAIN gs : gs[k].type # "kRec"

\* The gates of a level front to back: the wires after the first k.
Pass(level, v, inputs) ==
  LET after[k \in 0 .. Len(level)] ==
        IF k = 0 THEN v
        ELSE [after[k - 1] EXCEPT ![level[k].out] =
                GateValue(level[k], after[k - 1], inputs)]
  IN  after

\* The levels one after the other, over wires that start at zero.
WiresAfter(gs, inputs) ==
  LET levels == GatesByLevel(gs)
      after[l \in 0 .. Len(levels)] ==
        IF l = 0 THEN [w \in Wires(gs) |-> 0]
        ELSE Pass(levels[l], after[l - 1], inputs)[Len(levels[l])]
  IN  after

Evaluate(gs, outs, inputs) ==
  LET wires == WiresAfter(gs, inputs)[Len(GatesByLevel(gs))]
  IN  [i \in DOMAIN outs |-> wires[outs[i]]]

\* The value of every wire, defined from the gates that drive its inputs; the
\* wire of a reconstruction gate stands for as many copies of its input as
\* there are parties to hold the opened value.
Meaning(gs, inputs, copies) ==
  LET val[w \in Wires(gs)] ==
        IF gs[w + 1].type = "kRec" THEN (copies * val[gs[w + 1].in1]) % RingSize
                                   ELSE GateValue(gs[w + 1], val, inputs)
  IN  val
=============================================================================
