------------------------------- MODULE Circuit -------------------------------
(***************************************************************************)
(* The circuit builder (class Circuit in utils/circuit.h): a caller adds    *)
(* gates and marks outputs in any order, then orders the gates by level or  *)
(* evaluates the circuit.  A call with an invalid gate type or wire throws  *)
(* before it touches the circuit, which is a stuttering step here.          *)
(***************************************************************************)
EXTENDS CircuitOps

CONSTANTS MaxGates,     \* bounds on the circuit that is built
          MaxOutputs,
          Constants     \* the constants of kConstAdd and kConstMul gates

ASSUME CircuitAssumption == /\ MaxGates \in Nat
                            /\ MaxOutputs \in Nat
                            /\ RingSize \in Nat \ {0}
                            /\ Constants \subseteq Ring

VARIABLES gates, outputs, num_wires

builderVars == <<gates, outputs, num_wires>>

BuilderInit == gates = <<>> /\ outputs = <<>> /\ num_wires = 0

isWireValid(w) == w < num_wires

\* What every method that adds a gate does with it; the gate drives a new wire.
Push(gate) ==
  /\ Len(gates) < MaxGates
  /\ gates' = Append(gates, gate)
  /\ num_wires' = num_wires + 1
  /\ UNCHANGED outputs

newInputWire == Push(Gate("kInp", num_wires))

addGateFIn2(type, w1, w2) ==
  /\ type \in {"kAdd", "kMul", "kSub"}
  /\ isWireValid(w1) /\ isWireValid(w2)
  /\ Push(FIn2Gate(type, w1, w2, num_wires))

\* Fault: the wire is not looked at.
addGateFIn1Unchecked(type, w) ==
  /\ type \in {"kEqz", "kRec"}
  /\ Push(FIn1Gate(type, w, num_wires))

addGateFIn1(type, w) ==
  /\ type \in {"kEqz", "kRec"}
  /\ isWireValid(w)
  /\ Push(FIn1Gate(type, w, num_wires))

addConstOpGate(type, w, cval) ==
  /\ type \in {"kConstAdd", "kConstMul"}
  /\ isWireValid(w)
  /\ Push(ConstOpGate(type, w, cval, num_wires))

setAsOutput(w) ==
  /\ isWireValid(w)
  /\ Len(outputs) < MaxOutputs
  /\ outputs' = Append(outputs, w)
  /\ UNCHANGED <<gates, num_wires>>

\* The wire ids a caller may pass include one that no gate drives.
WireId == 0 .. MaxGates

BuilderNext ==
  \/ newInputWire
  \/ \E type \in Types, w1, w2 \in WireId : addGateFIn2(type, w1, w2)
  \/ \E type \in Types, w \in WireId : addGateFIn1(type, w)
  \/ \E type \in Types, w \in WireId, c \in Constants : addConstOpGate(type, w, c)
  \/ \E w \in WireId : setAsOutput(w)

BuilderSpec == BuilderInit /\ [][BuilderNext]_builderVars
-----------------------------------------------------------------------------
\* Type invariant: what is built is a circuit, with as many wires as gates and
\* outputs among them.
CircuitOK ==
  /\ IsCircuit(gates)
  /\ num_wires = Len(gates)
  /\ outputs \in Seq(Nat)
  /\ \A i \in 1 .. Len(outputs) : outputs[i] < num_wires

\* The comment at circuit.h:114: a gate stands behind the gates of its own
\* level that drive its inputs, so a level can be run front to back.
LevelOrdered ==
  \A l \in DOMAIN GatesByLevel(gates) :
    LET level == GatesByLevel(gates)[l]
    IN  \A i, j \in DOMAIN level : level[i].out \in Reads(level[j]) => i < j

\* Inputs are never above a gate, and strictly below an interactive one: the
\* online evaluator runs the interactive gates of a level before its local
\* gates, all multiplications at once, and needs their inputs by then.
InteractiveReadBelow ==
  LET lev == GateLevel(gates)
  IN  \A k \in DOMAIN gates : \A w \in Reads(gates[k]) :
        /\ lev[w] <= lev[gates[k].out]
        /\ gates[k].type \in Interactive => lev[w] < lev[gates[k].out]

\* evaluate returns the meaning of the output wires, whatever order of the
\* gates the levels come to.
EvaluateIsMeaning ==
  Evaluable(gates) =>
    \A inputs \in [InputWires(gates) -> Ring] :
      Evaluate(gates, outputs, inputs) =
        [i \in DOMAIN outputs |-> Meaning(gates, inputs, 1)[outputs[i]]]
=============================================================================
