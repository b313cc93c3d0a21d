----------------------------- MODULE UtilsProofs -----------------------------
(***************************************************************************)
(* Theorems about the two classes of utils/ that the rest is built on.      *)
(*                                                                         *)
(* Circuit: whatever circuit is built, of whatever size, its levels are in  *)
(* the order the evaluators rely on, and evaluating level by level gives    *)
(* every output its meaning.                                                *)
(*                                                                         *)
(* ThreadPool: the safety properties of the pool, for any workers and any   *)
(* tasks, from its inductive invariant.                                     *)
(***************************************************************************)
EXTENDS ThreadPool, Circuit, OpsProofs

-----------------------------------------------------------------------------
\* The circuit builder.

\* A gate that reads wires there are goes onto a circuit.
LEMMA PushKeepsCircuit ==
  ASSUME NEW gs, IsCircuit(gs), NEW g \in GateRecord, g.out = Len(gs),
         \A w \in Reads(g) : w < Len(gs)
  PROVE  IsCircuit(Append(gs, g)) /\ Len(Append(gs, g)) = Len(gs) + 1
<1> DEFINE n == Len(gs)
           new == Append(gs, g)
<1>1. gs \in Seq(GateRecord) /\ n \in Nat
  BY DEF IsCircuit
<1>2. /\ new \in Seq(GateRecord) /\ Len(new) = n + 1
      /\ new[n + 1] = g /\ \A k \in 1 .. n : new[k] = gs[k]
  BY <1>1
<1>3. \A k \in 1 .. n : gs[k].out = k - 1 /\ \A w \in Reads(gs[k]) : w < k - 1
  BY DEF IsCircuit
<1>4. g.out = n /\ \A w \in Reads(g) : w < n
  OBVIOUS
<1> HIDE DEF n, new
<1>5. ASSUME NEW k \in 1 .. n + 1
      PROVE  new[k].out = k - 1 /\ \A w \in Reads(new[k]) : w < k - 1
  <2>1. k \in 1 .. n \/ (k = n + 1 /\ k - 1 = n)
    BY <1>1
  <2>2. CASE k \in 1 .. n
    BY <1>2, <1>3, <2>2
  <2>3. CASE k = n + 1 /\ k - 1 = n
    BY <1>2, <1>4, <2>3
  <2> QED
    BY <2>1, <2>2, <2>3
<1> QED
  BY <1>2, <1>5 DEF IsCircuit, new, n

\* What the builder's calls push are gates.
LEMMA GateMade ==
  ASSUME NEW type \in Types, NEW w1 \in Nat, NEW w2 \in Nat, NEW c \in Ring, NEW out \in Nat
  PROVE  /\ [FIn2Gate(type, w1, w2, out) EXCEPT !.cval = c] \in GateRecord
         /\ FIn2Gate(type, w1, w2, out) \in GateRecord
         /\ Gate(type, out) \in GateRecord
<1>1. 0 \in Ring /\ 0 \in Nat
  BY CircuitAssumption DEF Ring
<1> QED
  BY <1>1 DEF GateRecord, FIn2Gate, Gate

\* Pushing a gate that reads wires there are keeps the builder in order.
LEMMA PushKeepsType ==
  ASSUME CircuitOK, NEW g \in GateRecord, g.out = num_wires,
         \A w \in Reads(g) : w < num_wires, Push(g)
  PROVE  CircuitOK'
<1>1. /\ num_wires = Len(gates) /\ IsCircuit(gates) /\ Len(gates) \in Nat
      /\ outputs \in Seq(Nat) /\ \A i \in 1 .. Len(outputs) : outputs[i] < num_wires
  BY GateFacts DEF CircuitOK
<1>2. gates' = Append(gates, g) /\ num_wires' = num_wires + 1 /\ outputs' = outputs
  BY DEF Push
<1>3. IsCircuit(gates') /\ num_wires' = Len(gates')
  BY <1>1, <1>2, PushKeepsCircuit
<1>4. \A i \in 1 .. Len(outputs) : outputs[i] \in Nat
  BY <1>1
<1>5. \A i \in 1 .. Len(outputs) : outputs[i] < num_wires + 1
  BY <1>1, <1>4
<1> QED
  BY <1>1, <1>2, <1>3, <1>5 DEF CircuitOK

\* The empty builder holds a circuit.
LEMMA BuilderInitially == BuilderInit => CircuitOK
BY DEF BuilderInit, CircuitOK, IsCircuit

\* Every call of the builder goes on from a circuit to a circuit.
LEMMA BuilderStep == CircuitOK /\ [BuilderNext]_builderVars => CircuitOK'
<1> SUFFICES ASSUME CircuitOK, [BuilderNext]_builderVars
             PROVE  CircuitOK'
  OBVIOUS
<1>1. num_wires \in Nat /\ WireId \subseteq Nat /\ 0 \in Ring /\ Constants \subseteq Ring
  BY CircuitAssumption, GateFacts DEF CircuitOK, WireId, Ring
<1>2. CASE newInputWire
  <2> DEFINE g == Gate("kInp", num_wires)
  <2>1. g \in GateRecord /\ g.out = num_wires /\ Reads(g) = {}
    BY <1>1, GateMade DEF Types, Gate, Reads
  <2>2. Push(g)
    BY <1>2 DEF newInputWire
  <2> HIDE DEF g
  <2> QED
    BY <2>1, <2>2, PushKeepsType
<1>3. ASSUME NEW type \in Types, NEW w1 \in WireId, NEW w2 \in WireId,
             addGateFIn2(type, w1, w2)
      PROVE  CircuitOK'
  <2> DEFINE g == FIn2Gate(type, w1, w2, num_wires)
  <2>1. w1 < num_wires /\ w2 < num_wires /\ Push(g)
    BY <1>3 DEF addGateFIn2, isWireValid
  <2>2. g \in GateRecord /\ g.out = num_wires
    BY <1>1, GateMade DEF FIn2Gate, Gate
  <2>3. Reads(g) \subseteq {w1, w2}
    BY DEF FIn2Gate, Gate, Reads
  <2> HIDE DEF g
  <2> QED
    BY <2>1, <2>2, <2>3, PushKeepsType
<1>4. ASSUME NEW type \in Types, NEW w \in WireId, addGateFIn1(type, w)
      PROVE  CircuitOK'
  <2> DEFINE g == FIn1Gate(type, w, num_wires)
  <2>1. w < num_wires /\ Push(g)
    BY <1>4 DEF addGateFIn1, isWireValid
  <2>2. g \in GateRecord /\ g.out = num_wires
    BY <1>1, GateMade DEF FIn1Gate, FIn2Gate, Gate
  <2>3. Reads(g) \subseteq {w}
    BY DEF FIn1Gate, FIn2Gate, Gate, Reads
  <2> HIDE DEF g
  <2> QED
    BY <2>1, <2>2, <2>3, PushKeepsType
<1>5. ASSUME NEW type \in Types, NEW w \in WireId, NEW c \in Constants,
             addConstOpGate(type, w, c)
      PROVE  CircuitOK'
  <2> DEFINE g == ConstOpGate(type, w, c, num_wires)
  <2>1. w < num_wires /\ Push(g)
    BY <1>5 DEF addConstOpGate, isWireValid
  <2>2. g \in GateRecord /\ g.out = num_wires
    BY <1>1, GateMade DEF ConstOpGate, FIn1Gate, FIn2Gate, Gate
  <2>3. Reads(g) \subseteq {w}
    BY DEF ConstOpGate, FIn1Gate, FIn2Gate, Gate, Reads
  <2> HIDE DEF g
  <2> QED
    BY <2>1, <2>2, <2>3, PushKeepsType
<1>6. ASSUME NEW w \in WireId, setAsOutput(w)
      PROVE  CircuitOK'
  <2> DEFINE m == Len(outputs)
             new == Append(outputs, w)
  <2>1. /\ w < num_wires /\ w \in Nat /\ outputs' = new
        /\ gates' = gates /\ num_wires' = num_wires
    BY <1>1, <1>6 DEF setAsOutput, isWireValid
  <2>2. /\ outputs \in Seq(Nat) /\ m \in Nat
        /\ \A i \in 1 .. m : outputs[i] < num_wires
    BY DEF CircuitOK
  <2>3. /\ new \in Seq(Nat) /\ Len(new) = m + 1
        /\ new[m + 1] = w /\ \A i \in 1 .. m : new[i] = outputs[i]
    BY <2>1, <2>2
  <2>4. \A i \in 1 .. m + 1 : i \in 1 .. m \/ i = m + 1
    BY <2>2
  <2> HIDE DEF m, new
  <2>5. \A i \in 1 .. m + 1 : new[i] < num_wires
    BY <2>1, <2>2, <2>3, <2>4
  <2> QED
    BY <2>1, <2>3, <2>5 DEF CircuitOK
<1>7. CASE UNCHANGED builderVars
  BY <1>7 DEF builderVars, CircuitOK
<1> QED
  BY <1>2, <1>3, <1>4, <1>5, <1>6, <1>7 DEF BuilderNext
-----------------------------------------------------------------------------
\* CircuitOK, the type invariant: whatever is called in whatever order, the
\* builder holds a circuit whose outputs are wires of it.
THEOREM BuildsCircuits == BuilderSpec => []CircuitOK
<1>1. BuilderInit => CircuitOK
  BY BuilderInitially
<1>2. CircuitOK /\ [BuilderNext]_builderVars => CircuitOK'
  BY BuilderStep
<1> QED
  BY <1>1, <1>2, PTL DEF BuilderSpec

\* LevelOrdered: a gate stands behind the gates of its level that drive its
\* inputs (circuit.h:114), in a circuit of any size.
THEOREM LevelOrderedAlways == BuilderSpec => []LevelOrdered
<1>1. CircuitOK => LevelOrdered
  <2> SUFFICES ASSUME CircuitOK
               PROVE  LevelOrdered
    OBVIOUS
  <2>1. IsCircuit(gates)
    BY DEF CircuitOK
  <2>2. SUFFICES ASSUME NEW l \in DOMAIN GatesByLevel(gates), NEW level,
                        level = GatesByLevel(gates)[l],
                        NEW i \in DOMAIN level, NEW j \in DOMAIN level,
                        level[i].out \in Reads(level[j])
                 PROVE  i < j
    BY DEF LevelOrdered
  <2>3. Collected(gates, GateLevel(gates), l - 1, Len(gates), level)
    BY <2>1, <2>2, LevelsFacts
  <2>4. i \in 1 .. Len(level) /\ j \in 1 .. Len(level)
    <3>1. level \in Seq(GateRecord)
      BY <2>3 DEF Collected
    <3>2. DOMAIN level = 1 .. Len(level)
      BY <3>1
    <3> QED
      BY <3>2
  <2> QED
    BY <2>1, <2>2, <2>3, <2>4, InOrder
<1> QED
  BY <1>1, BuildsCircuits, PTL

\* InteractiveReadBelow: a gate that parties exchange messages for stands on a
\* level above all its inputs, and no gate stands below one of its inputs.
THEOREM InteractiveReadBelowAlways == BuilderSpec => []InteractiveReadBelow
<1>1. CircuitOK => InteractiveReadBelow
  <2> SUFFICES ASSUME CircuitOK
               PROVE  InteractiveReadBelow
    OBVIOUS
  <2>1. IsCircuit(gates)
    BY DEF CircuitOK
  <2>2. DOMAIN gates = 1 .. Len(gates)
    BY <2>1 DEF IsCircuit
  <2> QED
    BY <2>1, <2>2, ReadBelow DEF InteractiveReadBelow
<1> QED
  BY <1>1, BuildsCircuits, PTL

\* EvaluateIsMeaning: the evaluation level by level computes what the gates mean
\* one by one, for every circuit and every input.
THEOREM EvaluateIsMeaningAlways == BuilderSpec => []EvaluateIsMeaning
<1>1. CircuitOK => EvaluateIsMeaning
  <2> SUFFICES ASSUME CircuitOK, Evaluable(gates), NEW inputs \in [InputWires(gates) -> Ring]
               PROVE  Evaluate(gates, outputs, inputs) =
                        [i \in DOMAIN outputs |-> Meaning(gates, inputs, 1)[outputs[i]]]
    BY DEF EvaluateIsMeaning
  <2>1. /\ IsCircuit(gates) /\ num_wires = Len(gates) /\ outputs \in Seq(Nat)
        /\ \A i \in 1 .. Len(outputs) : outputs[i] < num_wires
    BY DEF CircuitOK
  <2>2. Wires(gates) = 0 .. num_wires - 1 /\ num_wires \in Nat
    BY <2>1, GateFacts
  <2>3. \A i \in DOMAIN outputs : outputs[i] \in Nat /\ outputs[i] < num_wires
    BY <2>1
  <2>4. \A i \in DOMAIN outputs : outputs[i] \in Wires(gates)
    BY <2>2, <2>3
  <2>5. \A w \in Wires(gates) :
           WiresAfter(gates, inputs)[Len(GatesByLevel(gates))][w] = Meaning(gates, inputs, 1)[w]
    BY <2>1, WiresSettle
  <2> QED
    BY <2>4, <2>5 DEF Evaluate
<1> QED
  BY <1>1, BuildsCircuits, PTL
-----------------------------------------------------------------------------
(***************************************************************************)
(* The thread pool, and its inductive invariant.                            *)
(***************************************************************************)

\* Nothing is in the queue twice, and what was accepted is in the queue or has
\* been started.
QueueInv ==
  /\ \A i, j \in 1 .. Len(tasks) : tasks[i] = tasks[j] => i = j
  /\ \A i \in 1 .. Len(tasks) : Accepted(tasks[i]) /\ runs[tasks[i]] = 0
  /\ \A t \in Task : Accepted(t) =>
       runs[t] = 1 \/ \E i \in 1 .. Len(tasks) : tasks[i] = t
  /\ \A t \in Task : runs[t] = 1 => Accepted(t)

\* A worker exits when the pool is stopped and the queue empty, after which
\* nothing is accepted; the owner leaves when all have exited.
ExitInv ==
  /\ stop <=> owner # "using"
  /\ \A w \in Worker : worker[w] = "exited" => stop /\ tasks = <<>>
  /\ owner = "destroyed" => \A w \in Worker : worker[w] = "exited"

IInv == TypeOK /\ QueueInv /\ ExitInv /\ NoLostWakeup

\* The constructor has started the workers and nothing is queued.
LEMMA InitInv == Init => IInv
<1> SUFFICES ASSUME Init
             PROVE  IInv
  OBVIOUS
<1>1. TypeOK
  <2>1. worker \in [Worker -> Task \cup {"ready", "waiting", "exited"}]
    BY DEF Init
  <2>2. tasks \in Seq(Task)
    BY DEF Init
  <2> QED
    BY <2>1, <2>2 DEF Init, TypeOK
<1>2. QueueInv
  BY DEF Init, QueueInv, Accepted
<1>3. ExitInv
  BY DEF Init, ExitInv
<1>4. NoLostWakeup
  BY DEF Init, NoLostWakeup, Waiting
<1> QED
  BY <1>1, <1>2, <1>3, <1>4 DEF IInv

\* A worker changes its place, to one that is no task, and nothing else does.
LEMMA WorkerMoves ==
  ASSUME IInv, NEW w \in Worker, NEW place \in Task \cup {"ready", "waiting", "exited"},
         worker' = [worker EXCEPT ![w] = place],
         UNCHANGED <<tasks, stop, caller, owner, runs>>,
         place = "exited" => stop /\ tasks = <<>>,
         place = "waiting" => ~stop /\ tasks = <<>>,
         worker[w] # "exited"
  PROVE  IInv'
<1>1. TypeOK'
  BY DEF IInv, TypeOK
<1>2. QueueInv'
  BY DEF IInv, QueueInv, Accepted
<1>3. \A v \in Worker : worker'[v] = IF v = w THEN place ELSE worker[v]
  BY DEF IInv, TypeOK
<1>4. ExitInv'
  BY <1>3 DEF IInv, ExitInv
<1>5. NoLostWakeup'
  BY <1>3 DEF IInv, NoLostWakeup, Waiting
<1> QED
  BY <1>1, <1>2, <1>4, <1>5 DEF IInv

\* A task leaves the front of the queue as its run begins.
LEMMA TakeInv ==
  ASSUME IInv, NEW w \in Worker, Take(w)
  PROVE  IInv'
<1> DEFINE t == Head(tasks)
<1>1. /\ tasks \in Seq(Task) /\ tasks # <<>> /\ t \in Task /\ t = tasks[1]
      /\ tasks' = Tail(tasks) /\ tasks' \in Seq(Task)
      /\ worker' = [worker EXCEPT ![w] = t] /\ worker[w] = "ready"
      /\ runs' = [runs EXCEPT ![t] = @ + 1]
      /\ UNCHANGED <<stop, caller, owner>>
  BY DEF IInv, TypeOK, Take
<1>2. /\ Len(tasks) \in Nat \ {0} /\ Len(tasks') = Len(tasks) - 1
      /\ \A i \in 1 .. Len(tasks') : i + 1 \in 1 .. Len(tasks) /\ tasks'[i] = tasks[i + 1]
  BY <1>1
<1>3. Accepted(t) /\ runs[t] = 0
  BY <1>1, <1>2 DEF IInv, QueueInv
<1>4. TypeOK'
  BY <1>1, <1>3 DEF IInv, TypeOK
<1>5. \A u \in Task : runs'[u] = IF u = t THEN 1 ELSE runs[u]
  BY <1>1, <1>3 DEF IInv, TypeOK
<1>6. \A u \in Task : Accepted(u)' <=> Accepted(u)
  BY <1>1 DEF Accepted
<1>7. QueueInv'
  <2>1. \A i, j \in 1 .. Len(tasks') : tasks'[i] = tasks'[j] => i = j
    BY <1>2 DEF IInv, QueueInv
  <2>2. \A i \in 1 .. Len(tasks') : tasks'[i] \in Task /\ tasks'[i] # t
    BY <1>1, <1>2 DEF IInv, QueueInv
  <2>3. \A i \in 1 .. Len(tasks') : (Accepted(tasks[i]) /\ runs[tasks[i]] = 0)'
    <3> SUFFICES ASSUME NEW i \in 1 .. Len(tasks')
                 PROVE  caller'[tasks'[i]] \in {"notifying", "returned"} /\ runs'[tasks'[i]] = 0
      BY DEF Accepted
    <3>1. tasks'[i] = tasks[i + 1] /\ i + 1 \in 1 .. Len(tasks)
      BY <1>2
    <3>2. Accepted(tasks[i + 1]) /\ runs[tasks[i + 1]] = 0
      BY <3>1 DEF IInv, QueueInv
    <3> QED
      BY <3>1, <3>2, <2>2, <1>1, <1>5 DEF Accepted
  <2>4. ASSUME NEW u \in Task, Accepted(u)'
        PROVE  runs'[u] = 1 \/ \E i \in 1 .. Len(tasks') : tasks'[i] = u
    <3>1. CASE runs[u] = 1 \/ u = t
      BY <3>1, <1>5
    <3>2. CASE runs[u] # 1 /\ u # t
      <4>1. PICK i \in 1 .. Len(tasks) : tasks[i] = u
        BY <3>2, <2>4, <1>6 DEF IInv, QueueInv
      <4>2. i - 1 \in 1 .. Len(tasks')
        BY <4>1, <3>2, <1>1, <1>2
      <4>3. tasks'[i - 1] = tasks[(i - 1) + 1] /\ (i - 1) + 1 = i
        BY <4>2, <1>2
      <4> QED
        BY <4>1, <4>2, <4>3
    <3> QED
      BY <3>1, <3>2
  <2>5. \A u \in Task : runs'[u] = 1 => Accepted(u)'
    BY <1>3, <1>5, <1>6 DEF IInv, QueueInv
  <2> QED
    BY <2>1, <2>3, <2>4, <2>5 DEF QueueInv
<1>8. \A v \in Worker : worker'[v] = IF v = w THEN t ELSE worker[v]
  BY <1>1 DEF IInv, TypeOK
<1>9. t \notin {"ready", "waiting", "exited"}
  BY <1>1, ThreadPoolAssumption
<1>10. ExitInv'
  BY <1>1, <1>8, <1>9 DEF IInv, ExitInv
<1>11. NoLostWakeup'
  BY <1>1, <1>8, <1>9 DEF IInv, NoLostWakeup, Waiting
<1> QED
  BY <1>4, <1>7, <1>10, <1>11 DEF IInv

\* A task that nobody has enqueued before goes to the end of the queue, and a
\* notification is on its way.
LEMMA EnqueueInv ==
  ASSUME IInv, NEW t \in Task, Enqueue(t)
  PROVE  IInv'
<1>1. /\ caller[t] = "calling" /\ owner # "destroyed"
      /\ UNCHANGED <<stop, worker, owner, runs>>
  BY DEF Enqueue
<1>2. CASE stop
  <2>1. caller' = [caller EXCEPT ![t] = "threw"] /\ UNCHANGED tasks
    BY <1>2 DEF Enqueue
  <2>2. \A u \in Task : caller'[u] = IF u = t THEN "threw" ELSE caller[u]
    BY <2>1 DEF IInv, TypeOK
  <2>3. \A u \in Task : Accepted(u)' <=> Accepted(u)
    BY <1>1, <2>2 DEF Accepted
  <2>4. TypeOK'
    BY <1>1, <2>1 DEF IInv, TypeOK
  <2>5. QueueInv'
    BY <1>1, <2>1, <2>3 DEF IInv, TypeOK, QueueInv
  <2>6. ExitInv'
    BY <1>1, <2>1 DEF IInv, ExitInv
  <2>7. NoLostWakeup'
    BY <1>1, <2>1, <2>2 DEF IInv, NoLostWakeup, Waiting
  <2> QED
    BY <2>4, <2>5, <2>6, <2>7 DEF IInv
<1>3. CASE ~stop
  <2>1. /\ tasks' = Append(tasks, t) /\ tasks \in Seq(Task)
        /\ caller' = [caller EXCEPT ![t] = "notifying"]
    BY <1>3 DEF Enqueue, IInv, TypeOK
  <2>2. \A u \in Task : caller'[u] = IF u = t THEN "notifying" ELSE caller[u]
    BY <2>1 DEF IInv, TypeOK
  <2>3. /\ Len(tasks') = Len(tasks) + 1 /\ Len(tasks) \in Nat
        /\ tasks'[Len(tasks) + 1] = t
        /\ \A i \in 1 .. Len(tasks) : tasks'[i] = tasks[i] /\ tasks[i] \in Task
    BY <2>1
  <2>4. \A u \in Task : Accepted(u)' <=> Accepted(u) \/ u = t
    BY <1>1, <2>2 DEF Accepted
  <2>5. ~Accepted(t) /\ runs[t] = 0
    BY <1>1 DEF IInv, TypeOK, QueueInv, Accepted
  <2>6. \A i \in 1 .. Len(tasks) : tasks[i] # t
    BY <2>5 DEF IInv, QueueInv
  <2>7. TypeOK'
    BY <1>1, <2>1 DEF IInv, TypeOK
  <2>8. QueueInv'
    <3>1. \A i, j \in 1 .. Len(tasks') : tasks'[i] = tasks'[j] => i = j
      BY <2>3, <2>6 DEF IInv, QueueInv
    <3>2. \A i \in 1 .. Len(tasks') : (Accepted(tasks[i]) /\ runs[tasks[i]] = 0)'
      <4> SUFFICES ASSUME NEW i \in 1 .. Len(tasks')
                   PROVE  (Accepted(tasks[i]) /\ runs[tasks[i]] = 0)'
        OBVIOUS
      <4>1. CASE i = Len(tasks) + 1
        BY <4>1, <1>1, <2>3, <2>4, <2>5
      <4>2. CASE i # Len(tasks) + 1
        <5>1. i \in 1 .. Len(tasks)
          BY <4>2, <2>3
        <5> QED
          BY <5>1, <1>1, <2>3, <2>4 DEF IInv, QueueInv
      <4> QED
        BY <4>1, <4>2
    <3>3. \A u \in Task : Accepted(u)' =>
            runs'[u] = 1 \/ \E i \in 1 .. Len(tasks') : tasks'[i] = u
      <4> SUFFICES ASSUME NEW u \in Task, Accepted(u)', runs'[u] # 1
                   PROVE  \E i \in 1 .. Len(tasks') : tasks'[i] = u
        OBVIOUS
      <4>1. CASE u = t
        <5>1. Len(tasks) + 1 \in 1 .. Len(tasks')
          BY <2>3
        <5> QED
          BY <4>1, <5>1, <2>3
      <4>2. CASE u # t
        <5>1. PICK i \in 1 .. Len(tasks) : tasks[i] = u
          BY <4>2, <1>1, <2>4 DEF IInv, QueueInv
        <5>2. i \in 1 .. Len(tasks')
          BY <2>3
        <5> QED
          BY <5>1, <5>2, <2>3
      <4> QED
        BY <4>1, <4>2
    <3>4. \A u \in Task : runs'[u] = 1 => Accepted(u)'
      BY <1>1, <2>4 DEF IInv, QueueInv
    <3> QED
      BY <3>1, <3>2, <3>3, <3>4 DEF QueueInv
  <2>9. ExitInv'
    BY <1>1, <1>3 DEF IInv, ExitInv
  <2>10. NoLostWakeup'
    BY <1>1, <2>2 DEF IInv, NoLostWakeup, Waiting
  <2> QED
    BY <2>7, <2>8, <2>9, <2>10 DEF IInv
<1> QED
  BY <1>2, <1>3 DEF IInv, TypeOK

\* The notification has its effect: a worker is awake when none waited before
\* or one of them does no longer.
LEMMA NotifyOneInv ==
  ASSUME IInv, NEW t \in Task, NotifyOne(t)
  PROVE  IInv'
<1>1. /\ caller[t] = "notifying" /\ caller' = [caller EXCEPT ![t] = "returned"]
      /\ UNCHANGED <<tasks, stop, owner, runs>>
  BY DEF NotifyOne
<1>2. \A u \in Task : caller'[u] = IF u = t THEN "returned" ELSE caller[u]
  BY <1>1 DEF IInv, TypeOK
<1>3. \A u \in Task : Accepted(u)' <=> Accepted(u)
  BY <1>1, <1>2 DEF Accepted
<1>4. QueueInv'
  BY <1>1, <1>3 DEF IInv, TypeOK, QueueInv
<1>5. CASE Waiting = {} /\ UNCHANGED worker
  <2>1. TypeOK'
    BY <1>1, <1>5 DEF IInv, TypeOK
  <2>2. ExitInv'
    BY <1>1, <1>5 DEF IInv, ExitInv
  <2>3. NoLostWakeup'
    BY <1>5, ThreadPoolAssumption DEF NoLostWakeup, Waiting
  <2> QED
    BY <1>4, <2>1, <2>2, <2>3 DEF IInv
<1>6. CASE \E w \in Waiting : worker' = [worker EXCEPT ![w] = "ready"]
  <2>1. PICK w \in Waiting : worker' = [worker EXCEPT ![w] = "ready"]
    BY <1>6
  <2>2. \A v \in Worker : worker'[v] = IF v = w THEN "ready" ELSE worker[v]
    BY <2>1 DEF IInv, TypeOK
  <2>3. w \in Worker
    BY DEF Waiting
  <2>4. TypeOK'
    BY <1>1, <2>1 DEF IInv, TypeOK
  <2>5. ExitInv'
    BY <1>1, <2>2, <2>3 DEF IInv, ExitInv, Waiting
  <2>6. NoLostWakeup'
    BY <1>1, <2>2, <2>3 DEF IInv, NoLostWakeup, Waiting
  <2> QED
    BY <1>4, <2>4, <2>5, <2>6 DEF IInv
<1> QED
  BY <1>5, <1>6 DEF NotifyOne

\* The owner's steps leave the queue and the callers alone.
LEMMA OwnerInv ==
  ASSUME IInv, Stop \/ NotifyAll \/ Join
  PROVE  IInv'
<1>1. UNCHANGED <<tasks, caller, runs>>
  BY DEF Stop, NotifyAll, Join
<1>2. QueueInv'
  BY <1>1 DEF IInv, QueueInv, Accepted
<1>3. CASE Stop
  BY <1>1, <1>2, <1>3 DEF Stop, IInv, TypeOK, ExitInv, NoLostWakeup, Waiting
<1>4. CASE NotifyAll
  <2>1. \A w \in Worker :
          worker'[w] = IF worker[w] = "waiting" THEN "ready" ELSE worker[w]
    BY <1>4 DEF NotifyAll
  <2>2. stop' = stop /\ owner = "notifying" /\ owner' = "joining"
    BY <1>4 DEF NotifyAll
  <2>3. TypeOK'
    BY <1>1, <1>4 DEF NotifyAll, IInv, TypeOK
  <2>4. ExitInv'
    BY <1>1, <2>1, <2>2 DEF IInv, ExitInv
  <2>5. NoLostWakeup'
    BY <2>1, ThreadPoolAssumption DEF NoLostWakeup, Waiting
  <2> QED
    BY <1>2, <2>3, <2>4, <2>5 DEF IInv
<1>5. CASE Join
  BY <1>1, <1>2, <1>5 DEF Join, IInv, TypeOK, ExitInv, NoLostWakeup, Waiting
<1> QED
  BY <1>3, <1>4, <1>5

\* Every step of a thread keeps the invariant.
LEMMA StepInv == IInv /\ [Next]_vars => IInv'
<1> SUFFICES ASSUME IInv, [Next]_vars
             PROVE  IInv'
  OBVIOUS
<1>1. CASE UNCHANGED vars
  BY <1>1 DEF vars, IInv, TypeOK, QueueInv, ExitInv, NoLostWakeup, Waiting, Accepted
<1>2. ASSUME NEW w \in Worker, Wait(w) \/ Exit(w) \/ Finish(w) \/ WakeUp(w)
      PROVE  IInv'
  <2>1. CASE Wait(w)
    BY <2>1, WorkerMoves DEF Wait
  <2>2. CASE Exit(w)
    BY <2>2, WorkerMoves DEF Exit
  <2>3. CASE Finish(w)
    BY <2>3, WorkerMoves, ThreadPoolAssumption DEF Finish
  <2>4. CASE WakeUp(w)
    BY <2>4, WorkerMoves DEF WakeUp
  <2> QED
    BY <1>2, <2>1, <2>2, <2>3, <2>4
<1> QED
  BY <1>1, <1>2, TakeInv, EnqueueInv, NotifyOneInv, OwnerInv
  DEF Next, WorkerStep, CallerStep, OwnerStep

\* The invariant from which the properties below follow.
THEOREM Invariance == Spec => []IInv
BY InitInv, StepInv, PTL DEF Spec

\* No task is started twice, lost between the queue and a worker, or both
\* waiting and running.
THEOREM StartedOnceAlways == Spec => []StartedOnce
<1>1. IInv => StartedOnce
  <2> SUFFICES ASSUME IInv, NEW t \in Task
               PROVE  runs[t] + Cardinality({k \in DOMAIN tasks : tasks[k] = t})
                        = IF Accepted(t) THEN 1 ELSE 0
    BY DEF StartedOnce
  <2> DEFINE At == {k \in DOMAIN tasks : tasks[k] = t}
  <2>1. DOMAIN tasks = 1 .. Len(tasks) /\ runs[t] \in {0, 1}
    BY DEF IInv, TypeOK
  <2>2. CASE \E k \in 1 .. Len(tasks) : tasks[k] = t
    <3>1. PICK k \in 1 .. Len(tasks) : tasks[k] = t
      BY <2>2
    <3>2. At = {k}
      BY <3>1, <2>1 DEF IInv, QueueInv
    <3>3. Cardinality(At) = 1
      BY <3>2, FS_Singleton
    <3>4. Accepted(t) /\ runs[t] = 0
      BY <3>1 DEF IInv, QueueInv
    <3> QED
      BY <3>3, <3>4
  <2>3. CASE ~\E k \in 1 .. Len(tasks) : tasks[k] = t
    <3>1. At = {}
      BY <2>1, <2>3
    <3>2. Cardinality(At) = 0
      BY <3>1, FS_EmptySet
    <3>3. Accepted(t) <=> runs[t] = 1
      BY <2>3 DEF IInv, QueueInv
    <3> QED
      BY <3>2, <3>3, <2>1
  <2> QED
    BY <2>2, <2>3
<1> QED
  BY <1>1, Invariance, PTL

\* No worker sleeps while there is a task and nobody to notify it, and none
\* sleeps for ever on a stopped pool.
THEOREM NoLostWakeupAlways == Spec => []NoLostWakeup
<1>1. IInv => NoLostWakeup
  BY DEF IInv
<1> QED
  BY <1>1, Invariance, PTL

\* The destructor returns only when every accepted task has run to its end.
THEOREM DrainedAlways == Spec => []DrainedWhenDestroyed
<1>1. IInv => DrainedWhenDestroyed
  <2> SUFFICES ASSUME IInv, owner = "destroyed"
               PROVE  /\ tasks = <<>>
                      /\ \A t \in Task : Accepted(t) => 
                           runs[t] = 1 /\ \A w \in Worker : worker[w] # t
    BY DEF DrainedWhenDestroyed
  <2>1. \A w \in Worker : worker[w] = "exited"
    BY DEF IInv, ExitInv
  <2>2. tasks = <<>>
    BY <2>1, ThreadPoolAssumption DEF IInv, ExitInv
  <2>3. \A t \in Task : Accepted(t) => runs[t] = 1
    BY <2>2 DEF IInv, QueueInv
  <2>4. \A t \in Task : t # "exited"
    BY ThreadPoolAssumption
  <2> QED
    BY <2>1, <2>2, <2>3, <2>4
<1> QED
  BY <1>1, Invariance, PTL
\* Whoever of the workers, callers and the owner takes its next step without
\* waiting for somebody else.
CanGoOn ==
  \/ \E w \in Worker : worker[w] \in Task \cup {"ready"}
  \/ \E t \in Task : caller[t] = "notifying"
  \/ owner = "notifying"
  \/ owner = "joining" /\ \A w \in Worker : worker[w] = "exited"

NeverStuck == (tasks # <<>> \/ stop) /\ owner # "destroyed" => CanGoOn

\* While a task is queued or the destructor has been called, some thread goes
\* on: the workers do not all sleep over a task and the destructor does not
\* join a worker that sleeps (thread_pool.h:44 and :84).
THEOREM NeverStuckAlways == Spec => []NeverStuck
<1>1. IInv => NeverStuck
  <2> SUFFICES ASSUME IInv, tasks # <<>> \/ stop, owner # "destroyed", ~CanGoOn
               PROVE  FALSE
    BY DEF NeverStuck
  <2>1. \A w \in Worker : worker[w] \in {"waiting", "exited"}
    BY DEF IInv, TypeOK, CanGoOn
  <2>2. owner \in {"using", "joining"} /\ \A t \in Task : caller[t] # "notifying"
    BY DEF IInv, TypeOK, CanGoOn
  <2>3. CASE stop
    <3>1. owner = "joining" /\ Waiting = {}
      BY <2>2, <2>3 DEF IInv, ExitInv, NoLostWakeup
    <3> QED
      BY <2>1, <3>1 DEF Waiting, CanGoOn
  <2>4. CASE ~stop
    <3>1. tasks # <<>> /\ \A w \in Worker : worker[w] = "waiting"
      BY <2>1, <2>4 DEF IInv, ExitInv
    <3> QED
      BY <2>2, <3>1 DEF IInv, NoLostWakeup, Waiting
  <2> QED
    BY <2>3, <2>4
<1> QED
  BY <1>1, Invariance, PTL
=============================================================================
