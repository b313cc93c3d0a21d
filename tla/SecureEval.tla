------------------------------ MODULE SecureEval ------------------------------
(***************************************************************************)
(* OnlineEvaluator::evaluateCircuit on the parties 1..nP: setInputs, then    *)
(* evaluateGatesAtDepth for every level, then getOutputs.  Each party runs   *)
(* the same program on its shares at its own pace; the parties meet only in  *)
(* reconstructions, which are the abstract calls of AllReduce that           *)
(* Reconstruct implements.  It starts where Offline ends: the dealt shares   *)
(* are Related.                                                              *)
(***************************************************************************)
EXTENDS Preproc, InputSharing

CONSTANTS gates,       \* the circuit
          outputs,     \* its output wires
          Cases,       \* what the processes may be told of the inputs
          Streams      \* the sequences the generators may produce, all alike

-----------------------------------------------------------------------------
(* The program of every party: per level the multiplications, the equality   *)
(* tests in two rounds and the reconstructions, where there are any, then the *)
(* local gates; the outputs at the end.                                      *)

Levels == GatesByLevel(gates)
LevelOf == GateLevel(gates)
Material == ItemSet(gates)
ItemOrder == Items(gates)

\* The input gates, which all have depth 0, in the order of the loop.
InputOrder == OfTypes(Levels[1], {"kInp"})
numInputs  == Len(InputOrder)

\* The number of the input that wire w takes.
InputNo(w) == CHOOSE k \in DOMAIN InputOrder : InputOrder[k].out = w

\* What the processes know of the inputs: random inputs or, in every process,
\* PreprocInput::pid of each of them and the values it passes to setInputs.
IsCase(c) == /\ c.random \in BOOLEAN
             /\ c.owner \in [Party -> [1 .. numInputs -> 0 .. nP]]
             /\ c.value \in [Party -> Vec(numInputs)]

\* What Circuit builds; generators that produce as many values as are drawn.
ASSUME SecureEvalAssumption ==
  /\ WordsAreBits
  /\ IsCircuit(gates)
  /\ outputs \in Seq(Wires(gates))
  /\ \A s \in Streams : /\ s \in Seq(Ring)
                         /\ Len(s) >= numInputs /\ Len(s) >= Len(ItemOrder)
  /\ \A c \in Cases : IsCase(c)

OfType(l, type) == OfTypes(Levels[l], {type})

Stage(kind, l) == [kind |-> kind, level |-> l]

LevelProgram(l) ==
  (IF OfType(l, "kMul") = <<>> THEN <<>> ELSE << Stage("mult", l) >>)
  \o (IF OfType(l, "kEqz") = <<>> THEN <<>> ELSE << Stage("eqz1", l), Stage("eqz2", l) >>)
  \o (IF OfType(l, "kRec") = <<>> THEN <<>> ELSE << Stage("rec", l) >>)
  \o << Stage("local", l) >>

Program ==
  << Stage("inputs", 1) >> \o
  Joined([l \in DOMAIN Levels |-> LevelProgram(l)])
    \o (IF outputs = <<>> THEN <<>> ELSE << Stage("outputs", 0) >>)

IsRound(s) == s.kind \notin {"inputs", "local"}

\* The stages that reconstruct, by their position in the program.
Rounds == Picked([i \in DOMAIN Program |-> i], {i \in DOMAIN Program : IsRound(Program[i])})

numCalls == Len(Rounds)

\* How many values a call reconstructs.
ListLength(s) ==
  CASE s.kind = "mult"             -> 2 * Len(OfType(s.level, "kMul"))
    [] s.kind \in {"eqz1", "eqz2"} -> Len(OfType(s.level, "kEqz"))
    [] s.kind = "rec"              -> Len(OfType(s.level, "kRec"))
    [] OTHER                       -> Len(outputs)

numShares == [c \in 1 .. numCalls |-> ListLength(Program[Rounds[c]])]

VARIABLES given,     \* one of Cases
          stream,    \* what the generators produce
          drawn,     \* drawn[p][i]: how often setInputs on p drew from its pi(i)
          preproc,   \* preproc[p]: p's share of every dealt value
          wires,     \* wires[p][w]: p's share of wire w
          pc,        \* the stage of the program p is in
          outvals,   \* what getOutputs returned on p
          arg, res   \* the calls, as in AllReduce

vars == <<given, stream, drawn, preproc, wires, pc, outvals, arg, res>>

Exchange == INSTANCE AllReduce WITH arg <- arg, res <- res

-----------------------------------------------------------------------------
\* A new evaluator starts its generators anew.
Init ==
  /\ given \in Cases
  /\ stream \in Streams
  /\ drawn = [p \in Party |-> [i \in Party |-> 0]]
  /\ LET dealt == DealtShares(ItemOrder, stream)
     IN  preproc = [p \in Party |-> [item \in Material |->
                      dealt[IndexOf(ItemOrder, item)][p]]]
  /\ wires = [p \in Party |-> [w \in Wires(gates) |-> 0]]
  /\ pc = [p \in Party |-> 1]
  /\ outvals = [p \in Party |-> <<>>]
  /\ Exchange!Init

-----------------------------------------------------------------------------
Here(p) == Program[pc[p]]

Running(p) == pc[p] <= Len(Program)

\* setInputs or setRandomInputs.
InputsOf(p) == IF given.random
               THEN RandomShares(p, numInputs, stream)
               ELSE SharesOfInputs(p, given.owner[p], given.value[p], stream)

SetInputs(p) ==
  /\ Running(p)
  /\ Here(p).kind = "inputs"
  /\ drawn' = [drawn EXCEPT ![p] = InputsOf(p).drawn]
  /\ wires' = [wires EXCEPT ![p] = [w \in Wires(gates) |->
                 IF w \in InputWires(gates) THEN InputsOf(p).share[InputNo(w)] ELSE @[w]]]
  /\ pc' = [pc EXCEPT ![p] = @ + 1]
  /\ UNCHANGED <<given, stream, preproc, outvals, arg, res>>

\* The call of stage pc[p].
Round(p) == CHOOSE c \in 1 .. numCalls : Rounds[c] = pc[p]

Mine(p, g, name) == preproc[p][<<g.out, name>>]

\* multEvaluate: e = x - a and d = y - b, for every gate one after the other,
\* from the shares v of the wires.
Masked(p, gs, v) ==
  [i \in 1 .. 2 * Len(gs) |->
     LET g == gs[(i + 1) \div 2]
     IN  (IF i % 2 = 1 THEN v[g.in1] - Mine(p, g, "a")
                       ELSE v[g.in2] - Mine(p, g, "b")) % RingSize]

\* The share of the product, from the opened e and d.
Product(p, g, e, d) ==
  (Mine(p, g, "c") + e * Mine(p, g, "b") + d * Mine(p, g, "a")
     + IF p = 1 THEN e * d ELSE 0) % RingSize

\* Fault: no party adds the bits of m1.
HammingNobodyAdds(p, g, m1) ==
  LET sum[j \in 0 .. RINGSIZEBITS] ==
        IF j = 0 THEN 0
        ELSE LET r == preproc[p][<<g.out, "r1_bits", j - 1>>]
             IN  (sum[j - 1] + r - 2 * Bit(m1, j - 1) * r) % RingSize
  IN  (sum[RINGSIZEBITS] + Mine(p, g, "r2")) % RingSize

\* eqzEvaluate's share_m2: a share of r2 plus the number of bits in which the
\* opened m1 and the shared r1 differ.
Hamming(p, g, m1) ==
  LET sum[j \in 0 .. RINGSIZEBITS] ==
        IF j = 0 THEN 0
        ELSE LET r == preproc[p][<<g.out, "r1_bits", j - 1>>]
             IN  (sum[j - 1] + (IF p = 1 THEN Bit(m1, j - 1) ELSE 0)
                    + r - 2 * Bit(m1, j - 1) * r) % RingSize
  IN  (sum[RINGSIZEBITS] + Mine(p, g, "r2")) % RingSize

\* The list party p passes to the reconstruction of stage s, from its shares v
\* of the wires and the list that the reconstruction before returned.
ListFor(p, s, v, opened) ==
  CASE s.kind = "mult" -> Masked(p, OfType(s.level, "kMul"), v)
    [] s.kind = "eqz1" -> [i \in DOMAIN OfType(s.level, "kEqz") |->
                             LET g == OfType(s.level, "kEqz")[i]
                             IN  (v[g.in1] + Mine(p, g, "r1")) % RingSize]
    [] s.kind = "eqz2" -> [i \in DOMAIN OfType(s.level, "kEqz") |->
                             Hamming(p, OfType(s.level, "kEqz")[i], opened[i])]
    [] s.kind = "rec"  -> [i \in DOMAIN OfType(s.level, "kRec") |->
                             v[OfType(s.level, "kRec")[i].in1]]
    [] OTHER           -> [i \in DOMAIN outputs |-> v[outputs[i]]]

ToReconstruct(p) == ListFor(p, Here(p), wires[p], res[p][Round(p) - 1])

\* What the stage puts on the wire of its i-th gate g, from the opened list.
Opened(p, g, i, list) ==
  CASE g.type = "kMul" -> Product(p, g, list[2 * i - 1], list[2 * i])
    [] g.type = "kEqz" -> preproc[p][<<g.out, "r2_bits", list[i] % RINGSIZEBITS>>]
    [] g.type = "kRec" -> list[i]

\* The gates whose wires are set when the stage's reconstruction returns.
SetBy(s) == CASE s.kind = "mult" -> OfType(s.level, "kMul")
              [] s.kind = "eqz2" -> OfType(s.level, "kEqz")
              [] s.kind = "rec"  -> OfType(s.level, "kRec")
              [] OTHER           -> <<>>

\* Fault: the parties take turns, each waiting for the one before to return.
EnterInTurn(p) ==
  /\ Running(p)
  /\ IsRound(Here(p))
  /\ p > 1 => res[p - 1][Round(p)] # <<>>
  /\ Exchange!Enter(p, Round(p), ToReconstruct(p))
  /\ UNCHANGED <<given, stream, drawn, preproc, wires, pc, outvals>>

Enter(p) ==
  /\ Running(p)
  /\ IsRound(Here(p))
  /\ Exchange!Enter(p, Round(p), ToReconstruct(p))
  /\ UNCHANGED <<given, stream, drawn, preproc, wires, pc, outvals>>

\* What the party does with the list that its call has returned.
Resume(p) ==
  /\ LET gs   == SetBy(Here(p))
         list == res'[p][Round(p)]
     IN  /\ wires' = [wires EXCEPT ![p] = [w \in Wires(gates) |->
                IF \E i \in DOMAIN gs : gs[i].out = w
                THEN LET i == CHOOSE i \in DOMAIN gs : gs[i].out = w
                     IN  Opened(p, gs[i], i, list)
                ELSE @[w]]]
         /\ outvals' = IF Here(p).kind = "outputs" THEN [outvals EXCEPT ![p] = list]
                                                   ELSE outvals
  /\ pc' = [pc EXCEPT ![p] = @ + 1]
  /\ UNCHANGED <<given, stream, drawn, preproc>>

Leave(p) ==
  /\ Running(p)
  /\ IsRound(Here(p))
  /\ Exchange!Leave(p, Round(p))
  /\ Resume(p)

\* Fault: every party adds the constant.
LocalValueAllAdd(p, g, v) ==
  CASE g.type = "kAdd"      -> (v[g.in1] + v[g.in2]) % RingSize
    [] g.type = "kSub"      -> (v[g.in1] - v[g.in2]) % RingSize
    [] g.type = "kConstAdd" -> (v[g.in1] + g.cval) % RingSize
    [] g.type = "kConstMul" -> (v[g.in1] * g.cval) % RingSize

\* A local gate on shares; only the first party adds a constant.
LocalValue(p, g, v) ==
  CASE g.type = "kAdd"      -> (v[g.in1] + v[g.in2]) % RingSize
    [] g.type = "kSub"      -> (v[g.in1] - v[g.in2]) % RingSize
    [] g.type = "kConstAdd" -> IF p = 1 THEN (v[g.in1] + g.cval) % RingSize ELSE v[g.in1]
    [] g.type = "kConstMul" -> (v[g.in1] * g.cval) % RingSize

LocalTypes == {"kAdd", "kSub", "kConstAdd", "kConstMul"}

\* The second pass over a level, front to back.
Local(p) ==
  /\ Running(p)
  /\ Here(p).kind = "local"
  /\ LET gs == OfTypes(Levels[Here(p).level], LocalTypes)
         after[k \in 0 .. Len(gs)] ==
           IF k = 0 THEN wires[p]
           ELSE [after[k - 1] EXCEPT ![gs[k].out] = LocalValue(p, gs[k], after[k - 1])]
     IN  wires' = [wires EXCEPT ![p] = after[Len(gs)]]
  /\ pc' = [pc EXCEPT ![p] = @ + 1]
  /\ UNCHANGED <<given, stream, drawn, preproc, outvals, arg, res>>

Step(p) == SetInputs(p) \/ Enter(p) \/ Leave(p) \/ Local(p)

Done == \A p \in Party : ~Running(p)

Next == (\E p \in Party : Step(p)) \/ (Done /\ UNCHANGED vars)

\* Every party keeps running, and the calls it makes return (Reconstruct's
\* Terminates).
Spec == Init /\ [][Next]_vars /\ \A p \in Party : WF_vars(Step(p))
-----------------------------------------------------------------------------
\* An equality test whose opened m1 differs from r1 in all its bits: the
\* distance RINGSIZEBITS and the distance 0 select the same bit of r2
\* (online_evaluator_load_balanced.cpp:241).
Wraps(g, x) ==
  LET r1 == Total([p \in Party |-> preproc[p][<<g.out, "r1">>]])
  IN  \A j \in Bits : Bit((x + r1) % RingSize, j) # Bit(r1, j)

\* The parties that take themselves for the owner of the k-th input.
OwnersOf(k) == IF given.random THEN {} ELSE {p \in Party : given.owner[p][k] = p}

\* What the shares of the k-th input stand for when all generators are in step:
\* its value when it has one owner, nP times the draw when it has none, and when
\* every process fills the map with its own id (benchmark/reconstruction.cpp:118)
\* the sum of the owners' values less nP times the draw for each but one.
GivenInput(k) ==
  (Total([p \in Party |-> IF p \in OwnersOf(k) THEN given.value[p][k] ELSE 0])
     - (Cardinality(OwnersOf(k)) - 1) * nP * stream[k]) % RingSize

\* The value every wire stands for; the opened value of a reconstruction gate
\* is on the wire of each of the nP parties.
Value == Meaning(gates, [w \in InputWires(gates) |-> GivenInput(InputNo(w))], nP)

NoWrap ==
  LET value == Value
  IN  \A k \in DOMAIN gates :
        gates[k].type = "kEqz" => ~Wraps(gates[k], value[gates[k].in1])

\* The stage of the program that sets the wire of gate g.
SetIn(g) ==
  LET lev == LevelOf[g.out] + 1
      kind == CASE g.type = "kInp" -> "inputs" [] g.type = "kMul" -> "mult"
                [] g.type = "kEqz" -> "eqz2"   [] g.type = "kRec" -> "rec"
                [] OTHER           -> "local"
  IN  CHOOSE i \in DOMAIN Program : Program[i] = Stage(kind, lev)

\* All parties have come past the stage that sets the wire of g.
IsSet(g) == \A p \in Party : pc[p] > SetIn(g)

\* Once every party has set its inputs, at whatever pace, the shares of each
\* input add up to what was given: no message is exchanged, the copies of the
\* generators are kept in step by the order of the draws alone
\* (online_evaluator_load_balanced.cpp:121-133).
InputsShared ==
  \A k \in DOMAIN InputOrder :
    IsSet(InputOrder[k]) =>
      Total([p \in Party |-> wires[p][InputOrder[k].out]]) = GivenInput(k)

\* At every moment, however far apart the parties are, a wire that all of
\* them have come past holds shares of its plaintext value, and after a
\* reconstruction gate the value itself on every party, which later gates take
\* for a share (online_evaluator_load_balanced.cpp:266).
WiresShareMeaning ==
  NoWrap =>
    LET value == Value
    IN  \A k \in DOMAIN gates :
          LET g == gates[k]
          IN  IsSet(g) =>
                /\ Total([p \in Party |-> wires[p][g.out]]) = value[g.out]
                /\ g.type = "kRec" => \A p \in Party : wires[p][g.out] = value[g.in1]

\* The outputs a party returns are those of the circuit on plaintext inputs,
\* with the nP copies of an opened value added up where one is an output.
OutputsCorrect ==
  \A p \in Party :
    ~Running(p) => outvals[p] = [i \in DOMAIN outputs |-> Value[outputs[i]]]

\* The same, unless an equality test wraps.
OutputsCorrectUnlessWrap == NoWrap => OutputsCorrect

\* Every party returns.
Finishes == <>Done
=============================================================================
