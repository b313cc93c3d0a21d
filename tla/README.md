# A TLA+ model of SecLUT

SecLUT evaluates arithmetic circuits on secret-shared data. A dealer (node 0)
and `nP` computing parties (nodes 1..nP) hold additive shares of 64-bit words;
the dealer prepares correlated randomness in an *offline* phase, the parties
then evaluate the circuit level by level in an *online* phase, opening masked
values to one another over point-to-point channels. The modules here model the
parts of the code that carry this protocol, TLC checks them on small instances,
and TLAPS proves for every number of parties, every circuit and every word size
that the communicating parts are safe and never deadlock, and that what is
evaluated on shares is what the circuit says.

All paths below are relative to the repository; `online` stands for
`src/shlut/online_evaluator_load_balanced.cpp` and `offline` for
`src/shlut/offline_evaluator.cpp`.

## 1. Inventory

| Part | State it keeps | Operations | What makes it correct |
|---|---|---|---|
| Channels, `src/io/netmp.h` (`NetIOMP`) | two connections per pair of nodes (`ios`, `ios2`), the stdio buffer of each, the flag `sent` per peer | constructor, `send`, `recv` and their relative and Bool variants, `flush`, `sync` | connections pair the right ends; no bytes cross calls; nobody blocks on bytes that lie in a peer's buffer |
| Reconstruction, `reconstruct` and `getOutputs` in `online` | the lists received in this call | direct all-to-all exchange; exchange through a king | each call returns, everywhere, the sum of the lists passed to *that* call |
| Offline evaluator, `offline` | the random generators' positions; the dealt shares; the list of the last party's shares | `randomShare`, `randomShareSecret`, `setWireMasks`, `run` | shares drawn on both sides agree and add up to the triple or bits they stand for |
| Generator pool, `src/shlut/rand_gen_pool.*` | one PRG per name | `pi(i)`, `p0()` | all nodes draw from the same generator equally often |
| Input sharing, `setInputs` and `setRandomInputs` in `online` | the input wires | draw or complete a share | the shares of an input add up to it |
| Gate evaluation, `multEvaluate`, `eqzEvaluate`, `recEvaluate`, `evaluateGatesAtDepth` in `online` | the party's share of every wire | the interactive gates of a level in batches, then its local gates | wires hold shares of the plaintext values |
| Circuits, `src/utils/circuit.h` | the gates and outputs | the builder, `orderGatesByLevel`, `evaluate` | levels respect the data flow; evaluation is the circuit's meaning |
| Thread pool, `src/utils/thread_pool.h` | task queue, stop flag, condition variable | `enqueue`, worker loop, destructor | each accepted task runs once; no lost wake-up; the destructor drains |
| Exchange of long lists, `benchmark/vector_reconstruction.cpp`, `benchmark/utils.cpp` | stdio and socket buffers | send all, flush all, receive all | ends whenever the sockets are as large as the program makes them |
| Share types, `src/shlut/sharing.h` | `AddShare`: a ring element; `TPShare`: one per party and slot 0 | arithmetic operators, shifts, `add`, `secret`, `getAS` | a party's share stays its slot of the dealer's; linear operators commute with adding up |
| Ring and field types, helpers, `types.*`, `helpers.*` | - | bit decomposition, packing | arithmetic wraps at 2^64; unpacking undoes packing |
| Benchmarks, tests, scripts | options, timers, files | start, measure, print | - |

How they interact. A program constructs a `NetIOMP` (every node connects to every
other), runs `OfflineEvaluator::run`, in which only the last party is sent
something by the dealer, and calls `sync`. It then constructs an `OnlineEvaluator`
and calls `evaluateCircuit`, or its parts: `setInputs` or `setRandomInputs`,
`evaluateGatesAtDepth` for each level, `getOutputs`. All messages of all phases
travel on the same byte streams, without header, length or call number; `recv`
flushes only the channel to the peer it is about to block on. The thread pool is
created by the evaluators and never given a task.

What is hard about it: blocking sends and receives of several processes that
run at different speeds; buffers that hold messages back until some later call
flushes them; streams read by position only; generators that must be advanced in
step without any message; levels that are not run in the order of their gates;
corrections that exactly one party must add; buffers of bounded size; and, in
the pool, notifications sent after the lock is released.
`PROJECT.json` lists each of these hazards with its line and the properties that
cover it.

## 2. Modules

```
 Words, Parties -- RingSum --+-- NetIOMP --+-- Reconstruct -- MCReconstruct
            |                |     |
            |                |     | implements
            |                +-- AllReduce <-----+----------+
            |                |        ^ used by             |
            |                |        +------- SecureEval --+-- Online -- MCOnline
            |                |                  |   ^   \-- MCSecureEval
            |                +-- InputSharing --+   |
            |                |            Preproc --+
            |                |              ^  \--- Offline -- MCOffline
            |                |          CircuitOps    |
            |                +-- Sync ----------------+
            |                +-- Connect
            |                +-- Shares
            +-- BoundedExchange -- MCBoundedExchange
 NetIOMP, BitPacking -- Relay -- MCRelay       CircuitOps -- Circuit       ThreadPool
```

The proofs are in modules of their own, together with the inductive invariants
they need: `ReconstructProofs`, `OnlineProofs` (about SecureEval and Online),
`OfflineProofs` (with Sync), `ConnectProofs`, `SharesProofs`, `StreamProofs` (about
Relay and BoundedExchange), `UtilsProofs` (about Circuit and ThreadPool), and
`OpsProofs` with the lemmas about operators that several of them cite.

**Words, Parties, RingSum** - the ring (modulus `RingSize`, 2^64 in the code), the
parties, and the accumulation loop that every reconstruction uses, as a recursive
function.

**NetIOMP** - the channels as `send`, `flush` and `recv` see them. `chan[p][q]`
holds what `p` has sent and `q` has not read; the first `inSock[p][q]` messages
have left `p`'s stdio buffer. `Send` leaves the message in the buffer (or
flushes it: `Clang = TRUE`, the `#ifdef` of netmp.h:116). `recv` is two steps,
`FlushBeforeRecv` and `TakeMessage`, because the process blocks between them.

**Reconstruct** - `reconstruct` on `nP` parties for a sequence of calls whose
mode and list length are constants. `phase`, `at` and `call` are the program
counter: `send` and `recv`/`wait` are the two loops, `reply` the king's third
one, `at` the loop variable. One action is one send, one flush, one receive.
`arg` and `res` record what each call was given and returned. Messages carry a
history tag with the call number that no action reads. The exchange in
`getOutputs` (online:336-368) is the direct mode; the sum is the same.

**AllReduce** - what a reconstruction promises, with no messages: a call returns
on a party only after all parties have entered it, and returns the sums.

**Connect** - the constructor of `NetIOMP`: every process runs the loop over `i`,
in contiguous chunks on as many threads as OpenMP gives it; `Listen`, `Connect`
and `Accept` are the steps of emp-tool's `NetIO` constructor. A client gets
through as soon as somebody listens on its port.

**Sync** - `NetIOMP::sync`: handshakes with the peers in ascending order, over
both connections of a pair, each a byte one way and a byte back.

**CircuitOps, Circuit** - circuits as sequences of gate records; the level
assignment and ordering; `evaluate`; `Meaning`, the reference definition of the
value of a wire; and the builder as a state machine.

**Preproc, Offline** - which values the dealer shares for which gate in which
order (`Items`), how they must be related (`Related`), and the run of dealer, last
party and other parties on their own copies of the generators, followed by the
`sync` their callers make. `DealtShares` says in closed form what a run deals;
the run is checked against it and SecureEval starts from it. A PRG is modelled
as a sequence of ring elements; all PRGs of a pool are seeded alike
(rand_gen_pool.cpp:13), so they all produce the same sequence.

**InputSharing** - the loops of `setInputs` and `setRandomInputs` on one party, as
functions of the party, what it believes of the owners, the values it knows and
the stream. They exchange no message, so a party's result does not depend on
the others'; whether the results fit together is SecureEval's property.

**SecureEval** - `evaluateCircuit` as the program of stages that a party executes
(`Program`): the inputs, then per level multiplications, the two rounds of the
equality tests, reconstructions, local gates, then the outputs. The exchanges are
`Enter` and `Leave` of AllReduce, which Reconstruct is proved to implement. The
loops marked `omp parallel for` write disjoint elements and are single steps.
`given` says what every process believes of the inputs: the owners may differ
from process to process, as the benchmarks have it.

**Online** - SecureEval and Reconstruct put together: a party reaches an
interactive stage, runs the loops of `reconstruct` over the channels on the list
it has computed, and goes on with the list it gets (`Net == INSTANCE Reconstruct
WITH ...`; `Resume` of SecureEval is what follows the return). Its specification
implements SecureEval's, with the abstract calls, under the identity on
SecureEval's variables.

**BitPacking, Relay** - the layouts of bits in words and bytes (`sendBool` and
`recvBool`, `packBool` and `unpackBool`, `BoolRing::pack` and `unpack`,
`bitDecompose`), and the two programs of `test/io.cpp`, as `test` says: in
`mssg_pass_4P` (lines 33-60) a message goes once round all nodes with
`sendRelative`, `recvRelative` and `flush()`; in `echo_bool` (62-91) a list of bits
goes to node 1 and back, word by word and without `flush()`. `SendWord`, `AwaitWord`
and `RecvWord` are a turn of the loops of `sendBool` and `recvBool`,
`MessageSent` and `MessageReceived` what a program does between them, `Close` its
end, where `NetIO` is destroyed. `echo_2P` is `echo_bool` with a single message.

**Shares** - one program on the dealer's `TPShare`s and the parties' `AddShare`s:
every operator of the two classes, in any order, a variable with itself
included. `value` is what a variable stands for as long as only linear operators
were used; `>>=` and `shift` act on the shares and say nothing of the value.

**BoundedExchange** - the same exchanges as flows of units through stdio and
socket buffers of bounded size, in three forms: king, direct, and the
send-all/flush-all/receive-all of the vector benchmark. A call is the sequence of
its sends, flushes and receives, and `pc` the place of a party in it. `Capacity`
is the room of a socket: the 128 MB that the circuit benchmarks ask for, or what
vector_reconstruction.cpp:63 computes in `int` (`VectorRequest`, with the overflow),
and no more than the system's limit.

**ThreadPool** - workers, callers of `enqueue` (the notification is a step of its
own, after the unlock), destructor. A condition-variable wait may end by itself.

Operators commented "Fault" next to a definition are mutated forms of it. No
specification uses them; they document which slip each property would catch.

## 3. Runs

| Run | Instance | Distinct states | What it shows |
|---|---|---|---|
| reconstruct | Reconstruct, nP=3, a king call, a direct call and a king call, buffered sends | 95157 | every property of section 5 and the inductive invariant of the proofs, refinement of AllReduce, termination |
| online | Online, nP=3, a product, its equality test and its opening, the outputs; `use_pking`, buffered sends, 2-bit words | 14576 | evaluation over the channels is SecureEval, liveness included; a party leaves nothing behind when it returns |
| connect | Connect, 4 nodes, 1 or 4 threads in each, one machine or several | 70656 | right peer on every connection; every constructor returns |
| circuit | Circuit, all circuits of up to 4 gates, modulus 3 | 34299 | levels ordered as promised; `evaluate` gives the meaning |
| offline | Offline, dealer and 3 parties, a multiplication and an equality test, 2-bit words | 7858 | parties hold what the dealer thinks they hold; material is related and complete when a node leaves `sync`; everyone gets through |
| secure | SecureEval, nP=3, every kind of gate, 2-bit words, six streams, all inputs of one owner and three odder cases | 28386 | input shares add up to what was given; wires hold shares of their meaning; right outputs, unless an equality test wraps; all return |
| threadpool | ThreadPool, 2 workers, 3 tasks, destructor at any time | 5183 | each accepted task runs once, no lost wake-up, the destructor drains and returns |
| bounded | BoundedExchange, nP=3, 2 calls, 3 modes, lists of 1..4 elements of 4 bytes, `int` up to 31, a system limit of 4, 8 or 15 bytes, stdio buffers of 1 and 3 elements | 142077 | all return through the king, and head-on wherever a list fits into what the benchmark asks for and the system grants; nothing is left over |
| relay | Relay, both programs, 4 nodes and 2, 4-bit words, messages of 1, 4, 5 and 9 bits, all contents | 19552 | the message arrives unchanged on every node, nobody waits for ever, every program ends; layouts agree |
| shares | Shares, nP=2, two variables, modulus 4 | 295936 | `AddShare` and `TPShare` stay in step; linear operators keep the sum |
| inputs_owners | SecureEval, two inputs of different owners | - | *violated*, see section 4 |
| eqz_wrap | SecureEval, one equality test | - | *violated*, see section 4 |

Why these bounds. With three parties there is a king, a party that is neither
first nor last in any loop, and a pair that never talks in the king mode. Two
calls are what the invariants need: the proof shows that no party is ever two
calls ahead. `reconstruct` has both changes of mode and ends with the king's
replies, so that its explicit flush (online:46) is what ends the run; a program
that calls `evaluateGatesAtDepth` itself with `use_pking` ends in this way.
`online` has king calls of one and of two values in a row. The clang build, where
sends flush, is covered by the proofs. Two-bit words are the smallest with more
than one bit and a distance that wraps. They make `RINGSIZEBITS` 2, the same index
arithmetic as 64. With an even modulus and `nP = 3` a public *even* value added by
all parties instead of one is not seen; the circuits add odd values as well. The
streams of `secure` were chosen so that equality tests wrap for some inputs and
not for others, and the inputs run over the whole ring. In `circuit` modulus 3
separates 0, 1 and 2 and four gates are enough for two interactive gates above one
another with a local gate between them. In `relay` a message is a single bit,
fills a word exactly, or ends one bit inside its second or third word, as the 65
bits of the test do, and bytes are two bits so that a word holds two. `shares`
needs two variables for aliasing and two parties for one that is not the adder. In
`bounded` lists are shorter and longer than the request, than the limit and than
half of what an `int` holds, with stdio buffers smaller and larger than the list:
a vector of three elements is one request of 24 bytes, one of four is a product of
32 that wraps. In `connect` four nodes are the dealer and three parties; one
thread is the build without OpenMP, four give each iteration its own.

Deadlock is checked where the system has no rightful end or its end is an explicit
stuttering step. It is off for `relay`, whose programs end, for `circuit`, which
simply stops when the builder is done, and for `bounded`, where the parties end,
or stall where nobody promised otherwise.

Fairness is weak fairness of each process's (or thread's) own step and nothing
else: the operating system keeps every process running, TCP delivers what has
been written, and emp-tool's client retries until it connects. No fairness is
assumed for spurious wake-ups, for the thread that may destroy the pool, or for
new calls of `enqueue`. In SecureEval the fairness of `Leave` is justified by
`Terminates` of Reconstruct, and `online` checks it: it implements SecureEval
together with its fairness from the fairness of the parties' own steps.

## 4. Where the code differs from what it says

* **Inputs of several owners** (`inputs_owners`, online:132). A party that does
  not own an input draws its share from its own generator `pi(id_)` for every such
  input; an owner draws from the others' generators only for its own inputs. With
  two owners the copies of a generator are at different positions, and the
  shares of the later input add up to something else. `preproc.h:23` and
  `src/test/online.cpp:358-359` have one owner per wire.
* **The equality test wraps** (`eqz_wrap`, online:241). The Hamming distance of
  the opened value and the mask lies in 0 .. RINGSIZEBITS, and the bit is
  selected modulo RINGSIZEBITS: distance 64 counts as 0, and for every mask r1
  there is a non-zero x, `-1 - 2*r1`, that is reported as zero. `secure` shows that
  nothing else goes wrong (`OutputsCorrectUnlessWrap`).

Four more things that the code is silent about and the model takes as they are, so
that no property can say that they are meant. The pool is built as `rgen_(id,
seed)` (online:89, offline:21), whose second parameter is `num_parties`: the seed
sizes the vector of generators and never seeds one. The model takes a seed of at
least the number of parties, as the benchmarks' 200 is; below it a party would
draw from behind the end of the vector. Where every process fills the owner map
with its own id, as `benchmark/reconstruction.cpp:118` does, or nobody owns an
input, the wire stands for a value that none of them gave (`GivenInput`). And the
wire of a `kRec` gate holds the opened value on every party, so it counts `nP`
times where a later gate or `getOutputs` takes it for a share (`Meaning` with `nP`
copies). Last, from 2^27 elements on the product of vector_reconstruction.cpp:63
is no `int` any more and the buffers that are asked for fall back to 16 MB;
`VectorRequest` computes this, and `Promised` ends there.

## 5. Proofs

TLAPS proves the following for every value of the constants: any number of
parties, any circuit, any word size, both builds, any number of threads. The
column on the left names the module of the proofs and, where they differ, the
module they are about.

| Module | Theorem | Statement |
|---|---|---|
| ReconstructProofs | Invariance | `Spec => []IInv` |
| | TypeCorrect | `Spec => []TypeOK`, a conjunct of `IInv` |
| | RightCallAlways | a receive takes the message of its own call |
| | OneCallAheadAlways | no party is two calls ahead of another |
| | TwoListsAlways | a channel holds at most two lists |
| | NothingLeftAlways | nothing is left in a channel after the last call |
| | DeadlockFree | until all have returned, somebody with a call to make is not blocked |
| | Refinement | `Spec => ImplementsAllReduce` |
| OnlineProofs, SecureEval | SharesInvariance | `Init /\ [][Next]_vars => []EvalShares` |
| | InputsSharedAlways | the shares of an input add up to what was given (1) |
| | WiresShareMeaningAlways | unless an equality test wraps, wires hold shares of their plaintext values (1) |
| | OutputsCorrectAlways | unless an equality test wraps, every party returns the plaintext outputs (1) |
| OnlineProofs, Online | OnlineOutputsCorrect | the same of evaluation over the channels (1) |
| | OnlineInvariance | Reconstruct's `IInv` holds of the channels under online evaluation; each party's place in its program fits its call |
| | EvaluatesAbstractly | initial states and steps of Online are SecureEval's |
| | CleanWhenReturnedAlways | a party returns with nothing unread, unflushed or on its way to it |
| | OnlineDeadlockFree | until all have returned their outputs, a party can take its next step |
| OfflineProofs | Invariance | `Spec => []IInv` |
| | TypeCorrect | `Spec => []TypeOK` |
| | DealerAgreesAlways | a party holds the shares the dealer believes it holds |
| | RightMessageAlways | a receive takes the kind of message it is written for |
| | ReadyAlways | who leaves `sync` knows that all are done, and the material is complete and related |
| | DeadlockFree | until all are through `sync`, some node can take its next step |
| UtilsProofs, Circuit | BuildsCircuits | the builder makes circuits |
| | LevelOrderedAlways | in every level a gate stands behind the gates it reads |
| | InteractiveReadBelowAlways | an interactive gate reads lower levels only |
| | EvaluateIsMeaningAlways | `evaluate` gives every output the meaning of its wire |
| ConnectProofs | Invariance | `Spec => []IInv` |
| | RightPeerAlways | every connection leads to the node and connection it is meant for |
| | DeadlockFree | until all constructors have returned, some thread can move |
| SharesProofs | Invariance | `Spec => []IInv` |
| | SlotsAgreeAlways | a party's `AddShare` is its slot of the dealer's `TPShare` |
| | SharesAddUpAlways | after linear operators the shares add up to the value |
| UtilsProofs, ThreadPool | Invariance | `Spec => []IInv` |
| | StartedOnceAlways | a task that was accepted is in one place and runs at most once |
| | NoLostWakeupAlways | a waiting task has a worker awake or a notification on its way |
| | DrainedAlways | after the destructor the queue is empty and all tasks have run |
| | NeverStuckAlways | while a task is queued or `stop` is set, some thread goes on |
| StreamProofs, Relay | RelayInvAlways | what is under way between neighbours is what lies between their places |
| | BitsArriveAlways | every node gets the message bit by bit |
| | RingGoesOnAlways | the nodes never all wait before they have ended |
| | LayoutsAgreeAlways | the layouts agree; unpacking undoes packing |
| StreamProofs, BoundedExchange | ExchangeInvAlways | what is sent and not taken is in the buffer or the socket, within their capacities |
| | NothingLeftAlways | nothing is left in either after the last call |
| | NeverStuckAlways | where a list fits into what is asked for and granted, or goes through the king, the parties never all wait |

(1) Of the behaviours with `OneSided(given)`: each process takes itself for the
owner of all inputs or of none. That is so in every benchmark (one owner for
everything, the own id everywhere, random inputs) and where a test has owner 0
(test/offline.cpp:463), and `given` covers all of these at once, with different
answers in different processes. Without it the shares of the inputs need not add up: that is the violation `inputs_owners` shows,
so the hypothesis marks where the code is right and is not a convenience of
the proof. `SharesInvariance`, and what it says of the wires, needs no such
hypothesis.

Assumptions on the constants, each named where the constant is declared:

* `RingSumAssumption`: at least one party, a non-empty ring.
* `ReconstructAssumption`: modes and lengths are functions on the calls; lists are
  not empty, because the empty list stands for "not yet".
* `WordsAreBits` (in `OfflineAssumption` and `SecureEvalAssumption`): the ring has
  2^RINGSIZEBITS elements, with what defines the powers of two, 2^0 = 1 and
  2^(j+1) = 2 * 2^j (the provers do not know exponentiation).
* The gates form a circuit, `IsCircuit`, which is what `BuildsCircuits` shows of
  everything the builder makes.
* The streams are as long as what is drawn from them: a generator does not end.
* `NetIOMPAssumption`, `OnlineAssumption`: the build and the mode are Booleans.
* `SharesAssumption`: the ring is even, and a shift is by a positive power of two.
* `ThreadPoolAssumption`: at least one worker, finitely many workers and tasks, and
  a task is none of the words that say what a worker does.
* `SecureEvalAssumption` says besides what a case of inputs is.
* `BitPackingAssumption`: words and bytes have bits, a word is a number of whole
  bytes, and what defines the powers of two.
* `RelayAssumption`: messages are not empty.
* `BoundedExchangeAssumption`: two parties at least, since one has nobody to
  exchange with; lists, buffers, what is asked for and what the system grants have
  room for one element at least.
* `ConnectAssumption`, `CircuitAssumption`: threads are counted from one, and the
  builder's bounds are numbers.

None of the properties is inductive as it stands. The inductive invariants, and
the argument for each component:

**Reconstruct.** That a receive finds the
right message depends on everything both ends have done before. `IInv` ties the
channels to the program counters. `SentIn(p, q, c)` and `TakenIn(q, p, c)` say, from
the counters alone, whether `p` has sent its list of call `c` to `q` and whether `q`
has taken it.

* `TakenAfterSent`: what is taken has been sent.
* `ChannelInv`: `chan[p][q]` holds exactly the messages sent and not taken, in
  strictly increasing order of their calls, each with the payload it must have
  (the party's argument, or from the king the sum).
* `DataInv`: what a party holds is what its peers sent; what a call returned is
  the sum of the arguments; an argument exists exactly for the calls entered.
* `FlushInv`: a message of an earlier call, or to a peer this party is about to
  block on or is done with, has left the stdio buffer.

`RightCall` follows because the head of the channel has the least call in flight,
and that is the receiver's: it has taken all earlier ones. `OneCallAhead`: who
leaves call `c` has a message of everybody of call `c`, directly or through the
king. `DeadlockFree`: suppose every
party with calls to make is blocked, and look at those in the earliest call. Each
waits for another of them, since a party in a later call has sent and flushed
everything of this one. By `FlushInv`, the party that `p` waits for itself waits for
a party with a smaller index than `p` (it has not come to `p` in its receive loop,
or it would have flushed). So the index plus the awaited index descends for
ever, which it cannot; and the king, who would wait for a party that waits for
someone before party 1, is not among them. `Refinement` maps `arg` and `res` to
themselves; `Return` is the only step that changes `res`, and `DataInv` at the end of
the loops gives the sum.

**SecureEval.** The first half is about pace. `WireShares` gives, as a recursive
function over the wires, the share of each wire that each party comes to hold, from the
inputs and the material alone; `CallList` and `CallSum` give the list a party
passes to a call and what the call returns. `EvalShares` says that every state agrees
with them:

* `WiresInv`: a wire that a party has come past holds its share of `WireShares`;
* `CallsInv`: a call a party has entered has the argument `CallList`, and it has
  returned `CallSum` exactly on the parties that are past it;
* `OutputsInv`: a party has the sums of the last call as its outputs when it is at
  its end, and none before;
* `TypeInv`: the types, and that the material is what the offline phase deals.

A step preserves it because whatever a stage reads was set in an earlier stage of
the party's own program (`InteractiveReadBelow` and the order of a level), and
because a call returns only when all arguments are there, each the closed form,
so that the sum does not depend on who came when.

The second half is algebra, by induction over the wires: if the shares of a gate's
inputs add up to their values, so do those of its output. For an input it is
`GivenInput`: under `OneSided` each copy of a generator is at the same
position for the same input, so what an owner subtracts is what the others
draw. For local gates it is linearity of the accumulation loop. For a product it
is Beaver's identity with `c = a * b` from `Related`, the term `e * d` added by one party
(`BeaverTriple`). For the equality test the second opening is `r2` plus the
number of bits in which the opened value and `r1` differ. The number is 0 iff the
input is 0, and at most RINGSIZEBITS; the selected bit of the unit vector of `r2` is
then a share of the answer unless the number is RINGSIZEBITS itself (`DistanceTells`),
which `NoWrap` excludes. An opened value counts once per party, as in `Meaning`.
`OnlineOutputsCorrect` follows with `EvaluatesAbstractly`, since those steps
are SecureEval's. TLC checked `EvalShares` on the instance of `secure` before it was
proved.

**Online.** The channels are Reconstruct's under an instance whose calls are the
interactive stages of the program, so Reconstruct's lemmas for a step of a loop
are used as they are. What remains is `EvalInv` (in OnlineProofs): a party has
made exactly the calls of the stages behind it (`AtCall`), is inside a call only
at a stage that makes one, and inputs, material and wires have their types, so
that the list a party computes for a stage has the length the call expects. A step
of a party is then an `Enter`, a step inside the loops, a `Resume`, or a local
stage; the second and nothing else is a stutter of SecureEval. `CleanWhenReturned`
is `NothingLeft` seen by one party. `OnlineDeadlockFree`: a party outside a call
goes on, and if all that still run are inside calls, Reconstruct's `NoDeadlock`
names one that does not wait.

**Offline.** Data and the bytes of `sync` travel on one connection, so the proof is
about what a connection carries. `SyncInv` and `SentFirst` say, from
the handshake counters alone, how many bytes have been sent and received on a
connection and that no handshake is ahead of its other end; `LinesInv` that the
dealer's connection to the last party holds first the letters not yet read, then
the bytes. `DataInv` counts: each generator stands where the items processed so
far have left it, kind by kind, on the dealer as on the party, and what a
party holds is its part of a prefix of `DealtAll`, the closed form. `StageInv` says
who is in which stage. The relations between shares (`RelatedDealt`) are those of
`randomShareSecret`: the last party's share is the secret minus the sum of the
others.

`DeadlockFree` needs `FlushInv` besides: what a node has sent up to the byte of a
handshake has left its buffer once it waits in that handshake or is past it. Suppose
every node waits. A handshake has a place, `2 * (n + peer)` and the connection, in
which the order of a node's own handshakes agrees with that of all others;
take a node that waits at the least place. Its peer is past that handshake, or
stands at the same one, where one of the two can read; or its peer is the last
party, which still waits for the dealer's lists. Then the dealer waits too, and no
handshake of the last party has a lower place than those of the dealer, so the node
taken is the dealer in its handshake with the last party: its lists have left with
its byte.

**Circuit.** The level assignment, the gates of a level and `evaluate` are
recursive functions over the gates, and each is first shown to obey its rule gate by
gate. A gate's level is above its inputs' or, for a local gate, not
below; the pass over a level meets a gate's inputs before the gate. `Settled` says
that after a pass all wires up to that gate have their meaning.

**Connect.** `RightPeer` with `ListenInv` (who accepts is the server of the connection
its loop is at, and its queue holds the other end of that one) and `PairInv` (the
client's end is made first and then waits in that queue).
Ports are distinct because a port is a pair of nodes in the order of a table
(`PairNumbers`). `DeadlockFree`: of the connections that are not made take
the least, by the client's iteration and the position in its loop; both its
ends have made everything before it and stand at it.

**Shares.** `HeldAddsUp` carries `SharesAddUp` over programs that also use nonlinear
operators; the theorem rests on `TotalLinear`, that the accumulation loop commutes
with adding, subtracting and multiplying by a constant.

**ThreadPool.** `QueueInv`: the accepted tasks are those in the queue, each once, and
those that have been started. `ExitInv`: workers leave, and the destructor returns,
only after `stop`, and with nothing queued. `NoLostWakeup` is a conjunct: a worker
goes to sleep under the lock with the queue empty, and who adds a task afterwards
still has its notification ahead.

`NeverStuck`: who sleeps over a task has a notification ahead, and who adds `stop`
notifies all, so that the destructor never joins a sleeper.

**Relay.** `SendPlace` and `RecvPlace` are the bits of the message up to which a
node has sent and received it. `RelayInv` says that the words on a stream are
those between the place of its reader and that of its writer (`IsTrail`), each the
word of its place; so a word that arrives is the one the reader is at, with as
many bits as it unpacks. `OutgoingInv`: by a send under clang, by `flush()`, by a
receive from that same neighbour or by the end of its program a node that waits or
has ended has handed over all it has sent. If then all nodes wait or have ended,
nothing is under way. Of the nodes other than 0 that wait take the least: the one
before it has ended or is node 0, which sends before it waits, so it has sent all
that the other waits for. So only node 0 can wait, and the node it receives from
has ended and sent all too. The layouts rest on `PackRun`: a word is the sum of
its bits' powers, and bits, bytes and words split it as the division algorithm
does.

**BoundedExchange.** `ExchangeInv` counts units: what `p` has sent to `q` less
what `q` has taken is what lies in the buffer and in the socket, and neither holds
more than it can. What has been sent and taken follows from the call and the place
in it. For `NeverStuck`, `SetupFacts` first shows that `Promised` gives a socket
room for a list, the product being the `int` it is meant to be. Then take the
parties in the earliest call: each waits for another of them, which waits for one
of lower index, so that again own and awaited index descend. In the king mode the
king and the party it waits for cannot wait for each other: their connection would
have to be full and empty, by what the two have sent and taken.

`OpsProofs` holds the lemmas on operators that more than one component needs: the
accumulation loop and its linearity, sequences built by the loops over gates and
levels, where each item of the material stands, the facts of circuits.

The deadlock theorems (`DeadlockFree` of three modules, `OnlineDeadlockFree`,
`RingGoesOnAlways` and both `NeverStuckAlways`) say in terms of the state that
somebody can take a step. TLC was used to compare these conditions with ENABLED of
the steps on the instances of section 3, where they are the same. With the
fairness of every process's own step they are what keeps the liveness properties
from failing by a circle of waiting.

Only model-checked:

* every liveness property (`Terminates`, `AllConstructed`, `AllGetThrough`,
  `Finishes`, `EveryTaskRuns`, `DestructorReturns`, `EndsWhenPromised`,
  `EveryoneEnds`) and with them the fairness in `ImplementsSecureEval`: the prover
  does not handle ENABLED. For each of them the theorem that nobody gets stuck is its safety part;
  that the steps also come to an end is left to TLC;
* the refinement of AllReduce by Reconstruct is proved, and so are Online's steps;
  that Online's *fairness* gives SecureEval's is checked by `online` only.

## 6. Not modelled

* emp-tool's `NetIO`, OpenMP's schedule and `std::condition_variable` are
  external; their part is modelled from how the code uses them.
* `sendBoolRelative` and its counterpart, `send` and `recv` of `ZZ_p` and the NTL
  helpers, which nothing calls; `count` and
  `resetStats`, which are statistics; the arithmetic of `BoolRing`, which is that of
  the ring modulo 2; `pidFromOffset` and its siblings, written for four parties and
  not called; gate classes no builder method creates; `DummyShare`, which is
  commented out.
* Options, timing, statistics, JSON files, traffic shaping and the tests, which
  the build leaves out and which call an earlier interface, but for the programs of
  `test/io.cpp`.
* A failing process or connection: emp-tool ends the process, and nothing in
  the code recovers from it, so there is no behaviour after it to model.
* Hazards without a property, with the reason, are in `PROJECT.json`: the address
  array of `benchmark/reconstruction.cpp`, a seed below the number of parties, and
  what section 4 takes as it is.

## 7. Plan

Done: the channels with their variants, reconstruction, connecting and
syncing, offline, inputs, online evaluation with abstract calls and over the
channels, circuits, shares, packing, buffers of bounded size, the pool; and the
proofs of section 5, which cover every safety property of the runs that holds for
all constants, and the absence of deadlock in every part that communicates.

Left to model: the whole program of a benchmark in one behaviour (Connect,
Offline, sync, online, sync), whose parts are joined so far by what one ends with
and the next starts from (`ReadyWhenSynced`, `Related`, `CleanWhenReturned`).

Left to prove: that the whole program implements its parts in turn, once it is
modelled; and termination, where the deadlock theorems and a bound on the number
of steps are at hand, when the prover can reason about fairness.
