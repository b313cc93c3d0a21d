------------------------------ MODULE ThreadPool ------------------------------
(***************************************************************************)
(* The pool of worker threads (utils/thread_pool.h).  The bodies of the      *)
(* critical sections on queue_mutex are single steps; notifications are sent *)
(* after the lock is released, so other threads run in between, and a wait    *)
(* on the condition variable may end by itself.                              *)
(***************************************************************************)
EXTENDS Integers, Sequences, FiniteSets

CONSTANTS Worker,   \* the threads the constructor starts
          Task      \* the tasks that are enqueued, each by a thread of its own

\* A pool without a worker would leave its tasks in the queue.
ASSUME ThreadPoolAssumption == /\ IsFiniteSet(Worker) /\ Worker # {}
                               /\ IsFiniteSet(Task)
                               /\ Task \cap {"ready", "waiting", "exited"} = {}

VARIABLES tasks,    \* the queue
          stop,
          worker,   \* where each worker thread is; a task when it runs one
          caller,   \* where the thread that enqueues a task is
          owner,    \* where the thread that destroys the pool is
          runs      \* how often each task has been started

vars == <<tasks, stop, worker, caller, owner, runs>>

Init ==
  /\ tasks  = <<>>
  /\ stop   = FALSE
  /\ worker = [w \in Worker |-> "ready"]
  /\ caller = [t \in Task |-> "calling"]
  /\ owner  = "using"
  /\ runs   = [t \in Task |-> 0]

Waiting == {w \in Worker : worker[w] = "waiting"}

\* condition.wait: the predicate is false, the worker releases the lock.
Wait(w) ==
  /\ worker[w] = "ready"
  /\ ~stop /\ tasks = <<>>
  /\ worker' = [worker EXCEPT ![w] = "waiting"]
  /\ UNCHANGED <<tasks, stop, caller, owner, runs>>

\* Fault: the task stays in the queue.
TakeNoPop(w) ==
  /\ worker[w] = "ready"
  /\ tasks # <<>>
  /\ worker' = [worker EXCEPT ![w] = Head(tasks)]
  /\ runs' = [runs EXCEPT ![Head(tasks)] = @ + 1]
  /\ UNCHANGED <<tasks, stop, caller, owner>>

\* A worker takes the task at the front.
Take(w) ==
  /\ worker[w] = "ready"
  /\ tasks # <<>>
  /\ worker' = [worker EXCEPT ![w] = Head(tasks)]
  /\ runs' = [runs EXCEPT ![Head(tasks)] = @ + 1]
  /\ tasks' = Tail(tasks)
  /\ UNCHANGED <<stop, caller, owner>>

Exit(w) ==
  /\ worker[w] = "ready"
  /\ stop /\ tasks = <<>>
  /\ worker' = [worker EXCEPT ![w] = "exited"]
  /\ UNCHANGED <<tasks, stop, caller, owner, runs>>

\* The task returns and the worker goes round its loop.
Finish(w) ==
  /\ worker[w] \in Task
  /\ worker' = [worker EXCEPT ![w] = "ready"]
  /\ UNCHANGED <<tasks, stop, caller, owner, runs>>

\* A wait may end without a notification; the predicate is tested again.
WakeUp(w) ==
  /\ worker[w] = "waiting"
  /\ worker' = [worker EXCEPT ![w] = "ready"]
  /\ UNCHANGED <<tasks, stop, caller, owner, runs>>

\* Fault: the task is put into the queue of a stopped pool.
EnqueueAnyway(t) ==
  /\ caller[t] = "calling"
  /\ owner # "destroyed"
  /\ tasks' = Append(tasks, t)
  /\ caller' = [caller EXCEPT ![t] = "notifying"]
  /\ UNCHANGED <<stop, worker, owner, runs>>

\* enqueue throws when the pool is stopped; nobody calls it on a pool that is
\* gone.
Enqueue(t) ==
  /\ caller[t] = "calling"
  /\ owner # "destroyed"
  /\ IF stop
     THEN caller' = [caller EXCEPT ![t] = "threw"] /\ UNCHANGED tasks
     ELSE tasks' = Append(tasks, t) /\ caller' = [caller EXCEPT ![t] = "notifying"]
  /\ UNCHANGED <<stop, worker, owner, runs>>

\* Fault: the notification is forgotten.
NotifyNobody(t) ==
  /\ caller[t] = "notifying"
  /\ caller' = [caller EXCEPT ![t] = "returned"]
  /\ UNCHANGED <<tasks, stop, worker, owner, runs>>

\* condition.notify_one, then enqueue returns.
NotifyOne(t) ==
  /\ caller[t] = "notifying"
  /\ IF Waiting = {}
     THEN UNCHANGED worker
     ELSE \E w \in Waiting : worker' = [worker EXCEPT ![w] = "ready"]
  /\ caller' = [caller EXCEPT ![t] = "returned"]
  /\ UNCHANGED <<tasks, stop, owner, runs>>

\* ~ThreadPool: set stop, notify_all, join the workers.
Stop ==
  /\ owner = "using"
  /\ stop' = TRUE
  /\ owner' = "notifying"
  /\ UNCHANGED <<tasks, worker, caller, runs>>

\* Fault: only one worker is woken.
NotifyOneOnStop ==
  /\ owner = "notifying"
  /\ IF Waiting = {}
     THEN UNCHANGED worker
     ELSE \E w \in Waiting : worker' = [worker EXCEPT ![w] = "ready"]
  /\ owner' = "joining"
  /\ UNCHANGED <<tasks, stop, caller, runs>>

NotifyAll ==
  /\ owner = "notifying"
  /\ worker' = [w \in Worker |-> IF worker[w] = "waiting" THEN "ready" ELSE worker[w]]
  /\ owner' = "joining"
  /\ UNCHANGED <<tasks, stop, caller, runs>>

Join ==
  /\ owner = "joining"
  /\ \A w \in Worker : worker[w] = "exited"
  /\ owner' = "destroyed"
  /\ UNCHANGED <<tasks, stop, worker, caller, runs>>

WorkerStep(w) == Wait(w) \/ Take(w) \/ Exit(w) \/ Finish(w)
CallerStep(t) == Enqueue(t) \/ NotifyOne(t)
OwnerStep     == NotifyAll \/ Join

Next ==
  \/ \E w \in Worker : WorkerStep(w) \/ WakeUp(w)
  \/ \E t \in Task : CallerStep(t)
  \/ Stop \/ OwnerStep
  \/ owner = "destroyed" /\ UNCHANGED vars

\* Threads keep running; nothing makes the owner destroy the pool or a wait
\* end by itself.
Fairness == /\ \A w \in Worker : WF_vars(WorkerStep(w))
            /\ \A t \in Task : WF_vars(CallerStep(t))
            /\ WF_vars(OwnerStep)

Spec == Init /\ [][Next]_vars /\ Fairness
-----------------------------------------------------------------------------
\* Type invariant.
TypeOK ==
  /\ tasks \in Seq(Task)
  /\ stop \in BOOLEAN
  /\ worker \in [Worker -> Task \cup {"ready", "waiting", "exited"}]
  /\ caller \in [Task -> {"calling", "threw", "notifying", "returned"}]
  /\ owner \in {"using", "notifying", "joining", "destroyed"}
  /\ runs \in [Task -> {0, 1}]

Accepted(t) == caller[t] \in {"notifying", "returned"}

\* A task is queued or has been started, never both and never twice, and is
\* neither when enqueue has not accepted it.
StartedOnce ==
  \A t \in Task :
    runs[t] + Cardinality({k \in DOMAIN tasks : tasks[k] = t})
      = IF Accepted(t) THEN 1 ELSE 0

\* No wake-up is lost: while a task is queued, a worker is awake or a
\* notification is on its way, and a worker that waits on a stopped pool is
\* still to be notified.
NoLostWakeup ==
  /\ tasks # <<>> => \/ Worker \ Waiting # {}
                     \/ \E t \in Task : caller[t] = "notifying"
                     \/ owner = "notifying"
  /\ stop /\ Waiting # {} => owner = "notifying"

\* The destructor waits for everything that was accepted: once the pool is
\* gone, every task has either been run to its end or been refused.
DrainedWhenDestroyed ==
  owner = "destroyed" =>
    /\ tasks = <<>>
    /\ \A t \in Task : Accepted(t) => runs[t] = 1 /\ \A w \in Worker : worker[w] # t

\* An accepted task is started although nobody destroys the pool, and a
\* destructor that is called returns.
EveryTaskRuns == \A t \in Task : Accepted(t) ~> runs[t] = 1
DestructorReturns == stop ~> owner = "destroyed"
=============================================================================
