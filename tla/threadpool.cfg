SPECIFICATION Spec
CONSTANTS
  Worker = {w1, w2}
  Task = {t1, t2, t3}
INVARIANTS StartedOnce NoLostWakeup DrainedWhenDestroyed
PROPERTIES EveryTaskRuns DestructorReturns
