SPECIFICATION FairSpec
CONSTANTS
  Callers = {c1, c2}
  Shutters = {s1, s2}
  Delayed = {s1}
  Timed = {s1}
  MaxCancels = 2
INVARIANTS Accounting NoLostWakeup OnePolicySet
PROPERTIES ShutdownWakes ComesToRest DeadlineBoundsShutdown
