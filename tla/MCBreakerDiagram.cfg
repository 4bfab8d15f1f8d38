SPECIFICATION Spec
CONSTANTS
  Threads = {t1, t2}
  MinRequests = 1
  ThNum = 1
  ThDen = 2
  Window = 2
  HalfOpenTimeout = 1
  ClockStepsBack = FALSE
  Earliest = 1
  MaxTime = 3
  MaxRequests = 3
PROPERTY DiagramTransitions
