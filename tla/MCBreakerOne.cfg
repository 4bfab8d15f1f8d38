SPECIFICATION Spec
CONSTANTS
  Threads = {t1}
  MinRequests = 2
  ThNum = 1
  ThDen = 2
  Window = 2
  HalfOpenTimeout = 2
  ClockStepsBack = TRUE
  Earliest = 0
  MaxTime = 6
  MaxRequests = 5
PROPERTIES ImplementsBreakerSpec
