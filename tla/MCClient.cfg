SPECIFICATION FairSpec
CONSTANTS
  RetryMax = 2
  Rate = 2
  MinRequests = 2
  ThNum = 1
  ThDen = 2
  Window = 2
  HalfOpenTimeout = 2
  MaxDrops = 1
  MaxRequests = 5
INVARIANTS TypeOK GaugeLag CountersAgree
PROPERTIES CallReturns Recovers
