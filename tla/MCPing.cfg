SPECIFICATION Spec
CONSTANTS
  Keys <- KeysMC
  Second = 2
  Clients <- ClientsMC
  Address <- AddressMC
  Headers <- HeadersMC
  Wants <- WantsMC
  Environments <- EnvironmentsMC
  Bearers <- BearersMC
  Throttled <- ThrottledMC
INVARIANTS TypeOK Budget OwnBudget SecureOnlyToKey
PROPERTIES UntilReadyEnds
