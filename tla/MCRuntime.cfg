SPECIFICATION FairSpec
CONSTANTS
  Deps = {"valkey", "kafka"}
  Inputs <- InputsMC
  Address <- AddressMC
  SocketAddrs = {"0.0.0.0:8082", "0.0.0.0:80"}
  Endpoints = {"http://localhost:4317"}
  Conns = {c1, c2}
  MaxFlaps = 2
INVARIANTS RoutedOnlyAfterBoot ServesAsConfigured ServicesMeet
PROPERTIES OutageStopsRouting RecoveryRoutes DrainEnds
