\* Safety of the hub: two connections, every interleaving.
CONSTANTS
  Conns = {c1, c2}
  Departures = {"left", "lost"}
SPECIFICATION Spec
SYMMETRY Symmetry
INVARIANTS
  GaugeMatchesClients
  WaitGroupMatchesWriters
  RegistryExact
  GracefulClose
  CoveredDrained
PROPERTIES
  HubGoesOn
\* Once every connection has ended there is nothing left to do.
CHECK_DEADLOCK FALSE
