\* One request of each kind, from the start to the end of the process.
CONSTANTS
  Conns = {c1}
  Departures = {"left"}
  Requests = {r1}
  Probes = {p1}
  ProbeConfigured = TRUE
  Traced = TRUE
SPECIFICATION FairSpec
INVARIANTS
  CleanExit
  ProbeOutlivesRequests
PROPERTIES
  NoArrivalWhileDraining
  ShutdownGoesOn
  SignalEnds
\* The process ends.
CHECK_DEADLOCK FALSE
