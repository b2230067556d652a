\* A late connection keeps the process past its deadline.
CONSTANTS
  Conns = {c1}
  Departures = {}
  Requests = {r1}
  Probes = {p1}
  ProbeConfigured = TRUE
  Traced = TRUE
SPECIFICATION FairSpec
PROPERTY TimeoutEnds
\* The process ends.
CHECK_DEADLOCK FALSE
