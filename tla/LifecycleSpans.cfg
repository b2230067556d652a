\* A shutdown that fails skips the flush.
CONSTANTS
  Conns = {c1}
  Departures = {}
  Requests = {r1}
  Probes = {p1}
  ProbeConfigured = TRUE
  Traced = TRUE
SPECIFICATION Spec
INVARIANT SpansFlushed
\* The process ends.
CHECK_DEADLOCK FALSE
