\* A late connection makes h.wg.Wait panic.
CONSTANTS
  Conns = {c1, c2}
  Departures = {"left", "lost"}
SPECIFICATION Spec
INVARIANT NoPanic
CHECK_DEADLOCK FALSE
