\* A connection is released when its peer goes.
CONSTANTS
  Conns = {c1, c2}
  Departures = {"lost"}
SPECIFICATION FairSpec
PROPERTIES
  GonePeerReleased
  CloseReturnsUnlessStraggler
CHECK_DEADLOCK FALSE
