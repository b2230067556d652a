\* One connection; the timers are scaled down and keep their order.
CONSTANTS
  c = c1
  Departures = {"left", "lost"}
  SendInterval = 3
  PingPeriod = 36
  PongWait = 40
  WriteWait = 7
  DrainTime = 1
  PongDelay = 1
SPECIFICATION Spec
INVARIANTS
  PromptPeerKept
  LostPeerDropped
PROPERTIES
  HubTimed
