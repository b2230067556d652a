\* Every value of every variable, one group of variables at a time.
CONSTANTS
  NotSet = NotSet
  Garbage = Garbage
  Environments <- MCEnvironments
  MaxJWKSRetries = 3
SPECIFICATION FairSpec
INVARIANTS
  ServedAsAsked
  StoppedForAReason
PROPERTIES
  StartupEnds
\* A process that has stopped, or listens, takes no further step of startup.
CHECK_DEADLOCK FALSE
