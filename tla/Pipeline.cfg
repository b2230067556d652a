\* Two requests at a time.
CONSTANTS
  i1 = i1
  i2 = i2
  a = a
  b = b
  Procs = {p1, p2}
  Ids = {i1, i2}
  Contents = {a, b}
  EmptyId = EmptyId
  NilItem = NilItem
  NoItem = NoItem
  MaxTime = 0
  Order <- ThreeMethods
  Inputs <- SomeInputs
SPECIFICATION FairSpec
INVARIANTS
  MetricsAddUp
  OpsMatchStore
  AnswerTellsEffect
  FirstCredentialsDecide
  DeletionsAreFinal
PROPERTIES
  DoneWritesNoMore
  RequestsGoOn
  EveryRequestEnds
\* Every request ends.
CHECK_DEADLOCK FALSE
