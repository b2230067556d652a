\* Two goroutines, two identifiers, two contents, a clock of two instants.
CONSTANTS
  Procs = {p1, p2}
  Ids = {i1, i2}
  Contents = {a, b}
  EmptyId = EmptyId
  NilItem = NilItem
  NoItem = NoItem
  NoProc = NoProc
  Calls <- Request
  MaxTime = 1
SPECIFICATION Spec
SYMMETRY Symmetry
PROPERTIES
  NoResurrection
  TimesAdvance
  Linearizable
  CallsGoOn
