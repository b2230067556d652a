\* Three goroutines contend for one item.
CONSTANTS
  Procs = {p1, p2, p3}
  Ids = {i1}
  Contents = {a}
  EmptyId = EmptyId
  NilItem = NilItem
  NoItem = NoItem
  NoProc = NoProc
  Calls <- ContendingCalls
  MaxTime = 0
SPECIFICATION FairSpec
PROPERTIES
  EveryCallReturns
