\* Three goroutines on a backend of each dialect, no view on a pool of one.
SPECIFICATION Spec
CONSTANTS
  c1 = c1
  c2 = c2
  c3 = c3
  Call = {c1, c2, c3}
  Conn = {k1, k2}
  None <- MCNone
  Scenarios <- MCScenarios
  FileRows = 3
  BatchSize = 2
INVARIANTS TypeOK LoadAddsUp
PROPERTIES KeepsPromise EveryCallReturns
\* The calls come to an end.
CHECK_DEADLOCK FALSE
