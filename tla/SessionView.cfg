\* The pool of one connection duckdb.New opens, and a view registered on it.
SPECIFICATION Spec
CONSTANTS
  c1 = c1
  c2 = c2
  c3 = c3
  Call = {c1, c2, c3}
  Conn = {k1, k2}
  None <- MCNone
  Scenarios <- MCView
  FileRows = 3
  BatchSize = 2
PROPERTY EveryCallReturns
\* The calls come to an end.
CHECK_DEADLOCK FALSE
