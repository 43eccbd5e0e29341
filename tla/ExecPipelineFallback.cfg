SPECIFICATION Spec
CONSTANTS
  o1 = o1
  o2 = o2
  o3 = o3
  i1 = i1
  i2 = i2
  i3 = i3
  k1 = k1
  k2 = k2
  NULL = NULL
  NoRow = NoRow
  OuterRow <- MCOuterRow
  InnerRow <- MCInnerRow
  Passing <- MCPassing
  Key <- MCKey
  OuterKey <- MCOuterKey
  InnerKey <- MCInnerKey
  OuterY <- MCOuterY
  Queries <- MCQueries
  MaxOn = 2
  MaxIndexLookupKeys = 2
  TakeN = 1
  EmitConsumesOn = FALSE
  MaxWrites = 0
INVARIANT
  FallbackRunsOriginal
\* A call ends: pc = "done" has no successor.
CHECK_DEADLOCK FALSE
