SPECIFICATION Spec
CONSTANTS
  tabA = tabA
  tabB = tabB
  A = A
  aUpper = aUpper
  B = B
  a = a
  b = b
  c = c
  x = x
  None = None
  pExtend = pExtend
  pJoin = pJoin
  pSelf = pSelf
  pUnion = pUnion
  pUnknown = pUnknown
  rJoin = rJoin
  rSelf = rSelf
  rUnion = rUnion
  Threads = 2
  MaxFailures = 1
  Name <- MCName
  Table <- MCTable
  Columns <- MCColumns
  Created <- MCCreated
  Spelling <- MCSpelling
  TableOf <- MCTableOf
  Exact <- MCExact
  Pipe <- MCPipe
  Whole <- MCWhole
  Source <- MCSource
  Stages <- MCStages
INVARIANT
  ColIDStable
\* Every thread binds one pipeline and stops.
CHECK_DEADLOCK FALSE
