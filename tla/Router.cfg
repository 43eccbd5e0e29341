\* Every pipeline of up to three stages on every list of engines, each segment
\* answered or failing.
SPECIFICATION Spec
CONSTANTS
  a = a
  b = b
  c = c
  n = n
  tabU = tabU
  CountColumn = n
  Compute <- MCCompute
  EngineLists <- MCEngineLists
  Pipelines <- MCPipelines
  Source <- MCSource
  Tables <- MCTables
  RowCounts <- MCRowCounts
  Weight <- MCPg
  Selectivity <- MCSelectivity
INVARIANTS SegmentsAreThePipeline RoutedAsWritten
\* A query ends.
CHECK_DEADLOCK FALSE
