SPECIFICATION FairSpec
CONSTANTS
  a = a
  b = b
  c = c
  n = n
  tabU = tabU
  shard = shard
  ShardName = shard
  CountColumn = n
  Compute <- MCCompute
  SourceColumn <- MCSourceColumn
  Sources <- MCSources
  Tables <- MCTables
  TableColumn <- MCTableColumn
  Pipelines <- MCPipelines
  RuleSet <- MCRuleSet
  MaxIter = 6
  ShardColumn = {b}
  UniqueColumn = {b}
INVARIANTS
  RowsPreserved
  StatementAccepted
  EmissionFaithful
  EndToEnd
  OnlyTwoStageOscillates
  FiltersEarly OnlyOwnRowsUnfiltered
PROPERTY
  Terminates
\* A compilation ends: phase = "done" has no successor.
CHECK_DEADLOCK FALSE
