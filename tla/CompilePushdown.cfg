SPECIFICATION Spec
CONSTANTS
  a = a
  b = b
  c = c
  n = n
  tabU = tabU
  shard = shard
  ShardName = shard
  CountColumn = n
  Compute <- MCCompute
  SourceColumn <- MCSourceColumn
  Sources <- MCSources
  Tables <- MCTables
  TableColumn <- MCTableColumn
  Pipelines <- MCPipelines
  RuleSet <- MCRuleSet
  MaxIter = 6
  ShardColumn = {b}
  UniqueColumn = {b}
INVARIANT
  EmitsIdenticallyCorrect
CHECK_DEADLOCK FALSE
