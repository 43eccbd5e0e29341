SPECIFICATION Spec
CONSTANTS
  Lower <- MCLower
  Source = "A"
  Pipelines <- MCPipelines
  Catalogs <- MCCatalogs
  Policies = {"Conservative", "Aggressive", "ConfidenceGated"}
  WeightSets <- MCWeightSets
  Rows <- MCRows
INVARIANTS
  StagesPermuted
  RowsSurviveReordering
  CheapestOrder
  WeakStatsChangeNothing
\* The optimizer returns: phase = "done" has no successor.
CHECK_DEADLOCK FALSE
