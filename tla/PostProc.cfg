\* Every client-side stage alone and behind every other, on four answers.
SPECIFICATION Spec
CONSTANTS
  Unit <- MCUnit
  Folded <- MCFolded
  Elements <- MCElements
  Stages <- MCAllStages
  Answers <- MCAnswers
  Regions <- MCRegions
INVARIANTS TypeOK NoRowLost
PROPERTIES SummaryAsBackend SeriesPartitions ParseRecovers MvApplyRowwise
\* A region ends.
CHECK_DEADLOCK FALSE
