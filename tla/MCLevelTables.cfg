SPECIFICATION FairSpec
CONSTANTS
  NumKeys = 3
  NumLevels = 4
  MaxMemCompactLevel = 2
  L0CompactionTrigger = 2
  MemSize = 2
  TargetFileSize = 2
  MaxBytesForLevel <- MCMaxBytesForLevel
  MaxGrandParentOverlap = 1
  ExpandedCompactionLimit = 5
  Starts <- MCStarts
  Nothing = Nothing
INVARIANTS ReadsRight IteratorRight LevelsDisjoint
CHECK_DEADLOCK FALSE
PROPERTY RangeEnds
