SPECIFICATION FairSpec
CONSTANTS
  Commands <- MCCommands
  Creates <- MCCreates
  Aggregates <- MCAggregates
  Target <- MCTarget
  Parts = 2
  MaxForeign = 2
  MaxFaults = 2
INVARIANTS
  RemovedMeansStored
  StoredInQueueOrder
  CompletedTwiceNeedsFaults
PROPERTY HandledUnlessBlocked
CHECK_DEADLOCK FALSE
