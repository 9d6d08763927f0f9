SPECIFICATION FairSpec
CONSTANTS
  Engine = "SqlServer"
  Truncates = TRUE
  BatchSize = 3
  MaxId = 5
  MaxFaults = 3
INVARIANTS
  TypeOK
  NothingSkipped
  FirstTimeInOrder
  RepeatsNeedFaults
PROPERTIES
  NoRepeatOnceSaved
  EventuallyPublished
CHECK_DEADLOCK FALSE
