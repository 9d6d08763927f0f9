SPECIFICATION FairSqlSpec
CONSTANTS
  Threads <- OneThread
  Messages <- MCCommands
  QueueOf <- OneQueue
  Parts = 2
  BatchSize = 3
  MaxRows = 6
  MaxFaults = 2
INVARIANTS
  HandledMeansStored
PROPERTIES
  EventuallyHandled
  RowsArePublished
CHECK_DEADLOCK FALSE
