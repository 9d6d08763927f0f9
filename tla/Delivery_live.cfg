SPECIFICATION FairSpec
CONSTANTS
  Engine = "SQLite"
  Truncates = TRUE
  BatchSize = 2
  MaxId = 2
  MaxFaults = 1
  Subscribers = {s1}
  MaxRequests = 2
PROPERTIES
  EventuallyRegistered
  EventuallyDelivered
CHECK_DEADLOCK FALSE
