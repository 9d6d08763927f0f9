SPECIFICATION Spec
CONSTANTS
  Engine = "SQLite"
  Truncates = TRUE
  BatchSize = 2
  MaxId = 3
  MaxFaults = 1
  Subscribers = {s1, s2}
  MaxRequests = 1
INVARIANTS
  TypeOK
  NoSubscriberIsMissed
  ReceivedWithoutGaps
  CopiesNeedFaults
PROPERTIES
  ImplementsPublisher
SYMMETRY Symmetry
CHECK_DEADLOCK FALSE
