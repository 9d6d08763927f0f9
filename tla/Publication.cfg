SPECIFICATION FairPublicationSpec
CONSTANTS
  Engine = "SQLite"
  Truncates = TRUE
  BatchSize = 2
  MaxId = 4
  MaxFaults = 2
INVARIANTS
  SkippedOnlyIfUnseen
PROPERTIES
  EventuallyPublishedIfSeen
