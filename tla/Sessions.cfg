SPECIFICATION Spec
CONSTANTS
  Contexts = {c1, c2}
  Paths = {p1, p2}
  Changes = {x1, x2}
  None = None
  MaxSessions = 3
  MaxFaults = 2
INVARIANTS
  ThrowsOnlyAfterFault
  NoSessionIsForgotten
  ChangesAreKept
CHECK_DEADLOCK FALSE
