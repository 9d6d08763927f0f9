SPECIFICATION Spec
CONSTANTS
  Clients = {c1, c2, c3}
  None = None
  MaxVersion = 2
  MaxChanges = 2
  MaxFaults = 1
SYMMETRY Symmetry
INVARIANTS
  StoredChangesStay
  VersionNotAhead
CHECK_DEADLOCK FALSE
