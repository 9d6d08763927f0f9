SPECIFICATION Spec
CONSTANTS
  Workers = {w1, w2}
  Aggregates = {a1, a2}
  MaxEvents = 3
  MaxBatch = 2
SYMMETRY Symmetry
INVARIANTS
  EntriesMatchEvents
  OnlyOwnEventsSinceBase
  RecreatedOnlyIfTorn
