SPECIFICATION Spec
CONSTANTS
  Workers = {w1, w2}
  Aggregates = {a1, a2}
  Engine = "SQLite"
  MaxId = 4
  MaxBatch = 2
SYMMETRY Symmetry
INVARIANTS
  TypeOK
  GaplessVersions
  IdsFollowVersions
  NoLostUpdate
  BatchesAreContiguous
PROPERTY
  ImplementsHistories
