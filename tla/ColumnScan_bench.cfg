\* All four column stores over five keys in two-slot groups (three groups,
\* the last partly filled), each with the queries it serves.
CONSTANTS
  C = 2
  Loaded = 5
  Backends = {"Google", "Mass", "Hopscotch", "Cuckoo"}
  OidBits = 8
  NULL = NULL
  Preds <- BenchmarkQueries
SPECIFICATION Spec
\* The scan stops after its one read.
CHECK_DEADLOCK FALSE
INVARIANT
  ColumnTypeOK
  ReadExact
