\* A hopscotch-map scan without predicate of four keys in two-slot groups,
\* which fill two groups exactly.
CONSTANTS
  C = 2
  Loaded = 4
  Backends = {"Hopscotch"}
  OidBits = 8
  NULL = NULL
  Preds <- NoPredicate
SPECIFICATION Spec
\* The scan stops after its one read.
CHECK_DEADLOCK FALSE
INVARIANT
  ReadExact
