\* One inserting thread loading keys 0, 1 and 2 into two-slot groups while
\* a HEAPTREESCANINDEX with the single predicate c0 > 0 runs.
CONSTANTS
  Threads = {t1}
  Cap = 2
  ActiveCount = 1
  MaxInserts = 3
  MaxFlushes = 0
  NULL = NULL
  Strategies = {"HEAPTREESCANINDEX"}
  Pred <- PredGreater
SPECIFICATION ScanSystem
PROPERTY
  ScanRefinesSpec
