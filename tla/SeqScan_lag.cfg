\* Two inserting threads loading four tuples into two-slot groups while a
\* HEAPARRAYSCAN with a range predicate runs.
CONSTANTS
  Threads = {t1, t2}
  Cap = 2
  ActiveCount = 1
  MaxInserts = 4
  MaxFlushes = 0
  NULL = NULL
  Strategies = {"HEAPARRAYSCAN"}
  Pred <- PredRange
SPECIFICATION ScanSystem
PROPERTY
  ScanRefinesSpec
