\* One inserting thread loading three tuples into two-slot groups while a
\* HEAPARRAYSCAN or a HEAPTREESCAN with the range 0 < c0 < 3 runs.
CONSTANTS
  Threads = {t1}
  Cap = 2
  ActiveCount = 1
  MaxInserts = 3
  MaxFlushes = 0
  NULL = NULL
  Strategies = {"HEAPARRAYSCAN", "HEAPTREESCAN"}
  Pred <- PredRange
SPECIFICATION ScanSystem
INVARIANT
  ScanTypeOK
PROPERTY
  ScanRefinesSpec
  ScanTerminates
