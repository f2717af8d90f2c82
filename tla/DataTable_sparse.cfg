\* One thread inserting keys 0 and 1 into groups of two slots: the second
\* insert takes the last slot of the first group.
CONSTANTS
  Threads = {t1}
  Cap = 2
  ActiveCount = 1
  MaxInserts = 2
  MaxFlushes = 0
  NULL = NULL
SPECIFICATION Spec
INVARIANT
  SparseIndexNoFalseNegative
