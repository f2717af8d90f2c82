\* Two threads inserting four tuples into groups of two slots, with one
\* flush; the default single active tile group.
CONSTANTS
  Threads = {t1, t2}
  Cap = 2
  ActiveCount = 1
  MaxInserts = 4
  MaxFlushes = 1
  NULL = NULL
SPECIFICATION Spec
INVARIANTS
  TypeOK
  PublishedBeforeCounted
  AllocationExact
  SerialRegistration
PROPERTIES
  InsertReturns
  FlushKeepsReturnedInserts
