\* Two concurrent inserts and one update of a committed row, against a
\* primary key, one unique and one plain secondary index, while DROP INDEX
\* may remove the primary key; the insert that takes the indirection
\* array's last cell replaces the array while the other may already be
\* waiting for it.
CONSTANTS
  Inserters = {a, b}
  Updaters = {u}
  RowsInit <- RowsMC
  Cols = {0, 1, 2}
  Vals = {NULLV, 1, 2, 3, 4}
  NULLV = NULLV
  NotNullCols = {0}
  ConstraintTypes = {"PRIMARY", "UNIQUE", "FOREIGN"}
  IndexType <- PKUniqueDefault
  IndexCols <- OneColumnEach
  InsertTuples <- InsertTuplesFK
  UpdateVals = {2, 3}
  IndirMax = 3
  FKCols <- FKColumn2
  GCResults = {TRUE, FALSE}
  IndexOid <- OidsMC
  DropOids = {20}
SPECIFICATION Spec
INVARIANTS
  TIxTypeOK
  UniqueLiveKeys
  IndexComplete
PROPERTIES
  InsertReferencesCommitted
  EveryOperationReturns
