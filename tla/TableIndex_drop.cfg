\* One inserting thread while DROP INDEX is issued for the plain secondary
\* index (oid 22), which is not the index at offset 0.
CONSTANTS
  Inserters = {a}
  Updaters = {}
  RowsInit <- RowsMC
  Cols = {0, 1, 2}
  Vals = {NULLV, 1, 2, 3, 4}
  NULLV = NULLV
  NotNullCols = {0}
  ConstraintTypes = {"PRIMARY", "UNIQUE"}
  IndexType <- PKUniqueDefault
  IndexCols <- OneColumnEach
  InsertTuples <- InsertTuplesMC
  UpdateVals = {2, 3}
  IndirMax = 3
  FKCols <- NoForeignKey
  GCResults = {TRUE}
  IndexOid <- OidsMC
  DropOids = {22}
SPECIFICATION Spec
INVARIANTS
  IndexComplete
