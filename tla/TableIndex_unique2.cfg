\* The same threads against a primary key and TWO unique secondary indexes:
\* an update whose target list sets both unique columns.
CONSTANTS
  Inserters = {a, b}
  Updaters = {u}
  RowsInit <- RowsMC
  Cols = {0, 1, 2}
  Vals = {NULLV, 1, 2, 3, 4}
  NULLV = NULLV
  NotNullCols = {0}
  ConstraintTypes = {"PRIMARY", "UNIQUE"}
  IndexType <- PKUniqueUnique
  IndexCols <- OneColumnEach
  InsertTuples <- InsertTuplesMC
  UpdateVals = {2, 3}
  IndirMax = 3
  FKCols <- NoForeignKey
  GCResults = {TRUE, FALSE}
  IndexOid <- OidsMC
  DropOids = {}
SPECIFICATION Spec
INVARIANTS
  UniqueLiveKeys
