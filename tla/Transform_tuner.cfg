\* Two inserters racing one tuner that makes two TransformTileGroup calls
\* over offsets 0 and 1 of a three-slot group holding one row; theta 1/2.
CONSTANTS
  Inserters = {i1, i2}
  Cols = {0, 1}
  Cap = 3
  InitLayout <- RowStore
  DefaultLayout <- ColumnStore
  InitRows <- RowsInitMC
  InsertRows <- InsertRowsMC
  ThetaNum = 1
  ThetaDen = 2
  Offsets = {0, 1}
  MaxTransforms = 2
  NULL = NULL
SPECIFICATION Spec
INVARIANT TTypeOK
PROPERTY TransformPreservesVisibleRows
