\* Tiles of up to two rows, two position lists and two columns over a
\* two-tile hybrid group; the predicate keeps base tuple 1.
CONSTANTS
  TableCols = {0, 1, 2}
  Layout <- HybridLayout
  BaseIds = {0, 1}
  MaxRows = 2
  MaxLists = 2
  MaxCols = 2
  Passing = {1}
  Layouts = {"ROW", "COLUMN", "HYBRID"}
  NULL = NULL
SPECIFICATION Spec
\* A tile stops changing once it is materialised or discarded.
CHECK_DEADLOCK FALSE
INVARIANT LTTypeOK VisibleCountCached FilterExact MaterializeExact
PROPERTY TileRefinesSpec
