---------------------------- MODULE LogicalTile ----------------------------
(***************************************************************************)
(* executor::LogicalTile (src/src/executor/logical_tile.cpp): a row set   *)
(* that names rows of base tiles through position lists instead of        *)
(* copying them, and its two consumers in this repository: the filter     *)
(* loop of SeqScanExecutor::DExecute over a child's tiles, and            *)
(* Materialize, which copies the visible rows into one dense tile.        *)
(*                                                                         *)
(* A tile is built (position lists and columns added), then used          *)
(* (visibility removed, columns projected, rows filtered), then consumed  *)
(* (materialised or discarded), the lifecycle the class comment and the   *)
(* callers follow.  A value of a base tile is the triple                  *)
(* <<base tile, column in it, base tuple id>>, so that every cell is      *)
(* distinct and a misplaced copy shows.                                   *)
(***************************************************************************)
EXTENDS Integers, Sequences, SequencesExt, FiniteSets

CONSTANTS
  TableCols,  \* column ids of the table the tile group belongs to
  Layout,     \* Layout[c] = <<base tile, column in that tile>> (LocateTileAndColumn)
  BaseIds,    \* base tuple ids a position list may hold
  MaxRows,    \* bound on the length of a position list
  MaxLists,   \* bound on the number of position lists
  MaxCols,    \* bound on the number of schema columns
  Passing,    \* base tuple ids whose row satisfies the scan predicate
  Layouts,    \* peloton_layout_mode values Materialize may run under
  NULL

ASSUME Layouts \subseteq {"ROW", "COLUMN", "HYBRID"}
ASSUME Passing \subseteq BaseIds

\* INVALID_OID, the iterator's past-the-end position.
INVALID == -1

\* column_count_threshold of MaterializeByTiles.
ColumnCountThreshold == 20

\* std::vector<bool>::resize(n, x): existing entries kept, new ones x.
Resize(v, n, x) == [i \in 1 .. n |-> IF i <= Len(v) THEN v[i] ELSE x]

VARIABLES
  lists,      \* position_lists_ (list idx i is lists[i+1])
  schema,     \* schema_: [tile, col, list] per output column
  total,      \* total_tuples_
  visible,    \* visible_rows_ (row i is visible[i+1])
  visCount,   \* visible_tuples_
  stage,      \* "build", "use", "done" or "fault"
  colIds,     \* history: the table column each schema position shows
  filt,       \* the DExecute filter loop: "idle", "loop", "kept", "skipped", "fault"
  fpos,       \* the filter loop's iterator position
  vis0,       \* history: visible_rows_ when the filter loop began
  dest        \* the tile Materialize returned, or NULL

ltvars == <<lists, schema, total, visible, visCount, stage, colIds,
            filt, fpos, vis0, dest>>

Init ==
  /\ lists = <<>> /\ schema = <<>>
  /\ total = 0 /\ visible = <<>> /\ visCount = 0
  /\ stage = "build" /\ colIds = <<>>
  /\ filt = "idle" /\ fpos = INVALID /\ vis0 = <<>>
  /\ dest = NULL

(***************************************************************************)
(* Construction                                                            *)
(***************************************************************************)
\* Position lists of length n over the base tuple ids.
ListsOfLen(n) == [1 .. n -> BaseIds]
PositionLists == UNION {ListsOfLen(n) : n \in 0 .. MaxRows}

\* AddPositionList: the first list fixes total_tuples_ and makes every row
\* visible; a later one must have the same length (PELOTON_ASSERT, a
\* contract on the caller).
AddPositionList ==
  /\ stage = "build" /\ Len(lists) < MaxLists
  /\ \E l \in PositionLists :
       /\ Len(lists) > 0 => Len(lists[1]) = Len(l)
       /\ lists' = Append(lists, l)
       /\ IF Len(lists) = 0
            THEN /\ visCount' = Len(l)
                 /\ visible' = Resize(visible, Len(l), TRUE)
                 /\ total' = Len(l)
            ELSE UNCHANGED <<visCount, visible, total>>
  /\ UNCHANGED <<schema, stage, colIds, filt, fpos, vis0, dest>>

\* Faulty variant: visible_rows_ is not resized to the new lists.
SetPositionListsNoResize(ls) ==
  /\ lists' = ls
  /\ IF Len(ls) > 0
       THEN /\ total' = Len(ls[1])
            /\ visCount' = Len(ls[1])
            /\ UNCHANGED visible
       ELSE UNCHANGED <<total, visible, visCount>>

\* SetPositionListsAndVisibility: replaces the lists (of equal length, as
\* the joins build them) and, unless there are none, the row counts.
SetPositionLists(ls) ==
  /\ lists' = ls
  /\ IF Len(ls) > 0
       THEN /\ total' = Len(ls[1])
            /\ visible' = Resize(visible, Len(ls[1]), TRUE)
            /\ visCount' = Len(ls[1])
       ELSE UNCHANGED <<total, visible, visCount>>

SetPositionListsAndVisibility ==
  /\ stage = "build"
  /\ \E n \in 0 .. MaxRows, k \in 0 .. MaxLists :
       \E ls \in [1 .. k -> ListsOfLen(n)] : SetPositionLists(ls)
  /\ UNCHANGED <<schema, stage, colIds, filt, fpos, vis0, dest>>

\* AddColumns(tile_group, column_ids): each table column located in the
\* group's layout and added by AddColumn with position list 0.
DistinctSeqs(S, n) ==
  {s \in UNION {[1 .. k -> S] : k \in 1 .. n} : IsInjective(s)}

AddColumns ==
  /\ stage = "build" /\ Len(schema) < MaxCols
  /\ \E ids \in DistinctSeqs(TableCols, MaxCols - Len(schema)) :
       /\ schema' = schema \o
            [i \in 1 .. Len(ids) |->
               [tile |-> Layout[ids[i]][1], col |-> Layout[ids[i]][2], list |-> 0]]
       /\ colIds' = colIds \o ids
  /\ UNCHANGED <<lists, total, visible, visCount, stage, filt, fpos, vis0, dest>>

(***************************************************************************)
(* Reading a tile                                                          *)
(***************************************************************************)
\* Every column's position list exists: the lists were added before the
\* columns are read, as AddColumn's comment requires of its callers.
WellFormed ==
  /\ Len(schema) > 0 /\ Len(lists) > 0
  /\ \A c \in 1 .. Len(schema) : schema[c].list < Len(lists)

\* GetValue(tuple_id, column_id): the base tile's value at the base tuple
\* the column's position list holds for the row (c is 1-based).
GetValue(t, c) ==
  <<schema[c].tile, schema[c].col, lists[schema[c].list + 1][t + 1]>>

\* The first visible row at or after p, or INVALID_OID: the scan of the
\* iterator's constructor and of operator++, which re-read visible_rows_.
FirstVisibleFrom(p, vis) ==
  LET later == {q \in p .. total - 1 : vis[q + 1]}
  IN  IF later = {} THEN INVALID ELSE Min(later)

\* Faulty variant: the constructor starts at row 0 without skipping.
BeginNoSkip(vis) == IF total = 0 THEN INVALID ELSE 0

\* iterator(tile, true) and operator++.
Begin(vis) == FirstVisibleFrom(0, vis)
\* Faulty variant: operator++ steps to the next row without skipping the
\* invisible ones.
AdvanceNoSkip(p, vis) == IF p + 1 < total THEN p + 1 ELSE INVALID

Advance(p, vis) == FirstVisibleFrom(p + 1, vis)

\* for (oid_t t : *tile): the rows the range-for visits.
RECURSIVE IterFrom(_, _)
IterFrom(p, vis) ==
  IF p = INVALID THEN <<>> ELSE <<p>> \o IterFrom(Advance(p, vis), vis)
Iteration == IterFrom(Begin(visible), visible)

(***************************************************************************)
(* Use                                                                     *)
(***************************************************************************)
\* RemoveVisibility's two PELOTON_ASSERTs.
CanRemove(t) == t < total /\ visible[t + 1]

\* Faulty variant: visible_tuples_ is not decremented.
RemoveVisibilityNoCount(t) ==
  /\ visible' = [visible EXCEPT ![t + 1] = FALSE]
  /\ UNCHANGED visCount

RemoveVisibility(t) ==
  /\ visible' = [visible EXCEPT ![t + 1] = FALSE]
  /\ visCount' = visCount - 1

\* A caller outside the filter loop removes a visible row.
RemoveRow ==
  /\ stage \in {"build", "use"} /\ filt = "idle"
  /\ \E t \in 0 .. total - 1 : CanRemove(t) /\ RemoveVisibility(t)
  /\ stage' = "use"
  /\ UNCHANGED <<lists, schema, total, colIds, filt, fpos, vis0, dest>>

\* ProjectColumns(original_column_ids, column_ids), called with the table
\* columns the schema shows and a sequence of them: it looks each id up
\* in original_column_ids and takes schema_[*ret], the entry indexed by the
\* id itself.  An id past the schema reads outside the vector.
ProjectColumns ==
  /\ stage \in {"build", "use"} /\ filt = "idle" /\ Len(schema) > 0
  /\ \E ids \in DistinctSeqs(Range(colIds), Len(colIds)) :
       /\ stage' = IF \E j \in 1 .. Len(ids) : ids[j] >= Len(schema)
                     THEN "fault" ELSE "use"
       /\ schema' = IF stage' = "fault" THEN schema
                    ELSE [j \in 1 .. Len(ids) |-> schema[ids[j] + 1]]
       /\ colIds' = IF stage' = "fault" THEN colIds ELSE ids
  /\ UNCHANGED <<lists, total, visible, visCount, filt, fpos, vis0, dest>>

\* The predicate on a row: evaluated on column 0 of the tile.
RowPasses(t) == GetValue(t, 1)[3] \in Passing

\* DExecute over a child's tile: for (t : *tile) RemoveVisibility(t) when
\* the predicate is false, then an empty tile is skipped and a non-empty
\* one becomes the output.
FilterBegin ==
  /\ stage \in {"build", "use"} /\ filt = "idle" /\ WellFormed
  /\ stage' = "use" /\ filt' = "loop"
  /\ fpos' = Begin(visible)
  /\ vis0' = visible
  /\ UNCHANGED <<lists, schema, total, visible, visCount, colIds, dest>>

FilterStep ==
  /\ filt = "loop" /\ fpos # INVALID
  /\ IF RowPasses(fpos)
       THEN /\ fpos' = Advance(fpos, visible)
            /\ UNCHANGED <<visible, visCount, filt>>
       ELSE IF CanRemove(fpos)
       THEN /\ RemoveVisibility(fpos)
            /\ fpos' = Advance(fpos, visible')
            /\ UNCHANGED filt
       ELSE /\ filt' = "fault"
            /\ UNCHANGED <<visible, visCount, fpos>>
  /\ UNCHANGED <<lists, schema, total, stage, colIds, vis0, dest>>

FilterEnd ==
  /\ filt = "loop" /\ fpos = INVALID
  /\ filt' = IF visCount = 0 THEN "skipped" ELSE "kept"
  /\ stage' = IF visCount = 0 THEN "done" ELSE stage
  /\ UNCHANGED <<lists, schema, total, visible, visCount, colIds, fpos, vis0, dest>>

(***************************************************************************)
(* Consumption: Materialize                                                *)
(***************************************************************************)
\* The base tiles of the schema, and GenerateTileToColMap: the columns of
\* the tile that come from base tile b, in column order.
BaseTiles == {schema[c].tile : c \in 1 .. Len(schema)}
ColsOf(b) == SelectSeq([c \in 1 .. Len(schema) |-> c],
                       LAMBDA c : schema[c].tile = b)

\* The order the unordered_map tile_to_cols happens to visit the tiles in.
TileOrders == {o \in [1 .. Cardinality(BaseTiles) -> BaseTiles] : IsInjective(o)}

\* MaterializeByTiles: row-wise unless the layout is COLUMN, or HYBRID with
\* at most column_count_threshold columns.
RowWise(layout) ==
  ~(layout = "COLUMN" \/ (layout = "HYBRID" /\ Len(schema) <= ColumnCountThreshold))

\* A copy is a sequence of SetValueFast writes <<new_tuple_id, column, value>>.
\* MaterializeRowAtAtATime: per base tile new_tuple_id starts at 0, the
\* outer loop visits the rows, the inner one the tile's columns.
RowAtATime(order) ==
  LET it == Iteration
      tileWrites(b) ==
        FlattenSeq([k \in 1 .. Len(it) |->
          [j \in 1 .. Len(ColsOf(b)) |->
             <<k - 1, ColsOf(b)[j], GetValue(it[k], ColsOf(b)[j])>>]])
  IN  FlattenSeq([i \in 1 .. Len(order) |-> tileWrites(order[i])])

\* Faulty variant: new_tuple_id declared once per base tile, not per column.
ColumnAtATimeNoReset(order) ==
  LET it == Iteration
      tileWrites(b) ==
        FlattenSeq([j \in 1 .. Len(ColsOf(b)) |->
          [k \in 1 .. Len(it) |->
             <<(j - 1) * Len(it) + k - 1, ColsOf(b)[j],
               GetValue(it[k], ColsOf(b)[j])>>]])
  IN  FlattenSeq([i \in 1 .. Len(order) |-> tileWrites(order[i])])

\* MaterializeColumnAtATime: per column new_tuple_id starts at 0, the
\* inner loop visits the rows.
ColumnAtATime(order) ==
  LET it == Iteration
      tileWrites(b) ==
        FlattenSeq([j \in 1 .. Len(ColsOf(b)) |->
          [k \in 1 .. Len(it) |->
             <<k - 1, ColsOf(b)[j], GetValue(it[k], ColsOf(b)[j])>>]])
  IN  FlattenSeq([i \in 1 .. Len(order) |-> tileWrites(order[i])])

\* The destination tile of GetTempTile(schema, num_tuples) after the
\* writes, with ok false if a write went past its num_tuples rows (which
\* corrupts memory).
ApplyWrites(ws, n) ==
  [ok   |-> \A i \in DOMAIN ws : ws[i][1] < n,
   rows |-> [r \in 0 .. n - 1 |-> [c \in 1 .. Len(schema) |->
              LET I == {i \in DOMAIN ws : ws[i][1] = r /\ ws[i][2] = c}
              IN  IF I = {} THEN NULL ELSE ws[Max(I)][3]]]]

\* Materialize: a tile of GetTupleCount() rows filled by the strategy the
\* layout selects.  The tile is a child's output or one the caller built.
Materialize ==
  /\ stage \in {"build", "use"} /\ filt \in {"idle", "kept"} /\ WellFormed
  /\ \E layout \in Layouts, order \in TileOrders :
       dest' = ApplyWrites(IF RowWise(layout) THEN RowAtATime(order)
                           ELSE ColumnAtATime(order), visCount)
  /\ stage' = "done"
  /\ UNCHANGED <<lists, schema, total, visible, visCount, colIds, filt, fpos, vis0>>

Next ==
  \/ AddPositionList \/ SetPositionListsAndVisibility \/ AddColumns
  \/ RemoveRow \/ ProjectColumns
  \/ FilterBegin \/ FilterStep \/ FilterEnd
  \/ Materialize

Spec == Init /\ [][Next]_ltvars

(***************************************************************************)
(* Properties                                                              *)
(***************************************************************************)
LTTypeOK ==
  /\ lists \in Seq(Seq(BaseIds)) /\ Len(lists) <= MaxLists
  /\ total \in 0 .. MaxRows
  /\ visible \in [1 .. total -> BOOLEAN]
  /\ stage \in {"build", "use", "done", "fault"}
  /\ filt \in {"idle", "loop", "kept", "skipped", "fault"}
  /\ Len(colIds) = Len(schema)

\* visible_tuples_, which GetTupleCount returns and Materialize sizes its
\* tile by, is the number of rows visible_rows_ marks, after any sequence
\* of construction, RemoveVisibility and filter steps.
VisibleCountCached ==
  visCount = Cardinality({i \in DOMAIN visible : visible[i]})

\* The filter loop of DExecute, which removes rows while iterating over
\* them, never trips RemoveVisibility's assertions, and when it ends the
\* visible rows are exactly those visible before it that satisfy the
\* predicate; the tile is skipped exactly when none is left.
FilterExact ==
  /\ filt # "fault"
  /\ filt \in {"kept", "skipped"} =>
       /\ \A i \in 1 .. total : visible[i] = (vis0[i] /\ RowPasses(i - 1))
       /\ (filt = "kept") = (\E i \in 1 .. total : visible[i])

\* Materialize, under either copy strategy, returns row for row and column
\* for column the values GetValue gives for the visible rows in order.
MaterializeExact ==
  dest # NULL =>
    /\ dest.ok
    /\ dest.rows = [r \in 0 .. Len(Iteration) - 1 |->
                      [c \in 1 .. Len(schema) |-> GetValue(Iteration[r + 1], c)]]

\* The tile as its users see it: the rows the range-for visits, each with
\* the values GetValue gives for every schema column, and the rows
\* Materialize returned ("overrun" if it wrote past its tile).
TileRows ==
  IF WellFormed
  THEN [k \in 1 .. Len(Iteration) |->
          [c \in 1 .. Len(schema) |-> GetValue(Iteration[k], c)]]
  ELSE <<>>

MaterializedRows ==
  IF dest = NULL THEN NULL
  ELSE IF dest.ok THEN [k \in 1 .. Cardinality(DOMAIN dest.rows) |-> dest.rows[k - 1]]
  ELSE "overrun"

Abstract == INSTANCE TileSpec WITH rows <- TileRows, phase <- stage,
                                   out <- MaterializedRows

\* LogicalTile implements TileSpec: once a tile is in use, RemoveVisibility,
\* the filter loop and ProjectColumns only take rows out of what its
\* iterator visits (in order) or reorder and drop columns; Materialize
\* returns exactly the rows the iterator visits, sized by visible_tuples_;
\* and a tile is consumed once, by Materialize or by the filter's skip of
\* an empty tile.
TileRefinesSpec == Abstract!Spec

\* After ProjectColumns each schema position shows the table column the
\* caller asked for there, and no id makes it read outside the schema.
ProjectKeepsColumns ==
  /\ stage # "fault"
  /\ \A j \in 1 .. Len(schema) :
       <<schema[j].tile, schema[j].col>> = Layout[colIds[j]]

====
