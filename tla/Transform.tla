----------------------------- MODULE Transform -----------------------------
(***************************************************************************)
(* DataTable::TransformTileGroup (src/src/storage/data_table.cpp): the    *)
(* layout tuner's conversion of a tile group to the table's default       *)
(* layout, running while inserters keep writing into the group.           *)
(*                                                                         *)
(* A tile group object is a version: its layout, its cells and its        *)
(* header's next_tuple_slot.  Version 1 is the group the table created;   *)
(* the transform allocates a new version, copies every column of every    *)
(* allocated slot column-at-a-time (SetTransformedTileGroup), copies the  *)
(* header and upserts the new version into the StorageManager's locator   *)
(* under the same tile group id.  Inserters keep the pointer              *)
(* active_tile_groups_ holds, so they claim and write in version 1.       *)
(* A cell is addressed as <<tile, column in tile, slot>>; a slot never    *)
(* written reads as the zeroed value.                                     *)
(***************************************************************************)
EXTENDS Integers, FiniteSets

CONSTANTS
  Inserters,     \* threads inserting one row each
  Cols,          \* column ids 0..n-1 of the table schema
  Cap,           \* tuples per tile group (GetAllocatedTupleCount)
  InitLayout,    \* layout of the group the table created: col -> <<tile, offset>>
  DefaultLayout, \* default_layout_ the tuner converts to
  InitRows,      \* rows already in the group: slot -> row
  InsertRows,    \* rows an inserter may insert: Cols -> value
  ThetaNum,      \* the tuner's threshold theta = ThetaNum / ThetaDen
  ThetaDen,
  Offsets,       \* tile group offsets the tuner may pass
  MaxTransforms, \* bound on the tuner's TransformTileGroup calls
  NULL

ZeroValue == 0
Slots     == 0..Cap - 1
Versions  == 1..MaxTransforms + 1
\* tile_groups_.GetSize(): the table holds this one group at offset 0.
TableSize == 1
\* The version active_tile_groups_ points at.
Active    == 1

ASSUME DOMAIN InitRows \subseteq Slots
ASSUME Cardinality(DOMAIN InitRows) + Cardinality(Inserters) <= Cap

\* Layout::LocateTileAndColumn(col, tile, offset).
LocateTileAndColumn(l, c) == l[c]

\* Layout::GetLayoutDifference: the share of columns whose tile differs.
\* "diff < theta" compared on integers.
LayoutDiffCount(a, b) == Cardinality({c \in Cols : a[c][1] # b[c][1]})
BelowTheta(a, b) == LayoutDiffCount(a, b) * ThetaDen < ThetaNum * Cardinality(Cols)

\* The cells of a group under layout l (TransformTileGroupSchema gives
\* each tile of l the columns l maps to it).
Cells(l) == {<<LocateTileAndColumn(l, c)[1], LocateTileAndColumn(l, c)[2], s>> :
               c \in Cols, s \in Slots}

VARIABLES
  layout,   \* layout[v]: the layout of version v (NULL if not allocated)
  cell,     \* cell[v]: its cells, <<tile, offset, slot>> -> value
  next,     \* next[v]: its header's next_tuple_slot
  made,     \* versions allocated so far
  locator,  \* the version tile_group_locator_ maps the group id to
  ipc,      \* inserter: "idle", "write" or "done"
  islot,    \* the slot it claimed
  irow,     \* the row it inserts
  tpc,      \* tuner: "idle", "copy", "header", "install"
  calls,    \* TransformTileGroup calls started
  src,      \* the version the tuner read from the locator
  dst,      \* the version it allocated
  col,      \* column_itr of the copy loop
  tup,      \* tuple_itr of the copy loop
  seen      \* history: the rows visible through the locator when it began

vars == <<layout, cell, next, made, locator, ipc, islot, irow, tpc, calls,
          src, dst, col, tup, seen>>

\* The value a reader of version v finds in column c of slot s.
ValueAt(v, c, s) ==
  LET loc == LocateTileAndColumn(layout[v], c) IN cell[v][<<loc[1], loc[2], s>>]

RowAt(v, s) == [c \in Cols |-> ValueAt(v, c, s)]

\* A slot of version v an inserter has claimed but not yet written.
InFlight(v, s) == v = Active /\ \E i \in Inserters : ipc[i] = "write" /\ islot[i] = s

\* Rows a scan through GetTileGroup finds in version v: every slot below
\* next_tuple_slot whose insert has returned.
Visible(v) == {<<s, RowAt(v, s)>> : s \in {x \in 0..next[v] - 1 : ~InFlight(v, x)}}

Init ==
  /\ layout  = [v \in Versions |-> IF v = 1 THEN InitLayout ELSE NULL]
  /\ cell    = [v \in Versions |->
                  IF v = 1
                  THEN [x \in Cells(InitLayout) |->
                          IF x[3] \in DOMAIN InitRows
                          THEN InitRows[x[3]][CHOOSE c \in Cols :
                                 LocateTileAndColumn(InitLayout, c) = <<x[1], x[2]>>]
                          ELSE ZeroValue]
                  ELSE <<>>]
  /\ next    = [v \in Versions |-> IF v = 1 THEN Cardinality(DOMAIN InitRows) ELSE 0]
  /\ made    = 1
  /\ locator = 1
  /\ ipc     = [i \in Inserters |-> "idle"]
  /\ islot   = [i \in Inserters |-> NULL]
  /\ irow    = [i \in Inserters |-> NULL]
  /\ tpc     = "idle"
  /\ calls   = 0
  /\ src     = NULL
  /\ dst     = NULL
  /\ col     = 0
  /\ tup     = 0
  /\ seen    = {}

tunerVars  == <<tpc, calls, src, dst, col, tup, seen>>
threadVars == <<ipc, islot, irow>>

(***************************************************************************)
(* Inserters: GetEmptyTupleSlot claims next_tuple_slot of the active      *)
(* group; TileGroup::InsertTuple writes every column at the place the     *)
(* group's own layout gives it.                                            *)
(***************************************************************************)
ClaimSlot(i, r) ==
  /\ ipc[i] = "idle"
  /\ next[Active] < Cap
  /\ ipc'   = [ipc EXCEPT ![i] = "write"]
  /\ islot' = [islot EXCEPT ![i] = next[Active]]
  /\ irow'  = [irow EXCEPT ![i] = r]
  /\ next'  = [next EXCEPT ![Active] = @ + 1]
  /\ UNCHANGED <<layout, cell, made, locator, tunerVars>>

WriteTuple(i) ==
  LET l == layout[Active] IN
  /\ ipc[i] = "write"
  /\ cell' = [cell EXCEPT ![Active] =
                [x \in DOMAIN @ |->
                   IF x[3] = islot[i] /\ \E c \in Cols : LocateTileAndColumn(l, c) = <<x[1], x[2]>>
                   THEN irow[i][CHOOSE c \in Cols : LocateTileAndColumn(l, c) = <<x[1], x[2]>>]
                   ELSE @[x]]]
  /\ ipc'  = [ipc EXCEPT ![i] = "done"]
  /\ UNCHANGED <<layout, next, made, locator, islot, irow, tunerVars>>

(***************************************************************************)
(* TransformTileGroup(offset, theta): two early returns, then allocation  *)
(* of the new group under default_layout_ with the same tile group id.    *)
(***************************************************************************)
OffsetNotFound(o) ==
  /\ tpc = "idle" /\ calls < MaxTransforms
  /\ o >= TableSize
  /\ calls' = calls + 1
  /\ UNCHANGED <<layout, cell, next, made, locator, threadVars, tpc, src,
                 dst, col, tup, seen>>

BelowThreshold(o) ==
  /\ tpc = "idle" /\ calls < MaxTransforms
  /\ o < TableSize
  /\ BelowTheta(layout[locator], DefaultLayout)
  /\ calls' = calls + 1
  /\ UNCHANGED <<layout, cell, next, made, locator, threadVars, tpc, src,
                 dst, col, tup, seen>>

StartTransform(o) ==
  /\ tpc = "idle" /\ calls < MaxTransforms
  /\ o < TableSize
  /\ ~BelowTheta(layout[locator], DefaultLayout)
  /\ calls'  = calls + 1
  /\ made'   = made + 1
  /\ layout' = [layout EXCEPT ![made + 1] = DefaultLayout]
  /\ cell'   = [cell EXCEPT ![made + 1] = [x \in Cells(DefaultLayout) |-> ZeroValue]]
  /\ src' = locator /\ dst' = made + 1
  /\ col' = 0 /\ tup' = 0
  /\ tpc' = "copy"
  \* history only: what a scan of the group could read at this point
  /\ seen' = Visible(locator)
  /\ UNCHANGED <<next, locator, threadVars>>

(***************************************************************************)
(* SetTransformedTileGroup: for each column, for each of the allocated    *)
(* tuples, orig_tile->GetValue then new_tile->SetValue; one step per      *)
(* value.  Then *new_header = *header.                                    *)
(***************************************************************************)
\* Faulty variant: the value is stored at the column offset of the
\* original layout instead of the new one.
CopyTargetOrigOffset(c) ==
  <<LocateTileAndColumn(layout[dst], c)[1], LocateTileAndColumn(layout[src], c)[2]>>

CopyTarget(c) == LocateTileAndColumn(layout[dst], c)

\* Faulty variant: the tuple loop runs while tuple_itr <= tuple_count.
MoreTuplesPastEnd(t) == t + 1 <= Cap

\* The inner loop condition tuple_itr < tuple_count, after tuple_itr++.
MoreTuples(t) == t + 1 < Cap

CopyValue ==
  LET t == CopyTarget(col) IN
  /\ tpc = "copy"
  /\ cell' = [cell EXCEPT ![dst][<<t[1], t[2], tup>>] = ValueAt(src, col, tup)]
  /\ IF MoreTuples(tup)
       THEN tup' = tup + 1 /\ UNCHANGED <<col, tpc>>
       ELSE tup' = 0 /\ col' = col + 1
            /\ tpc' = IF col + 1 \in Cols THEN "copy" ELSE "header"
  /\ UNCHANGED <<layout, next, made, locator, threadVars, calls, src, dst, seen>>

CopyHeader ==
  /\ tpc = "header"
  /\ next' = [next EXCEPT ![dst] = next[src]]
  /\ tpc'  = "install"
  /\ UNCHANGED <<layout, cell, made, locator, threadVars, calls, src, dst,
                 col, tup, seen>>

\* storage_tilegroup->AddTileGroup(tile_group_id, new_tile_group): an
\* upsert into the locator.
InstallTileGroup ==
  /\ tpc = "install"
  /\ locator' = dst
  /\ tpc'     = "idle"
  /\ UNCHANGED <<layout, cell, next, made, threadVars, calls, src, dst,
                 col, tup, seen>>

\* The bounded workload is done.
Terminated ==
  /\ tpc = "idle" /\ calls = MaxTransforms
  /\ \A i \in Inserters : ipc[i] = "done"
  /\ UNCHANGED vars

Next ==
  \/ \E i \in Inserters : (\E r \in InsertRows : ClaimSlot(i, r)) \/ WriteTuple(i)
  \/ \E o \in Offsets : OffsetNotFound(o) \/ BelowThreshold(o) \/ StartTransform(o)
  \/ CopyValue \/ CopyHeader \/ InstallTileGroup
  \/ Terminated

Spec == Init /\ [][Next]_vars

(***************************************************************************)
(* Properties                                                              *)
(***************************************************************************)
TTypeOK ==
  /\ made \in Versions /\ locator \in 1..made
  /\ next \in [Versions -> 0..Cap]
  /\ ipc \in [Inserters -> {"idle", "write", "done"}]
  /\ tpc \in {"idle", "copy", "header", "install"}
  /\ calls \in 0..MaxTransforms
  /\ col \in Cols \cup {Cardinality(Cols)} /\ tup \in Slots

\* A transform does not change the group's logical content: when the new
\* group replaces the old one in the locator, a scan through GetTileGroup
\* finds every row it could find when the transform began, in the same
\* slot and with the same value in every column, although inserters kept
\* claiming and writing slots of the old group during the column-by-column
\* copy.
TransformPreservesVisibleRows ==
  [][tpc = "install" /\ tpc' = "idle" =>
       \A sr \in seen : (sr[1] < next[locator] /\ RowAt(locator, sr[1]) = sr[2])']_vars

====
