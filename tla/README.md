# TLA+ models of the Peloton storage and scan path

This directory models the tuple storage and sequential-scan code under
`src/`. The parts are the row-store `DataTable`, the global
`StorageManager` registries, the index maintenance of `DataTable`, the
`SeqScanExecutor` access strategies, `LogicalTile` and the layout
transformation of a tile group. The models are checked with TLC.

## 1. The system

| Part | Source | State | Operations |
|---|---|---|---|
| DataTable | `src/src/storage/data_table.cpp` | `tile_groups_` (offset → oid), `active_tile_groups_`, `tile_group_count_`, `number_of_tuples_`, `sparse_index` (offset+1 → (slot-0 key, latest key)), `tile_group_pre`, `tile_group_array_` | constructor, `InsertTuple` (ordinary and the `INT32_MAX-1` flush sentinel), `GetEmptyTupleSlot`, `AddDefaultTileGroup`, `KVStoreTileGroup`, `IncreaseTupleCount`, index insertion, version insertion, layout transformation |
| TileGroup / header | not under `src/` | `next_tuple_slot`, tile storage | `InsertTuple`: claim a slot under the header lock, then copy the tuple |
| StorageManager | `src/src/storage/storage_manager.cpp`, `.h` | `tile_group_locator_` (CuckooMap oid → group), `tile_group_tree_` (btree_map (table, offset) → group), `tile_group_list_`, column stores (Google B-tree, Masstree, hopscotch map, cuckoo map) | `AddTileGroup`, `GetTileGroup`, `GetTileGroupByBTree`, `AddTo*`/`Get*` per backend |
| SeqScanExecutor | `src/src/executor/seq_scan_executor.cpp` | scan cursor, `table_tile_group_count_`, `total_tuple`, `low_`/`high_`, group range | `DInit`, `DExecute` for HEAPARRAYSCAN, HEAPTREESCAN, HEAPTREESCANINDEX and the four column-store scans, `GetPredicateInfo` |
| LogicalTile | `src/src/executor/logical_tile.cpp` | position lists, `visible_rows_`, `visible_tuples_`, `total_tuples_` | `AddPositionList`, `AddTileTupleVisible`, `RemoveVisibility`, iterator, `Materialize*`, the `Get*AsStrings` readers |
| ItemPointer, TupleIterator, varstr | `src/src/include/...`, `src/third_party/masstree/varstr.h` | (group, slot); a cursor; byte strings | comparisons, `Next`, `compare` |

**How the parts interact.** Many worker threads call `DataTable::InsertTuple` with no lock.
1. `GetEmptyTupleSlot` picks an active group.
2. It retries `TileGroup::InsertTuple` until it gets a slot.
3. The thread that takes the last slot runs `AddDefaultTileGroup`. This:
   - allocates a group;
   - appends the group to `tile_groups_`;
   - registers it with the `StorageManager` (locator, and the B-tree under offset `tile_group_count_`);
   - installs it as active;
   - pushes it on `tile_group_array_`;
   - only then increments `tile_group_count_`.
4. Every insert then writes a sparse-index entry keyed by `tile_group_count_`.

A benchmark loader inserts the flush sentinel to copy every group into the hopscotch map. A scan reads the table's group count in `DInit`. It then visits the groups by offset:
- through `GetTileGroup` (locator);
- through `GetTileGroupBTree`;
- or through the B-tree pruned by the sparse index.

The column-store scans decode a key range into (group, slot) bounds, and `LogicalTile` reads those bounds from the backend maps.

A layout tuner calls `TransformTileGroup`, which copies a group into a new group under the default layout and replaces it in the locator under the same id, while inserters go on writing through the pointer `active_tile_groups_` holds.

**What is hard.** The allocation protocol is lock-free. Its correctness depends on the order of the stores in `AddDefaultTileGroup` and on which thread may run it. The sparse index and the B-tree key are derived from a counter that other threads move. Scans run while inserts continue. None of this shows up in a single-threaded unit test except the sparse-index key shift, and that one only for a point scan of the last key of a full group.

**What makes each part correct.**
- **DataTable:**
  - no two inserts share a slot (this rests on the atomic claim of `TileGroup::InsertTuple`, which is not in this repository and is assumed, not checked);
  - every counted group is registered and reachable;
  - exactly the needed groups exist;
  - every insert returns;
  - the sparse index never prunes a group holding the key;
  - the B-tree maps every counted offset to its group;
  - the creators of one table never update the unsynchronised registry containers at once (other tables and `TransformTileGroup`, which share the global `StorageManager`, are not modelled beside it).
- **Flush:** a flush leaves a current copy of every group, and loses no insert that returned before it began.
- **Layout transformation:** the new group holds the same rows as the old one, under the new layout.
- **Index maintenance:** no two committed rows share a primary or unique key, every committed row is reachable through every index, an insert commits a foreign key only onto a committed row, and every insert and update returns.
- **Scans:** every strategy returns the same rows as a full heap scan. Column-store range decoding returns exactly the keys in the range.
- **LogicalTile:**
  - the visible count is the number of visible rows;
  - iteration is ascending over the visible rows;
  - row-wise and column-wise materialisation agree.

## 2. Modules and runs

### DataTable.tla (with MC_DataTable.tla)

Constants:
- `Threads`;
- `Cap` (`tuples_per_tilegroup_`);
- `ActiveCount` (`active_tilegroup_count_`);
- `MaxInserts` and `MaxFlushes`, the workload bounds.

The keys inserted are 0, 1, 2, … as in the benchmark loaders.

| Variable | Code |
|---|---|
| `claimed[g]`, `data[g][s]` | the group header's `next_tuple_slot`, column 0 of slot `s` (NULL before the tuple is copied) |
| `allocated`, `tileGroups` | `tile_group_oid_`, `tile_groups_` |
| `locator`, `tree` | `tile_group_locator_`, `tile_group_tree_` |
| `active`, `tgCount`, `numTuples` | `active_tile_groups_`, `tile_group_count_`, `number_of_tuples_` |
| `sparse`, `hop` | `sparse_index`, `tuples_hopscotch_map_` |
| `pc`, `key`, `aid`, `tg`, `slot`, `newId`, `sp`, `fi` | each thread's position in the call and its locals |
| `seen` | a history variable: the keys whose insert had returned into a counted group when the thread's flush began |

Each atomic store or read-modify-write of the code is one step. The retry loop's failed pass is `Retry`, a stuttering step: the thread spins, and the system is not deadlocked.

| Action | Code |
|---|---|
| `InsertTuple` | `GetEmptyTupleSlot` up to `active_tile_group_id` |
| `ClaimSlot` / `Retry` | one pass of the retry loop (slot claim of `TileGroup::InsertTuple`) |
| `WriteTuple` | tuple copy of `TileGroup::InsertTuple` and the last-slot test |
| `CreateTileGroup` … `CountTileGroup` | the stores of `AddDefaultTileGroup` in the order `AddDefaultTileGroupSteps` lists |
| `SparseCheck`, `SparseWrite` | `Contains`, then `Update`/`Insert`, each reading `tile_group_count_` |
| `FinishInsert` | `InsertTuple(tuple, location, …)` on a table without indexes: `IncreaseTupleCount(1)` |
| `StartFlush`, `KVStoreTileGroup`, `EndFlush` | the sentinel's loop over `tile_group_count_` and the copy into the hopscotch map |

Abstractions:
- `TileGroup::InsertTuple` is not under `src/`, so it is modelled from the spec.
- A read of a slot that is not yet written returns the zeroed tile value 0.
- Column layout building in the flush is reduced to copying column 0.
- The database is `default_database`, which is the branch the benchmarks take.

| Run | cfg | Expect | Shows |
|---|---|---|---|
| alloc | `DataTable_alloc.cfg`: 2 threads, Cap 2, 1 active group, 4 inserts, 1 flush | pass | `TypeOK`, `PublishedBeforeCounted`, `SerialRegistration`, `AllocationExact`, `InsertReturns`, `FlushKeepsReturnedInserts` |
| sparse | 1 thread, Cap 2, 2 inserts | violation | `SparseIndexNoFalseNegative`: the last key of a full group is written to the next group's entry |

The sparse entry is wrong for a second reason that the key shift hides in
the shortest trace. The entry is `<tp_0, tp_slot>`: slot 0's key and the
writing thread's key. Keys are drawn before slots are claimed, so the two
can be out of order. Suppose the entry is keyed by the thread's own group
(the shift removed), with two threads and two inserts:
1. `t1`, with key 0, claims slot 1.
2. `t2`, with key 1, claims slot 0.
3. `t1` writes the entry `<1, 0>`.

A point scan for key 0 then prunes the group, and TLC reports
`SparseIndexNoFalseNegative` violated. The hazard list records this (line
265).

`FlushLeavesCurrentCopies` (a flush leaves a current copy of every group in
the hopscotch map) stays defined in `DataTable.tla`. With one thread, Cap 2,
two inserts and two flushes, TLC finds it violated: `AddToHopscotchMap`
(`storage_manager.cpp:412`) uses `insert`, which keeps the first flush's
copy, whereas spec §4.2 says re-running the flush replaces it. The project's
runs are limited in number, and this check is no longer kept as a run: the
index-maintenance runs below answer a question with worse consequences.
The hazard list records it.

`TreeKeyMatchesOffset` (the B-tree maps every counted offset to its group)
stays defined. With 2 threads, Cap 2 and 4 inserts, TLC finds it violated:
a creator registers its group under a stale `tile_group_count_`, and the
B-tree keeps the earlier entry. This check is no longer kept as a run. Its
window, a group that is active but not yet counted, is the one `scan_lag`
shows. The hazard list records it.

**Flush racing inserts.** The flush loop copies `GetNextTupleSlot()` rows
of each group while other threads go on claiming and writing slots, so a
copy can hold the zeroed value 0 of a claimed slot whose tuple is not yet
written. `FlushKeepsReturnedInserts` states what a caller can still rely
on: when the flush returns, every key whose insert had returned into a
counted group before the flush began is in the hopscotch copy of its group.
It holds in `alloc`, and the mutant `CopyRowsShort` (a copy one row short)
breaks it. The restriction to counted groups is needed. With it removed,
TLC finds a violation: an insert returns into a group that is installed as
active but not yet counted, and the flush loop, bounded by
`tile_group_count_` (line 336), never reaches that group. Spec §4.2 asks
for a fully populated group before a flush, so this is a hazard and not a
finding.

That window, in which a creator's group is active but not yet counted, also lets a second creator reach the unlocked `tile_group_array_.push_back` (line 1156) while the first is still in it. That data race is recorded as a hazard and not kept as a separate run.

**Bounds.** Two threads and two-slot groups are the smallest setting where one thread spins while another creates a group. Four inserts fill two groups. That lets a second creator run while the first has installed but not yet counted its group, and that is the case every ordering property is about. `ActiveCount = 1` is the code's default (`default_active_tilegroup_count_`). The alloc run has about 160 000 distinct states and finishes in well under a minute.

**Fairness.** `Fairness` is weak fairness on each thread's steps after its call has started. A thread that is not blocked on a lock keeps being scheduled. The code holds no lock across steps, so a started call never waits on anything except another thread's progress. Issuing a new call is not fair: clients may stop. The workload is bounded, so a spinner's claim eventually stays enabled. Without the bound the retry loop is lock-free but not wait-free, and a thread could starve.

**Mutants.** Each property of the pass run is shown to detect a faulty variant of the code defined in the module next to the definition it replaces:
- a claim that does not advance the slot counter;
- a claim on a full group;
- `tile_group_count_` advanced before registration;
- activation before registration;
- an off-by-one last-slot test;
- a group that is never installed.

### SeqScan.tla and ScanSpec.tla (with MC_SeqScan.tla)

`SeqScan` EXTENDS `DataTable` and adds one executor running `DInit` and then `DExecute` calls, interleaved with the inserting threads.

Constants:
- `Strategies` is a set of `seq_scan_type` values (`HEAPARRAYSCAN`, `HEAPTREESCAN`, `HEAPTREESCANINDEX`). The variable `scanType` is chosen from it in the initial state and never changes, so one run covers several strategies.
- `Pred` is the predicate, an expression tree of `AND` and comparisons on column 0 with a constant right child.

`Predicate.tla` holds the predicate operators that SeqScan and ColumnScan share. `Eval` evaluates a predicate on a key. `GetPredicateInfo` flattens it into (operator, value) pairs the way the C++ function does. Both are RECURSIVE operators.

| Variable | Code |
|---|---|
| `spc` | where the executor is: before `DInit`, entering `DExecute`, in its group loop, returned false, or crashed |
| `stc`, `cur` | `table_tile_group_count_`, `current_tile_group_offset_` |
| `infos` | the member `predicate_infos`, which is never cleared |
| `out` | the values of the rows in the output tiles so far |
| `startRows` | a history variable: the matching keys whose insert had returned when `DInit` ran |

| Action | Code |
|---|---|
| `ScanInit` | `DInit`: reads `tile_group_count_` once, resets the offset |
| `ScanCall` | entry of `DExecute`; the index scan appends `GetPredicateInfo` to `predicate_infos` |
| `ScanGroupMissing` | `GetTileGroupByBTree` on an offset the B-tree lacks: `find(...)->second` on `end()` |
| `ScanGroupPruned` | the sparse-index `continue` of HEAPTREESCANINDEX, which looks up the already-incremented offset |
| `ScanGroupVisit` | one pass of the loop: the position list over `GetNextTupleSlot()` slots, `continue` if empty, else one output tile and return true |
| `ScanEnd` | the loop condition fails: return false |

`GetTileGroup` returns the empty tile group for an oid the locator lacks, so an array scan sees 0 tuples there (`ActiveTupleCount`). A sparse-index miss leaves `min_max` default-constructed. The outcome of comparing against it is not fixed, so the model lets such a group be either pruned or visited.

`ScanSpec` is the abstract scan. It begins by recording the committed matching rows, emits non-empty batches of matching rows present in the table, and finishes only once every recorded row has been emitted. `SeqScan` maps onto it:
- `Committed` is the matching keys whose insert returned;
- `Present` is the matching values in claimed slots;
- the phase is mapped, with a crash counted as still scanning, so that a crash shows up as a liveness failure.

TLC checks the refinement as `ScanRefinesSpec == Abstract!SafeSpec`, and its liveness as `ScanTerminates == Abstract!Terminates`. The fairness of `Abstract!Spec` is stated over the abstract variables, and TLC cannot evaluate its `ENABLED` under this mapping. The leads-to is the same requirement stated directly.

**Fairness.** Each inserting thread keeps its weak fairness. The executor's steps are weakly fair too: it runs on its own worker thread and holds no lock.

| Run | cfg | Expect | Shows |
|---|---|---|---|
| scan_heap | `SeqScan_heap.cfg`: 1 inserter, Cap 2, 3 inserts, no flush, HEAPARRAYSCAN and HEAPTREESCAN, range `0 < c0 < 3` | pass | `ScanTypeOK`, `ScanRefinesSpec`, `ScanTerminates` |
| scan_lag | 2 inserters, Cap 2, 4 inserts, array scan | violation | `ScanRefinesSpec`: an insert into a group installed as active but not yet counted returns, and a later scan misses it |
| scan_indexgt | 1 inserter, Cap 2, 3 inserts, HEAPTREESCANINDEX with `c0 > 0` | violation | `ScanRefinesSpec`: a single comparison is treated as a point lookup, and the accumulated `predicate_infos` turn it into the range [0, 0]; groups holding matching keys are pruned |

**Bounds.** With three inserts into two-slot groups, a second group exists, its first key is above 0, and a scan can return one tile and re-enter `DExecute`. With one inserter the pass runs isolate the strategies from the count lag, which scan_lag exhibits on its own. The mutants are:
- a `DInit` that reads the tuple count instead of the group count;
- a tuple loop one slot short;
- a loop that does not advance past an empty group.

### ColumnScan.tla (with MC_ColumnScan.tla)

This module covers the column-store branch of `SeqScanExecutor::DExecute` (GOOGLEBTREESCAN, MASSBTREESCAN, HOPSCOTCHMAPSCAN, CUCKOOMAPSCAN) and the `LogicalTile` readers that turn the decoded bounds into rows:
- `GetGoogleKValsAsStrings` and `GetMassKValsAsStrings`;
- `GetHopscotchKValuesAsStrings` and `GetCuckooKValuesAsStrings`;
- the `Get*TupleAsStrings` point readers.

The table is in the state a benchmark load leaves it in. Keys `0 .. Loaded-1` were inserted in order into groups of `C` slots, then flushed. Every group holding a tuple is in the column store. The empty group that the last group's creator added is not, because `KVStoreTileGroup` skips groups with `tuple_count == 0`.

| Variable | Code |
|---|---|
| `pred`, `backend` | `predicate_`, the store the table was flushed to |
| `low`, `high` | the members `low_`, `high_` (default-constructed, kept across calls) |
| `st`, `ed`, `total`, `tmap`, `isPoint` | `tile_group_st_`, `tile_group_ed_`, `total_tuple`, `tile_map_`, `is_point` |
| `phase`, `rows` | decoded / read / fault, and the values the reader returned |

| Action | Code |
|---|---|
| `DecodeAll` | no predicate: every group up to `table_tile_group_count_` |
| `DecodePoint` | one extracted comparison (of any kind) decoded as a point |
| `DecodeRange` | several comparisons: `low_` from the last GT, `high_` from the last LT, `total_tuple` in `uint32` arithmetic; a bound never set cannot be serialised (fault) |
| `KValsScan`, `MapScan`, `TupleScan` | the range readers of the ordered stores and of the hash maps, and the point readers; each either returns rows or faults on a missing group or an index past a block |

`oid_t` is a 32-bit unsigned integer. TLC's integers are 32-bit signed, so the width is the constant `OidBits` (8 in the runs). The loaded keys stay far below the wrap, and the wrap itself is still modelled (`U32`, `TotalTuple`).

The property is `ReadExact`. Whenever the predicate's bounds are keys of the table, the scan must read without a fault and return exactly the keys a heap scan would, in key order.

| Run | cfg | Expect | Shows |
|---|---|---|---|
| col_bench | `ColumnScan_bench.cfg`: C 2, 5 keys, all four stores; full and point scans on all of them, open ranges on the ordered stores (the queries the benchmarks issue to each) | pass | `ColumnTypeOK`, `ReadExact` |
| col_fullhop | hopscotch, 4 keys, no predicate | violation | `ReadExact`: a full scan of a table whose groups are exactly full looks up the unflushed empty last group, and the reader dereferences null |

Cases seen while modelling, kept as hazards rather than runs:
- with the hopscotch store and `0 < c0 < 3`, `ReadExact` fails: the hopscotch (and cuckoo) reader starts at slot `tuple_id_st`, so it returns the excluded lower bound (line 716);
- a single comparison `c0 > a` is decoded as the point `a`;
- a reversed range wraps `total_tuple`;
- GE/LE bounds leave `low_`/`high_` default-constructed.

**Bounds.** Five keys in two-slot groups give three groups, the last one partial. A range can then start and end in different groups with a whole group between them. Four keys give exactly full groups. The mutants are:
- a one-based slot in `ValueAt`;
- an inclusive `total_tuple`;
- an unranged hash-map loop running to `ed` inclusive.

### LogicalTile.tla and TileSpec.tla (with MC_LogicalTile.tla)

A `LogicalTile` names rows of base tiles through position lists. The module covers:
- its construction;
- the operations that change it;
- the filter loop of `SeqScanExecutor::DExecute` over a child executor's tiles;
- `Materialize` with both copy strategies.

A base-tile value is modelled as the triple (base tile, column in it, base tuple id). Every cell is then distinct, so a value copied to the wrong place shows up.

Constants:
- `Layout` maps table columns to (base tile, column). The run uses a hybrid group, with columns 0 and 1 in tile A and column 2 in tile B.
- `BaseIds`, `MaxRows`, `MaxLists` and `MaxCols` bound the tiles built.
- `Passing` is the set of base tuples the predicate keeps.
- `Layouts` is the set of `peloton_layout_mode` values.

| Variable | Code |
|---|---|
| `lists`, `schema` | `position_lists_`, `schema_` (ColumnInfo: base tile, origin column, position-list index) |
| `total`, `visible`, `visCount` | `total_tuples_`, `visible_rows_`, `visible_tuples_` |
| `stage` | build → use → done (materialised or skipped), or fault |
| `colIds` | a history variable: the table column each schema position shows, which the caller passes to `ProjectColumns` as `original_column_ids` |
| `filt`, `fpos`, `vis0` | the filter loop's state, its iterator position, and `visible_rows_` when the loop began |
| `dest` | the tile `Materialize` returned |

| Action | Code |
|---|---|
| `AddPositionList` | the first list fixes `total_tuples_` and makes every row visible; later lists must match its length |
| `SetPositionListsAndVisibility` | replaces the lists; `resize` keeps existing `visible_rows_` bits |
| `AddColumns` | `LocateTileAndColumn` plus `AddColumn` for each id, with position list 0 |
| `RemoveRow` | `RemoveVisibility` by a caller, under its two assertions |
| `ProjectColumns` | `schema_[*ret]` for each requested id |
| `FilterBegin`, `FilterStep`, `FilterEnd` | `for (t : *tile)` with `RemoveVisibility` on a false predicate, then skip the tile if `GetTupleCount() == 0` |
| `Materialize` | `GetTempTile(schema, GetTupleCount())`, `GenerateTileToColMap`, then `MaterializeRowAtAtATime` or `MaterializeColumnAtATime` as `MaterializeByTiles` chooses |

The iterator is modelled by its constructor and `operator++`, which re-read `visible_rows_` (`FirstVisibleFrom`, `IterFrom`). Each copy strategy is its own loop nest: a sequence of `SetValueFast` writes, with `new_tuple_id` reset where the code resets it. `ApplyWrites` builds the destination tile from those writes and flags any write past its rows. The order of `unordered_map` iteration is unspecified, so every order of the base tiles is explored.

| Run | cfg | Expect | Shows |
|---|---|---|---|
| lt_ops | `LogicalTile_ops.cfg`: rows ≤ 2, lists ≤ 2, columns ≤ 2 over a two-tile hybrid group, all three layouts | pass | `LTTypeOK`, `VisibleCountCached` (spec: `visible_tuple_count == popcount(visible_rows)`), `FilterExact` (removal during iteration keeps exactly the matching rows), `MaterializeExact` (both strategies equal `GetValue` on the visible rows in order), `TileRefinesSpec` |

**Refinement.** `TileSpec.tla` states what a tile promises its users,
without position lists or base tiles. A tile is a sequence of rows and a
phase (`build`, `use`, `done`, `fault`):
- while it is built, its rows may become anything;
- once in use, a step may only take one row out (keeping the order of the
  others) or project every row onto a sequence of distinct columns;
- it is consumed once, by a materialisation that returns exactly its rows,
  or, when no rows are left, by being dropped;
- a contract error ends its use.

`LogicalTile` maps onto it through `TileRows` (the rows the range-for
visits, each with `GetValue` for every schema column), `stage`, and
`MaterializedRows` (the destination tile's rows, or `overrun` if a write
went past it). `TileRefinesSpec == Abstract!Spec` is checked in `lt_ops`.
The mutant `AdvanceNoSkip`, an `operator++` that does not skip invisible
rows, breaks it: `Materialize` then writes more rows than `visible_tuples_`
sized the tile for.

`ProjectKeepsColumns` stays defined in `LogicalTile.tla`. With the same
bounds TLC finds it violated in three steps. `ProjectColumns`
(`logical_tile.cpp:510`) indexes `schema_` by the column id, not by the id's
position in `original_column_ids`. No executor under `src/` calls
`ProjectColumns`, so this check is no longer kept as a run; the hazard list
records it.

Deadlock is not checked: a tile stops changing once it is consumed. The mutants are:
- `visible_rows_` not resized by `SetPositionListsAndVisibility`;
- `RemoveVisibility` without the decrement;
- an iterator constructor that does not skip invisible rows;
- column-at-a-time copy with `new_tuple_id` not reset per column;
- `operator++` without the skip of invisible rows.

Spec §4.3 says that HYBRID below the column threshold copies row-at-a-time. `MaterializeByTiles` copies column-at-a-time in that case. The spec calls the strategy choice a performance decision, and `MaterializeExact` shows the output is the same either way.

**Bounds.** Two rows, and two lists, make it possible to:
- hide one row and keep the other;
- have two columns reading different lists;
- have columns from two base tiles, so the strategies' loop orders differ.

Columns drawn from `{0, 1, 2}` make it possible to build schemas whose table ids are not their positions, which is the `ProjectColumns` case.

### TableIndex.tla (with MC_TableIndex.tla)

This module models what happens to a row's index entries:
- an insert, `InsertTuple(tuple, location, ..)`;
- an update, `AcquireVersion` followed by `InstallVersion`.

The module is not composed with `DataTable`. The slot an insert claims is
that module's business, so here a slot is simply the inserting thread's row
id.

Three collaborators are not in this repository. They are modelled by the
contract `DataTable` relies on:
- **The indexes.** `CondInsertEntry` and `InsertEntry` are atomic on one
  index, and an entry is a `<<key, row>>` pair.
- **`IsOccupied`.** An entry occupies its key while its row is committed or
  its writer has not aborted.
- **The transaction manager.** It commits a write that returned true and
  aborts one that returned false or threw.

| Definition | Code |
|---|---|
| `StartInsert`, `CheckConstraints` | `InsertTuple(tuple, location, ..)` up to the index count, with `CheckConstraints`: its NOT NULL loop and its switch over the schema's constraint types, whose default case throws (a throw ends in `threw`) |
| `AllocIndirection`, `SpinIndirection` | the `while (true)` loop on `AllocateIndirection` in `InsertInIndexes`; a full array makes the thread loop without effect |
| `AddDefaultIndirectionArray` | run by the thread whose cell was `INDIRECTION_ARRAY_MAX_SIZE - 1` |
| `InsertInIndexes` | one iteration of the loop from `index_count - 1` down: `CondInsertEntry` on primary/unique, `InsertEntry` otherwise, return false at a refusal |
| `FinishInsert` | `CheckForeignKeyConstraints`, then `IncreaseTupleCount` and the commit |
| `FKOutcomes`, `FKIndex`, `FKKey`, `VisibleTo` | `CheckForeignKeyConstraints` (981-1044): the loop from the last index down to the first live primary key, the key `SetFromTuple` builds from the foreign-key columns, `ScanKey`, and the visibility of `location_ptrs[0]` |
| `AcquireVersion` | `GetEmptyTupleSlot(nullptr)`: a slot recycled by the GC, or the null dereference of `tuple->GetValue(0)` (state `crash`, which stops every thread); `IncreaseTupleCount`; then `InstallVersion`'s `CheckConstraints` on the new version |
| `InsertInSecondaryIndexes`, `SkipsIndex` | one iteration of its loop: skip the primary key and indexes with no target column; `res =` the conditional insert's result, without stopping |
| `FinishInstall` | `InstallVersion` returning `res` |

Updates never set primary-key columns, because the update executor turns a
primary-key change into a delete and an insert.

**Foreign keys.** The table's foreign key references its own primary key,
so `GetTableWithOid` always finds the sink table and the `catch` is never
reached. `ScanKey` returns entries in the index's own order, which is not
in this repository. `location_ptrs[0]` is therefore any entry under the key,
and `FKOutcomes` is the set of results that choice allows. "Visible" means
the entry's row has a committed version or is the thread's own row: that is
the contract `IsVisible(.., READ_ID)` gives for the rows this model writes.

| Run | cfg | Expect | Shows |
|---|---|---|---|
| idx_ops | `TableIndex_ops.cfg`: inserters `a`, `b`, updater `u`, committed rows `r1`, `r2`; indexes primary key (column 0), unique (column 1), plain (column 2); `INDIRECTION_ARRAY_MAX_SIZE = 3` | pass | `TIxTypeOK`, `UniqueLiveKeys` (no two committed rows share a unique key), `IndexComplete` (every committed row has an entry under its committed key in every index), `InsertReferencesCommitted` (an insert commits its foreign key, column 2 onto the primary key, only onto a committed row or itself), `EveryOperationReturns` |
| idx_unique2 | the same with columns 1 and 2 both unique, no DROP INDEX, no foreign key | violation | `UniqueLiveKeys` |
| idx_drop | one inserter, no updater, no foreign key; DROP INDEX of the plain index (oid 22) | violation | `IndexComplete` |

**DROP INDEX.** `DropIndexWithOid(oid)` is an action of a catalog thread.
It may run at any point, with no fairness, since a DROP may never come.
Index oids are 20, 21 and 22, so an oid differs from its offset. The loops
skip a dropped slot, because `GetIndex` returns `nullptr`. Both safety
properties range over the indexes no DROP has named (`Kept`). `idx_ops`
drops oid 20, the primary key at offset 0, which the code handles
correctly.

**Finding (idx_drop).** `DropIndexWithOid` (`data_table.cpp:1347`) starts
`index_offset` at 0, and its search loop breaks without assigning it. The
function therefore always nulls slot 0 and clears its column set. In the
trace:
1. DROP INDEX names oid 22.
2. Slot 0, the primary key, becomes null.
3. The next insert skips it and commits without a primary-key entry.

The index that was named keeps being maintained, and the primary key's
uniqueness is no longer checked.

**Finding (idx_unique2).** `InsertInSecondaryIndexes` (`data_table.cpp:789`)
assigns `res` at every unique index it visits and does not stop at a refusal,
so it returns only the last unique index's result. In the trace:
1. The update of `r1` sets column 1 to 3 and column 2 to 2.
2. Index 2 refuses key 2, which belongs to `r2`.
3. Index 1 accepts key 3, which overwrites `res` with true.
4. `InstallVersion` returns true, and `r1` commits with `r2`'s unique key.

Spec §7 says that a uniqueness violation is surfaced as a failure.

**Bounds.**
- The insert tuples cover every outcome of `CondInsertEntry`: a NULL primary
  key, a primary key taken by `r2`, a unique key taken by `r1`, and the two
  inserters colliding with each other.
- Two committed rows and an array size of 3 put the array's last cell at
  offset 2. The first inserter therefore takes it, and the second can reach
  the full array before the replacement is installed.
- A fifth tuple, `T(4, 4, 3)`, has a foreign key onto the primary key 3
  that `T(3, 3, 3)` inserts. Its check can therefore meet that insert's
  entry before the insert commits.
- The run has about 190 000 distinct states and takes about 100 s.

**Fairness.** Weak fairness on each thread's steps, as for `DataTable`.
The spinning step changes nothing, so it never counts as progress. Under
fairness, the thread that must install the replacement array does so.

**Mutants.**
- `IsUniqueIndexPKOnly` drops the `UNIQUE` case label, and `UniqueLiveKeys`
  fails.
- `LastIndexOffByOne` starts the loops one index low, and `IndexComplete`
  fails.
- `LastIndexPastEnd` starts them at `index_count`, and `TIxTypeOK` fails.
- `IsLastIndirectionPastEnd` never triggers the replacement, and
  `EveryOperationReturns` fails.
- `FKOutcomesAnyEntry` accepts any entry under the key, visible or not,
  and `InsertReferencesCommitted` fails: the child commits while its
  parent's insert is still in flight.

**Foreign-key cases seen while modelling, not kept as runs.** Both were
found by TLC in scratch runs and are listed as hazards:
- `InstallVersion` (`data_table.cpp:309`) never calls
  `CheckForeignKeyConstraints`. In the `idx_ops` configuration, the updater
  sets column 2 to 3 and commits a row whose foreign key has no parent.
- Only `location_ptrs[0]` is tested (line 1021). With three inserters:
  1. A parent insert of key 5 fails its own foreign-key check, and its
     primary-key entry stays in the index.
  2. A second insert of key 5 commits.
  3. A child of 5 reads the aborted entry first and is rejected.

**Deliberately not a property.** An insert refused by a late index keeps the
entries it made in the indexes visited before. The comment at line 718 says
these are kept on purpose, because readers may already hold the pointer.
They occupy their keys until the writer aborts. `idx_ops` reaches these
states, and both safety properties hold despite them. Spec §7's "no partial
row visible" would only restate the code's stated choice, so it is recorded
as a hazard instead.

### Transform.tla (with MC_Transform.tla)

`DataTable::TransformTileGroup` and its helpers (`data_table.cpp:1418-1543`).
A group object is a *version*: its layout, its cells addressed as
`<<tile, column in tile, slot>>`, and its header's `next_tuple_slot`.

| Variable | Code |
|---|---|
| `layout[v]`, `cell[v]`, `next[v]` | a tile group object: its `Layout`, its tiles, its header |
| `locator` | the version `tile_group_locator_` maps the group's id to |
| `ipc`, `islot`, `irow` | an inserter: claimed / written, its slot, its row |
| `tpc`, `calls`, `src`, `dst`, `col`, `tup` | the tuner: where it is, calls made, the group it read, the group it allocated, `column_itr`, `tuple_itr` |
| `seen` | a history variable: the rows a scan through `GetTileGroup` could read when the transform began |

| Action | Code |
|---|---|
| `ClaimSlot`, `WriteTuple` | `GetEmptyTupleSlot`'s claim on the active group, and the tuple copy of `TileGroup::InsertTuple` under that group's layout |
| `OffsetNotFound`, `BelowThreshold` | the two early `return nullptr` |
| `StartTransform` | `GetLayoutDifference`, `TransformTileGroupSchema`, allocation under `default_layout_` with `GetAllocatedTupleCount()` slots |
| `CopyValue` | one `GetValue`/`SetValue` of the column-at-a-time loop |
| `CopyHeader` | `*new_header = *header` |
| `InstallTileGroup` | `AddTileGroup(tile_group_id, new_tile_group)`: an upsert into the locator |

Abstractions: `Layout` and `TileGroup::InsertTuple` are not under `src/`.
`LocateTileAndColumn` and `GetLayoutDifference` (the share of columns whose
tile differs) are modelled from their use, and an insert writes its row in
one step. The table holds the one group at offset 0, and it has room for
every insert, so no new group is created.

| Run | cfg | Expect | Shows |
|---|---|---|---|
| tuner | `Transform_tuner.cfg`: 2 inserters, a 3-slot row-store group holding 1 row, default layout column-store, theta 1/2, 2 calls over offsets 0 and 1 | pass | `TTypeOK`, `TransformPreservesVisibleRows` |

The second call finds the group already in the default layout and returns
below the threshold. An offset of 1 is past the table's end.
`TransformPreservesVisibleRows` says that when the new group is installed,
every row a scan could find when the transform began is in the same slot,
with the same value in every column. The mutant `CopyTargetOrigOffset`
stores each value at the column offset of the old layout, and the property
fails.

**Hazard (lost insert).** Inserters keep writing into the old group through
`active_tile_groups_`. A row written after the copy passed its slot is not
in the new group, and neither is any later insert into the group. The
copied header counts those slots, so a scan reads zeroed rows there. With
the invariant "every returned insert is readable through the locator", TLC
finds this in eight steps in the tuner configuration:
1. an insert claims slot 1;
2. the copy passes column 0 of slot 1;
3. the insert writes and returns.

Spec §4 says a transformation does not change logical content. The project
keeps this as a hazard (`data_table.cpp:1540`) rather than a run.

**Bounds.** Two columns, and a row-store to column-store change, move every
column to a different tile and column 1 to a different offset, so a value
stored at the wrong place shows. Three slots hold the existing row and the
two inserts. Two inserters give a claim during the copy and a write after
it. The run has about 3 400 distinct states.

## 3. Plan for the remaining modules

Listed in order of importance.

1. **ScanSpec for the column-store scans**: `ColumnScan` refining the same abstract scan as `SeqScan`, with the table's inserts running before the flush instead of a fixed loaded table.
2. **The SeqScan child branch composed with a child executor** that produces several tiles, including empty ones that are skipped.
3. **DataTable**:
   - composing `TableIndex` with `DataTable`'s slot claim, so that a failed index insert is seen to leave its slot claimed but not counted in `number_of_tuples_`;
   - `AddIndex` during inserts, which a loop that read `index_count` at its start never visits;
   - a run with `ActiveCount = 2`, where two creators can register concurrently;
   - `DropTileGroups` and the destructor racing inserts, and `AddTileGroupWithOidForRecovery`.
4. **Backends**: an abstract keyed store (`put`, `get`, `replace-on-put`) refined by the four column-store registration functions.

## 4. Not modelled

- The internals of the indexes, `IsOccupied` and the indirection array; they are not in this repository, and `TableIndex` models them only by their contracts. Trigger checks and the foreign-key actions of deletes are not modelled.
- `TupleIterator` (`tuple_iterator.h`): no file under `src/` uses it.
- Masstree's `varstr` order: `compare` is `memcmp` then length. Every stored key is a 16-byte `CompactIntsKey<2>`, whose order-preserving encoding lives in `index/compact_ints_key.h`, which is not in this repository, so the integer order `ColumnScan` assumes for the Masstree scan cannot be checked against source here.
- The GC free-slot path. Nothing in the modelled workload deletes.
- `tile_group_list_` contents. Only `GetTileGroupByList` reads it, and no scan calls that.
- String formatting of `LogicalTile` and the internals of the hash maps and B-trees. These are treated as maps with their insert/upsert semantics.
- `PositionListsBuilder`, `SetSchema` and `NULL_OID` entries in position lists. Only the join executors use them, and those are not under `src/`.
- Recovery (`AddTileGroupWithOidForRecovery`), the layout and index samples and the triggers. They are not on the insert or scan path.
- The database registry (`databases_`, `GetDatabaseWithOid`, `RemoveDatabaseFromStorageManager`). `DataTable` assumes that the table's database is always registered. When the lookup at `storage_manager.cpp:160` throws, `AddTileGroup` leaves the group in the locator but not in the tree or the list. Nothing under `src/` removes a database, so this needs a caller outside the repository.
