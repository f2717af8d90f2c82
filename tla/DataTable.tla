----------------------------- MODULE DataTable -----------------------------
(***************************************************************************)
(* Insertion path of storage::DataTable (src/src/storage/data_table.cpp)   *)
(* together with the parts of storage::StorageManager it drives            *)
(* (src/src/storage/storage_manager.cpp).                                  *)
(*                                                                         *)
(* Every inserting thread runs GetEmptyTupleSlot: it claims a slot in the  *)
(* active tile group by retrying without a lock, writes its tuple, and the *)
(* thread that took the LAST slot of a group runs AddDefaultTileGroup,     *)
(* which allocates a new group, appends it to tile_groups_, registers it   *)
(* with the StorageManager (locator map and the (table, offset) B-tree),   *)
(* installs it as the active group and only then advances                  *)
(* tile_group_count_.  Afterwards the thread updates the table's sparse    *)
(* index under the key tile_group_count_ and increments number_of_tuples_. *)
(*                                                                         *)
(* An insert whose first column is INT32_MAX - 1 is the "flush" sentinel:  *)
(* it copies every tile group into a column-per-tile group and registers   *)
(* the copy in the hopscotch map under its offset (KVStoreTileGroup).      *)
(*                                                                         *)
(* The table is one table of the default database; tuples carry one key   *)
(* (their column 0), drawn from a workload counter as in the benchmark     *)
(* loaders, which insert ids 0, 1, 2, ... .                                *)
(***************************************************************************)
EXTENDS Integers, Sequences, FiniteSets

CONSTANTS
  Threads,      \* inserting worker threads
  Cap,          \* tuples_per_tilegroup_
  ActiveCount,  \* active_tilegroup_count_
  MaxInserts,   \* bound on the number of insert calls (keys 0..MaxInserts-1)
  MaxFlushes,   \* bound on the number of flush-sentinel inserts
  NULL          \* absent entry / unwritten slot

ASSUME Cap \in Nat \ {0}
ASSUME ActiveCount \in Nat \ {0}
ASSUME MaxInserts \in Nat /\ MaxFlushes \in Nat

\* Every group is created up front by the constructor or because one of the
\* MaxInserts inserts took its predecessor's last slot.
MaxGroups == ActiveCount + MaxInserts \div Cap
Gids      == 1..MaxGroups            \* tile group oids (GetNextTileGroupId)
Offsets   == 0..MaxGroups - 1        \* tile group offsets within the table
Slots     == 0..Cap - 1
Keys      == 0..MaxInserts - 1

\* A read of a slot whose tuple has not been copied yet returns the zeroed
\* bytes of the freshly allocated tile.
ZeroValue == 0
ReadSlot(v) == IF v = NULL THEN ZeroValue ELSE v

VARIABLES
  claimed,      \* claimed[g]: next_tuple_slot of group g's header
  data,         \* data[g][s]: column 0 of slot s of group g, NULL if unwritten
  allocated,    \* tile_group_oid_: groups 1..allocated exist
  tileGroups,   \* tile_groups_: the table's offset -> oid array
  locator,      \* oids registered in StorageManager::tile_group_locator_
  tree,         \* tile_group_tree_: offset -> oid (NULL if absent)
  active,       \* active_tile_groups_
  tgCount,      \* tile_group_count_
  numTuples,    \* number_of_tuples_
  sparse,       \* sparse_index: key -> <<tp_0, tp_slot>> (NULL if absent)
  hop,          \* tuples_hopscotch_map_: offset -> copied rows (NULL if absent)
  nextKey,      \* workload: next key to insert
  flushes,      \* workload: flush sentinels issued
  pc,           \* program counter of each thread
  key,          \* key of the tuple the thread inserts
  aid,          \* active_tile_group_id the thread read
  tg,           \* tile group the thread inserts into
  slot,         \* tuple_slot it obtained
  newId,        \* oid of the group it is creating
  sp,           \* what its sparse-index step read: [k, tp0, has]
  fi,           \* tile group offset its flush loop is at
  seen          \* history: keys returned in counted groups when its flush began

tableVars  == <<claimed, data, allocated, tileGroups, locator, tree, active,
                tgCount, numTuples, sparse, hop>>
threadVars == <<pc, key, aid, tg, slot, newId, sp, fi, seen>>
vars       == <<tableVars, nextKey, flushes, threadVars>>

PCs == {"idle", "claim", "write", "create", "register", "activate", "push",
        "count", "sparse_check", "sparse_write", "finish", "flush"}

(***************************************************************************)
(* The state right after the constructor: it created ActiveCount groups,   *)
(* each through AddDefaultTileGroup, on a single thread.                   *)
(***************************************************************************)
Init ==
  /\ claimed    = [g \in Gids |-> 0]
  /\ data       = [g \in Gids |-> [s \in Slots |-> NULL]]
  /\ allocated  = ActiveCount
  /\ tileGroups = [o \in 1..ActiveCount |-> o]
  /\ locator    = 1..ActiveCount
  /\ tree       = [o \in Offsets |-> IF o < ActiveCount THEN o + 1 ELSE NULL]
  /\ active     = [a \in 0..ActiveCount - 1 |-> a + 1]
  /\ tgCount    = ActiveCount
  /\ numTuples  = 0
  /\ sparse     = [k \in 0..MaxGroups |-> NULL]
  /\ hop        = [o \in Offsets |-> NULL]
  /\ nextKey    = 0
  /\ flushes    = 0
  /\ pc    = [t \in Threads |-> "idle"]
  /\ key   = [t \in Threads |-> NULL]
  /\ aid   = [t \in Threads |-> 0]
  /\ tg    = [t \in Threads |-> NULL]
  /\ slot  = [t \in Threads |-> NULL]
  /\ newId = [t \in Threads |-> NULL]
  /\ sp    = [t \in Threads |-> NULL]
  /\ fi    = [t \in Threads |-> 0]
  /\ seen  = [t \in Threads |-> {}]

Goto(t, from, to) ==
  /\ pc[t] = from
  /\ pc' = [pc EXCEPT ![t] = to]

(***************************************************************************)
(* InsertTuple(tuple, txn, ...) with an ordinary key: no recycled slot is  *)
(* offered by the GC (nothing in this model deletes), so GetEmptyTupleSlot *)
(* reads active_tile_group_id = number_of_tuples_ % active count once.     *)
(***************************************************************************)
InsertTuple(t) ==
  /\ nextKey < MaxInserts
  /\ Goto(t, "idle", "claim")
  /\ key'     = [key EXCEPT ![t] = nextKey]
  /\ nextKey' = nextKey + 1
  /\ aid'     = [aid EXCEPT ![t] = numTuples % ActiveCount]
  /\ UNCHANGED <<tableVars, flushes, tg, slot, newId, sp, fi, seen>>

(* One pass of the retry loop that succeeds: TileGroup::InsertTuple claims *)
(* the next slot of the group currently installed as active.  A pass on a  *)
(* full group changes nothing and is a stuttering step.                    *)
\* Faulty variant: the header accepts a claim on a full group.
ClaimSlotUnchecked(t) ==
  LET g == active[aid[t]] IN
  /\ claimed[g] <= Cap
  /\ Goto(t, "claim", "write")
  /\ claimed' = [claimed EXCEPT ![g] = @ + 1]
  /\ tg'      = [tg EXCEPT ![t] = g]
  /\ slot'    = [slot EXCEPT ![t] = claimed[g]]
  /\ UNCHANGED <<data, allocated, tileGroups, locator, tree, active, tgCount,
                 numTuples, sparse, hop, nextKey, flushes, key, aid, newId,
                 sp, fi, seen>>

ClaimSlot(t) ==
  LET g == active[aid[t]] IN
  /\ claimed[g] < Cap
  /\ Goto(t, "claim", "write")
  /\ claimed' = [claimed EXCEPT ![g] = @ + 1]
  /\ tg'      = [tg EXCEPT ![t] = g]
  /\ slot'    = [slot EXCEPT ![t] = claimed[g]]
  /\ UNCHANGED <<data, allocated, tileGroups, locator, tree, active, tgCount,
                 numTuples, sparse, hop, nextKey, flushes, key, aid, newId,
                 sp, fi, seen>>

(* A pass of the retry loop on a group that is full: the thread spins.     *)
Retry(t) ==
  /\ pc[t] = "claim"
  /\ claimed[active[aid[t]]] = Cap
  /\ UNCHANGED vars

(* TileGroup::InsertTuple copies the tuple into the claimed slot; then the *)
(* thread that obtained the last slot must create a new tile group.        *)
\* Faulty variant: off by one in the last-slot test.
IsLastSlotOffByOne(s) == s = Cap - 2

IsLastSlot(s) == s = Cap - 1

WriteTuple(t) ==
  /\ pc[t] = "write"
  /\ data' = [data EXCEPT ![tg[t]][slot[t]] = key[t]]
  /\ pc'   = [pc EXCEPT ![t] = IF IsLastSlot(slot[t]) THEN "create"
                                                      ELSE "sparse_check"]
  /\ UNCHANGED <<claimed, allocated, tileGroups, locator, tree, active,
                 tgCount, numTuples, sparse, hop, nextKey, flushes, key, aid,
                 tg, slot, newId, sp, fi, seen>>

(***************************************************************************)
(* AddDefaultTileGroup(active_tile_group_id), in the order of its stores:  *)
(* allocate and append, register with the StorageManager, install as the   *)
(* active group, push it on tile_group_array_, advance tile_group_count_.  *)
(* Each store is a step; the                                               *)
(* step after the last is the sparse-index update of GetEmptyTupleSlot.    *)
(***************************************************************************)
\* Faulty variant: tile_group_count_ advanced before the registration.
AddDefaultTileGroupStepsCountFirst ==
  <<"create", "count", "register", "activate", "push">>

\* Faulty variant: the group is installed as active before it is registered.
AddDefaultTileGroupStepsActivateFirst ==
  <<"create", "activate", "register", "push", "count">>

AddDefaultTileGroupSteps ==
  <<"create", "register", "activate", "push", "count">>

After(p) ==
  LET i == CHOOSE j \in DOMAIN AddDefaultTileGroupSteps :
             AddDefaultTileGroupSteps[j] = p
  IN IF i = Len(AddDefaultTileGroupSteps) THEN "sparse_check"
                                          ELSE AddDefaultTileGroupSteps[i + 1]

AddStep(t, p) == Goto(t, p, After(p))

\* GetTileGroupWithLayout takes ++tile_group_oid_; the oid is appended to
\* tile_groups_ at offset GetSize().
CreateTileGroup(t) ==
  /\ allocated < MaxGroups
  /\ AddStep(t, "create")
  /\ allocated'  = allocated + 1
  /\ newId'      = [newId EXCEPT ![t] = allocated + 1]
  /\ tileGroups' = Append(tileGroups, allocated + 1)
  /\ UNCHANGED <<claimed, data, locator, tree, active, tgCount, numTuples,
                 sparse, hop, nextKey, flushes, key, aid, tg, slot, sp, fi, seen>>

\* StorageManager::AddTileGroup(db, table, tile_group_count_, id, ...):
\* upsert into the locator and btree_map::insert of (table, offset), which
\* leaves an existing entry for that key in place.  The offset is
\* tile_group_count_ as this thread reads it now.
TreeInsert(tr, o, g) == IF tr[o] = NULL THEN [tr EXCEPT ![o] = g] ELSE tr

RegisterTileGroup(t) ==
  /\ AddStep(t, "register")
  /\ locator' = locator \cup {newId[t]}
  /\ tree'    = TreeInsert(tree, tgCount, newId[t])
  /\ UNCHANGED <<claimed, data, allocated, tileGroups, active, tgCount,
                 numTuples, sparse, hop, nextKey, flushes, key, aid, tg, slot,
                 newId, sp, fi, seen>>

\* active_tile_groups_[id] = tile_group, after a compiler fence.
\* Faulty variant: the new group is never installed as active.
ActivateTileGroupMissing(t) ==
  /\ AddStep(t, "activate")
  /\ UNCHANGED <<claimed, data, allocated, tileGroups, locator, tree, active,
                 tgCount, numTuples, sparse, hop, nextKey, flushes, key, aid,
                 tg, slot, newId, sp, fi, seen>>

ActivateTileGroup(t) ==
  /\ AddStep(t, "activate")
  /\ active' = [active EXCEPT ![aid[t]] = newId[t]]
  /\ UNCHANGED <<claimed, data, allocated, tileGroups, locator, tree, tgCount,
                 numTuples, sparse, hop, nextKey, flushes, key, aid, tg, slot,
                 newId, sp, fi, seen>>

\* tile_group_array_.push_back(tile_group): an unsynchronised std::vector
\* that nothing in the insert or scan paths reads back.
PushTileGroupArray(t) ==
  /\ AddStep(t, "push")
  /\ UNCHANGED <<tableVars, nextKey, flushes, key, aid, tg, slot, newId, sp,
                 fi, seen>>

\* tile_group_count_++ after a second fence (tile_group_pre, which only
\* feeds the unused tile_group_list_, is set in the same step).
CountTileGroup(t) ==
  /\ AddStep(t, "count")
  /\ tgCount' = tgCount + 1
  /\ UNCHANGED <<claimed, data, allocated, tileGroups, locator, tree, active,
                 numTuples, sparse, hop, nextKey, flushes, key, aid, tg, slot,
                 newId, sp, fi, seen>>

(***************************************************************************)
(* Sparse index update at the end of GetEmptyTupleSlot: tp_0 is slot 0 of  *)
(* the thread's group, tp_slot its own key, and the entry is keyed by      *)
(* tile_group_count_, read once for Contains and again for Update/Insert.  *)
(* CuckooMap::Update of an absent key and Insert of a present key fail.    *)
(***************************************************************************)
SparseCheck(t) ==
  /\ Goto(t, "sparse_check", "sparse_write")
  /\ sp' = [sp EXCEPT ![t] = [tp0 |-> ReadSlot(data[tg[t]][0]),
                              has |-> sparse[tgCount] # NULL]]
  /\ UNCHANGED <<tableVars, nextKey, flushes, key, aid, tg, slot, newId, fi, seen>>

SparseWrite(t) ==
  LET k     == tgCount
      entry == <<sp[t].tp0, key[t]>>
  IN
  /\ Goto(t, "sparse_write", "finish")
  /\ sparse' = IF sp[t].has = (sparse[k] # NULL)
                 THEN [sparse EXCEPT ![k] = entry]
                 ELSE sparse
  /\ UNCHANGED <<claimed, data, allocated, tileGroups, locator, tree, active,
                 tgCount, numTuples, hop, nextKey, flushes, key, aid, tg, slot,
                 newId, sp, fi, seen>>

(* InsertTuple(tuple, location, ...) on a table without indexes: the       *)
(* constraints hold and IncreaseTupleCount(1) is an atomic add.            *)
FinishInsert(t) ==
  /\ Goto(t, "finish", "idle")
  /\ numTuples' = numTuples + 1
  /\ UNCHANGED <<claimed, data, allocated, tileGroups, locator, tree, active,
                 tgCount, sparse, hop, nextKey, flushes, key, aid, tg, slot,
                 newId, sp, fi, seen>>

(***************************************************************************)
(* The flush sentinel: for (i = 0; i < tile_group_count_; i++)             *)
(*   KVStoreTileGroup(i), which copies GetNextTupleSlot() rows of tile 0   *)
(* into a new group and inserts it into the hopscotch map; the map's       *)
(* insert leaves an existing entry for the same key in place.              *)
(***************************************************************************)
\* Group holding the tile group offset o, as tile_groups_ records it.
GroupAt(o) == tileGroups[o + 1]

\* The insert call of key k has passed its own sparse-index update.
Completed(k) ==
  /\ k \in Keys /\ k < nextKey
  /\ \A t \in Threads : key[t] = k => pc[t] \in {"finish", "idle", "flush"}

\* Keys of completed inserts stored in a group the table has counted.
CountedKeys ==
  {data[GroupAt(o)][s] : o \in 0..tgCount - 1, s \in Slots} \ {NULL}

StartFlush(t) ==
  /\ flushes < MaxFlushes
  /\ Goto(t, "idle", "flush")
  /\ flushes' = flushes + 1
  /\ fi' = [fi EXCEPT ![t] = 0]
  \* history only: what the flush's caller could rely on having been loaded
  /\ seen' = [seen EXCEPT ![t] = {k \in CountedKeys : Completed(k)}]
  /\ UNCHANGED <<tableVars, nextKey, key, aid, tg, slot, newId, sp>>

\* Faulty variant: the copy loop stops one row short of GetNextTupleSlot().
CopyRowsShort(g) == [s \in 1..claimed[g] - 1 |-> ReadSlot(data[g][s - 1])]

CopyRows(g) == [s \in 1..claimed[g] |-> ReadSlot(data[g][s - 1])]

HopInsert(h, o, rows) == IF h[o] = NULL THEN [h EXCEPT ![o] = rows] ELSE h

KVStoreTileGroup(t) ==
  LET o == fi[t]
      g == tileGroups[o + 1]
  IN
  /\ pc[t] = "flush"
  /\ o < tgCount
  /\ hop' = IF claimed[g] > 0 THEN HopInsert(hop, o, CopyRows(g)) ELSE hop
  /\ fi'  = [fi EXCEPT ![t] = o + 1]
  /\ UNCHANGED <<claimed, data, allocated, tileGroups, locator, tree, active,
                 tgCount, numTuples, sparse, nextKey, flushes, pc, key, aid,
                 tg, slot, newId, sp, seen>>

EndFlush(t) ==
  /\ fi[t] >= tgCount
  /\ Goto(t, "flush", "idle")
  /\ UNCHANGED <<tableVars, nextKey, flushes, key, aid, tg, slot, newId, sp,
                 fi, seen>>

(***************************************************************************)
(* Specification                                                           *)
(***************************************************************************)
\* The steps a thread takes once a call has started.
Step(t) ==
  \/ ClaimSlot(t) \/ Retry(t) \/ WriteTuple(t)
  \/ CreateTileGroup(t) \/ RegisterTileGroup(t) \/ ActivateTileGroup(t)
  \/ PushTileGroupArray(t) \/ CountTileGroup(t)
  \/ SparseCheck(t) \/ SparseWrite(t) \/ FinishInsert(t)
  \/ KVStoreTileGroup(t) \/ EndFlush(t)

\* The bounded workload has been issued and every call has returned.
Terminated ==
  /\ nextKey = MaxInserts /\ flushes = MaxFlushes
  /\ \A t \in Threads : pc[t] = "idle"
  /\ UNCHANGED vars

Next ==
  \/ \E t \in Threads : InsertTuple(t) \/ StartFlush(t) \/ Step(t)
  \/ Terminated

\* No thread stops in the middle of a call; whether a client issues another
\* call is not constrained.
Fairness == \A t \in Threads : WF_vars(Step(t))

Spec == Init /\ [][Next]_vars /\ Fairness

(***************************************************************************)
(* Properties                                                              *)
(***************************************************************************)
TypeOK ==
  /\ claimed \in [Gids -> 0..Cap]
  /\ data \in [Gids -> [Slots -> Keys \cup {NULL}]]
  /\ allocated \in ActiveCount..MaxGroups
  /\ tileGroups \in Seq(Gids) /\ Len(tileGroups) = allocated
  /\ locator \subseteq Gids
  /\ tree \in [Offsets -> Gids \cup {NULL}]
  /\ active \in [0..ActiveCount - 1 -> Gids]
  /\ tgCount \in ActiveCount..MaxGroups
  /\ numTuples \in 0..MaxInserts
  /\ sparse \in [0..MaxGroups -> (Keys \X Keys) \cup {NULL}]
  /\ hop \in [Offsets -> Seq(Keys) \cup {NULL}]
  /\ pc \in [Threads -> PCs]
  /\ slot \in [Threads -> Slots \cup {NULL}]
  /\ fi \in [Threads -> 0..MaxGroups]

Quiescent == \A t \in Threads : pc[t] = "idle"

\* A reader that sees tile_group_count_ = c finds, for every offset below c,
\* a group that AddDefaultTileGroup has registered in the StorageManager's
\* locator (so GetTileGroup on it never returns the empty tile group) and
\* that is either installed as active or already full.
PublishedBeforeCounted ==
  \A o \in 0..tgCount - 1 :
    /\ GroupAt(o) \in locator
    /\ GroupAt(o) \in {active[a] : a \in DOMAIN active}
       \/ claimed[GroupAt(o)] = Cap

\* StorageManager::AddTileGroup updates tile_group_tree_ (a btree_map) and
\* tile_group_list_ (a std::list) without a lock, so it is safe only if no
\* two threads are ever inside it at once: each creator must have
\* published its group before any other thread can fill that group.
SerialRegistration ==
  \A t1, t2 \in Threads : pc[t1] = "register" /\ pc[t2] = "register" => t1 = t2

\* Between calls, the table holds exactly the groups its inserts required:
\* the constructor's ActiveCount plus one per group whose last slot was
\* taken, all counted by tile_group_count_, and number_of_tuples_ equals
\* the number of inserts.
AllocationExact ==
  Quiescent =>
    /\ tgCount = Len(tileGroups)
    /\ tgCount = ActiveCount + Cardinality({g \in Gids : claimed[g] = Cap})
    /\ numTuples = nextKey

\* An insert that has started spinning for a slot eventually returns: the
\* thread that took the last slot installs a new active group.
InsertReturns == \A t \in Threads : pc[t] = "claim" ~> pc[t] = "idle"

\* HEAPTREESCANINDEX point-predicate pruning (seq_scan_executor.cpp): the
\* group is skipped when the value lies outside the entry's pair.
PrunedPoint(v, entry) == v < entry[1] \/ v > entry[2]

\* The sparse index has no false negatives: the scan probes the entry under
\* key offset + 1, and for every completed insert of key v into the group
\* at that offset, the entry exists and a point scan for v does not prune
\* the group.
SparseIndexNoFalseNegative ==
  \A o \in 0..tgCount - 1, s \in Slots :
    LET v == data[GroupAt(o)][s] IN
    Completed(v) => sparse[o + 1] # NULL /\ ~PrunedPoint(v, sparse[o + 1])

\* The (table, offset) B-tree resolves every counted offset to the group
\* tile_groups_ holds at that offset, as GetTileGroupBTree assumes.
TreeKeyMatchesOffset ==
  \A o \in 0..tgCount - 1 : tree[o] = GroupAt(o)

\* Re-running the flush replaces the prior registration: when a flush call
\* returns, every non-empty counted group's hopscotch entry is a copy of the
\* rows the group holds.
FlushLeavesCurrentCopies ==
  [][\A t \in Threads :
       (pc[t] = "flush" /\ pc'[t] = "idle") =>
         \A o \in 0..tgCount - 1 :
           claimed[GroupAt(o)] > 0 => hop'[o] = CopyRows(GroupAt(o))]_vars

\* A flush loses no acknowledged insert: when the flush call returns, every
\* key whose insert had returned before the flush began, into a group that
\* tile_group_count_ already counted, is in the hopscotch copy of its group,
\* although other threads kept claiming and writing slots of the groups
\* while KVStoreTileGroup copied GetNextTupleSlot() rows of them.
FlushKeepsReturnedInserts ==
  [][\A t \in Threads :
       (pc[t] = "flush" /\ pc'[t] = "idle") =>
         \A k \in seen[t] : \E o \in 0..tgCount - 1 :
            hop[o] # NULL /\ \E i \in DOMAIN hop[o] : hop[o][i] = k]_vars

=============================================================================
