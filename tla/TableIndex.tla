----------------------------- MODULE TableIndex -----------------------------
(***************************************************************************)
(* Index maintenance of storage::DataTable (src/src/storage/data_table.cpp)*)
(* on the paths that write a row into its indexes:                         *)
(*                                                                         *)
(*  - an insert, InsertTuple(tuple, txn, ..) after its slot is claimed:    *)
(*    CheckConstraints, then InsertInIndexes, which takes an indirection   *)
(*    cell from the active indirection array (retrying while the array is  *)
(*    full, and replacing the array when it took its last cell), then      *)
(*    walks the indexes from the last to the first, CondInsertEntry on a   *)
(*    primary/unique index and InsertEntry on any other, returning false   *)
(*    at the first refused entry; then the foreign-key check and           *)
(*    IncreaseTupleCount;                                                  *)
(*  - an update, AcquireVersion (GetEmptyTupleSlot(nullptr) and            *)
(*    IncreaseTupleCount) followed by InstallVersion: CheckConstraints and *)
(*    InsertInSecondaryIndexes, which walks the indexes the same way,      *)
(*    skipping the primary key and every index whose columns the update    *)
(*    does not set, and returns the result of the LAST conditional insert. *)
(*                                                                         *)
(* None of these steps holds a lock: threads interleave between index      *)
(* operations.  The index itself, its IsOccupied visibility predicate, the *)
(* indirection array and the transaction manager are not under src/ and    *)
(* are modelled by their contracts: an index operation is atomic; a key is *)
(* occupied while an entry for it points at a row that is committed or     *)
(* whose writer has not aborted; a transaction commits when its insert or  *)
(* InstallVersion returns true and aborts when it returns false or throws. *)
(* The slot an insert claims (modelled in DataTable) is the row id of its  *)
(* thread; rows of RowsInit were committed before the threads start.       *)
(***************************************************************************)
EXTENDS Integers, FiniteSets, Functions

CONSTANTS
  Inserters,    \* threads running InsertTuple
  Updaters,     \* threads running AcquireVersion + InstallVersion
  RowsInit,     \* committed rows at the start: row id -> tuple
  Cols,         \* column ids of the schema
  Vals,         \* values a column may hold, NULLV included
  NULLV,        \* the SQL NULL value
  NotNullCols,  \* schema->GetNotNullColumns() that do not AllowNull
  ConstraintTypes, \* the types of schema->GetConstraints()
  IndexType,    \* index_itr -> "PRIMARY_KEY" | "UNIQUE" | "DEFAULT"
  IndexCols,    \* index_itr -> its key schema's indexed columns
  InsertTuples, \* tuples the inserting threads may pass
  UpdateVals,   \* values an update may assign to a target column
  IndirMax,     \* INDIRECTION_ARRAY_MAX_SIZE
  FKCols,       \* the table's foreign key onto its own primary key:
                \* GetFKSinkColumnIds -> GetColumnIds (empty: none)
  GCResults,    \* whether gc_manager.ReturnFreeSlot may find a slot
  IndexOid,     \* index_itr -> the index's oid
  DropOids      \* oids DropIndexWithOid may be called with

Threads    == Inserters \cup Updaters
IndexCount == Cardinality(DOMAIN IndexType)
Tuple      == [Cols -> Vals]
RowIds     == DOMAIN RowsInit \cup Inserters
NONE       == [c \in {} |-> NULLV]   \* no version of the row is committed

ASSUME Inserters \cap Updaters = {}
ASSUME DOMAIN IndexType = 0..IndexCount - 1 /\ DOMAIN IndexCols = DOMAIN IndexType
ASSUME IndirMax \in Nat \ {0}
ASSUME GCResults \subseteq BOOLEAN
ASSUME DOMAIN FKCols = {} \/ \E i \in DOMAIN IndexType :
         IndexType[i] = "PRIMARY_KEY" /\ IndexCols[i] = DOMAIN FKCols
ASSUME DOMAIN IndexOid = DOMAIN IndexType /\ IsInjective(IndexOid)
ASSUME DropOids \subseteq {IndexOid[i] : i \in DOMAIN IndexOid}
\* The update executor turns a change of the primary key into a delete and
\* an insert, so InstallVersion never receives primary-key columns.
PKCols     == UNION {IndexCols[i] : i \in {j \in DOMAIN IndexType :
                                           IndexType[j] = "PRIMARY_KEY"}}
UpdateCols == Cols \ PKCols

VARIABLES
  pc,         \* the step each thread is at
  tup,        \* the tuple the thread is inserting or installing
  row,        \* the row (indirection) its index entries point at
  targets,    \* the columns of the update's target list
  itr,        \* index_itr of the loop over the indexes
  res,        \* res of InsertInSecondaryIndexes
  entries,    \* entries[i]: the <<key, row>> pairs of index i
  arrUsed,    \* cells handed out by the active indirection array
  numTuples,  \* number_of_tuples_
  current,    \* current[r]: the committed version of row r, or NONE
  present,    \* present[i]: indexes_ slot i is not nullptr
  dropped     \* the oids DropIndexWithOid has been called with

vars == <<pc, tup, row, targets, itr, res, entries, arrUsed, numTuples,
          current, present, dropped>>

Returned == {"ok", "fail", "threw", "aborted"}

Init ==
  /\ pc = [t \in Threads |-> "start"]
  /\ tup = [t \in Threads |-> NONE]
  /\ row = [t \in Threads |-> t]
  /\ targets = [t \in Threads |-> {}]
  /\ itr = [t \in Threads |-> -1]
  /\ res = [t \in Threads |-> TRUE]
  /\ entries = [i \in DOMAIN IndexType |->
                  {<<Restrict(RowsInit[r], IndexCols[i]), r>> : r \in DOMAIN RowsInit}]
  /\ arrUsed = Cardinality(DOMAIN RowsInit) % IndirMax
  /\ numTuples = Cardinality(DOMAIN RowsInit)
  /\ current = [r \in RowIds |-> IF r \in DOMAIN RowsInit THEN RowsInit[r] ELSE NONE]
  /\ present = [i \in DOMAIN IndexType |-> TRUE]
  /\ dropped = {}

\* A segfault ends the process: no thread takes another step.
Crashed == \E t \in Threads : pc[t] = "crash"

\* CheckConstraints: the NOT NULL columns, then the switch over the types
\* of the schema's multi-column constraints, whose cases all break and
\* whose default throws ConstraintException.
CheckConstraints(t) ==
  /\ \A c \in NotNullCols : t[c] # NULLV
  /\ ConstraintTypes \subseteq {"CHECK", "UNIQUE", "PRIMARY", "FOREIGN", "EXCLUSION"}

\* The key SetFromTuple builds for index i.
Key(i, t) == Restrict(t, IndexCols[i])

\* IsOccupied through the index: an entry for the key points at a row that
\* is committed or still being written by a transaction that has not aborted.
Occupied(i, k) ==
  \E e \in entries[i] : e[1] = k /\ ~(e[2] \in Inserters /\ pc[e[2]] = "aborted")

\* (mutant) a dropped UNIQUE case label: only the primary key is checked.
IsUniqueIndexPKOnly(i) == IndexType[i] = "PRIMARY_KEY"

\* The case labels of the switch on GetIndexType that take CondInsertEntry.
IsUniqueIndex(i) == IndexType[i] \in {"PRIMARY_KEY", "UNIQUE"}

\* (mutant) the loops start at index_count itself.
LastIndexPastEnd == IndexCount

\* (mutant) the loops start one index too low.
LastIndexOffByOne == IndexCount - 2

\* The loops start at index_count - 1.
LastIndex == IndexCount - 1

\* (mutant) the replacement is triggered one cell past the end.
IsLastIndirectionPastEnd(o) == o = IndirMax

\* AllocateIndirection hands out the cell it took, and the thread that took
\* the array's last cell replaces the array.
IsLastIndirection(o) == o = IndirMax - 1

(***************************************************************************)
(* Insert: InsertTuple(tuple, location, ..) up to InsertInIndexes.         *)
(***************************************************************************)
StartInsert(t) ==
  /\ pc[t] = "start" /\ t \in Inserters
  /\ \E tp \in InsertTuples :
       /\ tup' = [tup EXCEPT ![t] = tp]
       /\ pc' = [pc EXCEPT ![t] = IF CheckConstraints(tp) THEN "alloc" ELSE "threw"]
  /\ UNCHANGED <<row, targets, itr, res, entries, arrUsed, numTuples, current>>

\* The allocation loop: AllocateIndirection on the active array; while it
\* is full the thread loops without changing anything.
AllocIndirection(t) ==
  /\ pc[t] = "alloc"
  /\ arrUsed < IndirMax
  /\ arrUsed' = arrUsed + 1
  /\ pc' = [pc EXCEPT ![t] = IF IsLastIndirection(arrUsed) THEN "newArray" ELSE "index"]
  /\ itr' = [itr EXCEPT ![t] = LastIndex]
  /\ UNCHANGED <<tup, row, targets, res, entries, numTuples, current>>

SpinIndirection(t) ==
  /\ pc[t] = "alloc" /\ arrUsed >= IndirMax
  /\ UNCHANGED vars

\* AddDefaultIndirectionArray installs a fresh array as the active one.
AddDefaultIndirectionArray(t) ==
  /\ pc[t] = "newArray"
  /\ arrUsed' = 0
  /\ pc' = [pc EXCEPT ![t] = "index"]
  /\ UNCHANGED <<tup, row, targets, itr, res, entries, numTuples, current>>

\* One iteration of the loop of InsertInIndexes; GetIndex returns nullptr
\* for a dropped index, which the loop skips.
InsertInIndexes(t) ==
  /\ pc[t] = "index" /\ itr[t] >= 0
  /\ LET i == itr[t]
         k == Key(i, tup[t])
         refused == present[i] /\ IsUniqueIndex(i) /\ Occupied(i, k)
     IN /\ entries' = IF refused \/ ~present[i] THEN entries
                      ELSE [entries EXCEPT ![i] = @ \cup {<<k, row[t]>>}]
        /\ pc' = IF refused THEN [pc EXCEPT ![t] = "fail"] ELSE pc
        /\ itr' = [itr EXCEPT ![t] = i - 1]
  /\ UNCHANGED <<tup, row, targets, res, arrUsed, numTuples, current>>

(***************************************************************************)
(* CheckForeignKeyConstraints.  The sink table is the table itself, so     *)
(* GetTableWithOid finds it and the catch branch is not taken.             *)
(***************************************************************************)
\* The key SetFromTuple builds from the tuple's foreign-key columns.
FKKey(tp) == [c \in DOMAIN FKCols |-> tp[FKCols[c]]]

\* The primary-key index the loop from GetIndexCount() - 1 down to 0 breaks
\* at, skipping the nullptr of a dropped index; -1 when there is none.
FKIndex ==
  LET P == {i \in DOMAIN IndexType : present[i] /\ IndexType[i] = "PRIMARY_KEY"}
  IN  IF P = {} THEN -1 ELSE CHOOSE i \in P : \A j \in P : j <= i

\* IsVisible(txn, header, offset, READ_ID): a committed version, or the
\* version the thread's own transaction is writing.
VisibleTo(t, r) == current[r] # NONE \/ r = row[t]

\* Faulty variant: any entry under the key is accepted, visible or not.
FKOutcomesAnyEntry(t, tp) ==
  LET found == {e \in entries[FKIndex] : e[1] = FKKey(tp)}
  IN  IF DOMAIN FKCols = {} \/ FKIndex = -1 THEN {TRUE}
      ELSE IF found = {} THEN {FALSE} ELSE {TRUE}

\* What the check may return.  ScanKey returns the entries in the index's
\* own order, so location_ptrs[0] may be any entry under the key, and only
\* its visibility is tested.
FKOutcomes(t, tp) ==
  LET found == {e \in entries[FKIndex] : e[1] = FKKey(tp)}
  IN  IF DOMAIN FKCols = {} \/ FKIndex = -1 THEN {TRUE}
      ELSE IF found = {} THEN {FALSE}
      ELSE {VisibleTo(t, e[2]) : e \in found}

\* After the loop: the foreign-key check, then IncreaseTupleCount.
FinishInsert(t) ==
  /\ pc[t] = "index" /\ itr[t] < 0
  /\ \E fk \in FKOutcomes(t, tup[t]) :
       /\ pc' = [pc EXCEPT ![t] = IF fk THEN "ok" ELSE "fail"]
       /\ numTuples' = IF fk THEN numTuples + 1 ELSE numTuples
       /\ current' = IF fk THEN [current EXCEPT ![row[t]] = tup[t]] ELSE current
  /\ UNCHANGED <<tup, row, targets, itr, res, entries, arrUsed>>

(***************************************************************************)
(* Update: AcquireVersion, then InstallVersion on the version it returns.  *)
(***************************************************************************)
\* GetEmptyTupleSlot(nullptr) returns a slot recycled by the garbage
\* collector without touching the tuple; otherwise it claims a fresh slot
\* and reads tuple->GetValue(0) through the null pointer.  With a slot, the
\* caller passes the new version to InstallVersion, whose CheckConstraints
\* may throw.
AcquireVersion(t) ==
  /\ pc[t] = "start" /\ t \in Updaters
  /\ \E r \in DOMAIN RowsInit, free \in GCResults :
       /\ \A u \in Updaters : row[u] # r
       /\ IF free
          THEN \E ts \in SUBSET UpdateCols \ {{}} :
               \E nv \in [ts -> UpdateVals] :
                 LET tp == [c \in Cols |-> IF c \in ts THEN nv[c] ELSE current[r][c]]
                 IN /\ tup' = [tup EXCEPT ![t] = tp]
                    /\ row' = [row EXCEPT ![t] = r]
                    /\ targets' = [targets EXCEPT ![t] = ts]
                    /\ itr' = [itr EXCEPT ![t] = LastIndex]
                    /\ numTuples' = numTuples + 1
                    /\ pc' = [pc EXCEPT ![t] = IF CheckConstraints(tp)
                                                THEN "install" ELSE "threw"]
          ELSE /\ pc' = [pc EXCEPT ![t] = "crash"]
               /\ UNCHANGED <<tup, row, targets, itr, numTuples>>
  /\ UNCHANGED <<res, entries, arrUsed, current>>

\* Whether InsertInSecondaryIndexes skips index i: a dropped index, the
\* primary key, and every index none of whose columns is in the target list.
SkipsIndex(i, ts) ==
  ~present[i] \/ IndexType[i] = "PRIMARY_KEY" \/ IndexCols[i] \cap ts = {}

\* One iteration of the loop of InsertInSecondaryIndexes: a conditional
\* insert overwrites res, and a refused one does not end the loop.
InsertInSecondaryIndexes(t) ==
  /\ pc[t] = "install" /\ itr[t] >= 0
  /\ LET i == itr[t]
         k == Key(i, tup[t])
         skip == SkipsIndex(i, targets[t])
         refused == IsUniqueIndex(i) /\ Occupied(i, k)
     IN /\ entries' = IF skip \/ refused THEN entries
                      ELSE [entries EXCEPT ![i] = @ \cup {<<k, row[t]>>}]
        /\ res' = IF ~skip /\ IsUniqueIndex(i) THEN [res EXCEPT ![t] = ~refused]
                  ELSE res
        /\ itr' = [itr EXCEPT ![t] = i - 1]
  /\ UNCHANGED <<pc, tup, row, targets, arrUsed, numTuples, current>>

\* InstallVersion returns res; the transaction commits the new version
\* when it is true.
FinishInstall(t) ==
  /\ pc[t] = "install" /\ itr[t] < 0
  /\ pc' = [pc EXCEPT ![t] = IF res[t] THEN "ok" ELSE "fail"]
  /\ current' = IF res[t] THEN [current EXCEPT ![row[t]] = tup[t]] ELSE current
  /\ UNCHANGED <<tup, row, targets, itr, res, entries, arrUsed, numTuples>>

\* The caller aborts the transaction of a failed or throwing operation.
Abort(t) ==
  /\ pc[t] \in {"fail", "threw"}
  /\ pc' = [pc EXCEPT ![t] = "aborted"]
  /\ UNCHANGED <<tup, row, targets, itr, res, entries, arrUsed, numTuples, current>>

Step(t) ==
  /\ ~Crashed
  /\ UNCHANGED <<present, dropped>>
  /\ \/ StartInsert(t) \/ AllocIndirection(t) \/ SpinIndirection(t)
     \/ AddDefaultIndirectionArray(t) \/ InsertInIndexes(t) \/ FinishInsert(t)
     \/ AcquireVersion(t) \/ InsertInSecondaryIndexes(t) \/ FinishInstall(t)
     \/ Abort(t)

(***************************************************************************)
(* DDL: DropIndexWithOid, run by the catalog while the threads write.      *)
(***************************************************************************)
\* The offset the search loop leaves in index_offset: the loop breaks at
\* the index with the oid, but index_offset is never assigned.
DropOffset(oid) == 0

DropIndexWithOid(oid) ==
  /\ ~Crashed /\ oid \notin dropped
  /\ present' = [present EXCEPT ![DropOffset(oid)] = FALSE]
  /\ dropped' = dropped \cup {oid}
  /\ UNCHANGED <<pc, tup, row, targets, itr, res, entries, arrUsed, numTuples,
                 current>>

\* Every thread has returned and its transaction ended, or the process died.
Terminated ==
  /\ Crashed \/ \A t \in Threads : pc[t] \in {"ok", "aborted"}
  /\ UNCHANGED vars

Next ==
  \/ \E t \in Threads : Step(t)
  \/ \E oid \in DropOids : DropIndexWithOid(oid)
  \/ Terminated

\* Worker threads are scheduled by the OS; none is starved forever.  A
\* DROP INDEX may never be issued, so the drop has no fairness.
Fairness == \A t \in Threads : WF_vars(Step(t))

Spec == Init /\ [][Next]_vars /\ Fairness

(***************************************************************************)
(* Properties                                                              *)
(***************************************************************************)
TIxTypeOK ==
  /\ pc \in [Threads -> {"start", "alloc", "newArray", "index", "install",
                         "crash"} \cup Returned]
  /\ tup \in [Threads -> Tuple \cup {NONE}]
  /\ row \in [Threads -> RowIds \cup Updaters]
  /\ targets \in [Threads -> SUBSET UpdateCols]
  /\ itr \in [Threads -> -1..IndexCount - 1]
  /\ res \in [Threads -> BOOLEAN]
  /\ \A i \in DOMAIN IndexType :
       entries[i] \subseteq [IndexCols[i] -> Vals] \X RowIds
  /\ arrUsed \in 0..IndirMax
  /\ numTuples \in Nat
  /\ current \in [RowIds -> Tuple \cup {NONE}]
  /\ present \in [DOMAIN IndexType -> BOOLEAN]
  /\ dropped \subseteq DropOids

\* The indexes no DROP INDEX has named.
Kept == {i \in DOMAIN IndexType : IndexOid[i] \notin dropped}

\* The committed rows never share a key of a primary-key or unique index
\* that has not been dropped:
\* whatever the interleaving of concurrent inserts and updates between
\* their unlocked index operations, CondInsertEntry in InsertInIndexes and
\* InsertInSecondaryIndexes must refuse the second writer of a key and its
\* operation must then report failure.
UniqueLiveKeys ==
  \A i \in Kept : IndexType[i] \in {"PRIMARY_KEY", "UNIQUE"} =>
    \A r1, r2 \in RowIds :
      (r1 # r2 /\ current[r1] # NONE /\ current[r2] # NONE)
        => Key(i, current[r1]) # Key(i, current[r2])

\* Every committed row can be found through every index no DROP INDEX has
\* named, under the key of its committed version: InsertInIndexes visits
\* every such index before an insert returns true, the indexes
\* InsertInSecondaryIndexes skips on an update are exactly those whose key
\* the update leaves unchanged, and DropIndexWithOid removes only the index
\* it is asked to.
IndexComplete ==
  \A r \in RowIds, i \in Kept :
    current[r] # NONE => <<Key(i, current[r]), r>> \in entries[i]

\* An insert commits a foreign key only onto a committed row, or onto the
\* row itself: the primary-key index CheckForeignKeyConstraints reads holds
\* the entries of concurrent inserts that have not committed, and of failed
\* ones that never will, and the check must reject the key unless the
\* entry it reads is visible.  (With the primary key dropped the check
\* passes without a lookup; the property is about the checks that look.)
InsertReferencesCommitted ==
  [][\A t \in Inserters :
       (pc[t] = "index" /\ pc'[t] = "ok" /\ DOMAIN FKCols # {} /\ FKIndex # -1)
         => \E r \in RowIds : current'[r] # NONE
                              /\ Key(FKIndex, current'[r]) = FKKey(tup[t])]_vars

\* Every insert and update returns, unless the process died: a thread that
\* finds the indirection array full only loops until the thread that took
\* its last cell installs a new one.
EveryOperationReturns ==
  \A t \in Threads : <>(Crashed \/ pc[t] \in {"ok", "aborted"})
=============================================================================
