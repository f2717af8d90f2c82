------------------------------ MODULE SeqScan ------------------------------
(***************************************************************************)
(* executor::SeqScanExecutor (src/src/executor/seq_scan_executor.cpp)     *)
(* scanning a DataTable while the table's inserting threads keep running. *)
(*                                                                         *)
(* DInit reads tile_group_count_ once.  Each DExecute call walks the      *)
(* groups from current_tile_group_offset_, skipping pruned or empty ones, *)
(* and returns at the first group with matching rows (one output tile).   *)
(* The heap scans differ in how a group is found: HEAPARRAYSCAN through   *)
(* tile_groups_ and the locator (GetTileGroup), HEAPTREESCAN and          *)
(* HEAPTREESCANINDEX through the (table, offset) B-tree, the latter       *)
(* skipping groups by the sparse index first.                             *)
(*                                                                         *)
(* Predicates and their evaluation are those of the Predicate module.    *)
(***************************************************************************)
EXTENDS DataTable, Predicate

CONSTANTS
  Strategies, \* the seq_scan_type values a scan may be planned with
  Pred        \* the scan predicate, or NULL for none

ScanTypes == {"HEAPARRAYSCAN", "HEAPTREESCAN", "HEAPTREESCANINDEX"}
ASSUME Strategies \subseteq ScanTypes

Matches(k) == Pred = NULL \/ Eval(Pred, k)

VARIABLES
  scanType,   \* seq_scan_type, fixed when the plan is built
  spc,        \* where the scan is: "idle", "call", "loop", "done", "crashed"
  stc,        \* table_tile_group_count_
  cur,        \* current_tile_group_offset_
  infos,      \* predicate_infos (a member: it accumulates across calls)
  out,        \* values of the rows returned so far
  startRows   \* history: matching keys committed when DInit ran

scanVars == <<scanType, spc, stc, cur, infos, out, startRows>>
allVars  == <<vars, scanVars>>

\* The insert call of key k has returned to its caller.
Returned(k) ==
  /\ k < nextKey
  /\ \A t \in Threads : key[t] = k => pc[t] \in {"idle", "flush"}

\* Matching keys whose insert has returned, and matching values the
\* claimed slots hold now.
CommittedRows == {k \in Keys : Returned(k) /\ Matches(k)}
PresentRows ==
  UNION {{ReadSlot(data[g][s]) : s \in {x \in Slots : x < claimed[g]}} :
           g \in 1..allocated}
    \cap {k \in Keys : Matches(k)}

\* Faulty variant: DInit takes the tuple count for the group count.
ScanInitTupleCount ==
  /\ spc = "idle"
  /\ spc'       = "call"
  /\ stc'       = numTuples
  /\ cur'       = 0
  /\ infos'     = <<>>
  /\ out'       = {}
  /\ startRows' = CommittedRows
  /\ UNCHANGED scanType

ScanInit ==
  /\ spc = "idle"
  /\ spc'       = "call"
  /\ stc'       = tgCount
  /\ cur'       = 0
  /\ infos'     = <<>>
  /\ out'       = {}
  /\ startRows' = CommittedRows
  /\ UNCHANGED scanType

\* HEAPTREESCANINDEX with a predicate consults the sparse index.
UsesIndex == scanType = "HEAPTREESCANINDEX" /\ Pred # NULL

\* Entry of DExecute: the index scan re-extracts the predicate information
\* into the member vector before its loop.
ScanCall ==
  /\ spc = "call"
  /\ spc' = "loop"
  /\ infos' = IF UsesIndex
                THEN infos \o GetPredicateInfo(Pred)
                ELSE infos
  /\ UNCHANGED <<scanType, stc, cur, out, startRows>>

\* The index scan's pruning test on the entry the sparse index holds under
\* the already-advanced offset.  One predicate value means a point lookup
\* of infos[0]; otherwise [infos[0], infos[1]] is the range.
PrunedRange(lo, hi, entry) == lo > entry[2] \/ hi < entry[1]

Pruned(entry) ==
  IF Len(infos) = 1 THEN PrunedPoint(infos[1].val, entry)
  ELSE PrunedRange(infos[1].val, infos[2].val, entry)

\* A CuckooMap::Find that misses leaves min_max default-constructed; the
\* outcome of comparing with it is not fixed by this code, so such a group
\* may be skipped or visited.
IndexSkips(o) ==
  /\ UsesIndex
  /\ IF sparse[o + 1] = NULL THEN TRUE ELSE Pruned(sparse[o + 1])

IndexVisits(o) ==
  IF ~UsesIndex \/ sparse[o + 1] = NULL THEN TRUE ELSE ~Pruned(sparse[o + 1])

\* The group at the current offset, as the access path finds it.
ScanGroupAt(o) ==
  IF scanType = "HEAPARRAYSCAN" THEN GroupAt(o) ELSE tree[o]

\* GetNextTupleSlot of the group; GetTileGroup returns the empty tile group
\* for an oid the locator does not hold.
\* Faulty variant: the tuple loop stops one slot early.
ActiveTupleCountShort(g) ==
  IF scanType = "HEAPARRAYSCAN" /\ g \notin locator THEN 0
  ELSE IF claimed[g] > 0 THEN claimed[g] - 1 ELSE 0

ActiveTupleCount(g) ==
  IF scanType = "HEAPARRAYSCAN" /\ g \notin locator THEN 0 ELSE claimed[g]

\* The rows of group g whose predicate evaluates true.
Hits(g) ==
  LET slots == {x \in Slots : x < ActiveTupleCount(g)}
  IN {v \in {ReadSlot(data[g][s]) : s \in slots} : Matches(v)}

\* One pass of the DExecute loop: GetTileGroupBTree on an offset the B-tree
\* lacks dereferences end().
ScanGroupMissing ==
  /\ spc = "loop" /\ cur < stc
  /\ ScanGroupAt(cur) = NULL
  /\ spc' = "crashed"
  /\ cur' = cur + 1
  /\ UNCHANGED <<scanType, stc, infos, out, startRows>>

\* One pass of the loop that skips the group by the sparse index.
ScanGroupPruned ==
  /\ spc = "loop" /\ cur < stc
  /\ ScanGroupAt(cur) # NULL
  /\ IndexSkips(cur)
  /\ cur' = cur + 1
  /\ UNCHANGED <<scanType, spc, stc, infos, out, startRows>>

\* One pass of the loop that evaluates the predicate on every claimed slot
\* of the group; an empty position list continues the loop, a non-empty
\* one becomes the output tile and DExecute returns true.
\* Faulty variant: an empty position list continues without advancing.
ScanGroupVisitNoAdvance ==
  LET g == ScanGroupAt(cur) IN
  /\ spc = "loop" /\ cur < stc
  /\ g # NULL
  /\ IndexVisits(cur)
  /\ cur' = IF Hits(g) = {} THEN cur ELSE cur + 1
  /\ spc' = IF Hits(g) = {} THEN "loop" ELSE "call"
  /\ out' = out \cup Hits(g)
  /\ UNCHANGED <<scanType, stc, infos, startRows>>

ScanGroupVisit ==
  LET g == ScanGroupAt(cur) IN
  /\ spc = "loop" /\ cur < stc
  /\ g # NULL
  /\ IndexVisits(cur)
  /\ cur' = cur + 1
  /\ spc' = IF Hits(g) = {} THEN "loop" ELSE "call"
  /\ out' = out \cup Hits(g)
  /\ UNCHANGED <<scanType, stc, infos, startRows>>

\* The loop ran out of groups: DExecute returns false.
ScanEnd ==
  /\ spc = "loop"
  /\ cur >= stc
  /\ spc' = "done"
  /\ UNCHANGED <<scanType, stc, cur, infos, out, startRows>>

ScanStep ==
  \/ ScanCall \/ ScanGroupMissing \/ ScanGroupPruned \/ ScanGroupVisit
  \/ ScanEnd

ScanInitState ==
  /\ Init
  /\ scanType \in Strategies
  /\ spc = "idle" /\ stc = 0 /\ cur = 0 /\ infos = <<>> /\ out = {}
  /\ startRows = {}

ScanNext ==
  \/ Next /\ UNCHANGED scanVars
  \/ (ScanInit \/ ScanStep) /\ UNCHANGED vars

\* The inserting threads keep their fairness, and the executor runs on its
\* own worker thread, which keeps being scheduled.
ScanFairness ==
  /\ \A t \in Threads : WF_allVars(Step(t) /\ UNCHANGED scanVars)
  /\ WF_allVars(ScanStep /\ UNCHANGED vars)

ScanSystem == ScanInitState /\ [][ScanNext]_allVars /\ ScanFairness

(***************************************************************************)
(* Properties                                                              *)
(***************************************************************************)
ScanTypeOK ==
  /\ scanType \in Strategies
  /\ spc \in {"idle", "call", "loop", "done", "crashed"}
  /\ stc \in 0..MaxGroups /\ cur \in 0..MaxGroups
  /\ out \subseteq Keys /\ startRows \subseteq Keys

ScanPhase == CASE spc = "idle" -> "idle"
               [] spc \in {"call", "loop", "crashed"} -> "scanning"
               [] spc = "done" -> "done"

Abstract == INSTANCE ScanSpec WITH
  Committed <- CommittedRows, Present <- PresentRows,
  phase <- ScanPhase, start <- startRows, out <- out

\* The scan implements the steps of ScanSpec: every output tile holds only
\* matching rows of the table, and DExecute returns false only after the
\* scan has returned every matching row whose insert completed before
\* DInit read tile_group_count_.
ScanRefinesSpec == Abstract!SafeSpec

\* A started scan reaches the end of its group loop (or never stops in the
\* middle of DExecute), as ScanSpec requires.
ScanTerminates == Abstract!Terminates

=============================================================================
