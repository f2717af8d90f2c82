----------------------------- MODULE ColumnScan -----------------------------
(***************************************************************************)
(* The column-store scans of SeqScanExecutor::DExecute (GOOGLEBTREESCAN,  *)
(* MASSBTREESCAN, HOPSCOTCHMAPSCAN, CUCKOOMAPSCAN) and the LogicalTile     *)
(* readers that turn the decoded range into rows.                          *)
(*                                                                         *)
(* The table holds keys 0 .. Loaded-1 inserted in order, so key k sits in *)
(* group k \div C at slot k % C, and it has been flushed after the last  *)
(* insert returned: every group holding a tuple is in the column store,   *)
(* the empty group the last filled group's creator added is not           *)
(* (KVStoreTileGroup copies only groups with tuple_count > 0).            *)
(*                                                                         *)
(* DExecute decodes the predicate once into the group window              *)
(* [tile_group_st, tile_group_ed], the intra-group slots tile_map_ and    *)
(* total_tuple, hands them to a LogicalTile and returns false; the caller *)
(* then reads the rows with the reader of the backend.  A read is a       *)
(* sequence of positions <<group, slot>>; reading a missing group or past *)
(* the end of a block is a fault (a null dereference or an out-of-range   *)
(* vector index).  One column (column 0) is read.                         *)
(***************************************************************************)
EXTENDS Integers, Sequences, SequencesExt, Predicate

CONSTANTS
  C,          \* TEST_TUPLES_PER_TILEGROUP, the tuples per group
  Loaded,     \* number of keys in the table
  Preds,      \* Preds[b]: the predicates a scan of backend b may carry
  Backends,   \* subset of {"Google", "Mass", "Hopscotch", "Cuckoo"}
  OidBits,    \* width of oid_t (32 in the code; smaller for TLC)
  NULL        \* no predicate; also a default-constructed type::Value

ASSUME C > 0 /\ Loaded \in Nat /\ OidBits \in 1 .. 30
ASSUME Backends \subseteq {"Google", "Mass", "Hopscotch", "Cuckoo"}

Keys == 0 .. Loaded - 1

\* oid_t arithmetic wraps modulo OidMod.  The width is reduced for TLC,
\* whose integers are 32-bit signed; the loaded keys stay far below it.
OidMod == 2^OidBits

\* int32 predicate value serialised and read back as uint32 (oid_t).
U32(v) == v % OidMod

\* tile_group_count_ after the load: the constructor's active group plus
\* the group AddDefaultTileGroup adds each time a group fills.
TileGroupCount == 1 + Loaded \div C

\* GetNextTupleSlot of group g, and whether the flush copied it.
BlockLen(g) ==
  IF g * C >= Loaded THEN 0
  ELSE IF Loaded - g * C < C THEN Loaded - g * C ELSE C
Flushed(g) == BlockLen(g) > 0

\* The key stored at a position, and whether the position exists.
\* Faulty variant: the slot index taken one-based.
ValueAtNextSlot(p) == p[1] * C + p[2] + 1

ValueAt(p) == p[1] * C + p[2]
InBounds(p) == Flushed(p[1]) /\ p[2] < BlockLen(p[1])

\* The integers lo..hi in ascending order.
Interval(lo, hi) == [i \in 1 .. (hi - lo + 1) |-> lo + i - 1]

\* Positions from..to-1 of group g, in order.
Span(g, from, to) == [j \in 1 .. (to - from) |-> <<g, from + j - 1>>]

VARIABLES
  pred,       \* predicate_
  backend,    \* the column store the table was flushed to
  phase,      \* "init", "decoded", "read" or "fault"
  low,        \* low_  (member, default-constructed)
  high,       \* high_ (member, default-constructed)
  st,         \* tile_group_st_
  ed,         \* tile_group_ed_
  total,      \* total_tuple, set by DInit to GetTupleCount()
  tmap,       \* tile_map_ / visible_range_: <<slot, group>> pairs
  isPoint,    \* is_point
  rows        \* the values the reader returned

cvars == <<pred, backend, phase, low, high, st, ed, total, tmap, isPoint, rows>>

Init ==
  /\ backend \in Backends
  /\ pred \in Preds[backend]
  /\ phase = "init"
  /\ low = NULL /\ high = NULL
  /\ st = 0 /\ ed = 0
  /\ total = Loaded
  /\ tmap = <<>>
  /\ isPoint = FALSE
  /\ rows = <<>>

Infos == IF pred = NULL THEN <<>> ELSE GetPredicateInfo(pred)

\* The value the loop over predicate_infos leaves in a member: the last
\* comparison of kind op, or the member's previous value.
LastVal(op, old) ==
  LET I == {i \in 1 .. Len(Infos) : Infos[i].op = op}
  IN  IF I = {} THEN old ELSE Infos[Max(I)].val

(***************************************************************************)
(* DExecute, column-store branch                                           *)
(***************************************************************************)
\* No predicate: every group up to table_tile_group_count_, total_tuple
\* as DInit left it.
DecodeAll ==
  /\ phase = "init" /\ pred = NULL
  /\ phase' = "decoded"
  /\ st' = 0 /\ ed' = TileGroupCount
  /\ UNCHANGED <<pred, backend, low, high, total, tmap, isPoint, rows>>

\* One extracted comparison, whatever its kind: a point at its value.
DecodePoint ==
  /\ phase = "init" /\ pred # NULL /\ Len(Infos) = 1
  /\ LET kl == U32(Infos[1].val) IN
       /\ low' = Infos[1].val
       /\ st' = kl \div C /\ ed' = TileGroupCount
       /\ total' = 1 /\ isPoint' = TRUE
       /\ tmap' = << <<kl % C, kl \div C>> >>
  /\ phase' = "decoded"
  /\ UNCHANGED <<pred, backend, high, rows>>

\* total_tuple of the open range (k_low_, k_high_) in uint32 arithmetic.
\* Faulty variant: the count of the closed range.
TotalTupleInclusive(kl, kh) == (kh - kl) % OidMod

TotalTuple(kl, kh) ==
  IF (kh - kl) % OidMod = 0 THEN 0 ELSE (kh - kl - 1) % OidMod

\* Several comparisons (or none): low_ from the last GT, high_ from the
\* last LT.  A bound the loop never set is a default-constructed
\* type::Value, which SerializeTo cannot serialise.
DecodeRange ==
  /\ phase = "init" /\ pred # NULL /\ Len(Infos) # 1
  /\ LET lo == LastVal("GT", low)
         hi == LastVal("LT", high)
         kl == U32(lo)
         kh == U32(hi)
     IN IF lo = NULL \/ hi = NULL
        THEN /\ phase' = "fault"
             /\ UNCHANGED <<low, high, st, ed, total, tmap, isPoint>>
        ELSE /\ low' = lo /\ high' = hi
             /\ st' = kl \div C /\ ed' = kh \div C
             /\ total' = TotalTuple(kl, kh)
             /\ tmap' = << <<kl % C, kl \div C>>, <<kh % C, kh \div C>> >>
             /\ isPoint' = FALSE
             /\ phase' = "decoded"
  /\ UNCHANGED <<pred, backend, rows>>

(***************************************************************************)
(* LogicalTile readers: each either returns its rows or faults.           *)
(***************************************************************************)
Ranged == tmap # <<>>
TsSlot == tmap[1][1]
TeSlot == tmap[2][1]

\* The reader's outcome: rows r, or a fault when bad holds.
Outcome(bad, r) ==
  /\ phase' = IF bad THEN "fault" ELSE "read"
  /\ rows' = IF bad THEN rows ELSE r
  /\ UNCHANGED <<pred, backend, low, high, st, ed, total, tmap, isPoint>>

\* Get{Google,Mass}KValsAsStrings: the tiles of groups st..ed present in
\* the ordered store, the first from tuple_id_st+1, the last up to and
\* including tuple_id_ed, then the first total_tuples_ values.
TreeGroups == SelectSeq(Interval(st, ed), Flushed)

KValsPositions ==
  LET gs == TreeGroups
      tc == Len(gs)
      whole(i) == Span(gs[i], 0, BlockLen(gs[i]))
  IN  IF ~Ranged THEN FlattenSeq([i \in 1 .. tc |-> whole(i)])
      ELSE (IF st = ed THEN Span(gs[1], TsSlot + 1, TeSlot)
            ELSE Span(gs[1], TsSlot + 1, BlockLen(gs[1])))
           \o FlattenSeq([i \in 1 .. tc - 2 |-> whole(i + 1)])
           \o (IF tc > 1 THEN Span(gs[tc], 0, TeSlot + 1) ELSE <<>>)

\* An empty window reads column_tiles_[0] of nothing; otherwise a fault is
\* a position past a block or fewer values than total_tuples_.
KValsFaults ==
  IF Ranged /\ TreeGroups = <<>> THEN TRUE
  ELSE \/ \E i \in DOMAIN KValsPositions : ~InBounds(KValsPositions[i])
       \/ total > Len(KValsPositions)

KValsScan ==
  /\ phase = "decoded" /\ ~isPoint /\ backend \in {"Google", "Mass"}
  /\ Outcome(KValsFaults,
             [t \in 1 .. total |-> ValueAt(KValsPositions[t])])

\* Get{Hopscotch,Cuckoo}KValuesAsStrings: every group offset of the window
\* is looked up in the map, and GetHopscotchKValue / GetCuckooKValue
\* return nullptr for one the map lacks, which the reader dereferences;
\* within a group, slots from tuple_id_st in the first group and below
\* tuple_id_ed in the last.
\* Faulty variant: the unranged loop runs while current <= ed.
MapLastInclusive == ed

MapLast == IF Ranged THEN ed ELSE ed - 1

MapPositions ==
  LET gs == Interval(st, MapLast)
      from(g) == IF Ranged /\ g = st THEN TsSlot ELSE 0
      to(g)   == IF Ranged /\ g = ed THEN Min({TeSlot, BlockLen(g)})
                 ELSE BlockLen(g)
  IN  FlattenSeq([i \in DOMAIN gs |-> Span(gs[i], from(gs[i]), to(gs[i]))])

MapScan ==
  /\ phase = "decoded" /\ ~isPoint /\ backend \in {"Hopscotch", "Cuckoo"}
  /\ Outcome(\E g \in st .. MapLast : ~Flushed(g),
             [i \in DOMAIN MapPositions |-> ValueAt(MapPositions[i])])

\* Get*TupleAsStrings: slot tuple_id_st of group st (a missing group is a
\* null tile or an empty vector, indexed all the same).
TupleScan ==
  /\ phase = "decoded" /\ isPoint
  /\ Outcome(~InBounds(<<st, TsSlot>>), <<ValueAt(<<st, TsSlot>>)>>)

Next ==
  \/ DecodeAll \/ DecodePoint \/ DecodeRange
  \/ KValsScan \/ MapScan \/ TupleScan

Spec == Init /\ [][Next]_cvars

(***************************************************************************)
(* Properties                                                              *)
(***************************************************************************)
ColumnTypeOK ==
  /\ phase \in {"init", "decoded", "read", "fault"}
  /\ backend \in Backends /\ pred \in Preds[backend]
  /\ isPoint \in BOOLEAN
  /\ rows \in Seq(Keys)

\* The keys the scan should return: those matching the predicate, in key
\* order, as a heap scan of the same table returns them.
Matching(k) == pred = NULL \/ Eval(pred, k)
Reference == SelectSeq(Interval(0, Loaded - 1), Matching)

\* Every bound the predicate names is a key of the table.
InTable == \A i \in 1 .. Len(Infos) : Infos[i].val \in Keys

\* A column-store scan whose predicate bounds lie in the table reads
\* without fault and returns exactly the matching keys in key order: the
\* decoding of DExecute and the reader of LogicalTile agree on the range.
ReadExact ==
  phase \in {"read", "fault"} /\ InTable =>
    phase = "read" /\ rows = Reference

=============================================================================
