----------------------------- MODULE Predicate -----------------------------
(***************************************************************************)
(* Scan predicates as SeqScanExecutor sees them: an expression tree over  *)
(* column 0, either a conjunction                                          *)
(*   [type |-> "AND", l |-> e1, r |-> e2]                                  *)
(* or a comparison [type |-> op, val |-> v] whose right child is a        *)
(* constant.  Shared by the heap scans (SeqScan) and the column-store     *)
(* scans (ColumnScan).                                                     *)
(***************************************************************************)
EXTENDS Integers, Sequences

\* The comparison kinds GetPredicateInfo extracts.
Comparisons == {"EQ", "LT", "LE", "GT", "GE"}

\* AbstractExpression::Evaluate of the predicate on a tuple whose column 0
\* is k.
RECURSIVE Eval(_, _)
Eval(e, k) ==
  CASE e.type = "AND" -> Eval(e.l, k) /\ Eval(e.r, k)
    [] e.type = "EQ"  -> k = e.val
    [] e.type = "NE"  -> k # e.val
    [] e.type = "LT"  -> k < e.val
    [] e.type = "LE"  -> k <= e.val
    [] e.type = "GT"  -> k > e.val
    [] e.type = "GE"  -> k >= e.val

\* GetPredicateInfo: the comparisons of the AND tree, left to right, each
\* as (comparison_operator, predicate_value).
RECURSIVE GetPredicateInfo(_)
GetPredicateInfo(e) ==
  IF e.type = "AND" THEN GetPredicateInfo(e.l) \o GetPredicateInfo(e.r)
  ELSE IF e.type \in Comparisons THEN <<[op |-> e.type, val |-> e.val]>>
  ELSE <<>>

\* Predicate constructors used by the model configurations.
Cmp(op, v) == [type |-> op, val |-> v]
And(e1, e2) == [type |-> "AND", l |-> e1, r |-> e2]

=============================================================================
