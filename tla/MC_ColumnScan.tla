--------------------------- MODULE MC_ColumnScan ---------------------------
(* Model-checking instance of ColumnScan: the queries issued against each  *)
(* column store.                                                            *)
EXTENDS ColumnScan, TLC

\* Point predicates c0 = v and ordered open ranges a < c0 < b on the
\* loaded keys.
PointPreds == {Cmp("EQ", v) : v \in Keys}
OrderedRanges ==
  UNION {{And(Cmp("GT", a), Cmp("LT", b)) : b \in {x \in Keys : x >= a}} :
           a \in Keys}

\* The ordered stores serve full, point and range scans; the hash maps
\* full and point scans (their reader of a full scan over exactly full
\* groups is the subject of the col_fullhop run).
BenchmarkQueries ==
  [b \in Backends |->
     IF b \in {"Google", "Mass"} THEN {NULL} \cup PointPreds \cup OrderedRanges
     ELSE {NULL} \cup PointPreds]

\* WHERE c0 > 0 AND c0 < 3
OpenRange == [b \in Backends |-> {And(Cmp("GT", 0), Cmp("LT", 3))}]

\* No WHERE clause.
NoPredicate == [b \in Backends |-> {NULL}]
=============================================================================
