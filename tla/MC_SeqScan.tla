---------------------------- MODULE MC_SeqScan ----------------------------
(* Model-checking instance of SeqScan: the predicates the runs scan with. *)
EXTENDS SeqScan, TLC

\* WHERE c0 > 0 AND c0 < 3
PredRange == And(Cmp("GT", 0), Cmp("LT", 3))

\* WHERE c0 > 0
PredGreater == Cmp("GT", 0)

=============================================================================
