------------------------------ MODULE ScanSpec ------------------------------
(***************************************************************************)
(* What a sequential scan promises, whatever access path it takes: once   *)
(* started it returns, tile by tile, rows that are in the table and match *)
(* the predicate, and it finishes only after it has returned every        *)
(* matching row whose insert had completed when the scan started.         *)
(*                                                                         *)
(* Committed and Present belong to the table the scan reads, which the   *)
(* scan does not change: the matching keys whose insert has returned, and *)
(* the matching values the table's claimed slots currently hold.          *)
(***************************************************************************)
VARIABLES
  Committed,
  Present,
  phase,   \* "idle", "scanning" or "done"
  start,   \* the matching committed keys when the scan started
  out      \* the values returned so far

svars == <<phase, start, out>>

Init == phase = "idle" /\ start = {} /\ out = {}

Begin ==
  /\ phase = "idle"
  /\ phase' = "scanning"
  /\ start' = Committed
  /\ out' = {}

\* One output tile: a non-empty batch of matching rows of the table.
Emit ==
  /\ phase = "scanning"
  /\ \E rows \in (SUBSET Present) \ {{}} : out' = out \cup rows
  /\ UNCHANGED <<phase, start>>

Finish ==
  /\ phase = "scanning"
  /\ start \subseteq out
  /\ phase' = "done"
  /\ UNCHANGED <<start, out>>

Next == Begin \/ Emit \/ Finish

SafeSpec == Init /\ [][Next]_svars

Spec == SafeSpec /\ WF_svars(Finish)

\* A started scan finishes.
Terminates == phase = "scanning" ~> phase = "done"

=============================================================================
