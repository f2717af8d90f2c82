------------------------------ MODULE TileSpec ------------------------------
(***************************************************************************)
(* What a logical tile promises its users, whatever position lists and    *)
(* base tiles stand behind it: while it is built its rows may be anything;*)
(* once in use its rows only lose members (keeping their order) or are    *)
(* projected onto a choice of its columns; it is consumed at most once,   *)
(* by a materialisation that returns exactly its rows, or by being        *)
(* dropped; and a contract error ends its use.                            *)
(*                                                                         *)
(* A row is a function from the tile's column positions to values.        *)
(***************************************************************************)
EXTENDS Integers, Sequences, Functions

CONSTANTS MaxCols, NULL

VARIABLES
  rows,    \* the rows, in iteration order
  phase,   \* "build", "use", "done" or "fault"
  out      \* the rows a materialisation returned, or NULL

tvars == <<rows, phase, out>>

Init == rows = <<>> /\ phase = "build" /\ out = NULL

\* rows with the k-th one taken out.
Without(s, k) == [i \in 1 .. Len(s) - 1 |-> IF i < k THEN s[i] ELSE s[i + 1]]

\* Construction replaces the rows by any others.
Build ==
  /\ phase = "build" /\ phase' = "build"
  /\ UNCHANGED out

Use ==
  /\ phase \in {"build", "use"} /\ phase' = "use"
  /\ UNCHANGED <<rows, out>>

Remove ==
  /\ phase \in {"build", "use"} /\ phase' = "use"
  /\ \E k \in 1 .. Len(rows) : rows' = Without(rows, k)
  /\ UNCHANGED out

\* The column positions of the rows.
Width == IF rows = <<>> THEN 1 .. MaxCols ELSE DOMAIN rows[1]

\* The rows keep their order; each shows a sequence of distinct columns.
Project ==
  /\ phase \in {"build", "use"} /\ phase' = "use"
  /\ \E n \in 1 .. MaxCols : \E p \in [1 .. n -> Width] :
       /\ IsInjective(p)
       /\ rows' = [k \in 1 .. Len(rows) |-> [j \in 1 .. n |-> rows[k][p[j]]]]
  /\ UNCHANGED out

Materialize ==
  /\ phase \in {"build", "use"} /\ phase' = "done"
  /\ out' = rows
  /\ UNCHANGED rows

\* A tile left without rows is dropped.
Drop ==
  /\ phase \in {"build", "use"} /\ rows = <<>> /\ phase' = "done"
  /\ UNCHANGED <<rows, out>>

Fail ==
  /\ phase \in {"build", "use"} /\ phase' = "fault"
  /\ UNCHANGED <<rows, out>>

Next == Build \/ Use \/ Remove \/ Project \/ Materialize \/ Drop \/ Fail

Spec == Init /\ [][Next]_tvars

====
