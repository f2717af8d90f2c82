--------------------------- MODULE MC_Transform ---------------------------
(* A two-column table whose group was created row-store (both columns in  *)
(* tile 0) and whose default layout is column-store (one tile per column),*)
(* as the tuner's ROW -> COLUMN conversion does.  Column values are       *)
(* distinct per row and column so a value copied to the wrong cell shows. *)
EXTENDS Transform, TLC

RowStore    == [c \in 0..1 |-> <<0, c>>]
ColumnStore == [c \in 0..1 |-> <<c, 0>>]

RowsInitMC   == 0 :> [c \in 0..1 |-> 1 + c]
InsertRowsMC == {[c \in 0..1 |-> 3 + c], [c \in 0..1 |-> 5 + c]}

====
