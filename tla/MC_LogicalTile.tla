--------------------------- MODULE MC_LogicalTile ---------------------------
(* A tile group of table columns 0..2 in a hybrid layout: columns 0 and 1 *)
(* in base tile "A", column 2 in base tile "B".                           *)
EXTENDS LogicalTile

HybridLayout == [c \in 0 .. 2 |-> IF c < 2 THEN <<"A", c>> ELSE <<"B", 0>>]

====
