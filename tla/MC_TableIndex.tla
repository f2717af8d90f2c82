--------------------------- MODULE MC_TableIndex ---------------------------
(* Model-checking instance of TableIndex: a three-column table with two  *)
(* committed rows, two inserting threads and one updating thread.        *)
EXTENDS TableIndex

\* A tuple of the three columns 0, 1, 2.
T(a, b, c) == [x \in 0..2 |-> CASE x = 0 -> a [] x = 1 -> b [] OTHER -> c]

\* r1 and r2 were inserted before the threads start.
RowsMC == [r \in {"r1", "r2"} |-> IF r = "r1" THEN T(1, 1, 1) ELSE T(2, 2, 2)]

\* A NULL primary key (CheckConstraints throws), a unique key taken by r1,
\* and tuples that collide with each other on the primary key (3) or on
\* the unique key (3) alone, so every CondInsertEntry outcome and order is
\* reached, including a refusal after earlier indexes took the entry.
InsertTuplesMC == {T(NULLV, 3, 3), T(3, 1, 2), T(3, 3, 3), T(4, 3, 2)}

\* A fifth tuple whose foreign key (column 2 onto the primary key, column
\* 0) names the primary key T(3, 3, 3) inserts.
InsertTuplesFK == InsertTuplesMC \cup {T(4, 4, 3)}

\* Column 2 references the primary key; or no foreign key.
FKColumn2 == [c \in {0} |-> 2]
NoForeignKey == [c \in {} |-> 2]

\* Index 0 is the primary key on column 0; the others are secondaries.
PKUniqueDefault == [i \in 0..2 |-> CASE i = 0 -> "PRIMARY_KEY"
                                    [] i = 1 -> "UNIQUE"
                                    [] OTHER -> "DEFAULT"]
PKUniqueUnique  == [i \in 0..2 |-> IF i = 0 THEN "PRIMARY_KEY" ELSE "UNIQUE"]
OneColumnEach   == [i \in 0..2 |-> {i}]

\* Index oids differ from their offsets, as catalog oids do.
OidsMC == [i \in 0..2 |-> 20 + i]
=============================================================================
