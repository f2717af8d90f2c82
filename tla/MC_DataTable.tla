--------------------------- MODULE MC_DataTable ---------------------------
(* Model-checking instance of DataTable: the threads are model values.    *)
EXTENDS DataTable, TLC

\* The threads run the same code, so states that differ only by a
\* renaming of the threads are equivalent (used by safety runs only).
ThreadSymmetry == Permutations(Threads)

=============================================================================
