--------------------------- MODULE MCDataSources ---------------------------
(* A table of one column, a suggested secret, and one discovered join.     *)
EXTENDS DataSources, TLC
Symmetry == Permutations(Requests) \cup Permutations(Runs)
=============================================================================
