--------------------------- MODULE MCLogIndexer ---------------------------
(* Model checking instance of LogIndexer. *)
EXTENDS LogIndexer, TLC

Symmetry == Permutations(Collectors)
=============================================================================
